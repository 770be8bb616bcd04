---------------------------- MODULE BrowserBridge ----------------------------
(***************************************************************************)
(* The browser bridge: the single-frontend WebSocket server                *)
(* (src/colab_mcp/websocket_server.py), the proxy client that is started   *)
(* once over its streams (src/colab_mcp/session.py) and the tools that     *)
(* open, prepare or use the connection (src/colab_mcp/__init__.py).        *)
(*                                                                         *)
(* All of it runs on one event loop, so a step is the code between two     *)
(* awaits.  _connection_open_lock is never held over an await: the section *)
(* it guards is one step.  The tabs are the environment: a tab connects,   *)
(* goes away, comes back and answers when it likes.  The MCP client        *)
(* library is external and modelled by the session it keeps: it sends      *)
(* "initialize", waits for the answer, sends "initialized" and then is     *)
(* ready; a request waits for its answer and has no deadline.              *)
(***************************************************************************)
EXTENDS Naturals, FiniteSets

CONSTANTS
    Tabs,     \* Colab tabs that know the token and the port
    Callers,  \* concurrent tool calls of the MCP clients
    NoTab,    \* holder of a message no tab holds
    Direct    \* whether a direct runtime manager is configured (OAuth)

ASSUME TabAssumption == NoTab \notin Tabs
ASSUME DirectAssumption == Direct \in BOOLEAN

VARIABLES
    socket,     \* the tab's side of its WebSocket
    handler,    \* the _connection_handler of that tab
    live,       \* connection_live
    start,      \* _start_task: how far the MCP client's start has come
    startTab,   \* the tab that holds its "initialize"
    attempt,    \* _connection_attempt_url: "none", "manual" (empty) or "url"
    graceOver,  \* CONNECTION_FAILURE_GRACE_SECONDS passed since the attempt
    opened,     \* browser tabs opened by this process
    mark,       \* the state last written to the process registry
    pc,         \* where a tool call is
    request,    \* its request to the tab
    at,         \* the tab that holds the request
    sawLive     \* connection_live.wait() of await_proxy_connection is done

tabVars    == <<socket, handler, live>>
startVars  == <<start, startTab>>
openVars   == <<attempt, graceOver, opened>>
callVars   == <<pc, request, at, sawLive>>
vars       == <<tabVars, startVars, openVars, mark, callVars>>

Sockets  == {"away", "open", "refused"}
Handlers == {"none", "serving", "tearing"}
Starts   == {"connecting", "initializing", "notifying", "ready", "cancelled"}
Attempts == {"none", "manual", "url"}
Marks    == {"starting", "connected", "connection_failed"}

\* "direct": connecting to a runtime.  "awaiting", "resuming": inside
\* await_proxy_connection and after its wait_for.  "listing": a list_tools of
\* await_tools_ready.  "calling": a call_tool of _forward_or_stub.
Pcs      == {"idle", "direct", "awaiting", "resuming", "listing", "calling"}
Requests == {"none", "queued", "sent"}

TypeOK ==
    /\ socket \in [Tabs -> Sockets]
    /\ handler \in [Tabs -> Handlers]
    /\ live \in BOOLEAN
    /\ start \in Starts
    /\ startTab \in Tabs \cup {NoTab}
    /\ attempt \in Attempts
    /\ graceOver \in BOOLEAN
    /\ opened \in Nat
    /\ mark \in Marks
    /\ pc \in [Callers -> Pcs]
    /\ request \in [Callers -> Requests]
    /\ at \in [Callers -> Tabs \cup {NoTab}]
    /\ sawLive \in BOOLEAN

Init ==
    /\ socket = [t \in Tabs |-> "away"]
    /\ handler = [t \in Tabs |-> "none"]
    /\ live = FALSE
    /\ start = "connecting"
    /\ startTab = NoTab
    /\ attempt = "none"
    /\ graceOver = FALSE
    /\ opened = 0
    /\ mark = "starting"
    /\ pc = [c \in Callers |-> "idle"]
    /\ request = [c \in Callers |-> "none"]
    /\ at = [c \in Callers |-> NoTab]
    /\ sawLive = FALSE

\* is_connected()
Connected == live /\ start = "ready"

-----------------------------------------------------------------------------
(* The WebSocket server.                                                   *)

\* Fault: connection_lock is not looked at.
LockedNever == FALSE

\* connection_lock.locked()
Locked == \E t \in Tabs : handler[t] # "none"

\* The handler of a tab that finds the lock free takes it and serves the tab.
Serve(t) ==
    /\ socket[t] # "open" /\ handler[t] = "none" /\ ~Locked
    /\ socket' = [socket EXCEPT ![t] = "open"]
    /\ handler' = [handler EXCEPT ![t] = "serving"]
    /\ live' = TRUE
    /\ sawLive' = TRUE
    /\ UNCHANGED <<startVars, openVars, mark, pc, request, at>>

\* Close code 1013: another handler, or the tab's own old one, has the lock.
Refuse(t) ==
    /\ socket[t] = "away" /\ Locked
    /\ socket' = [socket EXCEPT ![t] = "refused"]
    /\ UNCHANGED <<handler, live, startVars, openVars, mark, callVars>>

\* What a socket that is gone held is never answered.
Forget(t) ==
    /\ at' = [c \in Callers |-> IF at[c] = t THEN NoTab ELSE at[c]]
    /\ startTab' = IF startTab = t THEN NoTab ELSE startTab

\* The tab is closed, reloaded or loses its network.
Drop(t) ==
    /\ socket[t] = "open"
    /\ socket' = [socket EXCEPT ![t] = "away"]
    /\ Forget(t)
    /\ UNCHANGED <<handler, live, start, openVars, mark, pc, request, sawLive>>

\* Fault: the handler waits for both of its tasks; the writing one does not
\* notice the end of the socket.
TearDownAllDone(t) ==
    /\ handler[t] = "serving" /\ start = "cancelled"
    /\ handler' = [handler EXCEPT ![t] = "tearing"]
    /\ UNCHANGED <<socket, live, startVars, openVars, mark, callVars>>

\* The first of the handler's two tasks has ended: the reading one at the end
\* of the socket, either one if the cancelled start closed the streams.
TearDown(t) ==
    /\ handler[t] = "serving"
    /\ socket[t] # "open" \/ start = "cancelled"
    /\ handler' = [handler EXCEPT ![t] = "tearing"]
    /\ UNCHANGED <<socket, live, startVars, openVars, mark, callVars>>

\* The tasks are gathered: connection_live is cleared, the lock is released
\* and, the handler having returned, the socket is closed.
Release(t) ==
    /\ handler[t] = "tearing"
    /\ handler' = [handler EXCEPT ![t] = "none"]
    /\ live' = FALSE
    /\ socket' = [socket EXCEPT ![t] = IF @ = "open" THEN "away" ELSE @]
    /\ Forget(t)
    /\ UNCHANGED <<start, openVars, mark, pc, request, sawLive>>

\* The writing task takes a message from the zero-buffer stream.  If the
\* socket is gone, send raises ConnectionClosed: the message is lost and the
\* task ends.
Take(t) ==
    /\ handler[t] = "serving"
    /\ handler' = [handler EXCEPT
                      ![t] = IF socket[t] = "open" THEN @ ELSE "tearing"]

Holder(t) == IF socket[t] = "open" THEN t ELSE NoTab

\* Fault: a request stays queued until it is answered, and is sent again to
\* the next tab.
SendRequestAgain(t, c) ==
    /\ request[c] = "queued" /\ Take(t)
    /\ at' = [at EXCEPT ![c] = Holder(t)]
    /\ UNCHANGED <<socket, live, startVars, openVars, mark, pc, request, sawLive>>

SendRequest(t, c) ==
    /\ request[c] = "queued" /\ Take(t)
    /\ request' = [request EXCEPT ![c] = "sent"]
    /\ at' = [at EXCEPT ![c] = Holder(t)]
    /\ UNCHANGED <<socket, live, startVars, openVars, mark, pc, sawLive>>

SendInitialize(t) ==
    /\ start = "connecting" /\ Take(t)
    /\ start' = "initializing"
    /\ startTab' = Holder(t)
    /\ UNCHANGED <<socket, live, openVars, mark, callVars>>

SendInitialized(t) ==
    /\ start = "notifying" /\ Take(t)
    /\ start' = "ready"
    /\ UNCHANGED <<socket, live, startTab, openVars, mark, callVars>>

-----------------------------------------------------------------------------
(* The tab answers what it holds.                                          *)

AnswerInitialize(t) ==
    /\ handler[t] = "serving" /\ start = "initializing" /\ startTab = t
    /\ start' = "notifying"
    /\ startTab' = NoTab
    /\ UNCHANGED <<tabVars, openVars, mark, callVars>>

\* The result or the error of the call.
AnswerCall(t, c) ==
    /\ handler[t] = "serving" /\ pc[c] = "calling" /\ at[c] = t
    /\ pc' = [pc EXCEPT ![c] = "idle"]
    /\ request' = [request EXCEPT ![c] = "none"]
    /\ at' = [at EXCEPT ![c] = NoTab]
    /\ UNCHANGED <<tabVars, startVars, openVars, mark, sawLive>>

\* await_tools_ready returns with tools, or when its time is up; else it
\* polls again.
AnswerList(t, c, last) ==
    /\ handler[t] = "serving" /\ pc[c] = "listing" /\ at[c] = t
    /\ pc' = [pc EXCEPT ![c] = IF last THEN "idle" ELSE @]
    /\ request' = [request EXCEPT ![c] = IF last THEN "none" ELSE "queued"]
    /\ at' = [at EXCEPT ![c] = NoTab]
    /\ UNCHANGED <<tabVars, startVars, openVars, mark, sawLive>>

-----------------------------------------------------------------------------
(* The tools.                                                              *)

Return(c) == pc' = [pc EXCEPT ![c] = "idle"]

Ask(c, where) ==
    /\ pc' = [pc EXCEPT ![c] = where]
    /\ request' = [request EXCEPT ![c] = "queued"]

\* Fault: any attempt that is not connected yet is marked failed.
MarkFailedEarly ==
    mark' = IF attempt # "none" THEN "connection_failed" ELSE mark

\* An attempt older than the grace period marks the process failed.
MarkFailedLate ==
    mark' = IF attempt # "none" /\ graceOver THEN "connection_failed" ELSE mark

GraceEnds ==
    /\ attempt # "none" /\ ~graceOver
    /\ graceOver' = TRUE
    /\ UNCHANGED <<tabVars, startVars, attempt, opened, mark, callVars>>

\* _forward_or_stub
Forward(c) ==
    /\ pc[c] = "idle"
    /\ IF Connected
       THEN mark' = "connected" /\ Ask(c, "calling")
       ELSE MarkFailedLate /\ UNCHANGED <<pc, request>>
    /\ UNCHANGED <<tabVars, startVars, openVars, at, sawLive>>

\* Fault: a prepared handoff replaces whatever attempt there is.
PrepareAnyway(c) ==
    /\ pc[c] = "idle" /\ ~Connected
    /\ attempt' = "manual" /\ graceOver' = FALSE
    /\ UNCHANGED <<tabVars, startVars, opened, mark, callVars>>

\* prepare_colab_browser_connection; without a change when the server is
\* connected or a handoff is under way.
Prepare(c) ==
    /\ pc[c] = "idle" /\ ~Connected /\ attempt = "none"
    /\ attempt' = "manual" /\ graceOver' = FALSE
    /\ UNCHANGED <<tabVars, startVars, opened, mark, callVars>>

\* open_colab_browser_connection up to its first await.
OpenConnected(c) ==
    /\ pc[c] = "idle" /\ Connected
    /\ mark' = "connected"
    /\ UNCHANGED <<tabVars, startVars, openVars, callVars>>

OpenDirect(c) ==
    /\ pc[c] = "idle" /\ ~Connected /\ Direct
    /\ pc' = [pc EXCEPT ![c] = "direct"]
    /\ UNCHANGED <<tabVars, startVars, openVars, mark, request, at, sawLive>>

\* The runtime is connected, or an explicitly named one is not.
DirectEnds(c, ok) ==
    /\ pc[c] = "direct"
    /\ mark' = IF ok THEN "connected" ELSE mark
    /\ Return(c)
    /\ UNCHANGED <<tabVars, startVars, openVars, request, at, sawLive>>

\* Past the direct runtime, which is not configured or not to be had.
AtHandoff(c) == pc[c] = "direct" \/ (pc[c] = "idle" /\ ~Connected /\ ~Direct)

\* Another call has connected the server or has started an attempt.
HandoffRefused(c) ==
    /\ AtHandoff(c)
    /\ Connected \/ attempt # "none"
    /\ IF Connected THEN UNCHANGED mark ELSE MarkFailedLate
    /\ Return(c)
    /\ UNCHANGED <<tabVars, startVars, openVars, request, at, sawLive>>

\* Fault: the attempt of another call is not looked at under the lock.
HandoffUnchecked(c, newTab) ==
    /\ AtHandoff(c) /\ ~Connected
    /\ attempt' = "url" /\ graceOver' = FALSE
    /\ opened' = IF newTab THEN opened + 1 ELSE opened
    /\ pc' = [pc EXCEPT ![c] = IF newTab THEN "awaiting" ELSE "idle"]
    /\ sawLive' = live
    /\ UNCHANGED <<tabVars, startVars, mark, request, at>>

\* The attempt this call starts: a URL for an existing tab, or a new tab and
\* await_proxy_connection.
Handoff(c, newTab) ==
    /\ AtHandoff(c) /\ ~Connected /\ attempt = "none"
    /\ attempt' = "url" /\ graceOver' = FALSE
    /\ opened' = IF newTab THEN opened + 1 ELSE opened
    /\ pc' = [pc EXCEPT ![c] = IF newTab THEN "awaiting" ELSE "idle"]
    /\ sawLive' = live
    /\ UNCHANGED <<tabVars, startVars, mark, request, at>>

AwaitDone(c) ==
    /\ pc[c] = "awaiting" /\ sawLive /\ start = "ready"
    /\ pc' = [pc EXCEPT ![c] = "resuming"]
    /\ UNCHANGED <<tabVars, startVars, openVars, mark, request, at, sawLive>>

\* wait_for cancels the gathered _start_task with the wait.
AwaitTimesOut(c) ==
    /\ pc[c] = "awaiting" /\ ~(sawLive /\ start = "ready")
    /\ pc' = [pc EXCEPT ![c] = "resuming"]
    /\ start' = IF start = "ready" THEN start ELSE "cancelled"
    /\ startTab' = NoTab
    /\ UNCHANGED <<tabVars, openVars, mark, request, at, sawLive>>

Resume(c) ==
    /\ pc[c] = "resuming"
    /\ IF Connected
       THEN mark' = "connected" /\ Ask(c, "listing")
       ELSE mark' = "connection_failed" /\ Return(c) /\ UNCHANGED request
    /\ UNCHANGED <<tabVars, startVars, openVars, at, sawLive>>

-----------------------------------------------------------------------------

TabStep(t) ==
    \/ Serve(t) \/ Refuse(t) \/ Drop(t) \/ TearDown(t) \/ Release(t)
    \/ SendInitialize(t) \/ AnswerInitialize(t) \/ SendInitialized(t)

TabCallStep(t, c) ==
    \/ SendRequest(t, c) \/ AnswerCall(t, c)
    \/ \E last \in BOOLEAN : AnswerList(t, c, last)

OpenStep(c) ==
    \/ OpenConnected(c) \/ OpenDirect(c)
    \/ \E ok \in BOOLEAN : DirectEnds(c, ok)
    \/ HandoffRefused(c)
    \/ \E newTab \in BOOLEAN : Handoff(c, newTab)
    \/ AwaitDone(c) \/ AwaitTimesOut(c) \/ Resume(c)

Next ==
    \/ \E t \in Tabs : TabStep(t) \/ \E c \in Callers : TabCallStep(t, c)
    \/ \E c \in Callers : Forward(c) \/ Prepare(c) \/ OpenStep(c)
    \/ GraceEnds

Spec == Init /\ [][Next]_vars

(***************************************************************************)
(* The loop runs what is ready: the handlers, the writing task while a tab *)
(* is served, and calls whose wait is over or has timed out.  The tabs are *)
(* assumed to keep trying to connect and to answer what they hold.  That a *)
(* cancelled start closes the streams is not assumed.                      *)
(***************************************************************************)
Fairness ==
    /\ \A t \in Tabs :
          /\ WF_vars(Serve(t))
          /\ WF_vars(TearDown(t) /\ socket[t] # "open")
          /\ WF_vars(Release(t))
          /\ WF_vars(SendInitialize(t) \/ SendInitialized(t))
          /\ WF_vars(AnswerInitialize(t))
    /\ \A t \in Tabs, c \in Callers :
          WF_vars(SendRequest(t, c)) /\ WF_vars(AnswerCall(t, c))
    /\ \A c \in Callers :
          WF_vars(AwaitDone(c) \/ AwaitTimesOut(c)) /\ WF_vars(Resume(c))

FairSpec == Spec /\ Fairness

-----------------------------------------------------------------------------
(* Safety.                                                                 *)

\* At most one frontend is served, connection_live says exactly that one is,
\* and a message waits for an answer only at the frontend that is served.
SoleFrontend ==
    /\ \A t, u \in Tabs : handler[t] # "none" /\ handler[u] # "none" => t = u
    /\ live <=> \E t \in Tabs : handler[t] # "none"
    /\ \A t \in Tabs :
          startTab = t \/ (\E c \in Callers : at[c] = t)
             => socket[t] = "open" /\ handler[t] # "none"

\* The promise about messages, read off the bridge's state.
Exchange == INSTANCE FrontendExchange WITH
    Frontends <- Tabs,
    Nobody <- NoTab,
    served <- {t \in Tabs : handler[t] # "none"},
    session <- start,
    greeter <- startTab,
    asked <- request,
    holder <- at

\* The server, the proxy client and the tools implement it: every step of
\* theirs is a step of FrontendExchange or a stutter.
ExchangeRefined == Exchange!Spec

\* One process opens at most one browser tab, whatever calls race, and none
\* once a manual handoff is prepared.
OneBrowserTab == opened <= 1 /\ (attempt = "manual" => opened = 0)

\* A handoff another client has prepared or opened is never replaced.
HandoffKept == [][attempt # "none" => attempt' = attempt]_vars

\* A process is marked connection_failed only while it is not connected, and
\* a handoff that waits for the user to paste it only after the grace period.
PasteRaceSpared ==
    [][mark' # mark /\ mark' = "connection_failed"
          => ~Connected /\ (graceOver \/ opened > 0)]_vars

(* Liveness.                                                               *)

\* The "initialize" of the start was held by a tab that went away.
InitializeLost == start = "initializing" /\ startTab = NoTab

\* Once the tabs stop going away, the server gets and stays connected to one
\* that is there, unless the start was cancelled or its "initialize" lost: no
\* old handler keeps the lock, no refused tab is shut out.
HandoffConnects ==
    (/\ <>[][\A t \in Tabs : ~Drop(t)]_vars
     /\ [](start # "cancelled" /\ ~InitializeLost))
    => <>[](Connected /\ \E t \in Tabs : socket[t] = "open")

\* Loss of the transport fails the local execution: a call whose tab is gone
\* ends.
LossEndsCall ==
    \A c \in Callers :
       pc[c] = "calling" /\ request[c] = "sent" /\ at[c] = NoTab
          ~> pc[c] = "idle"
=============================================================================
