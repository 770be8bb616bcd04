------------------------------ MODULE ToolCalls ------------------------------
(***************************************************************************)
(* The tool calls that choose between the direct runtime and the browser   *)
(* (open_colab_browser_connection, run_code_cell, run_code_cell_blocking   *)
(* and change_runtime of src/colab_mcp/__init__.py) over DirectRuntime and *)
(* the Colab account the client of src/colab_mcp/client.py talks to.       *)
(*                                                                         *)
(* Code between two awaits is one step, or a sequence of steps during      *)
(* which the call has the event loop: after connect has returned, and for  *)
(* all the requests of change_runtime, which are sent from the loop.       *)
(* Worker threads and the account go on meanwhile.                         *)
(***************************************************************************)
EXTENDS DirectRuntime

CONSTANTS
    Calls,    \* the calls each caller makes: the tool, code or cellId,
              \* runtime_endpoint
    NoList, Nobody,
    OAuth,    \* --client-oauth-config was given and worked
    Bridge,   \* a browser tab may be connected
    Others    \* the user, or Colab, starts and stops VMs too

CallTypes == [tool : {"open", "run", "blocking", "change"}, code : BOOLEAN,
              vm : Targets \cup {NoTarget}]
ASSUME CallsAssumption == Calls \in [Callers -> SUBSET CallTypes]
ASSUME OptionsAssumption == {OAuth, Bridge, Others} \subseteq BOOLEAN
ASSUME NobodyAssumption == Nobody \notin Callers
ASSUME ListAssumption == \A S \in SUBSET Targets : NoList # S

VARIABLES
    account,  \* the VMs assigned to the account
    tab,      \* the browser bridge is connected
    call,     \* the last call of each caller: its arguments, where it is (or
              \* what it has answered), the assignments it has listed, and the
              \* VM its code was accepted for or that it was assigned
    busy      \* the caller that has the event loop

toolVars == <<account, tab, call, busy>>
allVars  == <<vars, toolVars>>

\* "code_required": the answer that direct execution needs the code argument.
Answers == {"answered", "code_required"}
Places  == {"connecting", "deciding", "running", "forwarded", "unassigning",
            "assigning", "listing", "attaching"}

PlainOpen == [tool |-> "open", code |-> FALSE, vm |-> NoTarget]

CallRecords == [asked : CallTypes, at : Answers \cup Places,
                seen : {NoList} \cup SUBSET Targets, vm : Targets \cup {NoTarget}]

ToolTypeOK ==
    /\ account \subseteq Targets
    /\ tab \in BOOLEAN
    /\ call \in [Callers -> CallRecords]
    /\ busy \in Callers \cup {Nobody}

\* A call that is over, and one that begins.
Over(answer) ==
    [asked |-> PlainOpen, at |-> answer, seen |-> NoList, vm |-> NoTarget]
New(k, place) == [asked |-> k, at |-> place, seen |-> NoList, vm |-> NoTarget]

ToolInit ==
    /\ Init
    /\ account \in SUBSET Targets
    /\ tab = FALSE
    /\ call = [c \in Callers |-> Over("answered")]
    /\ busy = Nobody

\* DirectRuntimeManager.connected
Connected == runtime # NoRuntime /\ client[runtime] = "live"

To(c, place) ==
    call' = [call EXCEPT ![c] = IF place \in Answers THEN Over(place)
                                ELSE [@ EXCEPT !.at = place]]

\* The call is over, or awaits, and lets go of the loop.
Yield(c, place) == To(c, place) /\ busy' = Nobody

\* It goes on without awaiting.
Hold(c, place) == To(c, place) /\ busy' = c

-----------------------------------------------------------------------------
(* connect, as the tools use it.                                           *)

\* Fault: a manager that is connected is not asked again.
NeedsConnectOnce(k) ==
    OAuth /\ ~Connected /\ (k.tool = "open" => ~tab) /\ (k.tool # "open" => k.code)

NeedsConnect(k) ==
    /\ OAuth
    /\ \/ k.tool = "open" /\ ~tab
       \/ k.tool \in {"run", "blocking"} /\ k.code /\ ~Connected

Begins(c, k, place) == call' = [call EXCEPT ![c] = New(k, place)]

\* A call begins: it connects, or goes on at once.
Ask(c, k) ==
    /\ call[c].at \in Answers /\ busy = Nobody /\ k.tool # "change"
    /\ \/ /\ NeedsConnect(k) /\ Connect(c)
          /\ Begins(c, k, "connecting") /\ UNCHANGED busy
       \/ /\ ~NeedsConnect(k) /\ k.tool # "open"
          /\ Begins(c, k, "deciding") /\ busy' = c
          /\ UNCHANGED vars
       \/ /\ ~NeedsConnect(k) /\ k.tool = "open"
          /\ To(c, "answered")
          /\ UNCHANGED <<vars, busy>>
    /\ UNCHANGED <<account, tab>>

\* list_assignments, in a worker thread.
List(c) ==
    /\ pc[c] = "selecting" \/ call[c].at = "listing"
    /\ call[c].seen = NoList
    /\ call' = [call EXCEPT ![c].seen = account]
    /\ UNCHANGED <<vars, account, tab, busy>>

\* Fault: without an endpoint any assignment will do.
ChoiceOfAny(c) ==
    {t \in Targets : /\ call[c].seen # NoList /\ t \in call[c].seen
                     /\ call[c].asked.vm \in {t, NoTarget}}

\* _select_target: the assignment asked for, or the only one.  Without a list
\* the request has failed.
Choice(c) ==
    LET seen == call[c].seen
        asked == call[c].asked.vm
    IN  IF seen = NoList THEN {}
        ELSE {t \in seen : asked = t \/ (asked = NoTarget /\ seen = {t})}

\* Fault: the failure of connect is logged, and the call goes on.
AfterConnectAnyway(c, ok) ==
    IF pc'[c] # "idle" THEN UNCHANGED <<call, busy>>
    ELSE IF call[c].asked.tool # "open" THEN Hold(c, "deciding")
    ELSE To(c, "answered") /\ UNCHANGED busy

\* What follows connect: an open call answers, also with the browser's tools
\* if there is no runtime to select; the others decide where to run.
AfterConnect(c, ok) ==
    IF pc'[c] # "idle" THEN UNCHANGED <<call, busy>>
    ELSE IF ok /\ call[c].asked.tool # "open" THEN Hold(c, "deciding")
    ELSE To(c, "answered") /\ UNCHANGED busy

Connecting(c) ==
    /\ call[c].at = "connecting" /\ busy = Nobody
    /\ \/ Choice(c) = {} /\ SelectFails(c) /\ AfterConnect(c, FALSE)
       \/ \E t \in Choice(c) : Selected(c, t) /\ AfterConnect(c, endpoint' = t)
       \/ Closed(c) /\ AfterConnect(c, FALSE)
       \/ \E ok \in BOOLEAN : Built(c, ok) /\ AfterConnect(c, ok)
    /\ UNCHANGED <<account, tab>>

-----------------------------------------------------------------------------
(* Code and cells.                                                         *)

\* A call that does not run code directly is forwarded to the tab, or answered;
\* run_code_cell says that code is missing only without a tab.
Answer(c) ==
    LET k == call[c].asked IN
    IF ~k.code /\ Connected /\ (k.tool = "blocking" \/ ~tab) THEN "code_required"
    ELSE IF tab THEN "forwarded"
    ELSE "answered"

\* Code is accepted for the runtime the manager has; the blocking form does not
\* ask whether it is connected.
Direct(k) ==
    k.code /\ IF k.tool = "run" THEN Connected ELSE runtime # NoRuntime

Decide(c) ==
    /\ call[c].at = "deciding" /\ busy = c
    /\ \/ /\ Direct(call[c].asked)
          /\ Capture(c)
          /\ call' = [call EXCEPT ![c].at = "running", ![c].vm = target[runtime]]
          /\ busy' = Nobody
       \/ /\ ~Direct(call[c].asked)
          /\ Yield(c, Answer(c))
          /\ UNCHANGED vars
    /\ UNCHANGED <<account, tab>>

\* Fault: the runner looks the manager's runtime up when it runs.
RunsCurrent(c) ==
    \/ /\ pc[c] = "captured" /\ runtime # NoRuntime /\ ConnectFree(runtime)
       /\ Go(c, IF client[runtime] = "none" THEN "rebuilding" ELSE "ready",
             runtime, NoTarget)
       /\ UNCHANGED <<runtime, endpoint, target, client, unstopped, crossed>>
    \/ pc[c] # "captured" /\ ExecuteStep(c)

\* Fault: the call waits for its own runtime to be the manager's again.
RunsIfCurrent(c) == (pc[c] = "captured" => mine[c] = runtime) /\ ExecuteStep(c)

\* The runner works on the runtime its call has captured.
Runs(c) == ExecuteStep(c)

Running(c) ==
    /\ call[c].at = "running"
    /\ busy = Nobody \/ pc[c] = "starting"
    /\ Runs(c)
    /\ IF pc'[c] = "idle" THEN To(c, "answered") ELSE UNCHANGED call
    /\ UNCHANGED <<account, tab, busy>>

\* The tab answers, or the call fails.
Forwarded(c) ==
    /\ call[c].at = "forwarded" /\ busy = Nobody /\ To(c, "answered")
    /\ UNCHANGED <<vars, account, tab, busy>>

-----------------------------------------------------------------------------
(* change_runtime                                                          *)

\* It lists the assignments, or goes on without; without OAuth it is refused.
AskChange(c, k) ==
    /\ call[c].at \in Answers /\ busy = Nobody /\ k.tool = "change" /\ OAuth
    /\ \E place \in {"unassigning", "assigning"} :
          call' = [call EXCEPT ![c] =
                      [New(k, place) EXCEPT !.seen =
                          IF place = "unassigning" THEN account ELSE {}]]
    /\ busy' = c
    /\ UNCHANGED <<vars, account, tab>>

\* _issue_request raises: what it asked for may have been done all the same.
MayHave(result) == account' \in {account, result}

\* The rest is left assigned when a request fails.
Unassign(c, v) ==
    /\ call[c].at = "unassigning" /\ call[c].seen # NoList /\ v \in call[c].seen
    /\ \/ /\ account' = account \ {v}
          /\ call' = [call EXCEPT ![c].seen = @ \ {v}]
       \/ MayHave(account \ {v}) /\ To(c, "assigning")
    /\ UNCHANGED <<vars, tab, busy>>

\* VMs nobody has heard of (bound: there may be none, as at Colab's limit).
NewVms ==
    {v \in Targets \ (account \cup {endpoint}) :
        \A c \in Callers :
           /\ v \notin {want[c], call[c].vm}
           /\ mine[c] # NoRuntime => target[mine[c]] # v
           /\ call[c].seen # NoList => v \notin call[c].seen}

\* The new VM is assigned, or the request fails.
Assign(c) ==
    /\ call[c].at = "assigning"
          \/ (call[c].at = "unassigning" /\ call[c].seen = {})
    /\ \/ \E v \in NewVms :
             /\ account' = account \cup {v}
             /\ call' = [call EXCEPT ![c] =
                            [New(@.asked, "listing") EXCEPT !.vm = v]]
             /\ busy' = Nobody
       \/ /\ \E result \in {account} \cup {account \cup {v} : v \in NewVms} :
                MayHave(result)
          /\ Yield(c, "answered")
    /\ UNCHANGED <<vars, tab>>

Found(c) == call[c].seen # NoList /\ call[c].vm \in call[c].seen

\* The VM is looked up in a fresh list for its credentials, and attached.
Attaching(c) ==
    /\ busy = Nobody
    /\ \/ /\ call[c].at = "listing" /\ Found(c)
          /\ Attach(c, call[c].vm)
          /\ To(c, IF pc'[c] = "idle" THEN "answered" ELSE "attaching")
       \/ /\ call[c].at = "listing" /\ ~Found(c)
          /\ To(c, "answered")
          /\ UNCHANGED vars
       \/ /\ call[c].at = "attaching"
          /\ Closed(c) \/ \E ok \in BOOLEAN : Built(c, ok)
          /\ To(c, IF pc'[c] = "idle" THEN "answered" ELSE "attaching")
    /\ UNCHANGED <<account, tab, busy>>

-----------------------------------------------------------------------------

Elsewhere ==
    /\ Others
    /\ \/ \E v \in account : account' = account \ {v}
       \/ \E v \in NewVms : account' = account \cup {v}
    /\ UNCHANGED <<vars, tab, call, busy>>

TabChanges ==
    /\ Bridge /\ busy = Nobody /\ tab' = ~tab
    /\ UNCHANGED <<vars, account, call, busy>>

ConnectionLost ==
    /\ \E r \in Runtimes : ClientDies(r)
    /\ UNCHANGED toolVars

ToolStep(c) ==
    \/ List(c) \/ Connecting(c) \/ Decide(c) \/ Running(c) \/ Forwarded(c)
    \/ \E v \in Targets : Unassign(c, v)
    \/ Assign(c) \/ Attaching(c)

ToolNext ==
    \/ \E c \in Callers : \/ ToolStep(c)
                          \/ \E k \in Calls[c] : Ask(c, k) \/ AskChange(c, k)
    \/ Elsewhere \/ TabChanges \/ ConnectionLost

ToolSpec == ToolInit /\ [][ToolNext]_allVars

\* Requests and worker threads end, and the event loop gets round to every
\* call; the locks of a runtime are first come, first served.
ToolFairness == \A c \in Callers : SF_allVars(ToolStep(c))

FairToolSpec == ToolSpec /\ ToolFairness

\* Runtimes is a bound: an attempt ends for want of an object.
Exhausted(c) ==
    /\ Fresh = {} /\ pc[c] \in {"selecting", "closing"} /\ call[c].seen # NoList
    /\ pc'[c] = "idle" /\ runtime' = NoRuntime

\* A client calls open_colab_browser_connection without an endpoint again and
\* again, and of its attempts not all fail.
Retrying ==
    /\ <>[][\A c \in Callers : ~Exhausted(c)]_allVars
    /\ \E c \in {d \in Callers : PlainOpen \in Calls[d]} :
          /\ SF_allVars(Ask(c, PlainOpen)) /\ SF_allVars(List(c))
          /\ SF_allVars(Connecting(c) /\ \E t \in Targets : Selected(c, t))
          /\ SF_allVars(Connecting(c) /\ Built(c, TRUE))

-----------------------------------------------------------------------------

\* Code runs on the VM that was the manager's when the call was answered,
\* whatever connects and changes of runtime happen before it runs.
RunsWhereAccepted ==
    \A c \in Callers : pc[c] = "kernel" => target[mine[c]] = call[c].vm

\* What a call may bring the manager to: a VM on the list of assignments it has
\* taken itself, which is the one it was assigned, the one it asks for, or the
\* only one there is.
Meant(c, t) ==
    /\ call[c].seen # NoList /\ t \in call[c].seen
    /\ IF call[c].asked.tool = "change" THEN t = call[c].vm
       ELSE \/ call[c].asked.vm = t
            \/ call[c].asked.vm = NoTarget /\ call[c].seen = {t}

\* The manager comes to a VM only through a call that means it, although the
\* list, the close and the build are awaited one after the other and other
\* calls connect, close and change the runtime in between.
EndpointMeant ==
    [][endpoint' \notin {endpoint, NoTarget} =>
          \E c \in Callers : /\ pc[c] = "building" /\ pc'[c] = "idle"
                             /\ Meant(c, endpoint')]_allVars

\* Code whose call had to connect runs on the VM that call has selected, never
\* on one that another call has brought the manager to while it awaited the
\* list, the close or the build: it takes the manager's runtime in the step in
\* which its connect returns, and takes none if connect fails.
CodeMeant ==
    \A c \in Callers :
       call[c].at = "running" /\ call[c].seen # NoList => Meant(c, call[c].vm)

\* Every call is answered, and every execution ends.
CallsAnswered == \A c \in Callers : call[c].at \in Places ~> call[c].at \in Answers

\* Once the account stays with one VM, a client that goes on connecting gets
\* the manager to it for good: whatever lists of assignments were out of date
\* and whatever requests have failed.
Follows ==
    Retrying => \A v \in Targets : <>[](account = {v}) => <>[](endpoint = v)

\* "Call open_colab_browser_connection first, then retry": a client that does
\* so gets a dead kernel connection replaced.
DeadClientReplaced ==
    Retrying => \A r \in Runtimes :
        runtime = r /\ client[r] = "dead" ~> ~(runtime = r /\ client[r] = "dead")
=============================================================================
