------------------------- MODULE BrowserBridge_proofs -------------------------
(***************************************************************************)
(* Safety of the browser bridge, for any set of tabs and of concurrent     *)
(* tool calls, with or without a direct runtime.                           *)
(***************************************************************************)
EXTENDS BrowserBridge, TLAPS

\* The initial state is well typed.
LEMMA TypeInit == Init => TypeOK
<1> SUFFICES ASSUME Init PROVE TypeOK
  OBVIOUS
<1>1. socket \in [Tabs -> Sockets] /\ handler \in [Tabs -> Handlers]
  BY DEF Init, Sockets, Handlers
<1>2. /\ pc \in [Callers -> Pcs] /\ request \in [Callers -> Requests]
      /\ at \in [Callers -> Tabs \cup {NoTab}]
  BY DEF Init, Pcs, Requests
<1> QED
  BY <1>1, <1>2 DEF Init, TypeOK, Starts, Attempts, Marks

\* What a tab does to the server.
LEMMA TabType ==
    ASSUME TypeOK, NEW t \in Tabs, TabStep(t)
    PROVE  TypeOK'
<1> USE DEF TypeOK, Sockets, Handlers, Starts
<1>1. CASE Serve(t)
  BY <1>1 DEF Serve, startVars, openVars
<1>2. CASE Refuse(t)
  BY <1>2 DEF Refuse, startVars, openVars, callVars
<1>3. CASE Drop(t)
  BY <1>3 DEF Drop, Forget, openVars
<1>4. CASE TearDown(t)
  BY <1>4 DEF TearDown, startVars, openVars, callVars
<1>5. CASE Release(t)
  BY <1>5 DEF Release, Forget, openVars
<1>6. CASE SendInitialize(t)
  BY <1>6 DEF SendInitialize, Take, Holder, openVars, callVars
<1>7. CASE AnswerInitialize(t)
  BY <1>7 DEF AnswerInitialize, tabVars, openVars, callVars
<1>8. CASE SendInitialized(t)
  BY <1>8 DEF SendInitialized, Take, openVars, callVars
<1> QED
  BY <1>1, <1>2, <1>3, <1>4, <1>5, <1>6, <1>7, <1>8 DEF TabStep

\* The requests of calls and their answers keep the types.
LEMMA TabCallType ==
    ASSUME TypeOK, NEW t \in Tabs, NEW c \in Callers, TabCallStep(t, c)
    PROVE  TypeOK'
<1> USE DEF TypeOK, Handlers, Pcs, Requests
<1>1. CASE SendRequest(t, c)
  BY <1>1 DEF SendRequest, Take, Holder, startVars, openVars
<1>2. CASE AnswerCall(t, c)
  BY <1>2 DEF AnswerCall, tabVars, startVars, openVars
<1>3. ASSUME NEW last \in BOOLEAN, AnswerList(t, c, last) PROVE TypeOK'
  BY <1>3 DEF AnswerList, tabVars, startVars, openVars
<1> QED
  BY <1>1, <1>2, <1>3 DEF TabCallStep

\* What the tools do.
LEMMA OpenType ==
    ASSUME TypeOK, NEW c \in Callers, OpenStep(c)
    PROVE  TypeOK'
<1> USE DEF TypeOK, Starts, Attempts, Marks, Pcs, Requests, Return
<1>1. CASE OpenConnected(c)
  BY <1>1 DEF OpenConnected, tabVars, startVars, openVars, callVars
<1>2. CASE OpenDirect(c)
  BY <1>2 DEF OpenDirect, tabVars, startVars, openVars
<1>3. ASSUME NEW ok \in BOOLEAN, DirectEnds(c, ok) PROVE TypeOK'
  BY <1>3 DEF DirectEnds, tabVars, startVars, openVars
<1>4. CASE HandoffRefused(c)
  <2>1. mark' \in Marks
    BY <1>4 DEF HandoffRefused, MarkFailedLate
  <2> QED
    BY <1>4, <2>1 DEF HandoffRefused, tabVars, startVars, openVars
<1>5. ASSUME NEW newTab \in BOOLEAN, Handoff(c, newTab) PROVE TypeOK'
  <2>1. opened' \in Nat /\ pc' \in [Callers -> Pcs]
    BY <1>5 DEF Handoff
  <2>2. sawLive' \in BOOLEAN /\ attempt' \in Attempts /\ graceOver' \in BOOLEAN
    BY <1>5 DEF Handoff
  <2>3. UNCHANGED <<tabVars, startVars, mark, request, at>>
    BY <1>5 DEF Handoff
  <2> QED
    BY <2>1, <2>2, <2>3 DEF tabVars, startVars
<1>6. CASE AwaitDone(c)
  BY <1>6 DEF AwaitDone, tabVars, startVars, openVars
<1>7. CASE AwaitTimesOut(c)
  BY <1>7 DEF AwaitTimesOut, tabVars, openVars
<1>8. CASE Resume(c)
  BY <1>8 DEF Resume, Ask, tabVars, startVars, openVars
<1> QED
  BY <1>1, <1>2, <1>3, <1>4, <1>5, <1>6, <1>7, <1>8 DEF OpenStep

\* Every step keeps the types.
LEMMA TypeStep == TypeOK /\ [Next]_vars => TypeOK'
<1> SUFFICES ASSUME TypeOK, [Next]_vars PROVE TypeOK'
  OBVIOUS
<1>1. ASSUME NEW c \in Callers, Forward(c) PROVE TypeOK'
  BY <1>1 DEF TypeOK, Forward, Ask, MarkFailedLate, Marks, Pcs, Requests,
              tabVars, startVars, openVars
<1>2. ASSUME NEW c \in Callers, Prepare(c) PROVE TypeOK'
  BY <1>2 DEF TypeOK, Prepare, Attempts, tabVars, startVars, callVars
<1>3. CASE GraceEnds
  BY <1>3 DEF TypeOK, GraceEnds, tabVars, startVars, callVars
<1>4. CASE UNCHANGED vars
  BY <1>4 DEF TypeOK, vars, tabVars, startVars, openVars, callVars
<1> QED
  BY <1>1, <1>2, <1>3, <1>4, TabType, TabCallType, OpenType DEF Next

\* Every variable of the bridge keeps its type: the records of handlers,
\* starts, attempts and calls never leave the states the code gives them.
THEOREM TypeCorrect == Spec => []TypeOK
BY TypeInit, TypeStep, PTL DEF Spec

-----------------------------------------------------------------------------
(* The sole frontend.                                                      *)

\* At first no tab is served.
LEMMA FrontendInit == Init => SoleFrontend
BY TabAssumption DEF Init, SoleFrontend

\* Tabs and handlers keep the one frontend.
LEMMA FrontendTabStep ==
    ASSUME TypeOK, SoleFrontend, NEW t \in Tabs, TabStep(t)
    PROVE  SoleFrontend'
<1> USE TabAssumption DEF TypeOK, SoleFrontend, Handlers
<1>1. CASE Serve(t)
  BY <1>1 DEF Serve, Locked, startVars
<1>2. CASE Refuse(t)
  BY <1>2 DEF Refuse, startVars, callVars
<1>3. CASE Drop(t)
  BY <1>3 DEF Drop, Forget
<1>4. CASE TearDown(t)
  BY <1>4 DEF TearDown, startVars, callVars
<1>5. CASE Release(t)
  BY <1>5 DEF Release, Forget
<1>6. CASE SendInitialize(t)
  BY <1>6 DEF SendInitialize, Take, Holder, callVars
<1>7. CASE AnswerInitialize(t)
  BY <1>7 DEF AnswerInitialize, tabVars, callVars
<1>8. CASE SendInitialized(t)
  BY <1>8 DEF SendInitialized, Take, callVars
<1> QED
  BY <1>1, <1>2, <1>3, <1>4, <1>5, <1>6, <1>7, <1>8 DEF TabStep

\* So do the requests of calls and their answers.
LEMMA FrontendCallStep ==
    ASSUME TypeOK, SoleFrontend, NEW t \in Tabs, NEW c \in Callers,
           TabCallStep(t, c)
    PROVE  SoleFrontend'
<1> USE TabAssumption DEF TypeOK, SoleFrontend, Handlers
<1>1. CASE SendRequest(t, c)
  BY <1>1 DEF SendRequest, Take, Holder, startVars
<1>2. CASE AnswerCall(t, c)
  BY <1>2 DEF AnswerCall, tabVars, startVars
<1>3. ASSUME NEW last \in BOOLEAN, AnswerList(t, c, last) PROVE SoleFrontend'
  BY <1>3 DEF AnswerList, tabVars, startVars
<1> QED
  BY <1>1, <1>2, <1>3 DEF TabCallStep

\* The tools do not touch the handlers nor give a tab a message: they only
\* queue requests, and a timeout takes "initialize" away.
LEMMA ToolsLeaveFrontend ==
    ASSUME NEW c \in Callers, Forward(c) \/ Prepare(c) \/ OpenStep(c)
    PROVE  /\ UNCHANGED <<tabVars, at>>
           /\ startTab' = startTab \/ startTab' = NoTab
BY DEF Forward, Prepare, OpenStep, OpenConnected, OpenDirect, DirectEnds,
       HandoffRefused, Handoff, AwaitDone, AwaitTimesOut, Resume, callVars,
       startVars, tabVars

\* SoleFrontend is inductive with the types.
LEMMA FrontendStep == TypeOK /\ SoleFrontend /\ [Next]_vars => SoleFrontend'
<1> SUFFICES ASSUME TypeOK, SoleFrontend, [Next]_vars PROVE SoleFrontend'
  OBVIOUS
<1>1. ASSUME NEW c \in Callers, Forward(c) \/ Prepare(c) \/ OpenStep(c)
      PROVE SoleFrontend'
  BY <1>1, ToolsLeaveFrontend, TabAssumption DEF SoleFrontend, tabVars
<1>2. CASE GraceEnds \/ UNCHANGED vars
  BY <1>2 DEF SoleFrontend, GraceEnds, vars, tabVars, startVars, callVars
<1> QED
  BY <1>1, <1>2, FrontendTabStep, FrontendCallStep DEF Next

\* The connection lock does its work across disconnection, teardown and
\* reconnection: one frontend, connection_live in step with it, and no message
\* held where no answer can come from.
THEOREM FrontendCorrect == Spec => []SoleFrontend
BY TypeCorrect, FrontendInit, FrontendStep, PTL DEF Spec

-----------------------------------------------------------------------------
(* The connection attempt.                                                 *)

\* The one attempt of a process: a tab is opened with it, a call that waits
\* has opened one.
AttemptInv ==
    /\ opened \in {0, 1}
    /\ opened = 1 => attempt = "url"
    /\ \A c \in Callers : pc[c] \in {"awaiting", "resuming"} => opened = 1

\* At first there is no attempt and no opened tab.
LEMMA AttemptInit == Init => AttemptInv
BY DEF Init, AttemptInv

\* Only Prepare, Handoff and the calls of AwaitDone, AwaitTimesOut change what
\* AttemptInv speaks of; every other step at most ends a call or moves it
\* elsewhere.
AttemptQuiet ==
    /\ UNCHANGED <<attempt, opened>>
    /\ \A c \in Callers : pc'[c] \in {"awaiting", "resuming"} => pc'[c] = pc[c]

\* Only these steps are about the attempt and the opened tabs.
LEMMA QuietSteps ==
    ASSUME TypeOK, [Next]_vars
    PROVE  \/ AttemptQuiet
           \/ \E c \in Callers : Prepare(c) \/ AwaitDone(c) \/ AwaitTimesOut(c)
           \/ \E c \in Callers, newTab \in BOOLEAN : Handoff(c, newTab)
<1> USE DEF TypeOK, AttemptQuiet, openVars, callVars
<1>1. ASSUME NEW t \in Tabs, TabStep(t) PROVE AttemptQuiet
  BY <1>1 DEF TabStep, Serve, Refuse, Drop, TearDown, Release, SendInitialize,
              AnswerInitialize, SendInitialized
<1>2. ASSUME NEW t \in Tabs, NEW c \in Callers, TabCallStep(t, c)
      PROVE AttemptQuiet
  BY <1>2 DEF TabCallStep, SendRequest, AnswerCall, AnswerList
<1>3. ASSUME NEW c \in Callers, Forward(c) PROVE AttemptQuiet
  BY <1>3 DEF Forward, Ask
<1>4. ASSUME NEW c \in Callers,
             \/ OpenConnected(c) \/ OpenDirect(c) \/ HandoffRefused(c)
             \/ Resume(c) \/ \E ok \in BOOLEAN : DirectEnds(c, ok)
      PROVE AttemptQuiet
  BY <1>4 DEF OpenConnected, OpenDirect, HandoffRefused, Resume, DirectEnds,
              Ask, Return
<1>5. CASE GraceEnds \/ UNCHANGED vars
  BY <1>5 DEF GraceEnds, vars
<1> QED
  BY <1>1, <1>2, <1>3, <1>4, <1>5 DEF Next, OpenStep

\* AttemptInv is inductive with the types.
LEMMA AttemptStep == TypeOK /\ AttemptInv /\ [Next]_vars => AttemptInv'
<1> SUFFICES ASSUME TypeOK, AttemptInv, [Next]_vars PROVE AttemptInv'
  OBVIOUS
<1>1. CASE AttemptQuiet
  BY <1>1 DEF AttemptQuiet, AttemptInv
<1>2. ASSUME NEW c \in Callers, Prepare(c) PROVE AttemptInv'
  BY <1>2 DEF Prepare, AttemptInv, callVars
<1>3. ASSUME NEW c \in Callers, AwaitDone(c) \/ AwaitTimesOut(c)
      PROVE AttemptInv'
  BY <1>3 DEF AwaitDone, AwaitTimesOut, AttemptInv, TypeOK, openVars
<1>4. ASSUME NEW c \in Callers, NEW newTab \in BOOLEAN, Handoff(c, newTab)
      PROVE AttemptInv'
  BY <1>4 DEF Handoff, AttemptInv, TypeOK
<1> QED
  BY <1>1, <1>2, <1>3, <1>4, QuietSteps

\* It holds always.
LEMMA AttemptCorrect == Spec => [](TypeOK /\ AttemptInv)
BY TypeCorrect, AttemptInit, AttemptStep, PTL DEF Spec

\* Whatever calls open or prepare the connection at once, one process opens
\* at most one tab, and none beside a prepared handoff.
THEOREM OneTabCorrect == Spec => []OneBrowserTab
<1>1. AttemptInv => OneBrowserTab
  BY DEF AttemptInv, OneBrowserTab
<1> QED
  BY AttemptCorrect, <1>1, PTL

\* A handoff that was prepared or opened is never replaced.
THEOREM HandoffCorrect == Spec => HandoffKept
<1>1. TypeOK /\ [Next]_vars => (attempt # "none" => attempt' = attempt)
  <2> SUFFICES ASSUME TypeOK, [Next]_vars, attempt # "none"
               PROVE attempt' = attempt
    OBVIOUS
  <2> QED
    BY QuietSteps DEF AttemptQuiet, Prepare, Handoff, AwaitDone, AwaitTimesOut,
                      openVars
<1> QED
  BY TypeCorrect, <1>1, PTL DEF Spec, HandoffKept

\* The failure mark a later startup kills for is written only by a process
\* that is not connected and, unless it opened a tab itself, only after the
\* time the user has to paste the handoff.
THEOREM PasteRaceCorrect == Spec => PasteRaceSpared
<1> DEFINE Spared == mark' # mark /\ mark' = "connection_failed"
                        => ~Connected /\ (graceOver \/ opened > 0)
<1>1. AttemptInv /\ [Next]_vars => Spared
  <2> SUFFICES ASSUME AttemptInv, [Next]_vars, mark' # mark,
                      mark' = "connection_failed"
               PROVE  ~Connected /\ (graceOver \/ opened > 0)
    OBVIOUS
  <2>1. ASSUME NEW c \in Callers, Forward(c) \/ HandoffRefused(c)
        PROVE  ~Connected /\ graceOver
    BY <2>1 DEF Forward, HandoffRefused, MarkFailedLate
  <2>2. ASSUME NEW c \in Callers, Resume(c)
        PROVE  ~Connected /\ opened > 0
    BY <2>2 DEF Resume, AttemptInv
  <2>3. \E c \in Callers : Forward(c) \/ HandoffRefused(c) \/ Resume(c)
    BY DEF Next, TabStep, Serve, Refuse, Drop, TearDown, Release,
           SendInitialize, AnswerInitialize, SendInitialized, TabCallStep,
           SendRequest, AnswerCall, AnswerList, Prepare, OpenStep,
           OpenConnected, OpenDirect, DirectEnds, Handoff, AwaitDone,
           AwaitTimesOut, GraceEnds, vars
  <2> QED
    BY <2>1, <2>2, <2>3
<1> QED
  BY AttemptCorrect, <1>1, PTL DEF Spec, PasteRaceSpared

-----------------------------------------------------------------------------
(* The bridge implements FrontendExchange.                                 *)

\* Only an "initialize" that was sent is held, only a request that was sent
\* is, and only a call that forwards or lists has one.
HeldInv ==
    /\ startTab # NoTab => start = "initializing"
    /\ \A c \in Callers :
          /\ at[c] # NoTab => request[c] = "sent"
          /\ pc[c] \notin {"calling", "listing"} => request[c] = "none"

\* A step of a tab keeps HeldInv.
LEMMA HeldTabStep ==
    ASSUME TypeOK, HeldInv, NEW t \in Tabs, TabStep(t)
    PROVE  HeldInv'
<1> USE DEF TypeOK, HeldInv
<1>1. CASE Serve(t) \/ Refuse(t) \/ TearDown(t)
  BY <1>1 DEF Serve, Refuse, TearDown, startVars, callVars
<1>2. CASE Drop(t) \/ Release(t)
  BY <1>2 DEF Drop, Release, Forget
<1>3. CASE SendInitialize(t)
  BY <1>3 DEF SendInitialize, callVars
<1>4. CASE AnswerInitialize(t)
  BY <1>4 DEF AnswerInitialize, callVars
<1>5. CASE SendInitialized(t)
  BY <1>5 DEF SendInitialized, callVars
<1> QED
  BY <1>1, <1>2, <1>3, <1>4, <1>5 DEF TabStep

\* So does the delivery of a request or its answer.
LEMMA HeldCallStep ==
    ASSUME TypeOK, HeldInv, NEW t \in Tabs, NEW c \in Callers, TabCallStep(t, c)
    PROVE  HeldInv'
<1> USE DEF TypeOK, HeldInv
<1>1. CASE SendRequest(t, c)
  BY <1>1 DEF SendRequest, startVars
<1>2. CASE AnswerCall(t, c)
  BY <1>2 DEF AnswerCall, startVars
<1>3. ASSUME NEW last \in BOOLEAN, AnswerList(t, c, last) PROVE HeldInv'
  BY <1>3 DEF AnswerList, startVars
<1> QED
  BY <1>1, <1>2, <1>3 DEF TabCallStep

\* And so does a step of a tool.
LEMMA HeldToolStep ==
    ASSUME TypeOK, HeldInv, NEW c \in Callers,
           Forward(c) \/ Prepare(c) \/ OpenStep(c)
    PROVE  HeldInv'
<1> USE DEF TypeOK, HeldInv, Return, Ask
<1>1. CASE Forward(c)
  BY <1>1 DEF Forward, startVars
<1>2. CASE Prepare(c) \/ OpenConnected(c) \/ OpenDirect(c)
  BY <1>2 DEF Prepare, OpenConnected, OpenDirect, startVars, callVars
<1>3. ASSUME NEW ok \in BOOLEAN, DirectEnds(c, ok) PROVE HeldInv'
  BY <1>3 DEF DirectEnds, startVars
<1>4. CASE HandoffRefused(c)
  BY <1>4 DEF HandoffRefused, AtHandoff, startVars
<1>5. ASSUME NEW newTab \in BOOLEAN, Handoff(c, newTab) PROVE HeldInv'
  BY <1>5 DEF Handoff, AtHandoff, startVars
<1>6. CASE AwaitDone(c)
  BY <1>6 DEF AwaitDone, startVars
<1>7. CASE AwaitTimesOut(c)
  BY <1>7 DEF AwaitTimesOut
<1>8. CASE Resume(c)
  BY <1>8 DEF Resume, startVars
<1> QED
  BY <1>1, <1>2, <1>3, <1>4, <1>5, <1>6, <1>7, <1>8 DEF OpenStep

\* HeldInv is inductive with the types.
LEMMA HeldAlways == Spec => []HeldInv
<1>1. Init => HeldInv
  BY DEF Init, HeldInv
<1>2. TypeOK /\ HeldInv /\ [Next]_vars => HeldInv'
  <2>1. CASE GraceEnds \/ UNCHANGED vars
    BY <2>1 DEF HeldInv, GraceEnds, vars, startVars, callVars
  <2> QED
    BY <2>1, HeldTabStep, HeldCallStep, HeldToolStep DEF Next
<1> QED
  BY <1>1, <1>2, TypeCorrect, PTL DEF Spec

Served == {t \in Tabs : handler[t] # "none"}

\* The tab of a handler is the one that is served.
LEMMA ServedAlone ==
    ASSUME SoleFrontend, NEW t \in Tabs, handler[t] # "none"
    PROVE  Served = {t}
BY DEF SoleFrontend, Served

\* A message is taken by the handler that serves.
LEMMA TakeServes ==
    ASSUME TypeOK, SoleFrontend, NEW t \in Tabs, Take(t)
    PROVE  Served = {t} /\ UNCHANGED Served
<1>1. Served = {t}
  BY ServedAlone DEF Take
<1>2. UNCHANGED Served
  BY DEF Take, Served, TypeOK
<1> QED
  BY <1>1, <1>2

\* What a tab does is a step of the exchange.
LEMMA TabExchange ==
    ASSUME TypeOK, SoleFrontend, NEW t \in Tabs, TabStep(t)
    PROVE  Exchange!Next \/ UNCHANGED Exchange!vars
<1> USE DEF Exchange!vars, Exchange!Next, startVars, callVars
<1>1. CASE Serve(t)
  <2>1. Served = {} /\ Served' = {t}
    BY <1>1 DEF Serve, Locked, Served, TypeOK
  <2>2. Exchange!Admit(t)
    BY <1>1, <2>1 DEF Serve, Exchange!Admit, Served
  <2> QED
    BY <2>2
<1>2. CASE Refuse(t)
  BY <1>2 DEF Refuse
<1>3. CASE Drop(t)
  <2>1. Exchange!Break(t)
    BY <1>3 DEF Drop, Forget, Exchange!Break, Exchange!Lose
  <2> QED
    BY <2>1
<1>4. CASE TearDown(t)
  <2>1. UNCHANGED Served
    BY <1>4 DEF TearDown, Served, TypeOK
  <2> QED
    BY <1>4, <2>1 DEF TearDown, Served
<1>5. CASE Release(t)
  <2>1. Served = {t} /\ Served' = {}
    BY <1>5, ServedAlone DEF Release, Served, TypeOK
  <2>2. Exchange!Depart(t)
    BY <1>5, <2>1 DEF Release, Forget, Exchange!Depart, Exchange!Lose, Served
  <2> QED
    BY <2>2
<1>6. CASE SendInitialize(t)
  <2>1. Served = {t} /\ UNCHANGED Served
    BY <1>6, TakeServes DEF SendInitialize
  <2>2. Exchange!Greet(t)
    BY <1>6, <2>1 DEF SendInitialize, Holder, Exchange!Greet, Served
  <2> QED
    BY <2>2
<1>7. CASE AnswerInitialize(t)
  <2>1. Served = {t}
    BY <1>7, ServedAlone DEF AnswerInitialize
  <2>2. Exchange!Agree(t)
    BY <1>7, <2>1 DEF AnswerInitialize, Exchange!Agree, Served, tabVars
  <2> QED
    BY <2>2
<1>8. CASE SendInitialized(t)
  <2>1. Served = {t} /\ UNCHANGED Served
    BY <1>8, TakeServes DEF SendInitialized
  <2>2. Exchange!Open(t)
    BY <1>8, <2>1 DEF SendInitialized, Exchange!Open, Served
  <2> QED
    BY <2>2
<1> QED
  BY <1>1, <1>2, <1>3, <1>4, <1>5, <1>6, <1>7, <1>8 DEF TabStep

\* So are the delivery of a request and its answer.
LEMMA CallExchange ==
    ASSUME TypeOK, SoleFrontend, HeldInv,
           NEW t \in Tabs, NEW c \in Callers, TabCallStep(t, c)
    PROVE  Exchange!Next
<1> USE DEF startVars, tabVars
<1>1. CASE SendRequest(t, c)
  <2>1. Served = {t} /\ UNCHANGED Served
    BY <1>1, TakeServes DEF SendRequest
  <2>2. Exchange!Deliver(t, c)
    BY <1>1, <2>1 DEF SendRequest, Holder, Exchange!Deliver, Served
  <2> QED
    BY <2>2 DEF Exchange!Next
<1>2. ASSUME handler[t] = "serving", at[c] = t PROVE Served = {t} /\ request[c] = "sent"
  BY <1>2, ServedAlone, TabAssumption DEF HeldInv
<1>3. CASE AnswerCall(t, c)
  <2>1. Exchange!Answer(t, c)
    BY <1>2, <1>3 DEF AnswerCall, Exchange!Answer, Served
  <2> QED
    BY <2>1 DEF Exchange!Next
<1>4. ASSUME NEW last \in BOOLEAN, AnswerList(t, c, last) PROVE Exchange!Next
  <2>1. Exchange!Answer(t, c)
    BY <1>2, <1>4 DEF AnswerList, Exchange!Answer, Served
  <2> QED
    BY <2>1 DEF Exchange!Next
<1> QED
  BY <1>1, <1>3, <1>4 DEF TabCallStep

\* A tool makes a request, gives the session up, or does nothing to either.
LEMMA ToolExchange ==
    ASSUME TypeOK, SoleFrontend, HeldInv, NEW c \in Callers,
           Forward(c) \/ Prepare(c) \/ OpenStep(c)
    PROVE  Exchange!Next \/ UNCHANGED Exchange!vars
<1> USE DEF startVars, tabVars, callVars
<1>1. ASSUME Connected, pc[c] \in {"idle", "resuming"}, Ask(c, "calling") \/ Ask(c, "listing"),
             UNCHANGED <<handler, start, startTab, at>>
      PROVE  Exchange!Next
  <2>1. start = "ready" /\ Served # {} /\ request[c] = "none"
    BY <1>1 DEF Connected, SoleFrontend, Served, HeldInv
  <2>2. Exchange!Request(c)
    BY <1>1, <2>1 DEF Ask, Exchange!Request, Served
  <2> QED
    BY <2>2 DEF Exchange!Next
<1>2. ASSUME UNCHANGED <<handler, start, startTab, at, request>>
      PROVE  UNCHANGED Exchange!vars
  BY <1>2 DEF Exchange!vars
<1>3. CASE Forward(c)
  BY <1>1, <1>2, <1>3 DEF Forward
<1>4. CASE Resume(c)
  BY <1>1, <1>2, <1>4 DEF Resume
<1>5. CASE AwaitTimesOut(c)
  <2>1. CASE start = "ready"
    <3>1. startTab = NoTab
      BY <2>1 DEF HeldInv
    <3> QED
      BY <1>2, <1>5, <2>1, <3>1 DEF AwaitTimesOut
  <2>2. CASE start # "ready"
    <3>1. Exchange!GiveUp
      BY <1>5, <2>2 DEF AwaitTimesOut, Exchange!GiveUp
    <3> QED
      BY <3>1 DEF Exchange!Next
  <2> QED
    BY <2>1, <2>2
<1>6. CASE Prepare(c) \/ OpenConnected(c) \/ OpenDirect(c) \/ HandoffRefused(c)
           \/ AwaitDone(c)
  BY <1>2, <1>6 DEF Prepare, OpenConnected, OpenDirect, HandoffRefused, AwaitDone
<1>7. CASE (\E ok \in BOOLEAN : DirectEnds(c, ok))
           \/ \E newTab \in BOOLEAN : Handoff(c, newTab)
  BY <1>2, <1>7 DEF DirectEnds, Handoff
<1> QED
  BY <1>3, <1>4, <1>5, <1>6, <1>7 DEF OpenStep

\* The WebSocket server, the proxy client and the tools together implement the
\* exchange: no request reaches two frontends, none is answered by another
\* than the one that holds it, and the session is opened once, by one.
THEOREM ExchangeRefinement == Spec => ExchangeRefined
<1>1. Init => Exchange!Init
  <2>1. ASSUME Init PROVE Served = {}
    BY <2>1 DEF Init, Served
  <2> QED
    BY <2>1 DEF Init, Exchange!Init, Served
<1>2. TypeOK /\ SoleFrontend /\ HeldInv /\ [Next]_vars => [Exchange!Next]_(Exchange!vars)
  <2> SUFFICES ASSUME TypeOK, SoleFrontend, HeldInv, [Next]_vars
               PROVE  Exchange!Next \/ UNCHANGED Exchange!vars
    OBVIOUS
  <2>1. CASE GraceEnds \/ UNCHANGED vars
    BY <2>1 DEF GraceEnds, vars, tabVars, startVars, callVars, Exchange!vars
  <2> QED
    BY <2>1, TabExchange, CallExchange, ToolExchange DEF Next
<1> QED
  BY <1>1, <1>2, TypeCorrect, FrontendCorrect, HeldAlways, PTL
     DEF Spec, ExchangeRefined, Exchange!Spec
=============================================================================
