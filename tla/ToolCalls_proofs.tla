--------------------------- MODULE ToolCalls_proofs ---------------------------
(***************************************************************************)
(* Theorems about ToolCalls, for any callers, calls, runtime objects and   *)
(* VMs.                                                                    *)
(***************************************************************************)
EXTENDS ToolCalls, DirectRuntime_proofs

\* A call that uses a runtime is one that runs code, and the runtime is for the
\* VM the code was accepted for.
AcceptedInv ==
    \A c \in Callers :
       Using(c) => call[c].at = "running" /\ target[mine[c]] = call[c].vm

ToolInv == ToolTypeOK /\ AcceptedInv

-----------------------------------------------------------------------------
(* The record of a call.                                                   *)

\* The parts of a call.
LEMMA RecordParts ==
    ASSUME NEW r \in CallRecords
    PROVE  /\ r.asked \in CallTypes /\ r.at \in Answers \cup Places
           /\ r.seen \in {NoList} \cup SUBSET Targets
           /\ r.vm \in Targets \cup {NoTarget}
BY DEF CallRecords

\* A call that is over is well typed.
LEMMA OverTyped ==
    ASSUME NEW place \in Answers PROVE Over(place) \in CallRecords
BY DEF Over, CallRecords, PlainOpen, CallTypes

\* So is one that begins.
LEMMA NewTyped ==
    ASSUME NEW k \in CallTypes, NEW place \in Answers \cup Places
    PROVE  New(k, place) \in CallRecords
BY DEF New, CallRecords

\* So is one of which a part is changed.
LEMMA EditTyped ==
    ASSUME NEW r \in CallRecords, NEW place \in Answers \cup Places,
           NEW s \in {NoList} \cup SUBSET Targets, NEW v \in Targets \cup {NoTarget}
    PROVE  /\ [r EXCEPT !.at = place] \in CallRecords
           /\ [r EXCEPT !.seen = s] \in CallRecords
           /\ [r EXCEPT !.vm = v] \in CallRecords
           /\ [r EXCEPT !.at = place].at = place
           /\ [r EXCEPT !.at = place].vm = r.vm
           /\ [r EXCEPT !.seen = s].at = r.at
           /\ [r EXCEPT !.seen = s].vm = r.vm
           /\ [r EXCEPT !.vm = v].vm = v
           /\ [r EXCEPT !.vm = v].at = r.at
BY DEF CallRecords

\* Moving a call changes the call alone, and keeps its VM while it is not over.
LEMMA ToKeeps ==
    ASSUME call \in [Callers -> CallRecords], NEW c \in Callers,
           NEW place \in Answers \cup Places, To(c, place)
    PROVE  /\ call' \in [Callers -> CallRecords]
           /\ \A d \in Callers \ {c} : call'[d] = call[d]
           /\ call'[c].at = place
           /\ place \notin Answers => call'[c].vm = call[c].vm
<1>1. CASE place \in Answers
  <2>1. call' = [call EXCEPT ![c] = Over(place)]
    BY <1>1 DEF To
  <2>2. Over(place) \in CallRecords /\ Over(place).at = place
    BY <1>1, OverTyped DEF Over
  <2>3. QED
    BY <1>1, <2>1, <2>2
<1>2. CASE place \notin Answers
  <2>1. call' = [call EXCEPT ![c] = [call[c] EXCEPT !.at = place]]
    BY <1>2 DEF To
  <2>2. /\ call[c] \in CallRecords
        /\ [call[c] EXCEPT !.at = place] \in CallRecords
        /\ [call[c] EXCEPT !.at = place].at = place
        /\ [call[c] EXCEPT !.at = place].vm = call[c].vm
    BY EditTyped DEF CallRecords
  <2>3. QED
    BY <2>1, <2>2
<1>3. QED
  BY <1>1, <1>2

-----------------------------------------------------------------------------
(* What the steps of the manager leave alone.                              *)

TargetsKept ==
    \A d \in Callers : mine[d] \in Runtimes => target'[mine[d]] = target[mine[d]]

OthersStay(c) ==
    \A d \in Callers \ {c} : pc'[d] = pc[d] /\ mine'[d] = mine[d]

\* Replacing the runtime leaves targets in use alone.
LEMMA ReplaceLeaves ==
    ASSUME RuntimeInv, NEW c \in Callers, NEW t, Replace(c, t)
    PROVE  TargetsKept /\ OthersStay(c) /\ ~Using(c)'
BY DEF Replace, Fresh, Done, Go, RuntimeInv, Shape, TargetsKept, OthersStay, Using

\* So does retiring it.
LEMMA RetireLeaves ==
    ASSUME RuntimeInv, NEW c \in Callers, NEW t, Retire(c, t)
    PROVE  TargetsKept /\ OthersStay(c) /\ ~Using(c)'
<1>1. CASE Replace(c, t)
  BY <1>1, ReplaceLeaves
<1>2. CASE Go(c, "closing", runtime, t) /\ UNCHANGED target
  BY <1>2 DEF Go, RuntimeInv, Shape, TargetsKept, OthersStay, Using
<1>3. QED
  BY <1>1, <1>2 DEF Retire

Changes(c) ==
    \/ Connect(c) \/ SelectFails(c) \/ Closed(c)
    \/ \E t \in Targets : Selected(c, t)
    \/ \E ok \in BOOLEAN : Built(c, ok)
    \/ \E t \in Targets : Attach(c, t)

\* So does every step of connect and attach.
LEMMA ChangesLeave ==
    ASSUME RuntimeInv, NEW c \in Callers, Changes(c)
    PROVE  TargetsKept /\ OthersStay(c) /\ ~Using(c)'
<1> USE DEF RuntimeInv, Shape
<1>1. CASE Done(c) /\ UNCHANGED target
  BY <1>1 DEF Done, Go, TargetsKept, OthersStay, Using
<1>2. CASE Connect(c)
  BY <1>2 DEF Connect, Go, TargetsKept, OthersStay, Using
<1>3. CASE SelectFails(c)
  BY <1>1, <1>3 DEF SelectFails
<1>4. CASE Closed(c)
  BY <1>4, ReplaceLeaves DEF Closed
<1>5. ASSUME NEW t \in Targets, Selected(c, t)
      PROVE  TargetsKept /\ OthersStay(c) /\ ~Using(c)'
  BY <1>1, <1>5, RetireLeaves DEF Selected
<1>6. ASSUME NEW ok \in BOOLEAN, Built(c, ok)
      PROVE  TargetsKept /\ OthersStay(c) /\ ~Using(c)'
  BY <1>1, <1>6 DEF Built
<1>7. ASSUME NEW t \in Targets, Attach(c, t)
      PROVE  TargetsKept /\ OthersStay(c) /\ ~Using(c)'
  BY <1>7, RetireLeaves DEF Attach
<1>8. QED
  BY <1>2, <1>3, <1>4, <1>5, <1>6, <1>7 DEF Changes

\* An execution leaves all targets alone.
LEMMA ExecuteLeaves ==
    ASSUME RuntimeInv, NEW c \in Callers, ExecuteStep(c)
    PROVE  /\ UNCHANGED target /\ OthersStay(c)
           /\ pc'[c] # "idle" => Using(c) /\ mine'[c] = mine[c]
           /\ pc'[c] = "idle" => ~Using(c)'
<1> USE DEF RuntimeInv, Shape, OthersStay, Using
<1>1. CASE Done(c) /\ UNCHANGED target
  BY <1>1 DEF Done, Go
<1>2. ASSUME NEW place, Move(c, place), Using(c)
      PROVE  /\ UNCHANGED target /\ OthersStay(c)
             /\ pc'[c] # "idle" => Using(c) /\ mine'[c] = mine[c]
             /\ pc'[c] = "idle" => ~Using(c)'
  BY <1>2 DEF Move
<1>3. CASE Join(c)
  BY <1>2, <1>3 DEF Join
<1>4. CASE EnterExecute(c)
  BY <1>2, <1>4 DEF EnterExecute
<1>5. CASE ThreadStarts(c)
  BY <1>1, <1>2, <1>5 DEF ThreadStarts, Fails
<1>6. CASE KernelEnds(c)
  BY <1>1, <1>6 DEF KernelEnds, Fails
<1>7. ASSUME NEW ok \in BOOLEAN, Rebuilt(c, ok)
      PROVE  /\ UNCHANGED target /\ OthersStay(c)
             /\ pc'[c] # "idle" => Using(c) /\ mine'[c] = mine[c]
             /\ pc'[c] = "idle" => ~Using(c)'
  BY <1>1, <1>2, <1>7 DEF Rebuilt, Fails
<1>8. QED
  BY <1>3, <1>4, <1>5, <1>6, <1>7 DEF ExecuteStep

-----------------------------------------------------------------------------
(* The steps of the tools.                                                 *)

OthersCalls(c) == \A d \in Callers \ {c} : call'[d] = call[d]

\* AcceptedInv outlasts steps that leave users and targets of runtimes be.
LEMMA KeepsAccepted ==
    ASSUME RuntimeInv, AcceptedInv, NEW c \in Callers,
           TargetsKept, OthersStay(c), OthersCalls(c), ~Using(c)'
    PROVE  AcceptedInv'
BY DEF AcceptedInv, TargetsKept, OthersStay, OthersCalls, Using, RuntimeInv, BuildsOwn

\* A step that leaves the manager alone, by a call that runs nothing.
LEMMA QuietKeeps ==
    ASSUME RuntimeInv, AcceptedInv, NEW c \in Callers, UNCHANGED vars,
           OthersCalls(c), Using(c) => call[c].at # "running"
    PROVE  AcceptedInv'
<1>1. ~Using(c)
  BY DEF AcceptedInv
<1>2. TargetsKept /\ OthersStay(c) /\ ~Using(c)'
  BY <1>1 DEF vars, TargetsKept, OthersStay, Using
<1>3. QED
  BY <1>2, KeepsAccepted

Good == ToolInv' /\ [Next]_vars

\* Ask keeps the invariants, and is a step of DirectRuntime or none.
LEMMA AskGood ==
    ASSUME RuntimeInv, ToolInv, NEW c \in Callers, NEW k \in Calls[c], Ask(c, k)
    PROVE  Good
<1> USE DEF ToolInv, ToolTypeOK, Good
<1>1. k \in CallTypes
  BY CallsAssumption
<1>2. ASSUME NEW place \in {"connecting", "deciding"}, Begins(c, k, place)
      PROVE  call' \in [Callers -> CallRecords] /\ OthersCalls(c)
  BY <1>1, <1>2, NewTyped DEF Begins, OthersCalls, Places
<1>3. CASE Connect(c) /\ Begins(c, k, "connecting") /\ UNCHANGED busy
  <2>1. TargetsKept /\ OthersStay(c) /\ ~Using(c)'
    BY <1>3, ChangesLeave DEF Changes
  <2>2. AcceptedInv'
    BY <1>2, <1>3, <2>1, KeepsAccepted
  <2>3. QED
    BY <1>2, <1>3, <2>2 DEF Ask, Next
<1>4. CASE Begins(c, k, "deciding") /\ busy' = c /\ UNCHANGED vars
  <2>1. AcceptedInv'
    BY <1>2, <1>4, QuietKeeps DEF Ask, Answers
  <2>2. QED
    BY <1>2, <1>4, <2>1 DEF Ask
<1>5. CASE To(c, "answered") /\ UNCHANGED <<vars, busy>>
  <2>1. call' \in [Callers -> CallRecords] /\ OthersCalls(c)
    BY <1>5, ToKeeps DEF Answers, OthersCalls
  <2>2. AcceptedInv'
    BY <1>5, <2>1, QuietKeeps DEF Ask, Answers
  <2>3. QED
    BY <1>5, <2>1, <2>2 DEF Ask
<1>6. QED
  BY <1>3, <1>4, <1>5 DEF Ask

\* List keeps the invariants, and is a step of DirectRuntime or none.
LEMMA ListGood ==
    ASSUME RuntimeInv, ToolInv, NEW c \in Callers, List(c) PROVE Good
<1> USE DEF ToolInv, ToolTypeOK, Good
<1>1. call[c] \in CallRecords
  OBVIOUS
<1>2. [call[c] EXCEPT !.seen = account] \in CallRecords
  BY <1>1, RecordParts, EditTyped
<1>3. call' \in [Callers -> CallRecords] /\ OthersCalls(c)
  BY <1>2 DEF List, OthersCalls
<1>4. Using(c) => call[c].at # "running"
  BY DEF List, Using
<1>5. AcceptedInv'
  BY <1>3, <1>4, QuietKeeps DEF List
<1>6. QED
  BY <1>3, <1>5 DEF List

\* Connecting keeps the invariants, and is a step of DirectRuntime or none.
LEMMA ConnectingGood ==
    ASSUME RuntimeInv, ToolInv, NEW c \in Callers, Connecting(c) PROVE Good
<1> USE DEF ToolInv, ToolTypeOK, Good
<1>1. Choice(c) \subseteq Targets
  <2>1. call[c].seen \in {NoList} \cup SUBSET Targets
    BY RecordParts
  <2>2. QED
    BY <2>1 DEF Choice
<1>2. ASSUME NEW ok, AfterConnect(c, ok)
      PROVE  /\ call' \in [Callers -> CallRecords] /\ OthersCalls(c)
             /\ busy' \in Callers \cup {Nobody}
  <2>1. CASE UNCHANGED <<call, busy>>
    BY <2>1 DEF OthersCalls
  <2>2. CASE Hold(c, "deciding")
    BY <2>2, ToKeeps DEF Hold, OthersCalls, Places
  <2>3. CASE To(c, "answered") /\ UNCHANGED busy
    BY <2>3, ToKeeps DEF OthersCalls, Answers
  <2>4. QED
    BY <1>2, <2>1, <2>2, <2>3 DEF AfterConnect
<1>3. Changes(c) /\ \E ok : AfterConnect(c, ok)
  BY <1>1 DEF Connecting, Changes
<1>4. TargetsKept /\ OthersStay(c) /\ ~Using(c)'
  BY <1>3, ChangesLeave
<1>5. AcceptedInv'
  BY <1>2, <1>3, <1>4, KeepsAccepted
<1>6. [Next]_vars
  BY <1>1 DEF Connecting, Next, ManagerStep
<1>7. QED
  BY <1>2, <1>3, <1>5, <1>6 DEF Connecting

\* Decide keeps the invariants, and is a step of DirectRuntime or none.
LEMMA DecideGood ==
    ASSUME RuntimeInv, ToolInv, NEW c \in Callers, Decide(c) PROVE Good
<1> USE DEF ToolInv, ToolTypeOK, Good
<1>1. CASE /\ Capture(c) /\ busy' = Nobody
           /\ call' = [call EXCEPT ![c].at = "running", ![c].vm = target[runtime]]
  <2> DEFINE r == [[call[c] EXCEPT !.at = "running"] EXCEPT !.vm = target[runtime]]
  <2>1. runtime \in Runtimes /\ target[runtime] \in Targets \cup {NoTarget}
    BY <1>1 DEF Capture, RuntimeInv, Shape
  <2>2. /\ r \in CallRecords /\ r.at = "running" /\ r.vm = target[runtime]
    <3>1. call[c] \in CallRecords
      OBVIOUS
    <3>2. [call[c] EXCEPT !.at = "running"] \in CallRecords
      BY <3>1, EditTyped DEF CallRecords, Places
    <3>3. QED
      BY <2>1, <3>2 DEF CallRecords
  <2>3. call' = [call EXCEPT ![c] = r]
    BY <1>1
  <2> HIDE DEF r
  <2>4. call' \in [Callers -> CallRecords] /\ call'[c] = r /\ OthersCalls(c)
    BY <2>2, <2>3 DEF OthersCalls
  <2>5. /\ UNCHANGED target /\ OthersStay(c)
        /\ mine'[c] = runtime
    BY <1>1 DEF Capture, Go, RuntimeInv, Shape, OthersStay
  <2>6. AcceptedInv'
    BY <2>2, <2>4, <2>5 DEF AcceptedInv, OthersStay, OthersCalls, Using
  <2>7. QED
    BY <1>1, <2>4, <2>6 DEF Decide, Next
<1>2. CASE Yield(c, Answer(c)) /\ UNCHANGED vars
  <2>1. Answer(c) \in Answers \cup Places
    BY DEF Answer, Answers, Places
  <2>2. call' \in [Callers -> CallRecords] /\ OthersCalls(c)
    BY <1>2, <2>1, ToKeeps DEF Yield, OthersCalls
  <2>3. AcceptedInv'
    BY <1>2, <2>2, QuietKeeps DEF Decide
  <2>4. QED
    BY <1>2, <2>2, <2>3 DEF Decide, Yield
<1>3. QED
  BY <1>1, <1>2 DEF Decide

\* Running keeps the invariants, and is a step of DirectRuntime or none.
LEMMA RunningGood ==
    ASSUME RuntimeInv, ToolInv, NEW c \in Callers, Running(c) PROVE Good
<1> USE DEF ToolInv, ToolTypeOK, Good
<1>1. ExecuteStep(c)
  BY DEF Running, Runs
<1>2. /\ UNCHANGED target /\ OthersStay(c)
      /\ pc'[c] # "idle" => Using(c) /\ mine'[c] = mine[c]
      /\ pc'[c] = "idle" => ~Using(c)'
  BY <1>1, ExecuteLeaves
<1>3. call' \in [Callers -> CallRecords] /\ OthersCalls(c)
  BY ToKeeps DEF Running, OthersCalls, Answers
<1>4. CASE pc'[c] = "idle"
  <2>1. TargetsKept
    BY <1>2 DEF TargetsKept
  <2>2. QED
    BY <1>1, <1>2, <1>3, <1>4, <2>1, KeepsAccepted DEF Running, Next
<1>5. CASE pc'[c] # "idle"
  <2>1. UNCHANGED call
    BY <1>5 DEF Running
  <2>2. AcceptedInv'
    BY <1>2, <1>5, <2>1 DEF AcceptedInv, OthersStay, Using
  <2>3. QED
    BY <1>1, <1>3, <2>2 DEF Running, Next
<1>6. QED
  BY <1>4, <1>5

\* Forwarded keeps the invariants, and is a step of DirectRuntime or none.
LEMMA ForwardedGood ==
    ASSUME RuntimeInv, ToolInv, NEW c \in Callers, Forwarded(c) PROVE Good
<1>1. call' \in [Callers -> CallRecords] /\ OthersCalls(c)
  BY ToKeeps DEF Forwarded, ToolInv, ToolTypeOK, OthersCalls, Answers
<1>2. AcceptedInv'
  BY <1>1, QuietKeeps DEF Forwarded, ToolInv
<1>3. QED
  BY <1>1, <1>2 DEF Forwarded, ToolInv, ToolTypeOK, Good

\* AskChange keeps the invariants, and is a step of DirectRuntime or none.
LEMMA AskChangeGood ==
    ASSUME RuntimeInv, ToolInv, NEW c \in Callers, NEW k \in Calls[c], AskChange(c, k)
    PROVE  Good
<1> USE DEF ToolInv, ToolTypeOK, Good
<1>1. PICK place \in {"unassigning", "assigning"} :
         call' = [call EXCEPT ![c] = [New(k, place) EXCEPT !.seen =
                     IF place = "unassigning" THEN account ELSE {}]]
  BY DEF AskChange
<1>2. New(k, place) \in CallRecords
  BY CallsAssumption, NewTyped DEF Places
<1>3. [New(k, place) EXCEPT !.seen = IF place = "unassigning" THEN account ELSE {}]
         \in CallRecords
  <2>1. (IF place = "unassigning" THEN account ELSE {}) \in {NoList} \cup SUBSET Targets
    OBVIOUS
  <2>2. QED
    BY <1>2, <2>1, EditTyped DEF Places
<1>4. call' \in [Callers -> CallRecords] /\ OthersCalls(c)
  BY <1>1, <1>3 DEF OthersCalls
<1>5. AcceptedInv'
  BY <1>4, QuietKeeps DEF AskChange, Answers
<1>6. QED
  BY <1>4, <1>5 DEF AskChange

\* Unassign keeps the invariants, and is a step of DirectRuntime or none.
LEMMA UnassignGood ==
    ASSUME RuntimeInv, ToolInv, NEW c \in Callers, NEW v \in Targets, Unassign(c, v)
    PROVE  Good
<1> USE DEF ToolInv, ToolTypeOK, Good
<1>1. call' \in [Callers -> CallRecords] /\ OthersCalls(c)
  <2>1. CASE call' = [call EXCEPT ![c] = [call[c] EXCEPT !.seen = call[c].seen \ {v}]]
    <3>1. call[c].seen \ {v} \in SUBSET Targets \/ call[c].seen = NoList
      BY RecordParts
    <3>2. call[c].seen # NoList
      BY DEF Unassign, MayHave
    <3>3. [call[c] EXCEPT !.seen = call[c].seen \ {v}] \in CallRecords
      BY <3>1, <3>2, EditTyped DEF CallRecords
    <3>4. QED
      BY <2>1, <3>3 DEF OthersCalls
  <2>2. CASE To(c, "assigning")
    BY <2>2, ToKeeps DEF OthersCalls, Places
  <2>3. QED
    BY <2>1, <2>2 DEF Unassign, MayHave
<1>2. AcceptedInv'
  BY <1>1, QuietKeeps DEF Unassign, MayHave
<1>3. QED
  BY <1>1, <1>2 DEF Unassign, MayHave

\* Assign keeps the invariants, and is a step of DirectRuntime or none.
LEMMA AssignGood ==
    ASSUME RuntimeInv, ToolInv, NEW c \in Callers, Assign(c) PROVE Good
<1> USE DEF ToolInv, ToolTypeOK, Good
<1>1. NewVms \subseteq Targets
  BY DEF NewVms
<1>2. ASSUME NEW v \in NewVms, busy' = Nobody, account' = account \cup {v},
             call' = [call EXCEPT ![c] = [New(call[c].asked, "listing") EXCEPT !.vm = v]]
      PROVE  /\ call' \in [Callers -> CallRecords] /\ OthersCalls(c)
             /\ busy' \in Callers \cup {Nobody} /\ account' \subseteq Targets
  <2>1. New(call[c].asked, "listing") \in CallRecords
    BY RecordParts, NewTyped DEF Places
  <2>2. [New(call[c].asked, "listing") EXCEPT !.vm = v] \in CallRecords
    BY <1>1, <2>1 DEF CallRecords
  <2>3. QED
    BY <1>1, <1>2, <2>2 DEF OthersCalls
<1>3. ASSUME account' \in {account} \cup {account \cup {v} : v \in NewVms},
             Yield(c, "answered")
      PROVE  /\ call' \in [Callers -> CallRecords] /\ OthersCalls(c)
             /\ busy' \in Callers \cup {Nobody} /\ account' \subseteq Targets
  BY <1>1, <1>3, ToKeeps DEF Yield, OthersCalls, Answers
<1>4. /\ call' \in [Callers -> CallRecords] /\ OthersCalls(c)
      /\ busy' \in Callers \cup {Nobody} /\ account' \subseteq Targets
  BY <1>2, <1>3 DEF Assign, MayHave
<1>5. AcceptedInv'
  BY <1>4, QuietKeeps DEF Assign, MayHave
<1>6. QED
  BY <1>4, <1>5 DEF Assign, MayHave

\* Attaching keeps the invariants, and is a step of DirectRuntime or none.
LEMMA AttachingGood ==
    ASSUME RuntimeInv, ToolInv, NEW c \in Callers, Attaching(c) PROVE Good
<1> USE DEF ToolInv, ToolTypeOK, Good
<1>1. call' \in [Callers -> CallRecords] /\ OthersCalls(c)
  <2>1. \E place \in Answers \cup Places : To(c, place)
    BY DEF Attaching, Answers, Places
  <2>2. QED
    BY <2>1, ToKeeps DEF OthersCalls
<1>2. CASE Found(c) /\ Attach(c, call[c].vm)
  <2>1. call[c].vm \in Targets
    <3>1. call[c].seen \in SUBSET Targets /\ call[c].vm \in call[c].seen
      BY <1>2, RecordParts DEF Found
    <3>2. QED
      BY <3>1
  <2>2. TargetsKept /\ OthersStay(c) /\ ~Using(c)'
    BY <1>2, <2>1, ChangesLeave DEF Changes
  <2>3. AcceptedInv'
    BY <1>1, <2>2, KeepsAccepted
  <2>4. QED
    BY <1>1, <1>2, <2>1, <2>3 DEF Attaching, Next
<1>3. CASE call[c].at = "listing" /\ UNCHANGED vars
  <2>1. AcceptedInv'
    BY <1>1, <1>3, QuietKeeps
  <2>2. QED
    BY <1>1, <1>3, <2>1 DEF Attaching
<1>4. CASE Closed(c) \/ \E ok \in BOOLEAN : Built(c, ok)
  <2>1. TargetsKept /\ OthersStay(c) /\ ~Using(c)'
    BY <1>4, ChangesLeave DEF Changes
  <2>2. AcceptedInv'
    BY <1>1, <2>1, KeepsAccepted
  <2>3. QED
    BY <1>1, <1>4, <2>2 DEF Attaching, Next, ManagerStep
<1>5. QED
  BY <1>2, <1>3, <1>4 DEF Attaching

\* So is what happens to VMs, tabs and kernels.
LEMMA OutsideGood ==
    ASSUME RuntimeInv, ToolInv, Elsewhere \/ TabChanges \/ ConnectionLost PROVE Good
<1> USE DEF ToolInv, ToolTypeOK, Good
<1>1. CASE Elsewhere
  BY <1>1 DEF Elsewhere, NewVms, AcceptedInv, Using, vars
<1>2. CASE TabChanges
  BY <1>2 DEF TabChanges, AcceptedInv, Using, vars
<1>3. CASE ConnectionLost
  BY <1>3 DEF ConnectionLost, ClientDies, toolVars, AcceptedInv, Using, Next
<1>4. QED
  BY <1>1, <1>2, <1>3

\* ToolInv is inductive with RuntimeInv, and every step is one of DirectRuntime.
LEMMA ToolInvNext ==
    RuntimeInv /\ ToolInv /\ [ToolNext]_allVars => ToolInv' /\ [Next]_vars
<1> SUFFICES ASSUME RuntimeInv, ToolInv, [ToolNext]_allVars PROVE Good
  BY DEF Good
<1>1. CASE UNCHANGED allVars
  BY <1>1 DEF allVars, toolVars, vars, Good, ToolInv, ToolTypeOK, AcceptedInv, Using
<1>2. CASE ToolNext
  BY <1>2, AskGood, ListGood, ConnectingGood, DecideGood, RunningGood, ForwardedGood,
     AskChangeGood, UnassignGood, AssignGood, AttachingGood, OutsideGood
     DEF ToolNext, ToolStep
<1>3. QED
  BY <1>1, <1>2

\* Both hold at first.
LEMMA ToolInvInit == ToolInit => RuntimeInv /\ ToolInv
<1> SUFFICES ASSUME ToolInit PROVE RuntimeInv /\ ToolInv
  OBVIOUS
<1>1. RuntimeInv
  BY RuntimeInit DEF ToolInit
<1>2. Over("answered") \in CallRecords
  BY OverTyped DEF Answers
<1>3. ToolTypeOK
  BY <1>2 DEF ToolInit, ToolTypeOK
<1>4. AcceptedInv
  BY DEF ToolInit, Init, AcceptedInv, Using
<1>5. QED
  BY <1>1, <1>3, <1>4 DEF ToolInv

\* Both hold always.
LEMMA ToolSound == ToolSpec => [](RuntimeInv /\ ToolInv)
<1>1. RuntimeInv /\ ToolInv /\ [ToolNext]_allVars => (RuntimeInv /\ ToolInv)'
  BY ToolInvNext, RuntimeStep
<1>2. QED
  BY <1>1, ToolInvInit, PTL DEF ToolSpec

-----------------------------------------------------------------------------
(* Where the calls bring the manager.                                      *)

\* A call that closes the old runtime or builds the new one is one that
\* connects or attaches, to a VM it means; only change_runtime attaches.
Purposeful(c) ==
    /\ call[c].at = "connecting" => call[c].asked.tool # "change"
    /\ call[c].at \in {"unassigning", "assigning", "listing", "attaching"}
          => call[c].asked.tool = "change"
    /\ pc[c] \in {"closing", "building"} =>
          call[c].at \in {"connecting", "attaching"} /\ Meant(c, want[c])

MeantInv == \A c \in Callers : Purposeful(c)

\* Nobody closes or builds at first.
LEMMA MeantInit == ToolInit => MeantInv
BY DEF ToolInit, Init, MeantInv, Purposeful, Over, Answers

\* The other calls stay where they are.
OthersWait(c) ==
    \A d \in Callers \ {c} :
       pc'[d] = pc[d] /\ want'[d] = want[d] /\ call'[d] = call[d]

\* So only the call that takes a step has to be looked at.
LEMMA MeantKept ==
    ASSUME MeantInv, NEW c \in Callers, OthersWait(c), Purposeful(c)'
    PROVE  MeantInv'
BY DEF MeantInv, OthersWait, Purposeful, Meant

\* Where a call is once it has replaced the runtime, or awaits the end of the
\* old one.
LEMMA RetireGoes ==
    ASSUME RuntimeInv, NEW c \in Callers, NEW t, Retire(c, t) \/ Replace(c, t)
    PROVE  /\ \A d \in Callers \ {c} : pc'[d] = pc[d] /\ want'[d] = want[d]
           /\ pc'[c] \in {"idle", "closing", "building"}
           /\ pc'[c] # "idle" => want'[c] = t
<1> USE DEF RuntimeInv, Shape
<1>1. ASSUME NEW place \in {"closing", "building"}, NEW r, Go(c, place, r, t)
      PROVE  /\ \A d \in Callers \ {c} : pc'[d] = pc[d] /\ want'[d] = want[d]
             /\ pc'[c] \in {"idle", "closing", "building"}
             /\ pc'[c] # "idle" => want'[c] = t
  BY <1>1 DEF Go
<1>2. CASE Done(c)
  BY <1>2 DEF Done, Go
<1>3. QED
  BY <1>1, <1>2 DEF Retire, Replace

\* Where a call is after a step of the manager: when it goes on closing or
\* building, it is for the VM it was for, or the one it has just selected.
LEMMA ChangeGoes ==
    ASSUME RuntimeInv, NEW c \in Callers, NEW t,
           \/ Connect(c) \/ SelectFails(c) \/ Selected(c, t) \/ Attach(c, t)
           \/ /\ want[c] = t
              /\ Closed(c) \/ \E ok \in BOOLEAN : Built(c, ok)
    PROVE  /\ \A d \in Callers \ {c} : pc'[d] = pc[d] /\ want'[d] = want[d]
           /\ pc'[c] \in {"idle", "selecting", "closing", "building"}
           /\ pc'[c] \in {"closing", "building"} => want'[c] = t
<1>1. CASE Done(c)
  BY <1>1 DEF Done, Go, RuntimeInv, Shape
<1>2. CASE Connect(c)
  BY <1>2 DEF Connect, Go, RuntimeInv, Shape
<1>3. CASE Retire(c, t) \/ Replace(c, t)
  BY <1>3, RetireGoes
<1>4. QED
  BY <1>1, <1>2, <1>3 DEF SelectFails, Selected, Attach, Closed, Built

\* An execution does not select, close or build.
LEMMA ExecuteGoes ==
    ASSUME RuntimeInv, NEW c \in Callers, ExecuteStep(c)
    PROVE  /\ \A d \in Callers \ {c} : pc'[d] = pc[d] /\ want'[d] = want[d]
           /\ pc'[c] \notin {"selecting", "closing", "building"}
           /\ endpoint' = endpoint
<1> USE DEF RuntimeInv, Shape
<1>1. CASE Done(c)
  BY <1>1 DEF Done, Go, ExecuteStep, Join, EnterExecute, ThreadStarts, KernelEnds,
              Rebuilt, Fails, Move
<1>2. ASSUME NEW place \in {"rebuilding", "ready", "starting", "kernel"}, Move(c, place)
      PROVE  /\ \A d \in Callers \ {c} : pc'[d] = pc[d] /\ want'[d] = want[d]
             /\ pc'[c] \notin {"selecting", "closing", "building"}
             /\ endpoint' = endpoint
  BY <1>2 DEF Move
<1>3. QED
  BY <1>1, <1>2 DEF ExecuteStep, Join, EnterExecute, ThreadStarts, KernelEnds,
     Rebuilt, Fails

\* What moving a call does to it.
LEMMA ToMoves ==
    ASSUME call \in [Callers -> CallRecords], NEW c \in Callers,
           NEW place \in Answers \cup Places, To(c, place)
    PROVE  /\ OthersCalls(c) /\ call'[c].at = place
           /\ place \notin Answers => /\ call'[c].asked = call[c].asked
                                      /\ call'[c].seen = call[c].seen
                                      /\ call'[c].vm = call[c].vm
<1>1. CASE place \in Answers
  BY <1>1, ToKeeps DEF OthersCalls
<1>2. CASE place \notin Answers
  BY <1>2 DEF To, CallRecords, OthersCalls
<1>3. QED
  BY <1>1, <1>2

\* A call that is over, or only gets as far as deciding, means nothing any more.
LEMMA OverPurposeful ==
    ASSUME NEW c \in Callers, call'[c].at \in Answers \cup {"deciding", "forwarded", "running"},
           pc'[c] \notin {"closing", "building"}
    PROVE  Purposeful(c)'
BY DEF Purposeful, Answers

\* The steps of connect bring the manager to a VM on the list.
LEMMA ConnectingMeant ==
    ASSUME RuntimeInv, ToolInv, MeantInv, NEW c \in Callers, Connecting(c)
    PROVE  MeantInv'
<1> USE DEF ToolInv, ToolTypeOK
<1>1. ASSUME NEW t, SelectFails(c) \/ Selected(c, t) \/
             (want[c] = t /\ (Closed(c) \/ \E ok \in BOOLEAN : Built(c, ok))),
             pc'[c] \in {"closing", "building"} => Meant(c, t),
             NEW ok, AfterConnect(c, ok)
      PROVE  MeantInv'
  <2>1. /\ \A d \in Callers \ {c} : pc'[d] = pc[d] /\ want'[d] = want[d]
        /\ pc'[c] \in {"idle", "selecting", "closing", "building"}
        /\ pc'[c] \in {"closing", "building"} => want'[c] = t
    BY <1>1, ChangeGoes
  <2>2. CASE pc'[c] # "idle"
    <3>1. UNCHANGED call
      BY <1>1, <2>2 DEF AfterConnect
    <3>2. Purposeful(c)'
      BY <1>1, <2>1, <3>1 DEF Purposeful, MeantInv, Meant, Connecting
    <3>3. QED
      BY <2>1, <3>1, <3>2, MeantKept DEF OthersWait
  <2>3. CASE pc'[c] = "idle"
    <3>1. \E place \in Answers \cup {"deciding"} : To(c, place)
      BY <1>1, <2>3 DEF AfterConnect, Hold, Answers
    <3>2. OthersCalls(c) /\ call'[c].at \in Answers \cup {"deciding"}
      BY <3>1, ToMoves DEF Places
    <3>3. Purposeful(c)'
      BY <2>3, <3>2, OverPurposeful
    <3>4. QED
      BY <2>1, <3>2, <3>3, MeantKept DEF OthersWait, OthersCalls
  <2>4. QED
    BY <2>2, <2>3
<1>2. ASSUME NEW t \in Choice(c) PROVE Meant(c, t)
  BY <1>2 DEF Choice, Meant, MeantInv, Purposeful, Connecting
<1>3. CASE SelectFails(c) /\ AfterConnect(c, FALSE)
  <2>1. pc'[c] = "idle"
    BY <1>3 DEF SelectFails, Done, Go, RuntimeInv, Shape
  <2>2. QED
    BY <1>1, <1>3, <2>1
<1>4. ASSUME NEW t \in Choice(c), Selected(c, t), AfterConnect(c, endpoint' = t)
      PROVE  MeantInv'
  BY <1>1, <1>2, <1>4
<1>5. ASSUME Closed(c) \/ \E ok \in BOOLEAN : Built(c, ok), NEW ok, AfterConnect(c, ok)
      PROVE  MeantInv'
  <2>1. Meant(c, want[c])
    BY <1>5 DEF Closed, Built, MeantInv, Purposeful
  <2>2. QED
    BY <1>1, <1>5, <2>1
<1>6. QED
  BY <1>3, <1>4, <1>5 DEF Connecting

\* The steps of change_runtime bring it to the VM that was assigned.
LEMMA AttachingMeant ==
    ASSUME RuntimeInv, ToolInv, MeantInv, NEW c \in Callers, Attaching(c)
    PROVE  MeantInv'
<1> USE DEF ToolInv, ToolTypeOK
<1>1. ASSUME NEW t, Attach(c, t) \/
             (want[c] = t /\ (Closed(c) \/ \E ok \in BOOLEAN : Built(c, ok))),
             call[c].at \in {"listing", "attaching"}, Meant(c, t),
             To(c, IF pc'[c] = "idle" THEN "answered" ELSE "attaching")
      PROVE  MeantInv'
  <2>1. /\ \A d \in Callers \ {c} : pc'[d] = pc[d] /\ want'[d] = want[d]
        /\ pc'[c] \in {"idle", "selecting", "closing", "building"}
        /\ pc'[c] \in {"closing", "building"} => want'[c] = t
    BY <1>1, ChangeGoes
  <2>2. CASE pc'[c] = "idle"
    <3>1. OthersCalls(c) /\ call'[c].at \in Answers
      BY <1>1, <2>2, ToMoves DEF Answers
    <3>2. QED
      BY <2>1, <2>2, <3>1, OverPurposeful, MeantKept DEF OthersWait, OthersCalls
  <2>3. CASE pc'[c] # "idle"
    <3>1. To(c, "attaching")
      BY <1>1, <2>3
    <3>2. /\ OthersCalls(c) /\ call'[c].at = "attaching"
          /\ call'[c].asked = call[c].asked /\ call'[c].seen = call[c].seen
          /\ call'[c].vm = call[c].vm
      BY <3>1, ToMoves DEF Answers, Places
    <3>3. Purposeful(c)'
      BY <1>1, <2>1, <3>2 DEF Purposeful, MeantInv, Meant
    <3>4. QED
      BY <2>1, <3>2, <3>3, MeantKept DEF OthersWait, OthersCalls
  <2>4. QED
    BY <2>2, <2>3
<1>2. CASE /\ call[c].at = "listing" /\ Found(c) /\ Attach(c, call[c].vm)
           /\ To(c, IF pc'[c] = "idle" THEN "answered" ELSE "attaching")
  <2>1. Meant(c, call[c].vm)
    BY <1>2 DEF Found, Meant, MeantInv, Purposeful
  <2>2. QED
    BY <1>1, <1>2, <2>1
<1>3. CASE call[c].at = "listing" /\ To(c, "answered") /\ UNCHANGED vars
  <2>1. OthersCalls(c) /\ call'[c].at \in Answers
    BY <1>3, ToMoves DEF Answers
  <2>2. pc'[c] \notin {"closing", "building"}
    BY <1>3 DEF MeantInv, Purposeful, vars
  <2>3. QED
    BY <1>3, <2>1, <2>2, OverPurposeful, MeantKept DEF OthersWait, OthersCalls, vars
<1>4. CASE /\ call[c].at = "attaching"
           /\ Closed(c) \/ \E ok \in BOOLEAN : Built(c, ok)
           /\ To(c, IF pc'[c] = "idle" THEN "answered" ELSE "attaching")
  <2>1. Meant(c, want[c])
    BY <1>4 DEF Closed, Built, MeantInv, Purposeful
  <2>2. QED
    BY <1>1, <1>4, <2>1
<1>5. QED
  BY <1>2, <1>3, <1>4 DEF Attaching

\* A step of a call that leaves the manager alone, and is not closing or
\* building.
LEMMA QuietMeant ==
    ASSUME MeantInv, NEW c \in Callers, UNCHANGED vars, OthersCalls(c),
           call[c].at \notin {"connecting", "attaching"},
           /\ call'[c].at = "connecting" => call'[c].asked.tool # "change"
           /\ call'[c].at \in {"unassigning", "assigning", "listing", "attaching"}
                 => call'[c].asked.tool = "change"
    PROVE  MeantInv'
<1>1. OthersWait(c) /\ pc'[c] \notin {"closing", "building"}
  BY DEF MeantInv, Purposeful, OthersWait, OthersCalls, vars
<1>2. Purposeful(c)'
  BY <1>1 DEF Purposeful
<1>3. QED
  BY <1>1, <1>2, MeantKept

\* The beginning of a call.
LEMMA AskMeant ==
    ASSUME RuntimeInv, ToolInv, MeantInv, NEW c \in Callers, NEW k \in Calls[c],
           Ask(c, k) \/ AskChange(c, k)
    PROVE  MeantInv'
<1> USE DEF ToolInv, ToolTypeOK
<1>1. call[c].at \in Answers /\ call[c].at \notin {"connecting", "attaching"}
  BY DEF Ask, AskChange, Answers
<1>2. ASSUME NEW place, Begins(c, k, place)
      PROVE  OthersCalls(c) /\ call'[c].at = place /\ call'[c].asked = k
  BY <1>2 DEF Begins, New, OthersCalls
<1>3. CASE Connect(c) /\ Begins(c, k, "connecting") /\ k.tool # "change"
  <2>1. /\ \A d \in Callers \ {c} : pc'[d] = pc[d] /\ want'[d] = want[d]
        /\ pc'[c] = "selecting"
    BY <1>3 DEF Connect, Go, RuntimeInv, Shape
  <2>2. Purposeful(c)'
    BY <1>2, <1>3, <2>1 DEF Purposeful
  <2>3. QED
    BY <1>2, <1>3, <2>1, <2>2, MeantKept DEF OthersWait, OthersCalls
<1>4. CASE Begins(c, k, "deciding") /\ UNCHANGED vars
  BY <1>1, <1>2, <1>4, QuietMeant
<1>5. CASE To(c, "answered") /\ UNCHANGED vars
  <2>1. OthersCalls(c) /\ call'[c].at = "answered"
    BY <1>5, ToMoves DEF Answers
  <2>2. QED
    BY <1>1, <1>5, <2>1, QuietMeant
<1>6. CASE AskChange(c, k)
  <2>1. PICK place \in {"unassigning", "assigning"} :
           call' = [call EXCEPT ![c] = [New(k, place) EXCEPT !.seen =
                       IF place = "unassigning" THEN account ELSE {}]]
    BY <1>6 DEF AskChange
  <2>2. OthersCalls(c) /\ call'[c].at = place /\ call'[c].asked = k
    BY <2>1 DEF OthersCalls, New
  <2>3. QED
    BY <1>1, <1>6, <2>2, QuietMeant DEF AskChange
<1>7. QED
  BY <1>3, <1>4, <1>5, <1>6 DEF Ask

\* The list of assignments: a call that takes one is not closing or building.
LEMMA ListMeant ==
    ASSUME RuntimeInv, ToolInv, MeantInv, NEW c \in Callers, List(c)
    PROVE  MeantInv'
<1>1. /\ OthersWait(c) /\ pc' = pc
      /\ call'[c].at = call[c].at /\ call'[c].asked = call[c].asked
  BY DEF ToolInv, ToolTypeOK, CallRecords, List, OthersWait, vars
<1>2. pc[c] \notin {"closing", "building"}
  BY DEF List, MeantInv, Purposeful
<1>3. Purposeful(c)'
  BY <1>1, <1>2 DEF MeantInv, Purposeful
<1>4. QED
  BY <1>1, <1>3, MeantKept

\* Running code.
LEMMA RunMeant ==
    ASSUME RuntimeInv, ToolInv, MeantInv, NEW c \in Callers,
           Decide(c) \/ Running(c) \/ Forwarded(c)
    PROVE  MeantInv'
<1> USE DEF ToolInv, ToolTypeOK
<1>1. CASE Capture(c) /\ Decide(c) /\
           call' = [call EXCEPT ![c].at = "running", ![c].vm = target[runtime]]
  <2>1. OthersWait(c) /\ pc'[c] = "captured"
    BY <1>1 DEF Capture, Go, RuntimeInv, Shape, OthersWait
  <2>2. call'[c].at = "running"
    BY <1>1 DEF CallRecords
  <2>3. QED
    BY <2>1, <2>2, OverPurposeful, MeantKept
<1>2. CASE Yield(c, Answer(c)) /\ Decide(c) /\ UNCHANGED vars
  <2>1. Answer(c) \in Answers \cup {"forwarded"}
    BY DEF Answer, Answers
  <2>2. OthersCalls(c) /\ call'[c].at \in Answers \cup {"forwarded"}
    BY <1>2, <2>1, ToMoves DEF Yield, Places
  <2>3. QED
    BY <1>2, <2>2, QuietMeant DEF Decide, Answers
<1>3. CASE Running(c)
  <2>1. /\ \A d \in Callers \ {c} : pc'[d] = pc[d] /\ want'[d] = want[d]
        /\ pc'[c] \notin {"closing", "building"}
    BY <1>3, ExecuteGoes DEF Running, Runs
  <2>2. OthersCalls(c) /\ call'[c].at \in Answers \cup {"running"}
    BY <1>3, ToMoves DEF Running, Answers, OthersCalls
  <2>3. QED
    BY <2>1, <2>2, OverPurposeful, MeantKept DEF OthersWait, OthersCalls
<1>4. CASE Forwarded(c)
  <2>1. OthersCalls(c) /\ call'[c].at = "answered"
    BY <1>4, ToMoves DEF Forwarded, Answers
  <2>2. QED
    BY <1>4, <2>1, QuietMeant DEF Forwarded
<1>5. QED
  BY <1>1, <1>2, <1>3, <1>4 DEF Decide

\* The requests of change_runtime.
LEMMA ChangeMeant ==
    ASSUME RuntimeInv, ToolInv, MeantInv, NEW c \in Callers,
           (\E v \in Targets : Unassign(c, v)) \/ Assign(c)
    PROVE  MeantInv'
<1> USE DEF ToolInv, ToolTypeOK
<1>1. /\ call[c].at \in {"unassigning", "assigning"} /\ UNCHANGED vars
      /\ call[c].asked.tool = "change"
  BY DEF Unassign, Assign, MayHave, MeantInv, Purposeful
<1>2. ASSUME OthersCalls(c), call'[c].asked = call[c].asked,
             call'[c].at \in {"unassigning", "assigning", "listing"}
      PROVE  MeantInv'
  BY <1>1, <1>2, QuietMeant
<1>3. ASSUME NEW v \in Targets, Unassign(c, v) PROVE MeantInv'
  <2>1. CASE call' = [call EXCEPT ![c].seen = @ \ {v}]
    BY <1>1, <1>2, <2>1 DEF CallRecords, OthersCalls
  <2>2. CASE To(c, "assigning")
    BY <1>2, <2>2, ToMoves DEF Answers, Places
  <2>3. QED
    BY <1>3, <2>1, <2>2 DEF Unassign, MayHave
<1>4. CASE Assign(c)
  <2>1. ASSUME NEW v, call' = [call EXCEPT ![c] = [New(@.asked, "listing") EXCEPT !.vm = v]]
        PROVE  MeantInv'
    BY <1>2, <2>1 DEF New, OthersCalls
  <2>2. ASSUME To(c, "answered") PROVE MeantInv'
    <3>1. OthersCalls(c) /\ call'[c].at = "answered"
      BY <2>2, ToMoves DEF Answers
    <3>2. QED
      BY <1>1, <3>1, QuietMeant
  <2>3. QED
    BY <1>4, <2>1, <2>2 DEF Assign, MayHave, Yield
<1>5. QED
  BY <1>3, <1>4

\* MeantInv is inductive with the others.
LEMMA MeantStep == RuntimeInv /\ ToolInv /\ MeantInv /\ [ToolNext]_allVars => MeantInv'
<1> SUFFICES ASSUME RuntimeInv, ToolInv, MeantInv, [ToolNext]_allVars PROVE MeantInv'
  OBVIOUS
<1>1. CASE UNCHANGED <<pc, want, call>>
  BY <1>1 DEF MeantInv, Purposeful, Meant
<1>2. UNCHANGED <<pc, want, call>>
      \/ \E c \in Callers : ToolStep(c) \/ \E k \in Calls[c] : Ask(c, k) \/ AskChange(c, k)
  BY DEF ToolNext, Elsewhere, TabChanges, ConnectionLost, ClientDies, allVars, toolVars,
     vars
<1>3. QED
  BY <1>1, <1>2, AskMeant, ListMeant, ConnectingMeant, RunMeant, ChangeMeant,
     AttachingMeant DEF ToolStep

\* Only the end of a build brings the manager to another VM.
LEMMA EndpointMoves ==
    ASSUME RuntimeInv, [Next]_vars, endpoint' \notin {endpoint, NoTarget}
    PROVE  \E c \in Callers : pc[c] = "building" /\ pc'[c] = "idle" /\ endpoint' = want[c]
<1>1. ASSUME NEW c \in Callers, NEW t, Retire(c, t) \/ Replace(c, t) PROVE FALSE
  BY <1>1 DEF Retire, Replace
<1>2. ASSUME NEW c \in Callers, NEW ok \in BOOLEAN, Built(c, ok)
      PROVE  pc[c] = "building" /\ pc'[c] = "idle" /\ endpoint' = want[c]
  BY <1>2 DEF Built, Done, Go, RuntimeInv, Shape
<1>3. QED
  BY <1>1, <1>2 DEF Next, ManagerStep, ExecuteStep, Connect, Capture, Attach,
     SelectFails, Selected, Closed, Join, Move, EnterExecute, ThreadStarts, Fails,
     KernelEnds, Rebuilt, ClientDies, vars

-----------------------------------------------------------------------------

\* The manager comes to a VM only through a call that has seen it on a list of
\* its own and means it, whatever other calls connect, close and change while it
\* awaits the list, the close and the build.
THEOREM MeantCorrect == ToolSpec => EndpointMeant
<1>1. RuntimeInv /\ ToolInv /\ MeantInv /\ [ToolNext]_allVars
      => [endpoint' \notin {endpoint, NoTarget} =>
             \E c \in Callers : /\ pc[c] = "building" /\ pc'[c] = "idle"
                                /\ Meant(c, endpoint')]_allVars
  <2> SUFFICES ASSUME RuntimeInv, ToolInv, MeantInv, [ToolNext]_allVars,
                      endpoint' \notin {endpoint, NoTarget}
               PROVE  \E c \in Callers : /\ pc[c] = "building" /\ pc'[c] = "idle"
                                         /\ Meant(c, endpoint')
    OBVIOUS
  <2>1. PICK c \in Callers :
           pc[c] = "building" /\ pc'[c] = "idle" /\ endpoint' = want[c]
    BY ToolInvNext, EndpointMoves
  <2>2. Meant(c, want[c])
    BY <2>1 DEF MeantInv, Purposeful
  <2>3. QED
    BY <2>1, <2>2
<1>2. ToolSpec => []MeantInv
  BY MeantInit, MeantStep, ToolSound, PTL DEF ToolSpec
<1>3. QED
  BY <1>1, <1>2, ToolSound, PTL DEF ToolSpec, EndpointMeant

\* The tools use the manager and its runtimes as DirectRuntime says they are
\* used: its theorems hold of the server as a whole.
LEMMA ToolsUseManager == ToolSpec => Spec
<1>1. ToolInit => Init
  BY DEF ToolInit
<1>2. RuntimeInv /\ ToolInv /\ [ToolNext]_allVars => [Next]_vars
  BY ToolInvNext
<1>3. QED
  BY <1>1, <1>2, ToolSound, PTL DEF ToolSpec, Spec

-----------------------------------------------------------------------------
(* What code runs on.                                                      *)

\* A call that decides where its code runs has the event loop since its own
\* connect returned, so the manager is still at the VM it has selected.
Chosen(c) ==
    /\ pc[c] = "selecting" => call[c].at = "connecting"
    /\ call[c].at \in {"deciding", "unassigning", "assigning"} => busy = c
    /\ call[c].at = "deciding" /\ call[c].seen # NoList =>
          endpoint \in Targets /\ Meant(c, endpoint)
    /\ call[c].at = "running" /\ call[c].seen # NoList => Meant(c, call[c].vm)

CodeInv == \A c \in Callers : Chosen(c)

\* No call has begun at first.
LEMMA CodeInit == ToolInit => CodeInv
BY DEF ToolInit, Init, CodeInv, Chosen, Over, Answers

\* A step of one call changes nothing for another one that has the loop.
LEMMA ChosenKept ==
    ASSUME CodeInv, NEW c \in Callers,
           \A d \in Callers \ {c} : pc'[d] = pc[d] /\ call'[d] = call[d],
           UNCHANGED <<busy, endpoint>> \/ busy \in {c, Nobody}, Chosen(c)'
    PROVE  CodeInv'
<1> SUFFICES ASSUME NEW d \in Callers \ {c} PROVE Chosen(d)'
  BY DEF CodeInv
<1>1. Chosen(d) /\ pc'[d] = pc[d] /\ call'[d] = call[d]
  BY DEF CodeInv
<1>2. UNCHANGED <<busy, endpoint>> \/ call[d].at \notin {"deciding", "unassigning", "assigning"}
  BY <1>1, NobodyAssumption DEF Chosen
<1> QED
  BY <1>1, <1>2 DEF Chosen, Meant

\* A call that is over, or awaits something other than a list.
LEMMA AwaitingChosen ==
    ASSUME NEW c \in Callers, pc'[c] # "selecting",
           call'[c].at \in Answers \cup {"forwarded", "listing", "attaching", "connecting"}
    PROVE  Chosen(c)'
BY DEF Chosen, Answers

\* The beginning of a call.
LEMMA AskCode ==
    ASSUME RuntimeInv, ToolInv, CodeInv, NEW c \in Callers, NEW k \in Calls[c],
           Ask(c, k) \/ AskChange(c, k)
    PROVE  CodeInv'
<1> USE DEF ToolInv, ToolTypeOK
<1>1. busy = Nobody /\ pc[c] # "selecting"
  BY DEF Ask, AskChange, CodeInv, Chosen, Answers
<1>2. ASSUME NEW place, Begins(c, k, place)
      PROVE  OthersCalls(c) /\ call'[c].at = place /\ call'[c].seen = NoList
  BY <1>2 DEF Begins, New, OthersCalls
<1>3. CASE Connect(c) /\ Begins(c, k, "connecting")
  <2>1. \A d \in Callers \ {c} : pc'[d] = pc[d]
    BY <1>3 DEF Connect, Go, RuntimeInv, Shape
  <2>2. Chosen(c)'
    BY <1>2, <1>3 DEF Chosen
  <2> QED
    BY <1>1, <1>2, <1>3, <2>1, <2>2, ChosenKept DEF OthersCalls
<1>4. CASE Begins(c, k, "deciding") /\ busy' = c /\ UNCHANGED vars
  <2>1. Chosen(c)'
    BY <1>1, <1>2, <1>4 DEF Chosen, vars
  <2> QED
    BY <1>1, <1>2, <1>4, <2>1, ChosenKept DEF OthersCalls, vars
<1>5. CASE To(c, "answered") /\ UNCHANGED vars
  <2>1. OthersCalls(c) /\ call'[c].at = "answered"
    BY <1>5, ToMoves DEF Answers
  <2> QED
    BY <1>1, <1>5, <2>1, AwaitingChosen, ChosenKept DEF OthersCalls, vars, Answers
<1>6. CASE AskChange(c, k)
  <2>1. PICK place \in {"unassigning", "assigning"} :
           call' = [call EXCEPT ![c] = [New(k, place) EXCEPT !.seen =
                       IF place = "unassigning" THEN account ELSE {}]]
    BY <1>6 DEF AskChange
  <2>2. OthersCalls(c) /\ call'[c].at = place
    BY <2>1 DEF OthersCalls, New
  <2>3. Chosen(c)'
    BY <1>1, <1>6, <2>2 DEF AskChange, Chosen, vars
  <2> QED
    BY <1>1, <1>6, <2>2, <2>3, ChosenKept DEF AskChange, OthersCalls, vars
<1> QED
  BY <1>3, <1>4, <1>5, <1>6 DEF Ask

\* The end of connect: the manager is at the VM selected, or the call is over.
LEMMA ConnectingCode ==
    ASSUME RuntimeInv, ToolInv, MeantInv, CodeInv, NEW c \in Callers, Connecting(c)
    PROVE  CodeInv'
<1> USE DEF ToolInv, ToolTypeOK
<1>1. busy = Nobody /\ call[c].at = "connecting"
  BY DEF Connecting
<1>2. ASSUME \A d \in Callers \ {c} : pc'[d] = pc[d], NEW ok, AfterConnect(c, ok),
             ok /\ pc'[c] = "idle" => endpoint' \in Targets /\ Meant(c, endpoint')
      PROVE  CodeInv'
  <2>1. CASE UNCHANGED <<call, busy>>
    BY <1>1, <1>2, <2>1, ChosenKept DEF Chosen
  <2>2. CASE Hold(c, "deciding") /\ ok /\ pc'[c] = "idle"
    <3>1. /\ OthersCalls(c) /\ call'[c].at = "deciding" /\ call'[c].asked = call[c].asked
          /\ call'[c].seen = call[c].seen /\ call'[c].vm = call[c].vm /\ busy' = c
      BY <2>2, ToMoves DEF Hold, Places, Answers
    <3>2. Chosen(c)'
      BY <1>2, <2>2, <3>1 DEF Chosen, Meant
    <3> QED
      BY <1>1, <1>2, <3>1, <3>2, ChosenKept DEF OthersCalls
  <2>3. CASE To(c, "answered") /\ pc'[c] = "idle"
    <3>1. OthersCalls(c) /\ call'[c].at = "answered"
      BY <2>3, ToMoves DEF Answers
    <3> QED
      BY <1>1, <1>2, <2>3, <3>1, AwaitingChosen, ChosenKept DEF OthersCalls, Answers
  <2> QED
    BY <1>2, <2>1, <2>2, <2>3 DEF AfterConnect
<1>3. ASSUME NEW t \in Choice(c) PROVE t \in Targets /\ Meant(c, t)
  BY <1>1, <1>3, RecordParts DEF Choice, Meant, MeantInv, Purposeful
<1>4. CASE SelectFails(c) /\ AfterConnect(c, FALSE)
  BY <1>2, <1>4 DEF SelectFails, Done, Go, RuntimeInv, Shape
<1>5. ASSUME NEW t \in Choice(c), Selected(c, t), AfterConnect(c, endpoint' = t)
      PROVE  CodeInv'
  BY <1>2, <1>3, <1>5, ChangeGoes
<1>6. CASE Closed(c) /\ AfterConnect(c, FALSE)
  BY <1>2, <1>6, ChangeGoes
<1>7. ASSUME NEW ok \in BOOLEAN, Built(c, ok), AfterConnect(c, ok) PROVE CodeInv'
  <2>1. ok => endpoint' = want[c] /\ want[c] \in Targets /\ Meant(c, want[c])
    BY <1>7 DEF Built, RuntimeInv, BuildsOwn, MeantInv, Purposeful
  <2> QED
    BY <1>2, <1>7, <2>1, ChangeGoes
<1> QED
  BY <1>4, <1>5, <1>6, <1>7 DEF Connecting

\* Code is accepted for the VM the manager is at.
LEMMA DecideCode ==
    ASSUME RuntimeInv, ToolInv, CodeInv, NEW c \in Callers, Decide(c)
    PROVE  CodeInv'
<1> USE DEF ToolInv, ToolTypeOK
<1>1. /\ call[c].at = "deciding" /\ busy = c
      /\ pc[c] # "selecting"
      /\ call[c].seen # NoList => Meant(c, endpoint)
  BY DEF Decide, CodeInv, Chosen
<1>2. CASE Capture(c) /\
           call' = [call EXCEPT ![c].at = "running", ![c].vm = target[runtime]]
  <2>1. (\A d \in Callers \ {c} : pc'[d] = pc[d]) /\ pc'[c] = "captured"
    BY <1>2 DEF Capture, Go, RuntimeInv, Shape
  <2>2. OthersCalls(c) /\ endpoint = target[runtime]
    BY <1>2 DEF OthersCalls, Capture, RuntimeInv, EndpointOfRuntime
  <2>3. /\ call'[c].at = "running" /\ call'[c].asked = call[c].asked
        /\ call'[c].seen = call[c].seen /\ call'[c].vm = endpoint
    BY <1>2, <2>2 DEF CallRecords
  <2>4. Chosen(c)'
    BY <1>1, <2>1, <2>3 DEF Chosen, Meant
  <2> QED
    BY <1>1, <2>1, <2>2, <2>4, ChosenKept DEF OthersCalls
<1>3. CASE Yield(c, Answer(c)) /\ UNCHANGED vars
  <2>1. Answer(c) \in Answers \cup {"forwarded"}
    BY DEF Answer, Answers
  <2>2. OthersCalls(c) /\ call'[c].at \in Answers \cup {"forwarded"}
    BY <1>3, <2>1, ToMoves DEF Yield, Places
  <2> QED
    BY <1>1, <1>3, <2>2, AwaitingChosen, ChosenKept DEF OthersCalls, vars
<1> QED
  BY <1>2, <1>3 DEF Decide

\* Lists, executions and forwarded calls.
LEMMA AwaitCode ==
    ASSUME RuntimeInv, ToolInv, CodeInv, NEW c \in Callers,
           List(c) \/ Running(c) \/ Forwarded(c)
    PROVE  CodeInv'
<1> USE DEF ToolInv, ToolTypeOK
<1>1. CASE List(c)
  <2>1. /\ OthersCalls(c) /\ UNCHANGED <<vars, busy>>
        /\ call'[c].at = call[c].at /\ call[c].at \in {"connecting", "listing"}
    BY <1>1 DEF List, CallRecords, OthersCalls, CodeInv, Chosen
  <2>2. Chosen(c)'
    BY <2>1 DEF CodeInv, Chosen, vars
  <2> QED
    BY <2>1, <2>2, ChosenKept DEF OthersCalls, vars
<1>2. CASE Running(c)
  <2>1. /\ \A d \in Callers \ {c} : pc'[d] = pc[d]
        /\ pc'[c] # "selecting" /\ UNCHANGED <<busy, endpoint>>
    BY <1>2, ExecuteGoes DEF Running, Runs
  <2>2. CASE UNCHANGED call
    <3>1. Chosen(c)'
      BY <1>2, <2>1, <2>2 DEF Running, CodeInv, Chosen, Meant
    <3> QED
      BY <2>1, <2>2, <3>1, ChosenKept
  <2>3. CASE To(c, "answered")
    <3>1. OthersCalls(c) /\ call'[c].at = "answered"
      BY <2>3, ToMoves DEF Answers
    <3> QED
      BY <2>1, <3>1, AwaitingChosen, ChosenKept DEF OthersCalls, Answers
  <2> QED
    BY <1>2, <2>2, <2>3 DEF Running
<1>3. CASE Forwarded(c)
  <2>1. OthersCalls(c) /\ call'[c].at = "answered"
    BY <1>3, ToMoves DEF Forwarded, Answers
  <2>2. pc'[c] # "selecting"
    BY <1>3 DEF Forwarded, CodeInv, Chosen, vars
  <2> QED
    BY <1>3, <2>1, <2>2, AwaitingChosen, ChosenKept
    DEF Forwarded, OthersCalls, Answers, vars
<1> QED
  BY <1>1, <1>2, <1>3

\* The requests of change_runtime, which has the loop meanwhile.
LEMMA ChangeCode ==
    ASSUME RuntimeInv, ToolInv, CodeInv, NEW c \in Callers,
           (\E v \in Targets : Unassign(c, v)) \/ Assign(c)
    PROVE  CodeInv'
<1> USE DEF ToolInv, ToolTypeOK
<1>1. UNCHANGED vars /\ busy = c /\ pc[c] # "selecting"
  BY DEF Unassign, Assign, MayHave, CodeInv, Chosen
<1>2. ASSUME OthersCalls(c), \/ call'[c].at \in Answers \cup {"listing"}
                             \/ call'[c].at \in {"unassigning", "assigning"} /\ busy' = c
      PROVE  CodeInv'
  <2>1. Chosen(c)'
    BY <1>1, <1>2 DEF Chosen, Answers, vars
  <2> QED
    BY <1>1, <1>2, <2>1, ChosenKept DEF OthersCalls, vars
<1>3. ASSUME NEW v \in Targets, Unassign(c, v) PROVE CodeInv'
  <2>1. CASE call' = [call EXCEPT ![c].seen = @ \ {v}]
    BY <1>1, <1>2, <1>3, <2>1 DEF Unassign, MayHave, CallRecords, OthersCalls
  <2>2. CASE To(c, "assigning")
    BY <1>1, <1>2, <1>3, <2>2, ToMoves DEF Unassign, MayHave, Answers, Places
  <2> QED
    BY <1>3, <2>1, <2>2 DEF Unassign, MayHave
<1>4. CASE Assign(c)
  <2>1. ASSUME NEW v, call' = [call EXCEPT ![c] = [New(@.asked, "listing") EXCEPT !.vm = v]]
        PROVE  CodeInv'
    BY <1>2, <2>1 DEF New, OthersCalls
  <2>2. ASSUME To(c, "answered") PROVE CodeInv'
    BY <1>2, <2>2, ToMoves DEF Answers
  <2> QED
    BY <1>4, <2>1, <2>2 DEF Assign, MayHave, Yield
<1> QED
  BY <1>3, <1>4

\* The end of change_runtime.
LEMMA AttachingCode ==
    ASSUME RuntimeInv, ToolInv, CodeInv, NEW c \in Callers, Attaching(c)
    PROVE  CodeInv'
<1> USE DEF ToolInv, ToolTypeOK
<1>1. busy = Nobody /\ pc[c] # "selecting"
  BY DEF Attaching, CodeInv, Chosen
<1>2. (\A d \in Callers \ {c} : pc'[d] = pc[d]) /\ pc'[c] # "selecting"
  <2>1. CASE Attach(c, call[c].vm) \/ Closed(c)
    BY <2>1, RetireGoes DEF Attach, Closed
  <2>2. ASSUME NEW ok \in BOOLEAN, Built(c, ok)
        PROVE  (\A d \in Callers \ {c} : pc'[d] = pc[d]) /\ pc'[c] # "selecting"
    BY <2>2 DEF Built, Done, Go, RuntimeInv, Shape
  <2> QED
    BY <1>1, <2>1, <2>2 DEF Attaching, vars
<1>3. \E place \in {"answered", "attaching"} : To(c, place)
  BY DEF Attaching
<1>4. OthersCalls(c) /\ call'[c].at \in {"answered", "attaching"}
  BY <1>3, ToMoves DEF Answers, Places
<1> QED
  BY <1>1, <1>2, <1>4, AwaitingChosen, ChosenKept DEF OthersCalls, Answers

\* CodeInv is inductive with the others.
LEMMA CodeStep ==
    RuntimeInv /\ ToolInv /\ MeantInv /\ CodeInv /\ [ToolNext]_allVars => CodeInv'
<1> SUFFICES ASSUME RuntimeInv, ToolInv, MeantInv, CodeInv, [ToolNext]_allVars
             PROVE  CodeInv'
  OBVIOUS
<1>1. CASE UNCHANGED <<pc, call, busy, endpoint>>
  BY <1>1 DEF CodeInv, Chosen, Meant
<1>2. UNCHANGED <<pc, call, busy, endpoint>>
      \/ \E c \in Callers : ToolStep(c) \/ \E k \in Calls[c] : Ask(c, k) \/ AskChange(c, k)
  BY DEF ToolNext, Elsewhere, TabChanges, ConnectionLost, ClientDies, allVars, toolVars,
     vars
<1> QED
  BY <1>1, <1>2, AskCode, ConnectingCode, DecideCode, AwaitCode, ChangeCode,
     AttachingCode DEF ToolStep

\* Code whose call has connected runs on a VM that this call has selected from
\* its own list, whatever other calls bring the manager to while it awaits the
\* list, the close and the build.
THEOREM CodeCorrect == ToolSpec => []CodeMeant
<1>1. CodeInv => CodeMeant
  BY DEF CodeInv, Chosen, CodeMeant
<1>2. QED
  BY <1>1, CodeInit, CodeStep, MeantInit, MeantStep, ToolSound, PTL DEF ToolSpec

\* Code that was accepted for a VM never runs on another one.
THEOREM AcceptedCorrect == ToolSpec => []RunsWhereAccepted
<1>1. ToolInv => RunsWhereAccepted
  BY DEF ToolInv, AcceptedInv, RunsWhereAccepted, Using
<1>2. QED
  BY <1>1, ToolSound, PTL

\* Every variable of the tool calls keeps its type.
THEOREM ToolTypes == ToolSpec => []ToolTypeOK
<1>1. ToolInv => ToolTypeOK
  BY DEF ToolInv
<1>2. QED
  BY <1>1, ToolSound, PTL

\* Whatever tools clients call at once, a kernel client serves one execution
\* at a time, and the manager's endpoint is that of its runtime.
THEOREM ToolsExclusive == ToolSpec => []ClientExclusive /\ []EndpointOfRuntime
BY ToolsUseManager, ClientsExclusive, EndpointCorrect, PTL
=============================================================================
