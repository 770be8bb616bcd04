----------------------- MODULE ExecutionRegistry_proofs -----------------------
(***************************************************************************)
(* Theorems about ExecutionRegistry, for any executions, pollers and       *)
(* bounds.                                                                 *)
(***************************************************************************)
EXTENDS ExecutionRegistry, FiniteSetTheorems, WellFoundedInduction, TLAPS

-----------------------------------------------------------------------------
(* Facts about the operators.                                              *)

\* A nonempty set of naturals has a smallest element.
LEMMA SmallestNat ==
    ASSUME NEW T \in SUBSET Nat, T # {}
    PROVE  \E m \in T : \A n \in T : m <= n
<1>1. \E m \in T : \A n \in T : <<n, m>> \notin OpToRel(<, Nat)
  BY NatLessThanWellFounded, WFMin
<1>2. PICK m \in T : \A n \in T : <<n, m>> \notin OpToRel(<, Nat)
  BY <1>1
<1>3. \A n \in T : ~(n < m)
  BY <1>2 DEF OpToRel
<1> QED
  BY <1>3

\* The entries _prune leaves are entries it was given.
LEMMA PruneSubset ==
    ASSUME NEW S
    PROVE  Prune(S) \subseteq S
BY DEF Prune

\* Retaining keeps a sequence of event ids one.
LEMMA RetainType ==
    ASSUME NEW s \in Seq(Nat)
    PROVE  Retain(s) \in Seq(Nat)
<1>1. CASE Len(s) > MaxRetained
  <2>1. /\ Len(s) - MaxRetained + 1 \in 1 .. Len(s)
        /\ Len(s) \in 1 .. Len(s)
    BY <1>1, RetainedAssumption
  <2> QED
    BY <1>1, <2>1 DEF Retain
<1>2. CASE ~(Len(s) > MaxRetained)
  BY <1>2 DEF Retain
<1> QED
  BY <1>1, <1>2

\* The largest event_id of a reply is one of its ids.
LEMMA NewestInterval ==
    ASSUME NEW S, NEW m \in S, \A n \in S : n <= m, S \subseteq Nat
    PROVE  Newest(S) = m
<1>1. Newest(S) \in S /\ \A n \in S : n <= Newest(S)
  BY DEF Newest
<1>2. Newest(S) \in Nat /\ m \in Nat
  BY <1>1
<1>3. Newest(S) <= m /\ m <= Newest(S)
  BY <1>1
<1> QED
  BY <1>2, <1>3

-----------------------------------------------------------------------------
(* Type correctness.                                                       *)

\* The new events of a poller are event ids.
LEMMA NewEventsType ==
    ASSUME TypeOK, NEW e \in Execs, NEW c \in Nat
    PROVE  NewEvents(e, c) \subseteq Nat
<1>1. events[e] \in Seq(Nat)
  BY DEF TypeOK
<1>2. \A i \in 1 .. Len(events[e]) : events[e][i] \in Nat
  BY <1>1
<1> QED
  BY <1>2 DEF NewEvents, Retained

\* So is what a poller reads under the lock.
LEMMA SnapshotType ==
    ASSUME TypeOK, NEW p \in Pollers, NEW e \in Execs, Snapshot(p, e)
    PROVE  snap' \in [Pollers -> [new : SUBSET Nat, oldest : Nat]]
<1>1. events[e] \in Seq(Nat) /\ cursor[p] \in Nat
  BY DEF TypeOK
<1>2. NewEvents(e, cursor[p]) \in SUBSET Nat
  BY <1>1, NewEventsType
<1>3. (IF events[e] = <<>> THEN 0 ELSE events[e][1]) \in Nat
  BY <1>1
<1> QED
  BY <1>2, <1>3 DEF TypeOK, Snapshot

\* What a reply leaves in the poller's variables.
LEMMA ReplyType ==
    ASSUME TypeOK, NEW p \in Pollers, target[p] \in Execs,
           NEW new \in SUBSET Nat, NEW lost \in SUBSET Nat,
           new = {} \/ Newest(new) \in Nat, Reply(p, new, lost)
    PROVE  TypeOK'
<1>1. nextId[target[p]] - 1 \in Nat
  BY DEF TypeOK
<1>2. cursor' \in [Pollers -> Nat]
  BY <1>1 DEF TypeOK, Reply
<1>3. /\ got' \in [Pollers -> SUBSET Nat]
      /\ missed' \in [Pollers -> SUBSET Nat]
      /\ phase' \in [Pollers -> Phases]
      /\ replied' \in [Pollers -> {"none", "open", "done", "unknown"}]
  BY DEF TypeOK, Reply, Phases
<1>4. snap' \in [Pollers -> [new : SUBSET Nat, oldest : Nat]]
  BY DEF TypeOK, Reply, NoSnap
<1> QED
  BY <1>2, <1>3, <1>4 DEF TypeOK, Reply, execVars, outVars

\* Appending an event keeps the types.
LEMMA AppendType ==
    ASSUME TypeOK, NEW e \in Execs, AppendEvent(e)
    PROVE  /\ events' \in [Execs -> Seq(Nat)]
           /\ nextId' \in [Execs -> Nat \ {0}]
<1>1. Append(events[e], nextId[e]) \in Seq(Nat)
  BY DEF TypeOK
<1>2. Retain(Append(events[e], nextId[e])) \in Seq(Nat)
  BY <1>1, RetainType
<1> QED
  BY <1>2 DEF TypeOK, AppendEvent

\* So does the end of a task.
LEMMA FinishType ==
    ASSUME TypeOK, NEW e \in Execs, NEW st \in Statuses, Finish(e, st)
    PROVE  /\ status' \in [Execs -> Statuses]
           /\ finishedAt' \in [Execs -> Nat \cup {NotFinished}]
           /\ task' \in [Execs -> Tasks]
           /\ phase' \in [Pollers -> Phases]
<1>1. phase' \in [Pollers -> Phases]
  BY DEF TypeOK, Finish, Wake, Phases
<1> QED
  BY <1>1 DEF TypeOK, Finish, Tasks

\* A poller inside a call follows an execution.
Following == \A p \in Pollers : phase[p] # "idle" => target[p] \in Execs

\* The window of retained events a deciding poller has read: its newest and
\* oldest ids, and that older events were dropped only from a full buffer.
WindowRead(p, hi) ==
    /\ snap[p].new = {id \in snap[p].oldest .. hi : id > cursor[p]}
    /\ snap[p].oldest <= hi
    /\ hi < nextId[target[p]]
    /\ snap[p].oldest > 1 => snap[p].oldest + MaxRetained <= nextId[target[p]]

SnapshotRead ==
    \A p \in Pollers : phase[p] = "decide" => \E hi \in Nat : WindowRead(p, hi)

OutputInv == TypeOK /\ Following /\ RetainedWindow /\ SnapshotRead

\* The invariant holds at first.
LEMMA OutputInit == Init => OutputInv
<1> SUFFICES ASSUME Init PROVE OutputInv
  OBVIOUS
<1>1. TypeOK
  BY DEF Init, TypeOK, Statuses, Tasks, Runners, Phases, NoSnap, NotFinished
<1>2. Following /\ SnapshotRead
  BY DEF Init, Following, SnapshotRead
<1>3. RetainedWindow
  BY RetainedAssumption DEF Init, RetainedWindow
<1> QED
  BY <1>1, <1>2, <1>3 DEF OutputInv

\* The newest of the events a poller has read is the last of the window.
LEMMA NewestRead ==
    ASSUME OutputInv, NEW p \in Pollers, NEW hi \in Nat, WindowRead(p, hi),
           snap[p].new # {}
    PROVE  /\ hi \in snap[p].new
           /\ Newest(snap[p].new) = hi
<1>1. cursor[p] \in Nat /\ snap[p].oldest \in Nat
  BY DEF OutputInv, TypeOK
<1>2. hi \in snap[p].new /\ \A n \in snap[p].new : n <= hi
  BY <1>1 DEF WindowRead
<1>3. snap[p].new \subseteq Nat
  BY DEF OutputInv, TypeOK
<1> QED
  BY <1>2, <1>3, NewestInterval

\* Every step keeps the types.
LEMMA TypeStep == OutputInv /\ [Next]_vars => TypeOK'
<1> SUFFICES ASSUME OutputInv, [Next]_vars PROVE TypeOK'
  OBVIOUS
<1> USE DEF OutputInv
<1>0. CASE UNCHANGED vars
  BY <1>0 DEF TypeOK, vars, execVars, outVars, pollVars
<1>1. ASSUME NEW e \in Execs, Start(e) PROVE TypeOK'
  <2> DEFINE live == Prune(entries)
             room == live \ Victims(live)
  <2>1. entries' = Prune(room \cup {e})
    BY <1>1 DEF Start
  <2>2. live \subseteq Execs /\ Prune(room \cup {e}) \subseteq room \cup {e}
    BY PruneSubset DEF TypeOK
  <2>3. entries' \subseteq Execs
    BY <2>1, <2>2
  <2>4. /\ starts' = starts + 1
        /\ born' = [born EXCEPT ![e] = starts]
        /\ task' = [task EXCEPT ![e] = "created"]
        /\ UNCHANGED <<now, closed, status, finishedAt, runner, outVars, pollVars>>
    BY <1>1 DEF Start
  <2> HIDE DEF live, room
  <2> QED
    BY <2>3, <2>4 DEF TypeOK, Tasks, outVars, pollVars
<1>2. CASE StartRefused \/ Inspect
  BY <1>2, PruneSubset DEF StartRefused, Inspect, TypeOK, outVars, pollVars
<1>3. ASSUME NEW e \in Execs, FirstStep(e) \/ NeverRan(e) PROVE TypeOK'
  BY <1>3 DEF FirstStep, NeverRan, TypeOK, Tasks, Runners, outVars, pollVars
<1>4. ASSUME NEW e \in Execs, RunFinish(e) \/ Stopped(e) PROVE TypeOK'
  <2>1. PICK st \in Statuses : Finish(e, st)
    BY <1>4 DEF RunFinish, Stopped, Statuses
  <2> QED
    BY <1>4, <2>1, FinishType DEF RunFinish, Stopped, TypeOK
<1>5. ASSUME NEW e \in Execs, ConnectFails(e) \/ BrowserFails(e) PROVE TypeOK'
  <2>1. Finish(e, "failed") /\ "failed" \in Statuses
    BY <1>5 DEF ConnectFails, BrowserFails, Statuses
  <2>2. runner' \in [Execs -> Runners]
    BY <1>5 DEF ConnectFails, BrowserFails, TypeOK, Runners
  <2> QED
    BY <1>5, <2>1, <2>2, FinishType DEF ConnectFails, BrowserFails, TypeOK
<1>6. ASSUME NEW e \in Execs, BrowserAnswer(e) PROVE TypeOK'
  <2>1. Finish(e, "completed") /\ "completed" \in Statuses
    BY <1>6 DEF BrowserAnswer, Statuses
  <2>2. runner' \in [Execs -> Runners]
    BY <1>6 DEF BrowserAnswer, TypeOK, Runners
  <2>3. events' \in [Execs -> Seq(Nat)] /\ nextId' \in [Execs -> Nat \ {0}]
    BY <1>6, AppendType DEF BrowserAnswer, TypeOK
  <2> QED
    BY <1>6, <2>1, <2>2, <2>3, FinishType DEF BrowserAnswer, TypeOK
<1>7. ASSUME NEW e \in Execs, ThreadBegins(e) \/ Lookup(e) \/ ThreadEnds(e)
      PROVE TypeOK'
  BY <1>7 DEF ThreadBegins, Lookup, ThreadEnds, TypeOK, Runners, outVars, pollVars
<1>8. ASSUME NEW e \in Execs, AppendOutput(e) PROVE TypeOK'
  <2>1. events' \in [Execs -> Seq(Nat)] /\ nextId' \in [Execs -> Nat \ {0}]
    BY <1>8, AppendType DEF AppendOutput
  <2> QED
    BY <1>8, <2>1 DEF AppendOutput, TypeOK, Runners, pollVars
<1>9. ASSUME NEW e \in Execs, ScheduleSet(e) PROVE TypeOK'
  BY <1>9 DEF ScheduleSet, TypeOK, Runners, pollVars
<1>10. ASSUME NEW e \in Execs, RunSet(e) PROVE TypeOK'
  <2>1. phase' \in [Pollers -> Phases] /\ setCalls' \in [Execs -> Nat]
    BY <1>10 DEF RunSet, Wake, TypeOK, Phases
  <2> QED
    BY <1>10, <2>1 DEF RunSet, TypeOK, execVars
<1>11. ASSUME NEW p \in Pollers, NEW e \in Execs, PollBegin(p, e) PROVE TypeOK'
  <2>1. /\ entries' \subseteq Execs
        /\ target' \in [Pollers -> Execs \cup {NoExec}]
    BY <1>11, PruneSubset DEF PollBegin, TypeOK
  <2>2. /\ phase' \in [Pollers -> Phases]
        /\ longPoll' \in [Pollers -> BOOLEAN]
        /\ replied' \in [Pollers -> {"none", "open", "done", "unknown"}]
    BY <1>11 DEF PollBegin, TypeOK, Phases
  <2>3. snap' \in [Pollers -> [new : SUBSET Nat, oldest : Nat]]
    BY <1>11, SnapshotType DEF PollBegin, TypeOK
  <2> QED
    BY <1>11, <2>1, <2>2, <2>3 DEF PollBegin, TypeOK, outVars
<1>12. ASSUME NEW p \in Pollers, PollAgain(p) PROVE TypeOK'
  <2>1. target[p] \in Execs
    BY <1>12 DEF PollAgain, Following
  <2>2. snap' \in [Pollers -> [new : SUBSET Nat, oldest : Nat]]
    BY <1>12, <2>1, SnapshotType DEF PollAgain
  <2> QED
    BY <1>12, <2>2 DEF PollAgain, TypeOK, Phases, execVars, outVars
<1>13. ASSUME NEW p \in Pollers, Answer(p) PROVE TypeOK'
  <2> DEFINE lost == (cursor[p] + 1) .. (snap[p].oldest - 1)
  <2>1. target[p] \in Execs
    BY <1>13 DEF Answer, Following
  <2>2. snap[p].new \in SUBSET Nat /\ lost \in SUBSET Nat
    BY DEF TypeOK
  <2>3. PICK hi \in Nat : WindowRead(p, hi)
    BY <1>13 DEF Answer, SnapshotRead
  <2>4. snap[p].new = {} \/ Newest(snap[p].new) \in Nat
    BY <2>3, NewestRead
  <2>5. Reply(p, snap[p].new, lost)
    BY <1>13 DEF Answer
  <2> QED
    BY <2>1, <2>2, <2>4, <2>5, ReplyType
<1>14. ASSUME NEW p \in Pollers, DeadlinePassed(p) \/ TimedOut(p) PROVE TypeOK'
  <2>1. target[p] \in Execs
    BY <1>14 DEF DeadlinePassed, TimedOut, Following
  <2>2. Reply(p, {}, {})
    BY <1>14 DEF DeadlinePassed, TimedOut
  <2> QED
    BY <2>1, <2>2, ReplyType
<1>15. ASSUME NEW p \in Pollers, ClearAndWait(p) PROVE TypeOK'
  BY <1>15 DEF ClearAndWait, TypeOK, Phases, NoSnap, execVars, outVars
<1>16. ASSUME NEW p \in Pollers, TimerFires(p) PROVE TypeOK'
  BY <1>16 DEF TimerFires, TypeOK, Phases, execVars, outVars
<1>17. CASE CloseBegin
  BY <1>17 DEF CloseBegin, TypeOK, Tasks, outVars, pollVars
<1>18. CASE CloseEnd
  BY <1>18 DEF CloseEnd, TypeOK, outVars, pollVars
<1>19. CASE Tick
  BY <1>19 DEF Tick, TypeOK, execVars, outVars, pollVars
<1> QED
  BY <1>0, <1>1, <1>2, <1>3, <1>4, <1>5, <1>6, <1>7, <1>8, <1>9, <1>10, <1>11,
     <1>12, <1>13, <1>14, <1>15, <1>16, <1>17, <1>18, <1>19
     DEF Next, TaskStep, ThreadStep, PollStep

-----------------------------------------------------------------------------
(* The retained window and what a poller reads of it.                      *)

\* What a step that is not a poller's own does to the pollers and the outputs.
PollersQuiet ==
    /\ UNCHANGED <<target, longPoll, cursor, snap, got, missed, replied>>
    /\ UNCHANGED phase \/ \E e \in Execs : Wake(e)

OutputsGrow ==
    UNCHANGED <<events, nextId>> \/ \E e \in Execs : AppendEvent(e)

\* How a step may change the events, the cursors and what pollers have read.
LEMMA StepShape ==
    ASSUME [Next]_vars
    PROVE  \/ PollersQuiet /\ OutputsGrow
           \/ /\ UNCHANGED outVars
              /\ \E p \in Pollers :
                    \/ \E e \in Execs : PollBegin(p, e)
                    \/ PollStep(p)
                    \/ TimerFires(p)
<1> USE DEF PollersQuiet, OutputsGrow
<1>1. CASE UNCHANGED vars
  BY <1>1 DEF vars, outVars, pollVars
<1>2. ASSUME NEW e \in Execs, Start(e) PROVE PollersQuiet /\ OutputsGrow
  BY <1>2 DEF Start, outVars, pollVars
<1>3. ASSUME NEW e \in Execs, TaskStep(e) PROVE PollersQuiet /\ OutputsGrow
  <2>1. CASE FirstStep(e) \/ NeverRan(e)
    BY <2>1 DEF FirstStep, NeverRan, outVars, pollVars
  <2>2. CASE RunFinish(e) \/ ConnectFails(e) \/ BrowserFails(e) \/ Stopped(e)
    BY <2>2 DEF RunFinish, ConnectFails, BrowserFails, Stopped, Finish
  <2>3. CASE BrowserAnswer(e)
    BY <2>3 DEF BrowserAnswer, Finish
  <2> QED
    BY <1>3, <2>1, <2>2, <2>3 DEF TaskStep
<1>4. ASSUME NEW e \in Execs, ThreadStep(e) PROVE PollersQuiet /\ OutputsGrow
  BY <1>4 DEF ThreadStep, ThreadBegins, Lookup, AppendOutput, ScheduleSet,
     ThreadEnds, outVars, pollVars
<1>5. ASSUME NEW e \in Execs, RunSet(e) PROVE PollersQuiet /\ OutputsGrow
  BY <1>5 DEF RunSet
<1>6. CASE StartRefused \/ Inspect \/ CloseBegin \/ CloseEnd \/ Tick
  BY <1>6 DEF StartRefused, Inspect, CloseBegin, CloseEnd, Tick, outVars, pollVars
<1>7. ASSUME NEW p \in Pollers, NEW e \in Execs, PollBegin(p, e)
      PROVE UNCHANGED outVars
  BY <1>7 DEF PollBegin
<1>8. ASSUME NEW p \in Pollers, PollStep(p) \/ TimerFires(p)
      PROVE UNCHANGED outVars
  BY <1>8 DEF PollStep, TimerFires, PollAgain, Answer, DeadlinePassed,
     ClearAndWait, TimedOut, Reply
<1> QED
  BY <1>1, <1>2, <1>3, <1>4, <1>5, <1>6, <1>7, <1>8 DEF Next

\* A poller inside get_events goes on following its execution.
LEMMA FollowingStep == OutputInv /\ [Next]_vars => Following'
<1> SUFFICES ASSUME OutputInv, [Next]_vars, NEW q \in Pollers, phase'[q] # "idle"
             PROVE  target'[q] \in Execs
  BY DEF Following
<1> USE DEF OutputInv
<1>1. CASE PollersQuiet
  BY <1>1 DEF PollersQuiet, Wake, Following
<1>2. ASSUME NEW p \in Pollers, NEW e \in Execs, PollBegin(p, e)
      PROVE target'[q] \in Execs
  BY <1>2 DEF PollBegin, TypeOK, Following
<1>3. ASSUME NEW p \in Pollers, PollStep(p) \/ TimerFires(p)
      PROVE target'[q] \in Execs
  BY <1>3 DEF PollStep, TimerFires, PollAgain, Answer, DeadlinePassed,
     ClearAndWait, TimedOut, Reply, TypeOK, Following
<1> QED
  BY <1>1, <1>2, <1>3, StepShape

\* Appending the id n to the retained ids that end with n - 1.
LEMMA AppendIds ==
    ASSUME NEW s \in Seq(Nat), NEW n \in Nat,
           \A i \in 1 .. Len(s) : s[i] = n - Len(s) + i - 1
    PROVE  /\ Append(s, n) \in Seq(Nat)
           /\ Len(Append(s, n)) = Len(s) + 1
           /\ \A i \in 1 .. Len(s) + 1 : Append(s, n)[i] = n - Len(s) + i - 1
<1>1. /\ Append(s, n) \in Seq(Nat)
      /\ Len(s) \in Nat
      /\ Len(Append(s, n)) = Len(s) + 1
  OBVIOUS
<1>2. ASSUME NEW i \in 1 .. Len(s) + 1
      PROVE  Append(s, n)[i] = n - Len(s) + i - 1
  <2>1. CASE i = Len(s) + 1
    <3>1. Append(s, n)[Len(s) + 1] = n
      BY <1>1
    <3> QED
      BY <1>1, <2>1, <3>1
  <2>2. CASE i # Len(s) + 1
    <3>1. i \in 1 .. Len(s)
      BY <1>1, <2>2
    <3> QED
      BY <3>1
  <2> QED
    BY <2>1, <2>2
<1> QED
  BY <1>1, <1>2

\* Dropping the first of the ids.
LEMMA DropFirst ==
    ASSUME NEW t \in Seq(Nat), NEW m \in Nat, Len(t) = m + 1
    PROVE  /\ Len(SubSeq(t, 2, m + 1)) = m
           /\ \A i \in 1 .. m : SubSeq(t, 2, m + 1)[i] = t[i + 1]
OBVIOUS

\* An appended and truncated window is a window.
LEMMA AppendWindow ==
    ASSUME TypeOK, RetainedWindow, NEW e \in Execs, AppendEvent(e)
    PROVE  RetainedWindow'
<1>1. PICK s, n, t : s = events[e] /\ n = nextId[e] /\ t = Append(s, n)
  OBVIOUS
<1>2. /\ s \in Seq(Nat) /\ n \in Nat /\ n >= 1
      /\ Len(s) \in Nat
      /\ Len(s) <= MaxRetained
      /\ Len(s) < n
      /\ \A i \in 1 .. Len(s) : s[i] = n - Len(s) + i - 1
      /\ Len(s) < MaxRetained => Len(s) = n - 1
      /\ MaxRetained \in Nat
  BY <1>1, RetainedAssumption DEF TypeOK, RetainedWindow
<1>3. /\ t \in Seq(Nat)
      /\ Len(t) = Len(s) + 1
      /\ \A i \in 1 .. Len(s) + 1 : t[i] = n - Len(s) + i - 1
  BY <1>1, <1>2, AppendIds
<1>4. nextId'[e] = n + 1 /\ events'[e] = Retain(t)
  BY <1>1 DEF AppendEvent, TypeOK
<1>5. PICK r : r = Retain(t)
  OBVIOUS
<1>6. /\ Len(r) <= MaxRetained
      /\ Len(r) < n + 1
      /\ \A i \in 1 .. Len(r) : r[i] = (n + 1) - Len(r) + i - 1
      /\ Len(r) < MaxRetained => Len(r) = n
  <2>1. CASE Len(t) > MaxRetained
    <3>1. Len(s) = MaxRetained
      BY <1>2, <1>3, <2>1
    <3>2. r = SubSeq(t, 2, Len(s) + 1)
      BY <1>2, <1>3, <1>5, <2>1, <3>1 DEF Retain
    <3>3. /\ Len(r) = Len(s)
          /\ \A i \in 1 .. Len(s) : r[i] = t[i + 1]
      BY <1>2, <1>3, <3>2, DropFirst
    <3>4. ASSUME NEW i \in 1 .. Len(s) PROVE r[i] = (n + 1) - Len(r) + i - 1
      <4>1. i + 1 \in 1 .. Len(s) + 1
        BY <1>2
      <4> QED
        BY <1>2, <1>3, <3>3, <4>1
    <3> QED
      BY <1>2, <3>1, <3>3, <3>4
  <2>2. CASE ~(Len(t) > MaxRetained)
    <3>1. r = t
      BY <1>5, <2>2 DEF Retain
    <3> QED
      BY <1>2, <1>3, <2>2, <3>1
  <2> QED
    BY <2>1, <2>2
<1> QED
  BY <1>4, <1>5, <1>6 DEF RetainedWindow, AppendEvent, TypeOK

\* Every step keeps the windows.
LEMMA WindowStep == OutputInv /\ [Next]_vars => RetainedWindow'
<1> SUFFICES ASSUME OutputInv, [Next]_vars PROVE RetainedWindow'
  OBVIOUS
<1>1. OutputsGrow
  BY StepShape DEF OutputsGrow, outVars
<1>2. CASE UNCHANGED <<events, nextId>>
  BY <1>2 DEF OutputInv, RetainedWindow
<1> QED
  BY <1>1, <1>2, AppendWindow DEF OutputInv, OutputsGrow

\* The retained ids are an interval that ends with the newest one.
LEMMA RetainedInterval ==
    ASSUME TypeOK, RetainedWindow, NEW e \in Execs
    PROVE  Retained(e) = (nextId[e] - Len(events[e])) .. (nextId[e] - 1)
<1> DEFINE n == Len(events[e])
           k == nextId[e]
<1>1. n \in Nat /\ k \in Nat /\ \A i \in 1 .. n : events[e][i] = k - n + i - 1
  BY DEF TypeOK, RetainedWindow
<1>2. Retained(e) = {events[e][i] : i \in 1 .. n}
  BY DEF Retained
<1> HIDE DEF n, k
<1>3. ASSUME NEW id \in (k - n) .. (k - 1) PROVE id \in Retained(e)
  <2>1. id - k + n + 1 \in 1 .. n /\ id = k - n + (id - k + n + 1) - 1
    BY <1>1
  <2> QED
    BY <1>1, <1>2, <2>1
<1>4. ASSUME NEW i \in 1 .. n PROVE events[e][i] \in (k - n) .. (k - 1)
  BY <1>1
<1> QED
  BY <1>2, <1>3, <1>4 DEF n, k

\* The new events of a poller are a stretch of ids.
LEMMA NewInterval ==
    ASSUME TypeOK, RetainedWindow, NEW e \in Execs, NEW c \in Nat
    PROVE  NewEvents(e, c) =
               {id \in (nextId[e] - Len(events[e])) .. (nextId[e] - 1) : id > c}
BY RetainedInterval DEF NewEvents

\* A snapshot reads the window that ends with the newest event.
LEMMA SnapshotWindow ==
    ASSUME TypeOK, RetainedWindow, NEW p \in Pollers, NEW e \in Execs,
           Snapshot(p, e), target'[p] = e,
           UNCHANGED <<events, nextId, cursor>>
    PROVE  nextId[e] - 1 \in Nat /\ WindowRead(p, nextId[e] - 1)'
<1> DEFINE n == Len(events[e])
           k == nextId[e]
           c == cursor[p]
<1>1. n \in Nat /\ k \in Nat \ {0} /\ c \in Nat /\ MaxRetained \in Nat
  BY RetainedAssumption DEF TypeOK
<1>2. n <= MaxRetained /\ n < k /\ (n < MaxRetained => n = k - 1)
  BY DEF RetainedWindow
<1>3. snap'[p] = [new |-> NewEvents(e, c),
                  oldest |-> IF events[e] = <<>> THEN 0 ELSE events[e][1]]
  BY DEF Snapshot, TypeOK
<1>4. NewEvents(e, c) = {id \in (k - n) .. (k - 1) : id > c}
  BY <1>1, NewInterval
<1>5. snap'[p].new = {id \in (k - n) .. (k - 1) : id > c}
  BY <1>3, <1>4
<1>6. cursor'[p] = c /\ nextId'[target'[p]] = k
  OBVIOUS
<1>7. CASE n = 0
  <2>1. events[e] = <<>>
    BY <1>7 DEF TypeOK
  <2>2. snap'[p].oldest = 0
    BY <1>3, <2>1
  <2>3. k = 1
    BY <1>1, <1>2, <1>7, RetainedAssumption
  <2> HIDE DEF n, k, c
  <2>4. snap'[p].new = {id \in 0 .. k - 1 : id > c}
    BY <1>1, <1>5, <1>7, <2>3
  <2> QED
    BY <1>1, <1>6, <2>2, <2>3, <2>4 DEF WindowRead, k
<1>8. CASE n # 0
  <2>1. events[e] # <<>>
    BY <1>8
  <2>2. events[e][1] = k - n
    BY <1>1, <1>8 DEF RetainedWindow
  <2>3. snap'[p].oldest = k - n
    BY <1>3, <2>1, <2>2
  <2> HIDE DEF n, k, c
  <2>4. k - 1 \in Nat /\ k - n <= k - 1 /\ k - 1 < k
    BY <1>1, <1>8
  <2>5. k - n > 1 => (k - n) + MaxRetained <= k
    BY <1>1, <1>2
  <2> QED
    BY <1>5, <1>6, <2>3, <2>4, <2>5 DEF WindowRead
<1> QED
  BY <1>7, <1>8

\* What a poller has read stays what it was.
LEMMA ReadStep == OutputInv /\ [Next]_vars => SnapshotRead'
<1> SUFFICES ASSUME OutputInv, [Next]_vars, NEW q \in Pollers, phase'[q] = "decide"
             PROVE  \E hi \in Nat : WindowRead(q, hi)'
  BY DEF SnapshotRead
<1> USE DEF OutputInv
\* A window read before stays one: events are only added.
<1>1. ASSUME phase[q] = "decide", OutputsGrow, snap'[q] = snap[q],
             cursor'[q] = cursor[q], target'[q] = target[q]
      PROVE  \E hi \in Nat : WindowRead(q, hi)'
  <2>1. PICK hi \in Nat : WindowRead(q, hi)
    BY <1>1 DEF SnapshotRead
  <2>2. target[q] \in Execs
    BY <1>1 DEF Following
  <2>3. nextId[target[q]] <= nextId'[target[q]] /\ nextId'[target[q]] \in Nat
    <3>1. nextId \in [Execs -> Nat \ {0}]
      BY DEF TypeOK
    <3>2. CASE UNCHANGED nextId
      BY <2>2, <3>1, <3>2
    <3>3. ASSUME NEW e \in Execs, nextId' = [nextId EXCEPT ![e] = @ + 1]
          PROVE  /\ nextId[target[q]] <= nextId'[target[q]]
                 /\ nextId'[target[q]] \in Nat
      BY <2>2, <3>1, <3>3
    <3> QED
      BY <1>1, <3>2, <3>3 DEF OutputsGrow, AppendEvent
  <2>4. /\ snap[q].oldest \in Nat
        /\ nextId[target[q]] \in Nat
        /\ MaxRetained \in Nat
    BY <2>2, RetainedAssumption DEF TypeOK
  <2> QED
    BY <1>1, <2>1, <2>3, <2>4 DEF WindowRead
<1>2. CASE PollersQuiet /\ OutputsGrow
  <2>1. phase[q] = "decide"
    BY <1>2 DEF PollersQuiet, Wake
  <2> QED
    BY <1>1, <1>2, <2>1 DEF PollersQuiet
<1>3. ASSUME UNCHANGED outVars, NEW p \in Pollers, NEW e \in Execs, PollBegin(p, e)
      PROVE  \E hi \in Nat : WindowRead(q, hi)'
  <2>1. CASE p = q
    <3>1. phase[p] = "idle" /\ Snapshot(p, e) /\ target'[p] = e
      BY <1>3, <2>1 DEF PollBegin, TypeOK
    <3>2. UNCHANGED <<events, nextId, cursor>>
      BY <1>3 DEF PollBegin, outVars
    <3> QED
      BY <2>1, <3>1, <3>2, SnapshotWindow
  <2>2. CASE p # q
    <3>1. /\ phase[q] = "decide"
          /\ cursor'[q] = cursor[q]
          /\ target'[q] = target[q]
          /\ snap'[q] = snap[q]
      BY <1>3, <2>2 DEF PollBegin, TypeOK, Snapshot
    <3> QED
      BY <1>1, <1>3, <3>1 DEF OutputsGrow, outVars
  <2> QED
    BY <2>1, <2>2
<1>4. ASSUME UNCHANGED outVars, NEW p \in Pollers, PollStep(p) \/ TimerFires(p)
      PROVE  \E hi \in Nat : WindowRead(q, hi)'
  <2>1. CASE p # q
    <3>1. /\ phase[q] = "decide"
          /\ cursor'[q] = cursor[q]
          /\ target'[q] = target[q]
          /\ snap'[q] = snap[q]
      BY <1>4, <2>1 DEF PollStep, TimerFires, PollAgain, Snapshot, Answer,
         DeadlinePassed, ClearAndWait, TimedOut, Reply, TypeOK
    <3> QED
      BY <1>1, <1>4, <3>1 DEF OutputsGrow, outVars
  <2>2. CASE p = q
    <3>1. PollAgain(p)
      BY <1>4, <2>2 DEF PollStep, TimerFires, Answer, DeadlinePassed,
         ClearAndWait, TimedOut, Reply, TypeOK
    <3>2. Snapshot(p, target[p]) /\ UNCHANGED <<cursor, target>>
      BY <3>1 DEF PollAgain
    <3>3. target[p] \in Execs
      BY <3>1 DEF PollAgain, Following
    <3> QED
      BY <1>4, <2>2, <3>2, <3>3, SnapshotWindow DEF outVars
  <2> QED
    BY <2>1, <2>2
<1> QED
  BY <1>2, <1>3, <1>4, StepShape

\* OutputInv is inductive.
LEMMA OutputStep == OutputInv /\ [Next]_vars => OutputInv'
BY TypeStep, FollowingStep, WindowStep, ReadStep DEF OutputInv

\* It holds always.
LEMMA OutputAlways == Spec => []OutputInv
BY OutputInit, OutputStep, PTL DEF Spec

\* Type correctness of the registry.
THEOREM TypeCorrect == Spec => []TypeOK
BY OutputAlways, PTL DEF OutputInv

\* _append_event keeps exactly the newest MAX_RETAINED_EVENTS events, whatever
\* the reader threads and the loop do.
THEOREM WindowCorrect == Spec => []RetainedWindow
BY OutputAlways, PTL DEF OutputInv

-----------------------------------------------------------------------------
(* Tasks, their status and the table.                                      *)

Unfinished == {"created", "running", "unstarted", "stopping"}

\* An execution is running until its task is done and has no finish time
\* until it is terminal; it completes only when its runner returned; once the
\* registry closes no task is left that close did not cancel.
TaskInv ==
    /\ \A e \in Execs :
          /\ task[e] # "done" => status[e] = "running"
          /\ status[e] = "running" => finishedAt[e] = NotFinished
          /\ status[e] = "completed" => runner[e] = "returned"
          /\ task[e] \in {"none", "created"} => runner[e] = "idle"
          /\ closed # "open" => task[e] \notin {"created", "running"}
          /\ closed = "open" => task[e] \notin {"unstarted", "stopping"}
    /\ LiveRetained

\* _prune keeps what is neither terminal nor expired.
LEMMA PruneKeeps ==
    ASSUME NEW S, NEW e \in S, ~Terminal(e), finishedAt[e] = NotFinished
    PROVE  e \in Prune(S)
BY DEF Prune, Expired

\* The invariant holds at first.
LEMMA TaskInit == Init => TaskInv
BY DEF Init, TaskInv, LiveRetained

\* TaskInv is inductive with OutputInv.
LEMMA TaskStepInv == OutputInv /\ TaskInv /\ [Next]_vars => TaskInv'
<1> SUFFICES ASSUME OutputInv, TaskInv, [Next]_vars PROVE TaskInv'
  OBVIOUS
<1> USE DEF OutputInv
<1> DEFINE Quiet == UNCHANGED <<closed, status, finishedAt, task, runner>>
\* What prune takes out of the table is not an unfinished execution's entry.
<1>1. ASSUME Quiet, entries' = Prune(entries) \/ entries' = entries PROVE TaskInv'
  <2>1. ASSUME NEW e \in Execs, e \in entries, task[e] \in Unfinished
        PROVE  e \in entries'
    <3>1. ~Terminal(e) /\ finishedAt[e] = NotFinished
      BY <2>1 DEF TaskInv, Terminal, Unfinished
    <3> QED
      BY <1>1, <2>1, <3>1, PruneKeeps
  <2> QED
    BY <1>1, <2>1 DEF TaskInv, LiveRetained, Unfinished
\* A task ends with a terminal status.
<1>2. ASSUME NEW e \in Execs, NEW st \in {"completed", "failed"}, Finish(e, st),
             UNCHANGED <<closed, entries>>, task[e] # "done", task[e] \notin {"none", "created"},
             runner' = runner \/ \E r \in Runners : runner' = [runner EXCEPT ![e] = r],
             st = "completed" => runner'[e] = "returned"
      PROVE  TaskInv'
  <2>1. /\ status' = [status EXCEPT ![e] = st]
        /\ finishedAt' = [finishedAt EXCEPT ![e] = now]
        /\ task' = [task EXCEPT ![e] = "done"]
    BY <1>2 DEF Finish
  <2>2. ASSUME NEW f \in Execs \ {e}
        PROVE  /\ status'[f] = status[f] /\ finishedAt'[f] = finishedAt[f]
               /\ task'[f] = task[f] /\ runner'[f] = runner[f]
    BY <1>2, <2>1 DEF TypeOK
  <2>3. status'[e] = st /\ task'[e] = "done"
    BY <2>1 DEF TypeOK
  <2> QED
    BY <1>2, <2>2, <2>3 DEF TaskInv, LiveRetained
<1>3. CASE UNCHANGED vars
  BY <1>1, <1>3 DEF vars, execVars
<1>4. ASSUME NEW e \in Execs, Start(e) PROVE TaskInv'
  <2> DEFINE live == Prune(entries)
             room == live \ Victims(live)
  <2>1. /\ entries' = Prune(room \cup {e})
        /\ task' = [task EXCEPT ![e] = "created"]
        /\ task[e] = "none"
        /\ closed = "open"
        /\ UNCHANGED <<closed, status, finishedAt, runner>>
    BY <1>4 DEF Start
  <2>2. ASSUME NEW f \in Execs, task'[f] \in Unfinished PROVE f \in entries'
    <3>1. ~Terminal(f) /\ finishedAt[f] = NotFinished
      BY <2>1, <2>2 DEF TaskInv, Terminal, TypeOK, Unfinished
    <3>2. f \in room \cup {e}
      <4>1. CASE f # e
        <5>1. f \in entries
          BY <2>1, <2>2, <4>1 DEF TaskInv, LiveRetained, TypeOK, Unfinished
        <5>2. f \in live
          BY <3>1, <5>1, PruneKeeps
        <5> QED
          BY <3>1, <5>2 DEF Victims
      <4> QED
        BY <4>1
    <3> HIDE DEF live, room
    <3> QED
      BY <2>1, <3>1, <3>2, PruneKeeps
  <2>3. ASSUME NEW f \in Execs
        PROVE  /\ task'[f] # "done" => status'[f] = "running"
               /\ status'[f] = "running" => finishedAt'[f] = NotFinished
               /\ status'[f] = "completed" => runner'[f] = "returned"
               /\ task'[f] \in {"none", "created"} => runner'[f] = "idle"
               /\ closed' # "open" => task'[f] \notin {"created", "running"}
               /\ closed' = "open" => task'[f] \notin {"unstarted", "stopping"}
    BY <2>1 DEF TaskInv, TypeOK
  <2> QED
    BY <2>2, <2>3 DEF TaskInv, LiveRetained, Unfinished
<1>5. CASE StartRefused \/ Inspect
  BY <1>1, <1>5 DEF StartRefused, Inspect
<1>6. ASSUME NEW e \in Execs, FirstStep(e) PROVE TaskInv'
  <2>1. PICK path \in {"queued", "browser"} : runner' = [runner EXCEPT ![e] = path]
    BY <1>6 DEF FirstStep
  <2> QED
    BY <1>6, <2>1 DEF FirstStep, TaskInv, LiveRetained, TypeOK
<1>7. ASSUME NEW e \in Execs, NeverRan(e) PROVE TaskInv'
  BY <1>7 DEF NeverRan, TaskInv, LiveRetained, TypeOK
<1>8. ASSUME NEW e \in Execs, RunFinish(e) PROVE TaskInv'
  <2>1. PICK st \in {"completed", "failed"} :
           Finish(e, st) /\ (st = "completed" => runner[e] = "returned")
    BY <1>8 DEF RunFinish
  <2> QED
    BY <1>2, <1>8, <2>1 DEF RunFinish
<1>9. ASSUME NEW e \in Execs, ConnectFails(e) \/ BrowserFails(e) PROVE TaskInv'
  <2>1. Finish(e, "failed") /\ runner' = [runner EXCEPT ![e] = "raised"]
    BY <1>9 DEF ConnectFails, BrowserFails
  <2> QED
    BY <1>2, <1>9, <2>1 DEF ConnectFails, BrowserFails, Runners
<1>10. ASSUME NEW e \in Execs, BrowserAnswer(e) PROVE TaskInv'
  <2>1. Finish(e, "completed") /\ runner' = [runner EXCEPT ![e] = "returned"]
    BY <1>10 DEF BrowserAnswer
  <2>2. runner'[e] = "returned"
    BY <2>1 DEF TypeOK
  <2> QED
    BY <1>2, <1>10, <2>1, <2>2 DEF BrowserAnswer, Runners
<1>11. ASSUME NEW e \in Execs, Stopped(e) PROVE TaskInv'
  BY <1>2, <1>11 DEF Stopped
<1>12. ASSUME NEW e \in Execs, ThreadStep(e) PROVE TaskInv'
  <2>1. PICK r \in Runners : runner' = [runner EXCEPT ![e] = r]
    BY <1>12 DEF ThreadStep, ThreadBegins, Lookup, AppendOutput, ScheduleSet,
       ThreadEnds, Runners
  <2>2. runner[e] \in {"queued", "kernel", "found", "appended"}
    BY <1>12 DEF ThreadStep, ThreadBegins, Lookup, AppendOutput, ScheduleSet,
       ThreadEnds
  <2>3. UNCHANGED <<closed, entries, status, finishedAt, task>>
    BY <1>12 DEF ThreadStep, ThreadBegins, Lookup, AppendOutput, ScheduleSet,
       ThreadEnds
  <2>4. status[e] # "completed" /\ task[e] \notin {"none", "created"}
    BY <2>2 DEF TaskInv
  <2> QED
    BY <2>1, <2>3, <2>4 DEF TaskInv, LiveRetained, TypeOK
<1>13. ASSUME NEW e \in Execs, RunSet(e) PROVE TaskInv'
  BY <1>1, <1>13 DEF RunSet, execVars
<1>14. ASSUME NEW p \in Pollers, NEW e \in Execs, PollBegin(p, e) PROVE TaskInv'
  BY <1>1, <1>14 DEF PollBegin
<1>15. ASSUME NEW p \in Pollers, PollStep(p) \/ TimerFires(p) PROVE TaskInv'
  <2>1. UNCHANGED <<closed, execVars>>
    BY <1>15 DEF PollStep, TimerFires, PollAgain, Answer, DeadlinePassed,
       ClearAndWait, TimedOut, Reply
  <2> QED
    BY <1>1, <2>1 DEF execVars
<1>16. CASE CloseBegin
  <2>1. UNCHANGED <<status, finishedAt, runner>> /\ closed = "open"
    BY <1>16 DEF CloseBegin
  <2>2. ASSUME NEW e \in Execs
        PROVE  task'[e] = IF e \notin LiveTasks THEN task[e]
                          ELSE IF task[e] = "created" THEN "unstarted" ELSE "stopping"
    BY <1>16 DEF CloseBegin
  <2>3. ASSUME NEW e \in Execs
        PROVE  /\ task[e] \in {"created", "running"} <=> e \in LiveTasks
               /\ task[e] \in Unfinished => e \in entries
    BY DEF LiveTasks, TaskInv, LiveRetained, Unfinished
  <2>4. ASSUME NEW e \in Execs
        PROVE  /\ task'[e] \notin {"none", "created", "running"} \/ task'[e] = task[e]
               /\ task'[e] \notin {"created", "running"}
               /\ task'[e] = "done" <=> task[e] = "done"
    BY <2>2, <2>3
  <2>5. ASSUME NEW e \in Execs, task'[e] \in Unfinished PROVE e \in entries'
    <3>1. e \in entries /\ task[e] \in Unfinished
      BY <2>2, <2>3, <2>5 DEF Unfinished
    <3>2. LiveTasks # {} => entries' = entries
      BY <1>16 DEF CloseBegin
    <3>3. LiveTasks # {}
      BY <2>1, <2>3, <3>1 DEF Unfinished, TaskInv
    <3> QED
      BY <3>1, <3>2, <3>3
  <2>6. closed' # "open"
    BY <1>16 DEF CloseBegin
  <2> QED
    BY <2>1, <2>4, <2>5, <2>6 DEF TaskInv, LiveRetained, Unfinished
<1>17. CASE CloseEnd
  BY <1>17 DEF CloseEnd, TaskInv, LiveRetained, TypeOK
<1>18. CASE Tick
  BY <1>1, <1>18 DEF Tick, execVars
<1> QED
  BY <1>3, <1>4, <1>5, <1>6, <1>7, <1>8, <1>9, <1>10, <1>11, <1>12, <1>13,
     <1>14, <1>15, <1>16, <1>17, <1>18 DEF Next, TaskStep

\* It holds always.
LEMMA TaskAlways == Spec => []TaskInv
BY TaskInit, TaskStepInv, OutputAlways, PTL DEF Spec

\* The promise of _prune's comment: an execution that has not ended is never
\* evicted, and close leaves none behind.
THEOREM RunningNeverEvicted == Spec => []LiveRetained
BY TaskAlways, PTL DEF TaskInv

-----------------------------------------------------------------------------
(* No lost wake-up.                                                        *)

\* No step loses a wake-up.
LEMMA WakeupStep == OutputInv /\ TaskInv /\ NoLostWakeup /\ [Next]_vars => NoLostWakeup'
<1> SUFFICES ASSUME OutputInv, TaskInv, NoLostWakeup, [Next]_vars,
                    NEW q \in Pollers, phase'[q] = "waiting"
             PROVE  /\ ~Terminal(target[q])'
                    /\ NewEvents(target[q], cursor[q])' # {} =>
                          setCalls'[target'[q]] > 0 \/ runner'[target'[q]] = "appended"
  BY DEF NoLostWakeup
<1> USE DEF OutputInv
<1> DEFINE e0 == target[q]
           Woken == setCalls[e0] > 0 \/ runner[e0] = "appended"
           Good == /\ ~Terminal(target[q])'
                   /\ NewEvents(target[q], cursor[q])' # {} =>
                         setCalls'[target'[q]] > 0 \/ runner'[target'[q]] = "appended"
<1>0. phase[q] = "waiting" => e0 \in Execs
  BY DEF Following
\* A poller that waited before, and whose execution nothing happened to.
<1>1. ASSUME phase[q] = "waiting", target'[q] = e0, cursor'[q] = cursor[q],
             status'[e0] = status[e0], events'[e0] = events[e0],
             Woken => setCalls'[e0] > 0 \/ runner'[e0] = "appended"
      PROVE  Good
  BY <1>1 DEF NoLostWakeup, Terminal, NewEvents, Retained
\* A wake-up leaves no poller of its execution waiting.
<1>2. ASSUME NEW e \in Execs, Wake(e), UNCHANGED target
      PROVE  phase[q] = "waiting" /\ e0 # e
  BY <1>2 DEF Wake, TypeOK
<1>3. CASE UNCHANGED vars
  BY <1>1, <1>3 DEF vars, execVars, outVars, pollVars
<1>4. ASSUME NEW e \in Execs, Start(e) PROVE Good
  BY <1>1, <1>4 DEF Start, outVars, pollVars
<1>5. ASSUME NEW e \in Execs, FirstStep(e) \/ NeverRan(e) PROVE Good
  <2>1. phase[q] = "waiting" /\ UNCHANGED <<target, cursor, status, events, setCalls>>
    BY <1>5 DEF FirstStep, NeverRan, outVars, pollVars
  <2>2. Woken => setCalls'[e0] > 0 \/ runner'[e0] = "appended"
    <3>1. CASE NeverRan(e)
      BY <2>1, <3>1 DEF NeverRan
    <3>2. CASE FirstStep(e)
      <4>1. runner[e] = "idle"
        BY <3>2 DEF FirstStep, TaskInv
      <4>2. e0 # e => runner'[e0] = runner[e0]
        BY <1>0, <2>1, <3>2 DEF FirstStep, TypeOK
      <4> QED
        BY <2>1, <4>1, <4>2
    <3> QED
      BY <1>5, <3>1, <3>2
  <2> QED
    BY <1>1, <2>1, <2>2
<1>6. ASSUME NEW e \in Execs, TaskStep(e), ~(FirstStep(e) \/ NeverRan(e)) PROVE Good
  <2>1. /\ Wake(e)
        /\ UNCHANGED <<target, cursor, setCalls>>
        /\ \E st : status' = [status EXCEPT ![e] = st]
        /\ runner' = runner \/ \E r : runner' = [runner EXCEPT ![e] = r]
        /\ UNCHANGED events \/ AppendEvent(e)
    BY <1>6 DEF TaskStep, RunFinish, ConnectFails, BrowserAnswer, BrowserFails,
       Stopped, Finish
  <2>2. phase[q] = "waiting" /\ e0 # e
    BY <1>2, <2>1
  <2>3. e0 \in Execs
    BY <1>0, <2>2
  <2>4. status'[e0] = status[e0]
    BY <2>1, <2>2, <2>3 DEF TypeOK
  <2>5. runner'[e0] = runner[e0]
    BY <2>1, <2>2, <2>3 DEF TypeOK
  <2>6. events'[e0] = events[e0]
    BY <2>1, <2>2, <2>3 DEF TypeOK, AppendEvent
  <2> QED
    BY <1>1, <2>1, <2>2, <2>4, <2>5, <2>6
<1>7. ASSUME NEW e \in Execs, ThreadBegins(e) \/ Lookup(e) \/ ThreadEnds(e) PROVE Good
  <2>1. phase[q] = "waiting" /\ UNCHANGED <<target, cursor, status, events, setCalls>>
    BY <1>7 DEF ThreadBegins, Lookup, ThreadEnds, outVars, pollVars
  <2>2. Woken => setCalls'[e0] > 0 \/ runner'[e0] = "appended"
    <3>1. runner[e] # "appended"
      BY <1>7 DEF ThreadBegins, Lookup, ThreadEnds
    <3>2. e0 # e => runner'[e0] = runner[e0]
      BY <1>0, <1>7, <2>1 DEF ThreadBegins, Lookup, ThreadEnds, TypeOK
    <3> QED
      BY <2>1, <3>1, <3>2
  <2> QED
    BY <1>1, <2>1, <2>2
<1>8. ASSUME NEW e \in Execs, AppendOutput(e) PROVE Good
  <2>1. phase[q] = "waiting" /\ UNCHANGED <<target, cursor, status, setCalls>>
    BY <1>8 DEF AppendOutput, pollVars
  <2>2. CASE e0 = e
    <3>1. runner'[e0] = "appended" /\ ~Terminal(e0)
      BY <1>8, <2>1, <2>2 DEF AppendOutput, TypeOK, NoLostWakeup
    <3> QED
      BY <2>1, <3>1 DEF Terminal
  <2>3. CASE e0 # e
    <3>1. events'[e0] = events[e0] /\ runner'[e0] = runner[e0]
      BY <1>8, <2>3 DEF AppendOutput, AppendEvent, TypeOK
    <3> QED
      BY <1>1, <2>1, <3>1
  <2> QED
    BY <2>2, <2>3
<1>9. ASSUME NEW e \in Execs, ScheduleSet(e) PROVE Good
  <2>1. phase[q] = "waiting" /\ UNCHANGED <<target, cursor, status, events>>
    BY <1>9 DEF ScheduleSet, pollVars
  <2>2. e0 \in Execs
    BY <2>1 DEF Following
  <2>3. Woken => setCalls'[e0] > 0 \/ runner'[e0] = "appended"
    <3>1. CASE e0 = e
      BY <1>9, <2>2, <3>1 DEF ScheduleSet, TypeOK
    <3>2. CASE e0 # e
      BY <1>9, <2>2, <3>2 DEF ScheduleSet, TypeOK
    <3> QED
      BY <3>1, <3>2
  <2> QED
    BY <1>1, <2>1, <2>3
<1>10. ASSUME NEW e \in Execs, RunSet(e) PROVE Good
  <2>1. /\ Wake(e)
        /\ UNCHANGED <<target, cursor, status, runner, events>>
        /\ setCalls' = [setCalls EXCEPT ![e] = @ - 1]
    BY <1>10 DEF RunSet, execVars
  <2>2. phase[q] = "waiting" /\ e0 # e
    BY <1>2, <2>1
  <2>3. setCalls'[e0] = setCalls[e0]
    BY <2>1, <2>2 DEF TypeOK
  <2> QED
    BY <1>1, <2>1, <2>2, <2>3
<1>11. CASE StartRefused \/ Inspect \/ CloseBegin \/ CloseEnd \/ Tick
  BY <1>1, <1>11 DEF StartRefused, Inspect, CloseBegin, CloseEnd, Tick,
     execVars, outVars, pollVars
<1>12. ASSUME NEW p \in Pollers, NEW e \in Execs, PollBegin(p, e) PROVE Good
  <2>1. phase[q] = "waiting" /\ UNCHANGED <<cursor, status, runner, events, setCalls>>
    BY <1>12 DEF PollBegin, outVars, TypeOK
  <2>2. target'[q] = e0
    BY <1>12, <2>1 DEF PollBegin, TypeOK
  <2> QED
    BY <1>1, <2>1, <2>2
<1>13. ASSUME NEW p \in Pollers, PollStep(p) \/ TimerFires(p) PROVE Good
  <2>1. UNCHANGED <<target, status, runner, events, setCalls>>
    BY <1>13 DEF PollStep, TimerFires, PollAgain, Answer, DeadlinePassed,
       ClearAndWait, TimedOut, Reply, execVars, outVars
  <2>2. CASE phase[q] = "waiting"
    <3>1. cursor'[q] = cursor[q]
      BY <1>13, <2>2 DEF PollStep, TimerFires, PollAgain, Answer, DeadlinePassed,
         ClearAndWait, TimedOut, Reply, TypeOK
    <3> QED
      BY <1>1, <2>1, <2>2, <3>1
  <2>3. CASE phase[q] # "waiting"
    <3>1. ClearAndWait(q)
      BY <1>13, <2>3 DEF PollStep, TimerFires, PollAgain, Answer, DeadlinePassed,
         ClearAndWait, TimedOut, Reply, TypeOK
    <3>2. ~Terminal(e0) /\ NewEvents(e0, cursor[q]) = {} /\ cursor'[q] = cursor[q]
      BY <2>3, <3>1 DEF ClearAndWait, TypeOK
    <3> QED
      BY <2>1, <3>2 DEF Terminal, NewEvents, Retained
  <2> QED
    BY <2>2, <2>3
<1> QED
  BY <1>3, <1>4, <1>5, <1>6, <1>7, <1>8, <1>9, <1>10, <1>11, <1>12, <1>13
     DEF Next, ThreadStep

\* A long poll never sleeps through an event or the end of its execution: the
\* snapshot, the clear and the re-check of get_events, the append of the reader
\* thread and the set it schedules may interleave in any way.
THEOREM WakeupCorrect == Spec => []NoLostWakeup
<1>1. Init => NoLostWakeup
  BY DEF Init, NoLostWakeup
<1> QED
  BY <1>1, WakeupStep, OutputAlways, TaskAlways, PTL DEF Spec

-----------------------------------------------------------------------------
(* The bound of the table.                                                 *)

TableInv == IsFiniteSet(entries) /\ CapacityBound

\* Within the bound, _prune only removes expired entries: its eviction loop
\* is never entered.
LEMMA PruneWithinBound ==
    ASSUME NEW S, IsFiniteSet(S), Cardinality(S) <= MaxEntries
    PROVE  Prune(S) = {e \in S : ~Expired(e)}
<1> DEFINE live == {e \in S : ~Expired(e)}
<1>1. IsFiniteSet(live) /\ Cardinality(live) <= MaxEntries
  <2>1. live \in SUBSET S
    OBVIOUS
  <2>2. IsFiniteSet(live) /\ Cardinality(live) <= Cardinality(S)
    BY <2>1, FS_Subset
  <2> QED
    BY <2>2, FS_CardinalityType, EntriesAssumption
<1>2. ASSUME NEW e \in live
      PROVE  ~(Cardinality(OlderTerminal(live, e)) < Cardinality(live) - MaxEntries)
  <2>1. OlderTerminal(live, e) \in SUBSET live
    BY DEF OlderTerminal
  <2>2. IsFiniteSet(OlderTerminal(live, e))
    BY <1>1, <2>1, FS_Subset
  <2>3. /\ Cardinality(OlderTerminal(live, e)) \in Nat
        /\ Cardinality(live) \in Nat
    BY <1>1, <2>2, FS_CardinalityType
  <2> HIDE DEF live
  <2> QED
    BY <1>1, <2>3, EntriesAssumption
<1>3. Prune(S) = {e \in live :
                    ~(Terminal(e) /\ Cardinality(OlderTerminal(live, e))
                                       < Cardinality(live) - MaxEntries)}
  BY DEF Prune
<1> QED
  BY <1>2, <1>3

\* A full table with a terminal entry has an oldest one to give up.
LEMMA VictimExists ==
    ASSUME TypeOK, NEW S \in SUBSET Execs, Cardinality(S) >= MaxEntries, ~AtLimit(S)
    PROVE  Victims(S) # {}
<1> DEFINE T == {e \in S : Terminal(e)}
           B == {born[e] : e \in T}
<1>1. T # {} /\ B # {}
  BY DEF AtLimit
<1>2. B \in SUBSET Nat
  BY DEF TypeOK
<1>3. PICK m \in B : \A n \in B : m <= n
  BY <1>1, <1>2, SmallestNat
<1>4. PICK e \in T : born[e] = m
  BY <1>3
<1>5. ASSUME NEW f \in T PROVE ~(born[f] < born[e])
  BY <1>2, <1>3, <1>4, <1>5
<1>6. OlderTerminal(S, e) = {}
  BY <1>5 DEF OlderTerminal
<1> QED
  BY <1>4, <1>6 DEF Victims

\* The table start makes room in has a place for the new execution.
LEMMA RoomBound ==
    ASSUME TypeOK, NEW live \in SUBSET Execs, IsFiniteSet(live),
           Cardinality(live) <= MaxEntries, ~AtLimit(live), NEW e
    PROVE  /\ IsFiniteSet((live \ Victims(live)) \cup {e})
           /\ Cardinality((live \ Victims(live)) \cup {e}) <= MaxEntries
<1> DEFINE room == live \ Victims(live)
<1>1. IsFiniteSet(room) /\ Cardinality(room) <= Cardinality(live)
  BY FS_Subset
<1>2. Cardinality(room) \in Nat /\ Cardinality(live) \in Nat /\ MaxEntries \in Nat
  BY <1>1, FS_CardinalityType, EntriesAssumption
<1>3. Cardinality(room) < MaxEntries
  <2>1. CASE Cardinality(live) < MaxEntries
    <3> HIDE DEF room
    <3> QED
      BY <1>1, <1>2, <2>1
  <2>2. CASE ~(Cardinality(live) < MaxEntries)
    <3>1. Cardinality(live) >= MaxEntries
      BY <1>2, <2>2
    <3>2. Victims(live) # {} /\ Victims(live) \subseteq live
      BY <3>1, VictimExists DEF Victims
    <3>3. room # live /\ room \in SUBSET live
      BY <3>2
    <3>4. Cardinality(room) # Cardinality(live)
      BY <3>3, FS_Subset
    <3> HIDE DEF room
    <3> QED
      BY <1>1, <1>2, <3>4
  <2> QED
    BY <2>1, <2>2
<1>4. /\ IsFiniteSet(room \cup {e})
      /\ Cardinality(room \cup {e}) <= Cardinality(room) + 1
  <2> HIDE DEF room
  <2>1. /\ IsFiniteSet(room \cup {e})
        /\ Cardinality(room \cup {e}) =
              IF e \in room THEN Cardinality(room) ELSE Cardinality(room) + 1
    BY <1>1, FS_AddElement
  <2> QED
    BY <1>2, <2>1
<1>5. Cardinality(room \cup {e}) \in Nat
  BY <1>4, FS_CardinalityType
<1> HIDE DEF room
<1>6. Cardinality(room \cup {e}) <= MaxEntries
  BY <1>2, <1>3, <1>4, <1>5
<1> QED
  BY <1>4, <1>6 DEF room

\* _prune leaves no more than the bound.
LEMMA PruneBound ==
    ASSUME TableInv
    PROVE  /\ IsFiniteSet(Prune(entries))
           /\ Cardinality(Prune(entries)) <= MaxEntries
<1>1. Prune(entries) \in SUBSET entries
  BY PruneSubset
<1>2. /\ IsFiniteSet(Prune(entries))
      /\ Cardinality(Prune(entries)) <= Cardinality(entries)
  BY <1>1, FS_Subset DEF TableInv
<1>3. Cardinality(Prune(entries)) \in Nat /\ Cardinality(entries) \in Nat
  BY <1>2, FS_CardinalityType DEF TableInv
<1> QED
  BY <1>2, <1>3, EntriesAssumption DEF TableInv, CapacityBound

\* How a step changes the table.
LEMMA TableShape ==
    ASSUME [Next]_vars
    PROVE  \/ \E e \in Execs : Start(e)
           \/ entries' = entries
           \/ entries' = Prune(entries)
           \/ entries' = {} /\ closed' = "closed"
<1>1. CASE UNCHANGED vars
  BY <1>1 DEF vars, execVars
<1>2. ASSUME NEW e \in Execs, TaskStep(e) PROVE entries' = entries
  BY <1>2 DEF TaskStep, FirstStep, RunFinish, ConnectFails, BrowserAnswer,
     BrowserFails, Stopped, NeverRan
<1>3. ASSUME NEW e \in Execs, ThreadStep(e) \/ RunSet(e) PROVE entries' = entries
  BY <1>3 DEF ThreadStep, ThreadBegins, Lookup, AppendOutput, ScheduleSet,
     ThreadEnds, RunSet, execVars
<1>4. ASSUME NEW p \in Pollers, PollStep(p) \/ TimerFires(p) PROVE entries' = entries
  BY <1>4 DEF PollStep, TimerFires, PollAgain, Answer, DeadlinePassed,
     ClearAndWait, TimedOut, Reply, execVars
<1>5. CASE Tick
  BY <1>5 DEF Tick, execVars
<1>6. CASE StartRefused \/ Inspect \/ \E p \in Pollers, e \in Execs : PollBegin(p, e)
  BY <1>6 DEF StartRefused, Inspect, PollBegin
<1>7. CASE CloseBegin \/ CloseEnd
  BY <1>7 DEF CloseBegin, CloseEnd
<1> QED
  BY <1>1, <1>2, <1>3, <1>4, <1>5, <1>6, <1>7 DEF Next

\* TableInv is inductive with the types.
LEMMA TableStep == TypeOK /\ TableInv /\ [Next]_vars => TableInv'
<1> SUFFICES ASSUME TypeOK, TableInv, [Next]_vars PROVE TableInv'
  OBVIOUS
<1>1. ASSUME NEW e \in Execs, Start(e) PROVE TableInv'
  <2> DEFINE live == Prune(entries)
             new == (live \ Victims(live)) \cup {e}
  <2>1. ~AtLimit(live) /\ entries' = Prune(new)
    BY <1>1 DEF Start
  <2>2. live \in SUBSET Execs
    BY PruneSubset DEF TypeOK
  <2>3. IsFiniteSet(live) /\ Cardinality(live) <= MaxEntries
    BY PruneBound
  <2>4. IsFiniteSet(new) /\ Cardinality(new) <= MaxEntries
    <3> HIDE DEF live
    <3> QED
      BY <2>1, <2>2, <2>3, RoomBound
  <2> HIDE DEF new
  <2>5. entries' \in SUBSET new
    BY <2>1, PruneSubset
  <2>6. IsFiniteSet(entries') /\ Cardinality(entries') <= Cardinality(new)
    BY <2>4, <2>5, FS_Subset
  <2>7. Cardinality(entries') \in Nat /\ Cardinality(new) \in Nat
    BY <2>4, <2>6, FS_CardinalityType
  <2> QED
    BY <2>4, <2>6, <2>7, EntriesAssumption DEF TableInv, CapacityBound
<1>2. CASE entries' = entries
  BY <1>2 DEF TableInv, CapacityBound
<1>3. CASE entries' = Prune(entries)
  BY <1>3, PruneBound DEF TableInv, CapacityBound
<1>4. CASE entries' = {}
  BY <1>4, FS_EmptySet, EntriesAssumption DEF TableInv, CapacityBound
<1> QED
  BY <1>1, <1>2, <1>3, <1>4, TableShape

\* It holds always.
LEMMA TableAlways == Spec => []TableInv
<1>1. Init => TableInv
  BY FS_EmptySet, EntriesAssumption DEF Init, TableInv, CapacityBound
<1> QED
  BY <1>1, TableStep, TypeCorrect, PTL DEF Spec

\* The registry never retains more than max_entries executions, however many
\* are started and whatever they do.
THEOREM CapacityCorrect == Spec => []CapacityBound
BY TableAlways, PTL DEF TableInv

\* An entry leaves only expired, as the oldest terminal one of a full table,
\* or at close.
THEOREM EvictionCorrect == Spec => EvictionJustified
<1>1. ASSUME TypeOK, TaskInv, TableInv, [Next]_vars,
             NEW e \in entries \ entries', closed' # "closed"
      PROVE  /\ Terminal(e)
             /\ \/ Expired(e)
                \/ /\ Cardinality(entries) = MaxEntries
                   /\ \A f \in entries \ {e} : born[f] < born[e] =>
                         ~Terminal(f) \/ Expired(f)
  <2>1. Prune(entries) = {f \in entries : ~Expired(f)}
    BY <1>1, PruneWithinBound DEF TableInv, CapacityBound
  <2>2. ASSUME Expired(e) PROVE Terminal(e)
    BY <1>1, <2>2 DEF Expired, TaskInv, Terminal, TypeOK
  <2>3. ASSUME NEW g \in Execs, Start(g), ~Expired(e)
        PROVE  /\ Terminal(e)
               /\ Cardinality(entries) = MaxEntries
               /\ \A f \in entries \ {e} : born[f] < born[e] =>
                     ~Terminal(f) \/ Expired(f)
    <3> DEFINE live == Prune(entries)
               new == (live \ Victims(live)) \cup {g}
    <3>1. ~AtLimit(live) /\ entries' = Prune(new)
      BY <2>3 DEF Start
    <3>2. live \in SUBSET entries /\ IsFiniteSet(live) /\ Cardinality(live) <= MaxEntries
      BY <1>1, PruneSubset, PruneBound
    <3>3. IsFiniteSet(new) /\ Cardinality(new) <= MaxEntries
      <4>1. live \in SUBSET Execs
        BY <1>1, <3>2 DEF TypeOK
      <4> HIDE DEF live
      <4> QED
        BY <1>1, <3>1, <3>2, <4>1, RoomBound
    <3>4. e \in live
      BY <1>1, <2>1, <2>3
    <3>5. e \notin new
      <4>1. Prune(new) = {f \in new : ~Expired(f)}
        <5> HIDE DEF new
        <5> QED
          BY <3>3, PruneWithinBound
      <4> HIDE DEF new
      <4> QED
        BY <1>1, <2>3, <3>1, <4>1
    <3>6. e \in Victims(live)
      BY <3>4, <3>5
    <3>7. Terminal(e) /\ Cardinality(live) >= MaxEntries /\ OlderTerminal(live, e) = {}
      <4> HIDE DEF live
      <4> QED
        BY <3>6 DEF Victims
    <3>8. Cardinality(entries) = MaxEntries
      <4>1. Cardinality(live) <= Cardinality(entries)
        BY <1>1, <3>2, FS_Subset DEF TableInv
      <4>2. Cardinality(live) \in Nat /\ Cardinality(entries) \in Nat
        BY <1>1, <3>2, FS_CardinalityType DEF TableInv
      <4> HIDE DEF live
      <4> QED
        BY <1>1, <3>7, <4>1, <4>2, EntriesAssumption DEF TableInv, CapacityBound
    <3>9. ASSUME NEW f \in entries \ {e}, born[f] < born[e], Terminal(f)
          PROVE  Expired(f)
      BY <2>1, <3>7, <3>9 DEF OlderTerminal
    <3> QED
      BY <3>7, <3>8, <3>9
  <2> QED
    BY <1>1, <2>1, <2>2, <2>3, TableShape
<1>2. TypeOK /\ TaskInv /\ TableInv /\ [Next]_vars =>
         [\A e \in entries \ entries' :
            \/ closed' = "closed"
            \/ Terminal(e) /\ Expired(e)
            \/ /\ Terminal(e)
               /\ Cardinality(entries) = MaxEntries
               /\ \A f \in entries \ {e} : born[f] < born[e] =>
                     ~Terminal(f) \/ Expired(f)]_vars
  BY <1>1
<1> QED
  BY <1>2, TypeCorrect, TaskAlways, TableAlways, PTL DEF Spec, EvictionJustified

-----------------------------------------------------------------------------
(* What the replies account for.                                           *)

\* A reply to client p accounts for the ids after its cursor: those up to lo
\* are declared truncated, those after lo up to hi delivered.
Accounts(p, lo, hi) ==
    /\ lo > cursor[p] => lo <= nextId[target[p]] - 1 - MaxRetained
    /\ got' = [got EXCEPT ![p] = @ \cup (lo + 1 .. hi)]
    /\ missed' = [missed EXCEPT ![p] = @ \cup (cursor[p] + 1 .. lo)]
    /\ cursor' = [cursor EXCEPT ![p] = hi]

\* A reply declares a stretch lost and delivers the one that follows.
LEMMA AnswerAccounts ==
    ASSUME OutputInv, NEW p \in Pollers \ NextCursorClients, Answer(p)
    PROVE  \/ UNCHANGED <<got, missed, cursor>>
           \/ \E hi \in cursor[p] + 1 .. nextId[target[p]] - 1 :
                 \E lo \in cursor[p] .. hi - 1 : Accounts(p, lo, hi)
<1> USE DEF OutputInv
<1> DEFINE c == cursor[p]
           o == snap[p].oldest
           new == snap[p].new
           k == nextId[target[p]]
           lost == (c + 1) .. (o - 1)
<1>1. PICK hi \in Nat : WindowRead(p, hi)
  BY DEF Answer, SnapshotRead
<1>2. /\ c \in Nat /\ o \in Nat /\ MaxRetained \in Nat
      /\ target[p] \in Execs /\ k \in Nat
  <2>1. target[p] \in Execs
    BY DEF Answer, Following
  <2> QED
    BY <2>1, RetainedAssumption DEF TypeOK
<1>3. /\ new = {id \in o .. hi : id > c}
      /\ o <= hi /\ hi < k
      /\ o > 1 => o + MaxRetained <= k
  BY <1>1 DEF WindowRead
<1>4. /\ got' = [got EXCEPT ![p] = @ \cup new]
      /\ missed' = [missed EXCEPT ![p] = @ \cup lost]
      /\ cursor' = [cursor EXCEPT ![p] = IF new = {} THEN @ ELSE Newest(new)]
  BY DEF Answer, Reply
<1>5. CASE new = {}
  <2>1. ~(hi > c)
    <3> HIDE DEF c, o, new
    <3>1. hi \in o .. hi
      BY <1>2, <1>3
    <3> QED
      BY <1>3, <1>5, <3>1
  <2>2. lost = {}
    <3> HIDE DEF c, o, k, new
    <3> QED
      BY <1>2, <1>3, <2>1
  <2> QED
    BY <1>4, <1>5, <2>2 DEF TypeOK
<1>6. CASE new # {}
  <2>1. Newest(new) = hi /\ hi \in new
    BY <1>1, <1>6, NewestRead
  <2>2. hi \in c + 1 .. k - 1
    <3> HIDE DEF c, o, k
    <3> QED
      BY <1>2, <1>3, <2>1
  <2> DEFINE lo == IF o - 1 > c THEN o - 1 ELSE c
  <2>3. /\ lo \in c .. hi - 1
        /\ lo > c => lo <= k - 1 - MaxRetained
        /\ new = lo + 1 .. hi
        /\ lost = c + 1 .. lo
    <3> HIDE DEF c, o, k, new
    <3>1. CASE o - 1 > c
      BY <1>2, <1>3, <2>2, <3>1
    <3>2. CASE ~(o - 1 > c)
      BY <1>2, <1>3, <2>2, <3>2
    <3> QED
      BY <3>1, <3>2
  <2>4. Accounts(p, lo, hi)
    <3>1. cursor' = [cursor EXCEPT ![p] = hi]
      BY <1>4, <1>6, <2>1
    <3>2. /\ got' = [got EXCEPT ![p] = @ \cup (lo + 1 .. hi)]
          /\ missed' = [missed EXCEPT ![p] = @ \cup (c + 1 .. lo)]
      <4> HIDE DEF lo, new, c
      <4> QED
        BY <1>4, <2>3
    <3> HIDE DEF lo
    <3> QED
      BY <2>3, <3>1, <3>2 DEF Accounts
  <2> HIDE DEF lo
  <2> QED
    BY <2>2, <2>3, <2>4
<1> QED
  BY <1>5, <1>6

\* A poller that has not polled yet knows of no event.
DeliveryInv ==
    /\ DeliveryAccounted
    /\ \A p \in Pollers : target[p] = NoExec => cursor[p] = 0

\* How a step changes the accounts of the clients.
LEMMA AccountShape ==
    ASSUME OutputInv, [Next]_vars
    PROVE  \/ /\ UNCHANGED <<got, missed, cursor>>
              /\ \/ UNCHANGED target
                 \/ \E p \in Pollers, e \in Execs : PollBegin(p, e)
           \/ \E p \in NextCursorClients :
                 /\ UNCHANGED target /\ target[p] \in Execs
                 /\ \E new, lost \in SUBSET Nat, c \in Nat :
                       /\ got' = [got EXCEPT ![p] = @ \cup new]
                       /\ missed' = [missed EXCEPT ![p] = @ \cup lost]
                       /\ cursor' = [cursor EXCEPT ![p] = c]
           \/ \E p \in Pollers \ NextCursorClients :
                 /\ UNCHANGED target /\ target[p] \in Execs
                 /\ \E hi \in cursor[p] + 1 .. nextId[target[p]] - 1 :
                       \E lo \in cursor[p] .. hi - 1 : Accounts(p, lo, hi)
<1> USE DEF OutputInv
<1>1. CASE PollersQuiet
  BY <1>1 DEF PollersQuiet
<1>2. ASSUME NEW p \in Pollers, NEW e \in Execs, PollBegin(p, e)
      PROVE UNCHANGED <<got, missed, cursor>>
  BY <1>2 DEF PollBegin
<1>3. ASSUME NEW p \in Pollers, PollAgain(p) \/ ClearAndWait(p) \/ TimerFires(p)
      PROVE UNCHANGED <<got, missed, cursor, target>>
  BY <1>3 DEF PollAgain, ClearAndWait, TimerFires
<1>4. ASSUME NEW p \in Pollers \ NextCursorClients, DeadlinePassed(p) \/ TimedOut(p)
      PROVE UNCHANGED <<got, missed, cursor, target>>
  BY <1>4 DEF DeadlinePassed, TimedOut, Reply, TypeOK
<1>5. ASSUME NEW p \in Pollers, Answer(p) \/ DeadlinePassed(p) \/ TimedOut(p)
      PROVE UNCHANGED target /\ target[p] \in Execs
  BY <1>5 DEF Answer, DeadlinePassed, TimedOut, Reply, Following
<1>6. ASSUME NEW p \in NextCursorClients, Answer(p) \/ DeadlinePassed(p) \/ TimedOut(p)
      PROVE  \E new, lost \in SUBSET Nat, c \in Nat :
                /\ got' = [got EXCEPT ![p] = @ \cup new]
                /\ missed' = [missed EXCEPT ![p] = @ \cup lost]
                /\ cursor' = [cursor EXCEPT ![p] = c]
  <2>1. PICK new \in SUBSET Nat, lost \in SUBSET Nat : Reply(p, new, lost)
    <3>1. p \in Pollers
      BY ClientAssumption
    <3>2. snap[p].new \in SUBSET Nat /\ (cursor[p] + 1) .. (snap[p].oldest - 1) \in SUBSET Nat
      BY <3>1 DEF TypeOK
    <3> QED
      BY <1>6, <3>2 DEF Answer, DeadlinePassed, TimedOut
  <2>2. nextId[target[p]] - 1 \in Nat
    BY <1>5, <1>6, ClientAssumption DEF TypeOK
  <2> QED
    BY <1>6, <2>1, <2>2 DEF Reply
<1>7. ASSUME NEW p \in Pollers, PollStep(p) \/ TimerFires(p)
      PROVE  \/ p \in Pollers \ NextCursorClients
             \/ p \in NextCursorClients
  OBVIOUS
<1> QED
  BY <1>1, <1>2, <1>3, <1>4, <1>5, <1>6, <1>7, StepShape, AnswerAccounts DEF PollStep

\* DeliveryInv is inductive with OutputInv.
LEMMA DeliveryStep == OutputInv /\ DeliveryInv /\ [Next]_vars => DeliveryInv'
<1> SUFFICES ASSUME OutputInv, DeliveryInv, [Next]_vars PROVE DeliveryInv'
  OBVIOUS
<1> USE DEF OutputInv
<1>0. ASSUME NEW e \in Execs PROVE nextId[e] \in Nat /\ nextId'[e] \in Nat /\ nextId[e] <= nextId'[e]
  <2>1. nextId \in [Execs -> Nat \ {0}]
    BY DEF TypeOK
  <2>2. UNCHANGED nextId \/ \E f \in Execs : nextId' = [nextId EXCEPT ![f] = @ + 1]
    BY StepShape DEF OutputsGrow, AppendEvent, outVars
  <2>3. ASSUME NEW f \in Execs, nextId' = [nextId EXCEPT ![f] = @ + 1]
        PROVE  nextId'[e] \in Nat /\ nextId[e] <= nextId'[e]
    <3>1. CASE e = f
      BY <2>1, <2>3, <3>1
    <3>2. CASE e # f
      BY <2>1, <2>3, <3>2
    <3> QED
      BY <3>1, <3>2
  <2> QED
    BY <2>1, <2>2, <2>3
\* The clauses of DeliveryInv for one poller, split by what the step did to it.
<1> DEFINE Good(q) ==
      /\ q \notin NextCursorClients =>
            /\ got'[q] \cup missed'[q] = 1 .. cursor'[q]
            /\ got'[q] \cap missed'[q] = {}
            /\ target'[q] # NoExec =>
                  \A id \in missed'[q] : id < nextId'[target'[q]] - MaxRetained
      /\ target'[q] = NoExec => cursor'[q] = 0
<1>1. ASSUME NEW q \in Pollers, got'[q] = got[q], missed'[q] = missed[q],
             cursor'[q] = cursor[q], target'[q] = target[q]
      PROVE  Good(q)
  <2>1. CASE target[q] = NoExec
    BY <1>1, <2>1 DEF DeliveryInv, DeliveryAccounted
  <2>2. CASE target[q] # NoExec
    <3>1. target[q] \in Execs
      BY <2>2 DEF TypeOK
    <3>2. nextId[target[q]] <= nextId'[target[q]]
      BY <1>0, <3>1
    <3>3. ASSUME q \notin NextCursorClients, NEW id \in missed'[q]
          PROVE  id < nextId'[target'[q]] - MaxRetained
      <4>1. id < nextId[target[q]] - MaxRetained /\ id \in Nat
        BY <1>1, <2>2, <3>3 DEF DeliveryInv, DeliveryAccounted, TypeOK
      <4> QED
        BY <1>0, <1>1, <3>1, <3>2, <4>1, RetainedAssumption
    <3>4. q \notin NextCursorClients =>
            /\ got'[q] \cup missed'[q] = 1 .. cursor'[q]
            /\ got'[q] \cap missed'[q] = {}
      BY <1>1 DEF DeliveryInv, DeliveryAccounted
    <3> QED
      BY <1>1, <2>2, <3>3, <3>4
  <2> QED
    BY <2>1, <2>2
\* A poller that begins to follow an execution has missed nothing yet.
<1>2. ASSUME NEW q \in Pollers, got'[q] = got[q], missed'[q] = missed[q],
             cursor'[q] = cursor[q], target[q] = NoExec
      PROVE  Good(q)
  <2>1. cursor[q] = 0
    BY <1>2 DEF DeliveryInv
  <2>2. q \notin NextCursorClients => got[q] \cup missed[q] = {}
    BY <2>1 DEF DeliveryInv, DeliveryAccounted
  <2> QED
    BY <1>2, <2>1, <2>2
<1>3. ASSUME NEW q \in Pollers \ NextCursorClients, target'[q] = target[q],
             target[q] \in Execs,
             NEW hi \in cursor[q] + 1 .. nextId[target[q]] - 1,
             NEW lo \in cursor[q] .. hi - 1, Accounts(q, lo, hi)
      PROVE  Good(q)
  <2> DEFINE c == cursor[q]
             k == nextId[target[q]]
  <2>1. /\ c \in Nat /\ k \in Nat /\ hi \in Nat /\ lo \in Nat /\ MaxRetained \in Nat
        /\ c <= lo /\ lo < hi /\ k <= nextId'[target[q]] /\ nextId'[target[q]] \in Nat
    BY <1>0, <1>3, RetainedAssumption DEF TypeOK
  <2>2. /\ got'[q] = got[q] \cup (lo + 1 .. hi)
        /\ missed'[q] = missed[q] \cup (c + 1 .. lo)
        /\ cursor'[q] = hi
        /\ lo > c => lo <= k - 1 - MaxRetained
    BY <1>3 DEF Accounts, TypeOK
  <2>3. /\ got[q] \cup missed[q] = 1 .. c
        /\ got[q] \cap missed[q] = {}
        /\ target[q] # NoExec => \A id \in missed[q] : id < k - MaxRetained
    BY DEF DeliveryInv, DeliveryAccounted
  <2>4. target[q] # NoExec
    BY <1>3, TargetAssumption
  <2> HIDE DEF c, k
  <2>5. got'[q] \cup missed'[q] = 1 .. hi
    <3>1. 1 .. hi = (1 .. c) \cup (c + 1 .. lo) \cup (lo + 1 .. hi)
      BY <2>1
    <3> QED
      BY <2>2, <2>3, <3>1
  <2>6. got'[q] \cap missed'[q] = {}
    <3>1. /\ (1 .. c) \cap (c + 1 .. lo) = {}
          /\ (1 .. c) \cap (lo + 1 .. hi) = {}
          /\ (c + 1 .. lo) \cap (lo + 1 .. hi) = {}
      BY <2>1
    <3> QED
      BY <2>2, <2>3, <3>1
  <2>7. ASSUME NEW id \in missed'[q] PROVE id < nextId'[target[q]] - MaxRetained
    <3>1. id \in Int /\ id < k - MaxRetained
      <4>1. CASE id \in missed[q]
        <5>1. id \in 1 .. c
          BY <2>3, <4>1
        <5> QED
          BY <2>1, <2>3, <2>4, <4>1, <5>1
      <4>2. CASE id \in c + 1 .. lo
        BY <2>1, <2>2, <4>2
      <4> QED
        BY <2>2, <2>7, <4>1, <4>2
    <3> QED
      BY <2>1, <3>1
  <2> QED
    BY <1>3, <2>2, <2>4, <2>5, <2>6, <2>7
<1>4. ASSUME NEW q \in Pollers PROVE Good(q)
  <2>1. CASE UNCHANGED <<got, missed, cursor, target>>
    BY <1>1, <2>1
  <2>2. ASSUME UNCHANGED <<got, missed, cursor>>,
               NEW p \in Pollers, NEW e \in Execs, PollBegin(p, e)
        PROVE  Good(q)
    <3>1. CASE target'[q] = target[q]
      BY <1>1, <2>2, <3>1
    <3>2. CASE target'[q] # target[q]
      <4>1. target[q] = NoExec
        BY <2>2, <3>2 DEF PollBegin, TypeOK
      <4> QED
        BY <1>2, <2>2, <4>1
    <3> QED
      BY <3>1, <3>2
  <2>3. ASSUME NEW p \in NextCursorClients, UNCHANGED target, target[p] \in Execs,
               \E new, lost \in SUBSET Nat, c \in Nat :
                       /\ got' = [got EXCEPT ![p] = @ \cup new]
                       /\ missed' = [missed EXCEPT ![p] = @ \cup lost]
                       /\ cursor' = [cursor EXCEPT ![p] = c]
        PROVE  Good(q)
    <3>1. CASE q = p
      BY <2>3, <3>1, TargetAssumption
    <3>2. CASE q # p
      <4>1. got'[q] = got[q] /\ missed'[q] = missed[q] /\ cursor'[q] = cursor[q]
        BY <2>3, <3>2 DEF TypeOK
      <4> QED
        BY <1>1, <2>3, <4>1
    <3> QED
      BY <3>1, <3>2
  <2>4. ASSUME NEW p \in Pollers \ NextCursorClients, UNCHANGED target,
               target[p] \in Execs,
               NEW hi \in cursor[p] + 1 .. nextId[target[p]] - 1,
               NEW lo \in cursor[p] .. hi - 1, Accounts(p, lo, hi)
        PROVE  Good(q)
    <3>1. CASE q = p
      BY <1>3, <2>4, <3>1
    <3>2. CASE q # p
      <4>1. got'[q] = got[q] /\ missed'[q] = missed[q] /\ cursor'[q] = cursor[q]
        BY <2>4, <3>2 DEF Accounts, TypeOK
      <4> QED
        BY <1>1, <2>4, <4>1
    <3> QED
      BY <3>1, <3>2
  <2> HIDE DEF Good
  <2> QED
    BY <2>1, <2>2, <2>3, <2>4, AccountShape
<1> QED
  BY <1>4 DEF DeliveryInv, DeliveryAccounted

\* It holds always.
LEMMA DeliveryAlways == Spec => []DeliveryInv
<1>1. Init => DeliveryInv
  BY DEF Init, DeliveryInv, DeliveryAccounted
<1> QED
  BY <1>1, DeliveryStep, OutputAlways, PTL DEF Spec

\* A client that passes its largest event_id never loses an event silently.
THEOREM DeliveryCorrect == Spec => []DeliveryAccounted
BY DeliveryAlways, PTL DEF DeliveryInv

-----------------------------------------------------------------------------
(* What "completed" promises.                                              *)

\* No cursor is past the events there are, and what a poller that decides on
\* a completed execution has read ends with the last event.
CompleteInv ==
    \A p \in Pollers : target[p] \in Execs =>
        /\ cursor[p] < nextId[target[p]]
        /\ phase[p] = "decide" /\ status[target[p]] = "completed"
              => WindowRead(p, nextId[target[p]] - 1)

\* While a poller holds the loop no execution completes, and the thread of one
\* that has completed has ended.
LEMMA CompletedStays ==
    ASSUME OutputInv, TaskInv, [Next]_vars, ~LoopFree, NEW e \in Execs
    PROVE  /\ UNCHANGED status
           /\ status[e] = "completed" => nextId'[e] = nextId[e]
<1>1. UNCHANGED status
  BY DEF Next, vars, execVars, Start, TaskStep, FirstStep, RunFinish, ConnectFails,
     BrowserAnswer, BrowserFails, Stopped, NeverRan, ThreadStep, ThreadBegins,
     Lookup, AppendOutput, ScheduleSet, ThreadEnds, RunSet, PollBegin, PollStep,
     PollAgain, Answer, DeadlinePassed, ClearAndWait, TimedOut, Reply, TimerFires,
     StartRefused, Inspect, CloseBegin, CloseEnd, Tick
<1>2. UNCHANGED nextId \/ \E f \in Execs : AppendOutput(f)
  BY DEF Next, vars, outVars, Start, TaskStep, FirstStep, RunFinish, ConnectFails,
     BrowserAnswer, BrowserFails, Stopped, NeverRan, ThreadStep, ThreadBegins,
     Lookup, ScheduleSet, ThreadEnds, RunSet, PollBegin, PollStep, PollAgain,
     Answer, DeadlinePassed, ClearAndWait, TimedOut, Reply, TimerFires,
     StartRefused, Inspect, CloseBegin, CloseEnd, Tick
<1>3. ASSUME NEW f \in Execs, AppendOutput(f), status[e] = "completed"
      PROVE  nextId'[e] = nextId[e]
  <2>1. e # f
    BY <1>3 DEF AppendOutput, TaskInv
  <2> QED
    BY <1>3, <2>1 DEF AppendOutput, AppendEvent, OutputInv, TypeOK
<1> QED
  BY <1>1, <1>2, <1>3

\* The events of an execution only grow in number.
LEMMA EventsGrow ==
    ASSUME OutputInv, [Next]_vars, NEW e \in Execs
    PROVE  nextId[e] \in Nat /\ nextId'[e] \in Nat /\ nextId[e] <= nextId'[e]
<1>1. nextId \in [Execs -> Nat \ {0}]
  BY DEF OutputInv, TypeOK
<1>2. UNCHANGED nextId \/ \E f \in Execs : nextId' = [nextId EXCEPT ![f] = @ + 1]
  BY StepShape DEF OutputsGrow, AppendEvent, outVars
<1>3. ASSUME NEW f \in Execs, nextId' = [nextId EXCEPT ![f] = @ + 1]
      PROVE  nextId'[e] \in Nat /\ nextId[e] <= nextId'[e]
  BY <1>1, <1>3
<1> QED
  BY <1>1, <1>2, <1>3

\* A reply moves the cursor to an event there is, or leaves it.
LEMMA CursorStep ==
    ASSUME OutputInv, CompleteInv, DeliveryInv, [Next]_vars,
           NEW q \in Pollers, target'[q] \in Execs
    PROVE  cursor'[q] < nextId'[target'[q]]
<1> USE DEF OutputInv
<1> DEFINE e == target'[q]
<1>0. /\ nextId[e] \in Nat \ {0} /\ nextId'[e] \in Nat /\ nextId[e] <= nextId'[e]
      /\ cursor[q] \in Nat
  BY EventsGrow DEF TypeOK
<1>1. target[q] \in {e, NoExec}
  BY AccountShape DEF PollBegin, TypeOK
<1>2. cursor[q] < nextId[e]
  <2>1. CASE target[q] = NoExec
    BY <1>0, <2>1 DEF DeliveryInv
  <2>2. CASE target[q] = e
    BY <2>2 DEF CompleteInv
  <2> QED
    BY <1>1, <2>1, <2>2
<1>3. CASE cursor'[q] = cursor[q]
  BY <1>0, <1>2, <1>3
<1>4. CASE cursor'[q] # cursor[q]
  <2>1. CASE q \in NextCursorClients
    <3>1. PICK p \in Pollers :
             \/ \E f \in Execs : PollBegin(p, f)
             \/ PollStep(p) \/ TimerFires(p)
      BY <1>4, StepShape DEF PollersQuiet
    <3>2. Answer(q) \/ DeadlinePassed(q) \/ TimedOut(q)
      BY <1>4, <3>1 DEF PollBegin, TimerFires, PollStep, PollAgain, ClearAndWait,
         Answer, DeadlinePassed, TimedOut, Reply, TypeOK
    <3>3. PICK new, lost : Reply(q, new, lost)
      BY <3>2 DEF Answer, DeadlinePassed, TimedOut
    <3>4. cursor'[q] = nextId[target[q]] - 1 /\ target'[q] = target[q]
      BY <2>1, <3>3 DEF Reply, TypeOK
    <3> QED
      BY <1>0, <3>4
  <2>2. CASE q \notin NextCursorClients
    <3>1. PICK p \in Pollers \ NextCursorClients :
             /\ UNCHANGED target
             /\ \E hi \in cursor[p] + 1 .. nextId[target[p]] - 1 :
                   cursor' = [cursor EXCEPT ![p] = hi]
      BY <1>4, <2>2, AccountShape, ClientAssumption DEF Accounts, TypeOK
    <3>2. p = q
      BY <1>4, <3>1 DEF TypeOK
    <3> QED
      BY <1>0, <3>1, <3>2 DEF TypeOK
  <2> QED
    BY <2>1, <2>2
<1> QED
  BY <1>3, <1>4

\* CompleteInv is inductive with the invariants before it.
LEMMA CompleteStep ==
    OutputInv /\ TaskInv /\ DeliveryInv /\ CompleteInv /\ [Next]_vars => CompleteInv'
<1> SUFFICES ASSUME OutputInv, TaskInv, DeliveryInv, CompleteInv, [Next]_vars,
                    NEW q \in Pollers, target'[q] \in Execs
             PROVE  /\ cursor'[q] < nextId'[target'[q]]
                    /\ phase'[q] = "decide" /\ status'[target'[q]] = "completed"
                          => WindowRead(q, nextId[target[q]] - 1)'
  BY DEF CompleteInv
<1> USE DEF OutputInv
<1> SUFFICES ASSUME phase'[q] = "decide", status'[target'[q]] = "completed"
             PROVE  WindowRead(q, nextId[target[q]] - 1)'
  BY CursorStep
\* A poller that was deciding holds the loop.
<1>1. ASSUME phase[q] = "decide", target'[q] = target[q], snap'[q] = snap[q],
             cursor'[q] = cursor[q]
      PROVE  WindowRead(q, nextId[target[q]] - 1)'
  <2>1. ~LoopFree
    BY <1>1 DEF LoopFree, HoldsLoop
  <2>2. status[target[q]] = "completed" /\ nextId'[target[q]] = nextId[target[q]]
    BY <1>1, <2>1, CompletedStays
  <2>3. WindowRead(q, nextId[target[q]] - 1)
    BY <1>1, <2>2 DEF CompleteInv
  <2> QED
    BY <1>1, <2>2, <2>3 DEF WindowRead
\* One that begins to decide has just read the buffer.
<1>2. ASSUME Snapshot(q, target'[q]), UNCHANGED outVars, UNCHANGED cursor
      PROVE  WindowRead(q, nextId[target[q]] - 1)'
  <2>1. ASSUME NEW e \in Execs, target'[q] = e
        PROVE  WindowRead(q, nextId[target[q]] - 1)'
    <3>1. WindowRead(q, nextId[e] - 1)'
      BY <1>2, <2>1, SnapshotWindow DEF outVars
    <3> QED
      BY <2>1, <3>1 DEF WindowRead
  <2> QED
    BY <2>1
<1>3. CASE PollersQuiet
  BY <1>1, <1>3 DEF PollersQuiet, Wake
<1>4. ASSUME UNCHANGED outVars, NEW p \in Pollers, p # q,
             \/ \E e \in Execs : PollBegin(p, e)
             \/ PollStep(p) \/ TimerFires(p)
      PROVE  WindowRead(q, nextId[target[q]] - 1)'
  <2>1. /\ phase[q] = "decide" /\ target'[q] = target[q]
        /\ snap'[q] = snap[q] /\ cursor'[q] = cursor[q]
    BY <1>4 DEF PollBegin, PollStep, TimerFires, PollAgain, Snapshot, Answer,
       DeadlinePassed, ClearAndWait, TimedOut, Reply, TypeOK
  <2> QED
    BY <1>1, <2>1
<1>5. ASSUME UNCHANGED outVars,
             \/ \E e \in Execs : PollBegin(q, e)
             \/ PollStep(q) \/ TimerFires(q)
      PROVE  WindowRead(q, nextId[target[q]] - 1)'
  <2>1. PollAgain(q) \/ \E e \in Execs : PollBegin(q, e)
    BY <1>5 DEF PollStep, TimerFires, Answer, DeadlinePassed, ClearAndWait,
       TimedOut, Reply, TypeOK
  <2>2. Snapshot(q, target'[q]) /\ UNCHANGED cursor
    BY <2>1 DEF PollAgain, PollBegin, TypeOK
  <2> QED
    BY <1>2, <1>5, <2>2
<1> QED
  BY <1>3, <1>4, <1>5, StepShape

\* It holds always.
LEMMA CompleteAlways == Spec => []CompleteInv
<1>1. Init => CompleteInv
  BY DEF Init, CompleteInv
<1> QED
  BY <1>1, CompleteStep, OutputAlways, TaskAlways, DeliveryAlways, PTL DEF Spec

\* A reply that has read the buffer of a completed execution leaves its client
\* nothing to come back for, though the reader thread published up to the end
\* beside the loop.
THEOREM CompletedCorrect == Spec => CompletedMeansAll
<1>1. ASSUME OutputInv, DeliveryInv, DeliveryInv', CompleteInv, [Next]_vars,
             NEW p \in Pollers \ NextCursorClients,
             phase[p] = "decide", phase'[p] = "idle",
             status[target[p]] = "completed"
      PROVE  got'[p] \cup missed'[p] = 1 .. nextId[target[p]] - 1
  <2> USE DEF OutputInv
  <2> DEFINE last == nextId[target[p]] - 1
  <2>1. target[p] \in Execs /\ last \in Nat /\ cursor[p] \in Nat
    BY <1>1 DEF Following, TypeOK
  <2>2. WindowRead(p, last) /\ cursor[p] <= last
    BY <1>1, <2>1 DEF CompleteInv, TypeOK
  <2>3. Answer(p)
    <3>1. PICK q \in Pollers :
             \/ \E e \in Execs : PollBegin(q, e)
             \/ PollStep(q) \/ TimerFires(q)
      BY <1>1, StepShape DEF PollersQuiet, Wake
    <3> QED
      BY <1>1, <3>1 DEF PollBegin, TimerFires, PollStep, PollAgain, ClearAndWait,
         Answer, DeadlinePassed, TimedOut, Terminal, Reply, TypeOK
  <2>4. cursor'[p] = IF snap[p].new = {} THEN cursor[p] ELSE Newest(snap[p].new)
    BY <1>1, <2>3 DEF Answer, Reply, TypeOK
  <2>5. CASE snap[p].new # {}
    <3>1. cursor'[p] = last
      BY <1>1, <2>1, <2>2, <2>4, <2>5, NewestRead
    <3> QED
      BY <1>1, <3>1 DEF DeliveryInv, DeliveryAccounted
  <2>6. CASE snap[p].new = {}
    <3>1. ~(last > cursor[p])
      BY <1>1, <2>1, <2>2, <2>6 DEF WindowRead, TypeOK
    <3>2. cursor'[p] = last
      BY <2>1, <2>2, <2>4, <2>6, <3>1
    <3> QED
      BY <1>1, <3>2 DEF DeliveryInv, DeliveryAccounted
  <2> QED
    BY <2>5, <2>6
<1>2. OutputInv /\ DeliveryInv /\ DeliveryInv' /\ CompleteInv /\ [Next]_vars =>
         [\A p \in Pollers \ NextCursorClients :
            /\ phase[p] = "decide" /\ phase'[p] = "idle"
            /\ status[target[p]] = "completed"
            => got'[p] \cup missed'[p] = 1 .. nextId[target[p]] - 1]_vars
  BY <1>1
<1> QED
  BY <1>2, OutputAlways, DeliveryAlways, CompleteAlways, PTL DEF Spec, CompletedMeansAll

-----------------------------------------------------------------------------
(* The registry implements OutputDelivery.                                 *)

\* The refinement mapping.
Emitted == [e \in Execs |-> nextId[e] - 1]
Completed == [e \in Execs |-> status[e] = "completed"]
Clients == Pollers \ NextCursorClients
OfClients(f) == [p \in Clients |-> f[p]]

\* How a step changes the outputs and the completions.
LEMMA EmissionShape ==
    ASSUME OutputInv, TaskInv, [Next]_vars
    PROVE  \/ UNCHANGED <<nextId, Completed>>
           \/ /\ PollersQuiet
              /\ \E e \in Execs :
                    /\ status[e] # "completed"
                    /\ nextId' = [nextId EXCEPT ![e] = @ + 1]
                    /\ UNCHANGED status
           \/ /\ PollersQuiet
              /\ \E e \in Execs :
                    /\ status[e] # "completed"
                    /\ status' = [status EXCEPT ![e] = "completed"]
                    /\ nextId' = nextId \/ nextId' = [nextId EXCEPT ![e] = @ + 1]
<1> USE DEF OutputInv
<1>1. ASSUME UNCHANGED <<nextId, status>> PROVE UNCHANGED <<nextId, Completed>>
  BY <1>1 DEF Completed
<1>2. ASSUME NEW e \in Execs, Finish(e, "failed"), status[e] # "completed"
      PROVE  UNCHANGED Completed
  <2>1. \A f \in Execs : (status'[f] = "completed") = (status[f] = "completed")
    BY <1>2 DEF Finish, TypeOK
  <2> QED
    BY <2>1 DEF Completed
<1>3. ASSUME NEW e \in Execs, Wake(e),
             UNCHANGED <<target, longPoll, cursor, snap, got, missed, replied>>
      PROVE  PollersQuiet
  BY <1>3 DEF PollersQuiet
<1>4. CASE UNCHANGED vars
  BY <1>1, <1>4 DEF vars, execVars, outVars
<1>5. ASSUME NEW e \in Execs, Start(e) \/ FirstStep(e) \/ NeverRan(e)
      PROVE UNCHANGED <<nextId, Completed>>
  BY <1>1, <1>5 DEF Start, FirstStep, NeverRan, outVars
<1>6. ASSUME NEW e \in Execs, RunFinish(e), runner[e] = "returned"
      PROVE /\ PollersQuiet
            /\ status[e] # "completed"
            /\ status' = [status EXCEPT ![e] = "completed"]
            /\ nextId' = nextId
  BY <1>3, <1>6 DEF RunFinish, Finish, TaskInv
<1>7. ASSUME NEW e \in Execs,
             \/ RunFinish(e) /\ runner[e] # "returned"
             \/ ConnectFails(e) \/ BrowserFails(e) \/ Stopped(e)
      PROVE UNCHANGED <<nextId, Completed>>
  <2>1. Finish(e, "failed") /\ UNCHANGED nextId /\ task[e] # "done"
    BY <1>7 DEF RunFinish, ConnectFails, BrowserFails, Stopped
  <2> QED
    BY <1>2, <2>1 DEF TaskInv
<1>8. ASSUME NEW e \in Execs, BrowserAnswer(e)
      PROVE /\ PollersQuiet
            /\ status[e] # "completed"
            /\ status' = [status EXCEPT ![e] = "completed"]
            /\ nextId' = nextId \/ nextId' = [nextId EXCEPT ![e] = @ + 1]
  BY <1>3, <1>8 DEF BrowserAnswer, Finish, AppendEvent, TaskInv
<1>9. ASSUME NEW e \in Execs,
             ThreadBegins(e) \/ Lookup(e) \/ ScheduleSet(e) \/ ThreadEnds(e) \/ RunSet(e)
      PROVE UNCHANGED <<nextId, Completed>>
  BY <1>1, <1>9 DEF ThreadBegins, Lookup, ScheduleSet, ThreadEnds, RunSet,
     execVars, outVars
<1>10. ASSUME NEW e \in Execs, AppendOutput(e)
      PROVE /\ PollersQuiet
            /\ status[e] # "completed"
            /\ nextId' = [nextId EXCEPT ![e] = @ + 1]
            /\ UNCHANGED status
  BY <1>10 DEF AppendOutput, AppendEvent, TaskInv, PollersQuiet, pollVars
<1>11. CASE StartRefused \/ Inspect \/ CloseBegin \/ CloseEnd \/ Tick
  BY <1>1, <1>11 DEF StartRefused, Inspect, CloseBegin, CloseEnd, Tick, execVars, outVars
<1>12. ASSUME NEW p \in Pollers, NEW e \in Execs, PollBegin(p, e)
      PROVE UNCHANGED <<nextId, Completed>>
  BY <1>1, <1>12 DEF PollBegin, outVars
<1>13. ASSUME NEW p \in Pollers, PollStep(p) \/ TimerFires(p)
      PROVE UNCHANGED <<nextId, Completed>>
  BY <1>1, <1>13 DEF PollStep, TimerFires, PollAgain, Answer, DeadlinePassed,
     ClearAndWait, TimedOut, Reply, execVars, outVars
<1> QED
  BY <1>4, <1>5, <1>6, <1>7, <1>8, <1>9, <1>10, <1>11, <1>12, <1>13
     DEF Next, TaskStep, ThreadStep

\* A step that puts out nothing is a client's, or a stutter.
LEMMA ClientShape ==
    ASSUME OutputInv, [Next]_vars, UNCHANGED <<nextId, Completed>>
    PROVE  Delivery!Next \/ UNCHANGED Delivery!vars
<1> USE DEF OutputInv
<1>0. UNCHANGED Emitted
  BY DEF Emitted
<1>1. CASE UNCHANGED <<got, missed, cursor, target>>
  BY <1>0, <1>1 DEF Delivery!vars, Emitted, Completed, Clients
<1>2. ASSUME UNCHANGED <<got, missed, cursor>>,
             NEW p \in Pollers, NEW e \in Execs, PollBegin(p, e)
      PROVE  Delivery!Next \/ UNCHANGED Delivery!vars
  <2>1. /\ target' = [target EXCEPT ![p] = e]
        /\ target[p] \in {e, NoExec}
    BY <1>2 DEF PollBegin
  <2>2. CASE p \in Clients /\ target[p] = NoExec
    <3>1. OfClients(target)' = [OfClients(target) EXCEPT ![p] = e]
      BY <2>1, <2>2 DEF OfClients, Clients, TypeOK
    <3>2. Delivery!Follow(p, e)
      BY <1>0, <1>2, <2>2, <3>1 DEF Delivery!Follow, Emitted, Completed, Clients, OfClients
    <3> QED
      BY <2>2, <3>2 DEF Delivery!Next, Clients
  <2>3. CASE ~(p \in Clients /\ target[p] = NoExec)
    <3>1. OfClients(target)' = OfClients(target)
      BY <2>1, <2>3 DEF OfClients, Clients, TypeOK
    <3> QED
      BY <1>0, <1>2, <3>1 DEF Delivery!vars, Emitted, Completed, Clients, OfClients
  <2> QED
    BY <2>2, <2>3
<1>3. ASSUME NEW p \in NextCursorClients, UNCHANGED target,
             NEW new, NEW lost, NEW c,
             got' = [got EXCEPT ![p] = @ \cup new],
             missed' = [missed EXCEPT ![p] = @ \cup lost],
             cursor' = [cursor EXCEPT ![p] = c]
      PROVE  UNCHANGED Delivery!vars
  <2>1. /\ OfClients(got)' = OfClients(got)
        /\ OfClients(missed)' = OfClients(missed)
        /\ OfClients(cursor)' = OfClients(cursor)
    BY <1>3 DEF OfClients, Clients, TypeOK
  <2> QED
    BY <1>0, <1>3, <2>1 DEF Delivery!vars, Emitted, Completed, Clients, OfClients
<1>4. ASSUME NEW p \in Clients, UNCHANGED target, target[p] \in Execs,
             NEW hi \in cursor[p] + 1 .. nextId[target[p]] - 1,
             NEW lo \in cursor[p] .. hi - 1, Accounts(p, lo, hi)
      PROVE  Delivery!Next
  <2>1. /\ OfClients(got)' = [OfClients(got) EXCEPT ![p] = @ \cup (lo + 1 .. hi)]
        /\ OfClients(missed)' =
              [OfClients(missed) EXCEPT ![p] = @ \cup (OfClients(cursor)[p] + 1 .. lo)]
        /\ OfClients(cursor)' = [OfClients(cursor) EXCEPT ![p] = hi]
    BY <1>4 DEF Accounts, OfClients, Clients, TypeOK
  <2>2. /\ OfClients(target)[p] # NoExec
        /\ OfClients(target)' = OfClients(target)
        /\ OfClients(cursor)[p] = cursor[p]
        /\ Emitted[OfClients(target)[p]] = nextId[target[p]] - 1
        /\ lo > cursor[p] => lo <= nextId[target[p]] - 1 - MaxRetained
    BY <1>4, TargetAssumption DEF OfClients, Emitted, Accounts
  <2>3. Delivery!Account(p)
    BY <1>0, <1>4, <2>1, <2>2 DEF Delivery!Account, Emitted, Completed, Clients, OfClients
  <2> QED
    BY <1>4, <2>3 DEF Delivery!Next, Clients
<1> QED
  BY <1>1, <1>2, <1>3, <1>4, AccountShape DEF Clients

\* Every step is one of OutputDelivery or a stutter.
LEMMA RefinedStep ==
    ASSUME OutputInv, TaskInv, [Next]_vars
    PROVE  Delivery!Next \/ UNCHANGED Delivery!vars
<1> USE DEF OutputInv
<1>1. CASE UNCHANGED <<nextId, Completed>>
  BY <1>1, ClientShape
<1>2. ASSUME PollersQuiet PROVE UNCHANGED <<target, cursor, got, missed>>
  BY <1>2 DEF PollersQuiet
<1>3. ASSUME NEW e \in Execs, nextId' = [nextId EXCEPT ![e] = @ + 1]
      PROVE  Emitted' = [Emitted EXCEPT ![e] = @ + 1]
  <2>1. \A f \in Execs : nextId[f] \in Nat \ {0}
    BY DEF TypeOK
  <2>2. \A f \in Execs : nextId'[f] - 1 = IF f = e THEN nextId[f] - 1 + 1 ELSE nextId[f] - 1
    BY <1>3, <2>1 DEF TypeOK
  <2> QED
    BY <2>2 DEF Emitted
<1>4. ASSUME PollersQuiet, NEW e \in Execs, status[e] # "completed",
             nextId' = [nextId EXCEPT ![e] = @ + 1], UNCHANGED status
      PROVE  Delivery!Next
  <2>1. UNCHANGED Completed /\ ~Completed[e]
    BY <1>4 DEF Completed
  <2>2. Delivery!Emit(e)
    BY <1>2, <1>3, <1>4, <2>1 DEF Delivery!Emit, Emitted, Completed, Clients
  <2> QED
    BY <2>2 DEF Delivery!Next
<1>5. ASSUME PollersQuiet, NEW e \in Execs, status[e] # "completed",
             status' = [status EXCEPT ![e] = "completed"],
             nextId' = nextId \/ nextId' = [nextId EXCEPT ![e] = @ + 1]
      PROVE  Delivery!Next
  <2>1. ~Completed[e]
    BY <1>5 DEF Completed
  <2>2. Completed' = [Completed EXCEPT ![e] = TRUE]
    <3>1. \A f \in Execs : (status'[f] = "completed") =
                              IF f = e THEN TRUE ELSE (status[f] = "completed")
      BY <1>5 DEF TypeOK
    <3> QED
      BY <3>1 DEF Completed
  <2>3. Emitted' = Emitted \/ Emitted' = [Emitted EXCEPT ![e] = @ + 1]
    BY <1>3, <1>5 DEF Emitted
  <2>4. Delivery!Complete(e)
    BY <1>2, <1>5, <2>1, <2>2, <2>3 DEF Delivery!Complete, Emitted, Completed, Clients
  <2> QED
    BY <2>4 DEF Delivery!Next
<1> QED
  BY <1>1, <1>4, <1>5, EmissionShape

\* start, _run, publish, get_events and close together implement the promised
\* delivery, for clients that pass their largest event_id.
THEOREM DeliveryRefinement == Spec => DeliveryRefined
<1>1. ASSUME Init PROVE Delivery!Init
  <2>1. Emitted = [e \in Execs |-> 0]
    BY <1>1 DEF Init, Emitted
  <2>2. Completed = [e \in Execs |-> FALSE]
    <3>1. \A e \in Execs : (status[e] = "completed") = FALSE
      BY <1>1 DEF Init
    <3> QED
      BY <3>1 DEF Completed
  <2>3. /\ OfClients(target) = [p \in Clients |-> NoExec]
        /\ OfClients(cursor) = [p \in Clients |-> 0]
        /\ OfClients(got) = [p \in Clients |-> {}]
        /\ OfClients(missed) = [p \in Clients |-> {}]
    BY <1>1 DEF Init, OfClients, Clients
  <2> QED
    BY <2>1, <2>2, <2>3 DEF Delivery!Init, Emitted, Completed, OfClients, Clients
<1>2. OutputInv /\ TaskInv /\ [Next]_vars => [Delivery!Next]_(Delivery!vars)
  BY RefinedStep
<1> QED
  BY <1>1, <1>2, OutputAlways, TaskAlways, PTL DEF Spec, DeliveryRefined, Delivery!Spec
=============================================================================
