------------------------- MODULE DirectRuntime_proofs -------------------------
(***************************************************************************)
(* What overlapping connects, changes, closes and executions cannot break  *)
(* in the direct runtime, for any calls, runtime objects and targets.      *)
(***************************************************************************)
EXTENDS DirectRuntime, FiniteSetTheorems, TLAPS

Using(c) == pc[c] \in {"captured", "rebuilding", "ready", "starting", "kernel"}

\* A call that builds a runtime builds the one it made for its target: an
\* object in anybody's hands is never given to another call.
BuildsOwn ==
    \A c \in Callers :
       /\ pc[c] = "building" =>
             mine[c] \in Runtimes /\ want[c] \in Targets /\ target[mine[c]] = want[c]
       /\ pc[c] = "closing" => mine[c] \in Runtimes
       /\ Using(c) => mine[c] \in Runtimes

\* The part of TypeOK that does not count clients.
Shape ==
    /\ runtime \in Runtimes \cup {NoRuntime}
    /\ endpoint \in Targets \cup {NoTarget}
    /\ target \in [Runtimes -> Targets \cup {NoTarget}]
    /\ client \in [Runtimes -> {"none", "live", "dead"}]
    /\ pc \in [Callers -> Pcs]
    /\ mine \in [Callers -> Runtimes \cup {NoRuntime}]
    /\ want \in [Callers -> Targets \cup {NoTarget}]

\* Executions of one runtime hold the connect lock, and the execute lock, one
\* at a time.
OneEach ==
    \A c, d \in Callers :
       mine[c] = mine[d] =>
          /\ pc[c] \in {"starting", "kernel"} /\ pc[d] \in {"starting", "kernel"}
                => c = d
          /\ pc[c] = "rebuilding" /\ pc[d] = "rebuilding" => c = d

RuntimeInv == Shape /\ BuildsOwn /\ EndpointOfRuntime /\ OneEach

\* The invariant holds at first.
LEMMA RuntimeInit == Init => RuntimeInv
BY DEF Init, RuntimeInv, Shape, BuildsOwn, EndpointOfRuntime, OneEach, Using, Pcs

\* A call that ends, or that goes to where no lock is held with nothing to
\* build, keeps what is said of calls.
LEMMA DoneKeeps ==
    ASSUME RuntimeInv, NEW c \in Callers, Done(c), UNCHANGED target
    PROVE  /\ pc' \in [Callers -> Pcs]
           /\ mine' \in [Callers -> Runtimes \cup {NoRuntime}]
           /\ want' \in [Callers -> Targets \cup {NoTarget}]
           /\ BuildsOwn' /\ OneEach'
BY DEF Done, Go, RuntimeInv, Shape, BuildsOwn, OneEach, Using, Pcs

\* A call that moves on keeps RuntimeInv.
LEMMA GoKeeps ==
    ASSUME RuntimeInv, NEW c \in Callers,
           NEW place \in {"selecting", "closing", "captured"},
           NEW r \in Runtimes \cup {NoRuntime}, place # "selecting" => r \in Runtimes,
           NEW t \in Targets \cup {NoTarget}, Go(c, place, r, t), UNCHANGED target
    PROVE  /\ pc' \in [Callers -> Pcs]
           /\ mine' \in [Callers -> Runtimes \cup {NoRuntime}]
           /\ want' \in [Callers -> Targets \cup {NoTarget}]
           /\ BuildsOwn' /\ OneEach'
BY DEF Go, RuntimeInv, Shape, BuildsOwn, OneEach, Using, Pcs

\* Replacing the runtime keeps the invariant.
LEMMA ReplaceKeeps ==
    ASSUME RuntimeInv, NEW c \in Callers, NEW t \in Targets \cup {NoTarget},
           Replace(c, t), client' \in [Runtimes -> {"none", "live", "dead"}]
    PROVE  RuntimeInv'
<1>1. runtime' = NoRuntime /\ endpoint' = NoTarget
  BY DEF Replace
<1>2. CASE t = NoTarget \/ Fresh = {}
  <2>1. Done(c) /\ UNCHANGED target
    BY <1>2 DEF Replace
  <2> QED
    BY <1>1, <2>1, DoneKeeps DEF RuntimeInv, Shape, EndpointOfRuntime
<1>3. CASE ~(t = NoTarget \/ Fresh = {})
  <2>1. PICK r \in Fresh : target' = [target EXCEPT ![r] = t] /\ Go(c, "building", r, t)
    BY <1>3 DEF Replace
  <2>2. r \in Runtimes /\ t \in Targets /\ \A d \in Callers : mine[d] # r
    BY <1>3, <2>1 DEF Fresh
  <2>3. Shape'
    BY <1>1, <2>1, <2>2 DEF Go, RuntimeInv, Shape, Pcs
  <2>4. BuildsOwn'
    BY <2>1, <2>2 DEF Go, RuntimeInv, Shape, BuildsOwn, Using
  <2>5. OneEach'
    BY <2>1, <2>2 DEF Go, RuntimeInv, Shape, OneEach
  <2> QED
    BY <1>1, <2>3, <2>4, <2>5 DEF RuntimeInv, EndpointOfRuntime
<1> QED
  BY <1>2, <1>3

\* So does retiring the old one.
LEMMA RetireKeeps ==
    ASSUME RuntimeInv, NEW c \in Callers, NEW t \in Targets \cup {NoTarget},
           Retire(c, t)
    PROVE  RuntimeInv'
<1>1. CASE ~HasClient(runtime)
  BY <1>1, ReplaceKeeps DEF Retire, RuntimeInv, Shape
<1>2. CASE HasClient(runtime)
  <2>1. /\ client' = [client EXCEPT ![runtime] = "none"]
        /\ Go(c, "closing", runtime, t)
        /\ UNCHANGED <<runtime, endpoint, target>>
    BY <1>2 DEF Retire
  <2>2. runtime \in Runtimes
    BY <1>2 DEF HasClient, RuntimeInv, Shape
  <2> QED
    BY <2>1, <2>2, GoKeeps DEF RuntimeInv, Shape, EndpointOfRuntime
<1> QED
  BY <1>1, <1>2

\* An execution moves on, under the lock it takes.
LEMMA MoveKeeps ==
    ASSUME RuntimeInv, NEW c \in Callers,
           NEW place \in {"rebuilding", "ready", "starting", "kernel"},
           Using(c), Move(c, place),
           place = "rebuilding" => ConnectFree(mine[c]),
           place = "starting" => ExecuteFree(mine[c]),
           place = "kernel" => pc[c] = "starting",
           client' \in [Runtimes -> {"none", "live", "dead"}]
    PROVE  RuntimeInv'
<1> USE DEF RuntimeInv, Move
<1>1. Shape'
  BY DEF Shape, Pcs
<1>2. BuildsOwn'
  BY DEF Shape, BuildsOwn, Using
<1>3. OneEach'
  BY DEF Shape, OneEach, ConnectFree, ExecuteFree
<1>4. EndpointOfRuntime'
  BY DEF EndpointOfRuntime
<1> QED
  BY <1>1, <1>2, <1>3, <1>4

\* So does a call that fails.
LEMMA FailsKeeps ==
    ASSUME RuntimeInv, NEW c \in Callers, Fails(c)
    PROVE  RuntimeInv'
BY DoneKeeps DEF Fails, RuntimeInv, Shape, EndpointOfRuntime

\* So does every step of connect.
LEMMA ManagerKeeps ==
    ASSUME RuntimeInv, NEW c \in Callers,
           \/ Connect(c) \/ Capture(c) \/ ManagerStep(c)
           \/ \E t \in Targets \cup {NoTarget} : Attach(c, t)
    PROVE  RuntimeInv'
<1>1. CASE Connect(c)
  BY <1>1, GoKeeps DEF Connect, RuntimeInv, Shape, EndpointOfRuntime
<1>2. CASE Capture(c)
  <2>1. runtime \in Runtimes
    BY <1>2 DEF Capture, RuntimeInv, Shape
  <2> QED
    BY <1>2, <2>1, GoKeeps DEF Capture, RuntimeInv, Shape, EndpointOfRuntime
<1>3. CASE SelectFails(c)
  BY <1>3, DoneKeeps DEF SelectFails, RuntimeInv, Shape, EndpointOfRuntime
<1>4. CASE Closed(c)
  BY <1>4, ReplaceKeeps DEF Closed, RuntimeInv, Shape
<1>5. ASSUME NEW t \in Targets, Selected(c, t) PROVE RuntimeInv'
  <2>1. CASE runtime # NoRuntime /\ endpoint = t /\ target[runtime] = t
    BY <1>5, <2>1, DoneKeeps DEF Selected, RuntimeInv, Shape, EndpointOfRuntime
  <2> QED
    BY <1>5, <2>1, RetireKeeps DEF Selected
<1>6. ASSUME NEW ok \in BOOLEAN, Built(c, ok) PROVE RuntimeInv'
  <2>1. mine[c] \in Runtimes /\ want[c] \in Targets /\ target[mine[c]] = want[c]
    BY <1>6 DEF Built, Starts, RuntimeInv, BuildsOwn
  <2>2. Done(c) /\ UNCHANGED target
    BY <1>6 DEF Built
  <2>3. client' \in [Runtimes -> {"none", "live", "dead"}]
    BY <1>6, <2>1 DEF Built, Starts, RuntimeInv, Shape
  <2>4. \/ runtime' = mine[c] /\ endpoint' = want[c]
        \/ UNCHANGED <<runtime, endpoint>>
    BY <1>6 DEF Built
  <2> QED
    BY <2>1, <2>2, <2>3, <2>4, DoneKeeps, RuntimeAssumption
    DEF RuntimeInv, Shape, EndpointOfRuntime
<1>7. ASSUME NEW t \in Targets \cup {NoTarget}, Attach(c, t) PROVE RuntimeInv'
  BY <1>7, RetireKeeps DEF Attach
<1> QED
  BY <1>1, <1>2, <1>3, <1>4, <1>5, <1>6, <1>7 DEF ManagerStep

\* So does every step of an execution.
LEMMA ExecuteKeeps ==
    ASSUME RuntimeInv, NEW c \in Callers, ExecuteStep(c)
    PROVE  RuntimeInv'
<1> USE DEF RuntimeInv, Shape, Using
<1>1. CASE Join(c)
  BY <1>1, MoveKeeps DEF Join
<1>2. CASE EnterExecute(c)
  BY <1>2, MoveKeeps DEF EnterExecute
<1>3. CASE ThreadStarts(c)
  BY <1>3, MoveKeeps, FailsKeeps DEF ThreadStarts
<1>4. CASE KernelEnds(c)
  BY <1>4, FailsKeeps DEF KernelEnds
<1>5. ASSUME NEW ok \in BOOLEAN, Rebuilt(c, ok) PROVE RuntimeInv'
  BY <1>5, MoveKeeps, FailsKeeps DEF Rebuilt, Starts
<1> QED
  BY <1>1, <1>2, <1>3, <1>4, <1>5 DEF ExecuteStep

\* RuntimeInv is inductive.
LEMMA RuntimeStep == RuntimeInv /\ [Next]_vars => RuntimeInv'
<1> SUFFICES ASSUME RuntimeInv, [Next]_vars PROVE RuntimeInv'
  OBVIOUS
<1>1. CASE UNCHANGED vars
  BY <1>1 DEF RuntimeInv, Shape, BuildsOwn, EndpointOfRuntime, OneEach, Using, vars
<1>2. ASSUME NEW r \in Runtimes, ClientDies(r) PROVE RuntimeInv'
  BY <1>2 DEF ClientDies, RuntimeInv, Shape, BuildsOwn, EndpointOfRuntime, OneEach,
              Using
<1> QED
  BY <1>1, <1>2, ManagerKeeps, ExecuteKeeps DEF Next

\* The endpoint the manager reports is that of its runtime although its
\* methods await threads without a lock: both fields change in one step, and a
\* runtime object is built by one call only.
THEOREM EndpointCorrect == Spec => []EndpointOfRuntime
BY RuntimeInit, RuntimeStep, PTL DEF Spec, RuntimeInv

-----------------------------------------------------------------------------
(* Kernel clients.                                                         *)

\* The calls that await the end of a client of r.
ClosingOf(r) == {c \in Callers : pc[c] = "closing" /\ mine[c] = r}

Holds(r) == IF client[r] = "none" THEN 0 ELSE 1

\* Every client that was started is held by its runtime, or a call is stopping
\* it.  A call that is about to start one works on a runtime without a client,
\* and a runtime that is built is in the hands of one call alone.
CountInv ==
    /\ unstopped \in [Runtimes -> Nat]
    /\ \A r \in Runtimes : unstopped[r] = Cardinality(ClosingOf(r)) + Holds(r)
    /\ \A c \in Callers :
          /\ pc[c] \in {"building", "rebuilding"} => client[mine[c]] = "none"
          /\ pc[c] = "building" =>
                mine[c] # runtime /\ \A d \in Callers : mine[d] = mine[c] => c = d

\* The calls that stop a client can be counted.
LEMMA ClosingFinite ==
    ASSUME NEW r
    PROVE  IsFiniteSet(ClosingOf(r)) /\ Cardinality(ClosingOf(r)) \in Nat
<1>1. ClosingOf(r) \in SUBSET Callers
  BY DEF ClosingOf
<1>2. IsFiniteSet(ClosingOf(r))
  BY <1>1, CallersAssumption, FS_Subset
<1> QED
  BY <1>2, FS_CardinalityType

\* At first no client runs.
LEMMA CountInit == Init => CountInv
<1> SUFFICES ASSUME Init PROVE CountInv
  OBVIOUS
<1>1. \A r \in Runtimes : ClosingOf(r) = {}
  BY DEF Init, ClosingOf
<1>2. Cardinality({}) = 0
  BY FS_EmptySet
<1> QED
  BY <1>1, <1>2 DEF Init, CountInv, Holds

\* A step that leaves the clients alone and neither starts nor ends a close.
LEMMA ClientsLeft ==
    ASSUME CountInv, UNCHANGED unstopped,
           \A r \in Runtimes : ClosingOf(r)' = ClosingOf(r) /\ Holds(r)' = Holds(r)
    PROVE  /\ unstopped' \in [Runtimes -> Nat]
           /\ \A r \in Runtimes :
                 unstopped'[r] = Cardinality(ClosingOf(r)') + Holds(r)'
BY DEF CountInv

\* The manager goes on to a runtime for t once the client of its old one is
\* stopped, or when there was none.
LEMMA ReplaceCounts ==
    ASSUME RuntimeInv, CountInv, NEW c \in Callers,
           NEW t \in Targets \cup {NoTarget}, Replace(c, t), UNCHANGED client,
           unstopped' \in [Runtimes -> Nat],
           \A r \in Runtimes :
              unstopped'[r] = Cardinality(ClosingOf(r) \ {c}) + Holds(r)
    PROVE  CountInv'
<1>1. \A r \in Runtimes : ClosingOf(r)' = ClosingOf(r) \ {c}
  BY DEF Replace, Done, Go, ClosingOf, RuntimeInv, Shape
<1>2. \A r \in Runtimes : unstopped'[r] = Cardinality(ClosingOf(r)') + Holds(r)'
  BY <1>1 DEF Holds
<1>3. CASE t = NoTarget \/ Fresh = {}
  <2>1. Done(c) /\ runtime' = NoRuntime
    BY <1>3 DEF Replace
  <2>2. ASSUME NEW d \in Callers
        PROVE  /\ pc'[d] \in {"building", "rebuilding"} => client'[mine'[d]] = "none"
               /\ pc'[d] = "building" =>
                     mine'[d] # runtime' /\ \A b \in Callers : mine'[b] = mine'[d] => d = b
    BY <2>1, RuntimeAssumption DEF Done, Go, RuntimeInv, Shape, CountInv, BuildsOwn
  <2> QED
    BY <1>2, <2>2 DEF CountInv
<1>4. CASE ~(t = NoTarget \/ Fresh = {})
  <2>1. PICK r \in Fresh : Go(c, "building", r, t)
    BY <1>4 DEF Replace
  <2>2. r \in Runtimes /\ unstopped[r] = 0 /\ \A d \in Callers : mine[d] # r
    BY <2>1 DEF Fresh
  <2>3. client[r] = "none"
    BY <2>2, ClosingFinite DEF CountInv, Holds
  <2>4. runtime' = NoRuntime
    BY DEF Replace
  <2>5. ASSUME NEW d \in Callers
        PROVE  /\ pc'[d] \in {"building", "rebuilding"} => client'[mine'[d]] = "none"
               /\ pc'[d] = "building" =>
                     mine'[d] # runtime' /\ \A b \in Callers : mine'[b] = mine'[d] => d = b
    BY <2>1, <2>2, <2>3, <2>4, RuntimeAssumption
    DEF Go, RuntimeInv, Shape, CountInv, BuildsOwn
  <2> QED
    BY <1>2, <2>5 DEF CountInv
<1> QED
  BY <1>3, <1>4

\* A client that is let go of is counted as being stopped.
LEMMA RetireCounts ==
    ASSUME RuntimeInv, CountInv, NEW c \in Callers, pc[c] \in {"idle", "selecting"},
           NEW t \in Targets \cup {NoTarget}, Retire(c, t)
    PROVE  CountInv'
<1>1. CASE ~HasClient(runtime)
  <2>1. \A r \in Runtimes : ClosingOf(r) \ {c} = ClosingOf(r)
    BY DEF ClosingOf
  <2>2. Replace(c, t) /\ UNCHANGED <<client, unstopped>>
    BY <1>1 DEF Retire
  <2>3. /\ unstopped' \in [Runtimes -> Nat]
        /\ \A r \in Runtimes :
              unstopped'[r] = Cardinality(ClosingOf(r) \ {c}) + Holds(r)
    BY <2>1, <2>2 DEF CountInv
  <2> QED
    BY <2>2, <2>3, ReplaceCounts
<1>2. CASE HasClient(runtime)
  <2>1. /\ client' = [client EXCEPT ![runtime] = "none"]
        /\ Go(c, "closing", runtime, t)
        /\ UNCHANGED <<runtime, endpoint, target, unstopped>>
    BY <1>2 DEF Retire
  <2>2. runtime \in Runtimes /\ client[runtime] # "none"
    BY <1>2 DEF HasClient, RuntimeInv, Shape
  <2>3. ASSUME NEW r \in Runtimes
        PROVE  unstopped'[r] = Cardinality(ClosingOf(r)') + Holds(r)'
    <3>1. CASE r # runtime
      <4>1. ClosingOf(r)' = ClosingOf(r)
        BY <2>1, <3>1 DEF Go, ClosingOf, RuntimeInv, Shape
      <4>2. Holds(r)' = Holds(r)
        BY <2>1, <3>1 DEF Holds, RuntimeInv, Shape
      <4> QED
        BY <2>1, <4>1, <4>2 DEF CountInv
    <3>2. CASE r = runtime
      <4>1. ClosingOf(r)' = ClosingOf(r) \cup {c} /\ c \notin ClosingOf(r)
        BY <2>1, <3>2 DEF Go, ClosingOf, RuntimeInv, Shape
      <4>2. Cardinality(ClosingOf(r)') = Cardinality(ClosingOf(r)) + 1
        BY <4>1, ClosingFinite, FS_AddElement
      <4>3. Holds(r) = 1 /\ Holds(r)' = 0
        BY <2>1, <2>2, <3>2 DEF Holds, RuntimeInv, Shape
      <4> QED
        BY <2>1, <4>2, <4>3, ClosingFinite DEF CountInv
    <3> QED
      BY <3>1, <3>2
  <2>4. ASSUME NEW d \in Callers
        PROVE  /\ pc'[d] \in {"building", "rebuilding"} => client'[mine'[d]] = "none"
               /\ pc'[d] = "building" =>
                     mine'[d] # runtime' /\ \A b \in Callers : mine'[b] = mine'[d] => d = b
    BY <2>1, <2>2 DEF Go, RuntimeInv, Shape, CountInv, BuildsOwn, Using
  <2> QED
    BY <2>1, <2>3, <2>4 DEF CountInv
<1> QED
  BY <1>1, <1>2

\* One that has been stopped is counted no more.
LEMMA ClosedCounts ==
    ASSUME RuntimeInv, CountInv, NEW c \in Callers, Closed(c)
    PROVE  CountInv'
<1>1. /\ pc[c] = "closing" /\ mine[c] \in Runtimes
      /\ want[c] \in Targets \cup {NoTarget}
  BY DEF Closed, RuntimeInv, BuildsOwn, Shape
<1>2. c \in ClosingOf(mine[c])
  BY <1>1 DEF ClosingOf
<1>3. /\ Cardinality(ClosingOf(mine[c]) \ {c}) = Cardinality(ClosingOf(mine[c])) - 1
      /\ IsFiniteSet(ClosingOf(mine[c]) \ {c})
  BY <1>2, ClosingFinite, FS_RemoveElement
<1>4. Cardinality(ClosingOf(mine[c]) \ {c}) \in Nat
  BY <1>3, FS_CardinalityType
<1>5. unstopped[mine[c]] = Cardinality(ClosingOf(mine[c])) + Holds(mine[c])
  BY <1>1 DEF CountInv
<1>6. Holds(mine[c]) \in {0, 1}
  BY DEF Holds
<1>7. unstopped[mine[c]] - 1 = Cardinality(ClosingOf(mine[c]) \ {c}) + Holds(mine[c])
  BY <1>3, <1>5, <1>6, ClosingFinite
<1>8. unstopped' = [unstopped EXCEPT ![mine[c]] = @ - 1]
  BY DEF Closed
<1>9. unstopped' \in [Runtimes -> Nat]
  <2>1. unstopped[mine[c]] - 1 \in Nat
    BY <1>4, <1>6, <1>7
  <2> QED
    BY <1>8, <2>1 DEF CountInv
<1>10. ASSUME NEW r \in Runtimes
       PROVE  unstopped'[r] = Cardinality(ClosingOf(r) \ {c}) + Holds(r)
  <2>1. CASE r = mine[c]
    BY <1>7, <1>8, <2>1 DEF CountInv
  <2>2. CASE r # mine[c]
    <3>1. ClosingOf(r) \ {c} = ClosingOf(r)
      BY <2>2 DEF ClosingOf
    <3> QED
      BY <1>8, <2>2, <3>1 DEF CountInv
  <2> QED
    BY <2>1, <2>2
<1> QED
  BY <1>1, <1>9, <1>10, ReplaceCounts DEF Closed

\* A client is started for a runtime that has none.
LEMMA StartCounts ==
    ASSUME RuntimeInv, CountInv, NEW c \in Callers,
           pc[c] \in {"building", "rebuilding"},
           client' = [client EXCEPT ![mine[c]] = "live"],
           unstopped' = [unstopped EXCEPT ![mine[c]] = @ + 1],
           \A r \in Runtimes : ClosingOf(r)' = ClosingOf(r)
    PROVE  /\ unstopped' \in [Runtimes -> Nat]
           /\ \A r \in Runtimes :
                 unstopped'[r] = Cardinality(ClosingOf(r)') + Holds(r)'
<1>1. mine[c] \in Runtimes /\ client[mine[c]] = "none"
  BY DEF RuntimeInv, BuildsOwn, Using, CountInv
<1>2. unstopped' \in [Runtimes -> Nat]
  BY <1>1 DEF CountInv
<1>3. ASSUME NEW r \in Runtimes
      PROVE  unstopped'[r] = Cardinality(ClosingOf(r)') + Holds(r)'
  <2>1. CASE r = mine[c]
    <3>1. Holds(r) = 0 /\ Holds(r)' = 1
      BY <1>1, <2>1 DEF Holds, RuntimeInv, Shape
    <3> QED
      BY <1>1, <2>1, <3>1, ClosingFinite DEF CountInv
  <2>2. CASE r # mine[c]
    <3>1. Holds(r)' = Holds(r)
      BY <2>2 DEF Holds, RuntimeInv, Shape
    <3> QED
      BY <1>1, <2>2, <3>1 DEF CountInv
  <2> QED
    BY <2>1, <2>2
<1> QED
  BY <1>2, <1>3

\* A client that is started is counted as held.
LEMMA BuiltCounts ==
    ASSUME RuntimeInv, CountInv, NEW c \in Callers, NEW ok \in BOOLEAN, Built(c, ok)
    PROVE  CountInv'
<1>1. pc[c] = "building" /\ mine[c] \in Runtimes /\ Done(c)
  BY DEF Built, Starts, RuntimeInv, BuildsOwn
<1>2. \A r \in Runtimes : ClosingOf(r)' = ClosingOf(r)
  BY <1>1 DEF Done, Go, ClosingOf, RuntimeInv, Shape
<1>3. /\ unstopped' \in [Runtimes -> Nat]
      /\ \A r \in Runtimes : unstopped'[r] = Cardinality(ClosingOf(r)') + Holds(r)'
  <2>1. CASE ok
    BY <1>1, <1>2, <2>1, StartCounts DEF Built, Starts
  <2>2. CASE ~ok
    BY <1>2, <2>2, ClientsLeft DEF Built, Holds
  <2> QED
    BY <2>1, <2>2
<1>4. ASSUME NEW d \in Callers
      PROVE  /\ pc'[d] \in {"building", "rebuilding"} => client'[mine'[d]] = "none"
             /\ pc'[d] = "building" =>
                   mine'[d] # runtime' /\ \A b \in Callers : mine'[b] = mine'[d] => d = b
  <2>1. CASE d = c
    BY <1>1, <2>1 DEF Done, Go, RuntimeInv, Shape
  <2>2. CASE d # c
    <3>1. pc'[d] = pc[d] /\ mine'[d] = mine[d] /\ mine[d] # mine[c]
      BY <1>1, <2>2 DEF Done, Go, RuntimeInv, Shape, CountInv
    <3>2. mine[d] \in Runtimes => client'[mine[d]] = client[mine[d]]
      BY <1>1, <3>1 DEF Built, Starts, RuntimeInv, Shape
    <3>3. runtime' \in {runtime, mine[c]}
      BY DEF Built
    <3>4. pc[d] \in {"building", "rebuilding"} => mine[d] \in Runtimes
      BY DEF RuntimeInv, BuildsOwn, Using
    <3> QED
      BY <1>1, <3>1, <3>2, <3>3, <3>4, RuntimeAssumption
      DEF Done, Go, RuntimeInv, Shape, CountInv
  <2> QED
    BY <2>1, <2>2
<1> QED
  BY <1>3, <1>4 DEF CountInv

\* So is one an execution starts.
LEMMA RebuiltCounts ==
    ASSUME RuntimeInv, CountInv, NEW c \in Callers, Rebuilt(c, TRUE)
    PROVE  CountInv'
<1>1. /\ pc[c] = "rebuilding" /\ mine[c] \in Runtimes /\ Move(c, "ready")
      /\ client' = [client EXCEPT ![mine[c]] = "live"]
      /\ unstopped' = [unstopped EXCEPT ![mine[c]] = @ + 1]
  BY DEF Rebuilt, Starts, RuntimeInv, BuildsOwn, Using
<1>2. \A r \in Runtimes : ClosingOf(r)' = ClosingOf(r)
  BY <1>1 DEF Move, ClosingOf, RuntimeInv, Shape
<1>3. /\ unstopped' \in [Runtimes -> Nat]
      /\ \A r \in Runtimes : unstopped'[r] = Cardinality(ClosingOf(r)') + Holds(r)'
  BY <1>1, <1>2, StartCounts
<1>4. ASSUME NEW d \in Callers
      PROVE  /\ pc'[d] \in {"building", "rebuilding"} => client'[mine'[d]] = "none"
             /\ pc'[d] = "building" =>
                   mine'[d] # runtime' /\ \A b \in Callers : mine'[b] = mine'[d] => d = b
  <2>1. CASE d = c
    BY <1>1, <2>1 DEF Move, RuntimeInv, Shape
  <2>2. CASE d # c
    <3>1. pc'[d] = pc[d] /\ mine' = mine /\ runtime' = runtime
      BY <1>1, <2>2 DEF Move, RuntimeInv, Shape
    <3>2. pc[d] \in {"building", "rebuilding"} => mine[d] # mine[c]
      BY <1>1, <2>2 DEF RuntimeInv, OneEach, CountInv
    <3> QED
      BY <1>1, <3>1, <3>2 DEF CountInv
  <2> QED
    BY <2>1, <2>2
<1> QED
  BY <1>3, <1>4 DEF CountInv

\* A step of an execution that starts no client.
LEMMA MoveCounts ==
    ASSUME RuntimeInv, CountInv, NEW c \in Callers, Using(c),
           NEW place \in {"rebuilding", "ready", "starting", "kernel"}, Move(c, place),
           place = "rebuilding" => client[mine[c]] = "none",
           UNCHANGED <<client, unstopped>>
    PROVE  CountInv'
<1>1. \A r \in Runtimes : ClosingOf(r)' = ClosingOf(r) /\ Holds(r)' = Holds(r)
  BY DEF Move, Using, ClosingOf, Holds, RuntimeInv, Shape
<1> QED
  BY <1>1, ClientsLeft DEF Move, Using, CountInv, RuntimeInv, Shape

\* A call that ends, or begins, without a client of its own.
LEMMA QuietCounts ==
    ASSUME RuntimeInv, CountInv, NEW c \in Callers, pc[c] # "closing",
           \/ Done(c)
           \/ \E r \in {runtime, NoRuntime}, place \in {"selecting", "captured"} :
                 Go(c, place, r, NoTarget),
           UNCHANGED <<runtime, client, unstopped>>
    PROVE  CountInv'
<1>1. \A r \in Runtimes : ClosingOf(r)' = ClosingOf(r) /\ Holds(r)' = Holds(r)
  BY DEF Done, Go, ClosingOf, Holds, RuntimeInv, Shape
<1>2. ASSUME NEW d \in Callers
      PROVE  /\ pc'[d] \in {"building", "rebuilding"} => client'[mine'[d]] = "none"
             /\ pc'[d] = "building" =>
                   mine'[d] # runtime' /\ \A b \in Callers : mine'[b] = mine'[d] => d = b
  BY RuntimeAssumption DEF Done, Go, RuntimeInv, Shape, BuildsOwn, CountInv
<1> QED
  BY <1>1, <1>2, ClientsLeft DEF CountInv

\* CountInv is inductive with RuntimeInv.
LEMMA CountStep == RuntimeInv /\ CountInv /\ [Next]_vars => CountInv'
<1> SUFFICES ASSUME RuntimeInv, CountInv, [Next]_vars PROVE CountInv'
  OBVIOUS
<1>1. ASSUME NEW c \in Callers,
             Connect(c) \/ Capture(c) \/ SelectFails(c)
      PROVE CountInv'
  BY <1>1, QuietCounts DEF Connect, Capture, SelectFails
<1>2. ASSUME NEW c \in Callers, NEW t \in Targets, Selected(c, t) PROVE CountInv'
  BY <1>2, QuietCounts, RetireCounts DEF Selected
<1>3. ASSUME NEW c \in Callers, NEW t \in Targets \cup {NoTarget}, Attach(c, t)
      PROVE CountInv'
  BY <1>3, RetireCounts DEF Attach
<1>4. ASSUME NEW c \in Callers, Closed(c) PROVE CountInv'
  BY <1>4, ClosedCounts
<1>5. ASSUME NEW c \in Callers, NEW ok \in BOOLEAN, Built(c, ok) PROVE CountInv'
  BY <1>5, BuiltCounts
<1>6. ASSUME NEW c \in Callers, Join(c) \/ EnterExecute(c) PROVE CountInv'
  BY <1>6, MoveCounts DEF Join, EnterExecute, Using
<1>7. ASSUME NEW c \in Callers, pc[c] # "closing", Fails(c) PROVE CountInv'
  BY <1>7, QuietCounts DEF Fails
<1>8. ASSUME NEW c \in Callers, ThreadStarts(c) \/ KernelEnds(c) PROVE CountInv'
  BY <1>7, <1>8, MoveCounts DEF ThreadStarts, KernelEnds, Using
<1>9. ASSUME NEW c \in Callers, NEW ok \in BOOLEAN, Rebuilt(c, ok) PROVE CountInv'
  <2>1. CASE ok
    BY <1>9, <2>1, RebuiltCounts DEF Rebuilt
  <2>2. CASE ~ok
    BY <1>7, <1>9, <2>2 DEF Rebuilt
  <2> QED
    BY <2>1, <2>2
<1>10. ASSUME NEW r \in Runtimes, ClientDies(r) PROVE CountInv'
  <2>1. \A s \in Runtimes : ClosingOf(s)' = ClosingOf(s) /\ Holds(s)' = Holds(s)
    BY <1>10 DEF ClientDies, ClosingOf, Holds, RuntimeInv, Shape
  <2>2. \A c \in Callers : pc[c] \in {"building", "rebuilding"} => mine[c] # r
    BY <1>10 DEF ClientDies, CountInv
  <2> QED
    BY <1>10, <2>1, <2>2, ClientsLeft DEF ClientDies, CountInv
<1>11. CASE UNCHANGED vars
  BY <1>11 DEF vars, CountInv, ClosingOf, Holds
<1> QED
  BY <1>1, <1>2, <1>3, <1>4, <1>5, <1>6, <1>8, <1>9, <1>10, <1>11
  DEF Next, ManagerStep, ExecuteStep

\* Both hold always.
LEMMA ClientsCorrect == Spec => [](RuntimeInv /\ CountInv)
BY RuntimeInit, RuntimeStep, CountInit, CountStep, PTL DEF Spec

\* A kernel client never serves two executions, and every client that was
\* started is held by its runtime or being stopped by one call, although closes
\* and connects cut in between the locks: none is started beside one that is
\* held, and none is stopped twice.
THEOREM ClientsExclusive == Spec => []ClientExclusive
<1>1. RuntimeInv /\ CountInv => ClientExclusive
  <2> SUFFICES ASSUME RuntimeInv, CountInv PROVE ClientExclusive
    OBVIOUS
  <2>1. ASSUME NEW r \in Runtimes
        PROVE  unstopped[r] = Cardinality(ClosingOf(r)) + Holds(r)
    BY DEF CountInv
  <2> QED
    BY <2>1 DEF ClientExclusive, RuntimeInv, OneEach, ClosingOf, Holds
<1> QED
  BY ClientsCorrect, <1>1, PTL

\* Every variable of the runtime keeps its type; that no client is stopped
\* twice (unstopped stays natural) rests on the count of clients.
THEOREM RuntimeTypes == Spec => []TypeOK
<1> DEFINE CrossedType == crossed \subseteq Runtimes
<1>1. Init => CrossedType
  BY DEF Init
<1>2. RuntimeInv /\ CrossedType /\ [Next]_vars => CrossedType'
  BY DEF Next, ManagerStep, ExecuteStep, Connect, Capture, Attach, Retire, Replace,
         SelectFails, Selected, Closed, Built, Starts, Join, Move, EnterExecute,
         ThreadStarts, Fails, KernelEnds, Rebuilt, ClientDies, RuntimeInv, BuildsOwn,
         Using, vars
<1>3. RuntimeInv /\ CountInv /\ CrossedType => TypeOK
  BY DEF RuntimeInv, Shape, CountInv, TypeOK
<1> HIDE DEF CrossedType
<1> QED
  BY ClientsCorrect, <1>1, <1>2, <1>3, PTL DEF Spec

-----------------------------------------------------------------------------
(* What the manager owns.                                                  *)

Quiet == \A c \in Callers : pc[c] \notin {"closing", "building"}

\* A client that was started with nothing across is held by the manager's
\* runtime, and no call has begun to replace it: the first step of a close
\* takes the client away.
OwnedInv ==
    \A r \in Runtimes \ crossed : client[r] # "none" => r = runtime /\ Quiet

\* At first there is no client.
LEMMA OwnedInit == Init => OwnedInv
BY DEF Init, OwnedInv

\* A step that starts no client and replaces nothing.
LEMMA OwnedLeft ==
    ASSUME OwnedInv, UNCHANGED <<runtime, crossed>>, Quiet => Quiet',
           \A r \in Runtimes : client'[r] # "none" => client[r] # "none"
    PROVE  OwnedInv'
BY DEF OwnedInv

\* A step after which only crossed runtimes hold clients.
LEMMA OwnedByNone ==
    ASSUME UNCHANGED crossed, \A r \in Runtimes \ crossed : client'[r] = "none"
    PROVE  OwnedInv'
BY DEF OwnedInv

\* A close takes the client of the manager's runtime, the only one.
LEMMA OwnedRetires ==
    ASSUME RuntimeInv, OwnedInv, NEW c \in Callers, NEW t, Retire(c, t),
           UNCHANGED crossed
    PROVE  OwnedInv'
<1>1. CASE ~HasClient(runtime)
  <2>1. \A r \in Runtimes \ crossed : client[r] = "none"
    BY <1>1, RuntimeAssumption DEF OwnedInv, HasClient
  <2>2. UNCHANGED client
    BY <1>1 DEF Retire
  <2> QED
    BY <2>1, <2>2, OwnedByNone
<1>2. CASE HasClient(runtime)
  <2>1. client' = [client EXCEPT ![runtime] = "none"]
    BY <1>2 DEF Retire
  <2>2. \A r \in Runtimes \ crossed : client'[r] = "none"
    BY <2>1 DEF OwnedInv, RuntimeInv, Shape
  <2> QED
    BY <2>2, OwnedByNone
<1> QED
  BY <1>1, <1>2

\* When a close ends no client is owned: it was taken when the close began.
LEMMA OwnedCloses ==
    ASSUME OwnedInv, NEW c \in Callers, Closed(c)
    PROVE  OwnedInv'
<1>1. ~Quiet /\ UNCHANGED <<client, crossed>>
  BY DEF Closed, Quiet
<1> QED
  BY <1>1, OwnedByNone DEF OwnedInv

\* A build that nothing crosses ends with the manager's only client.
LEMMA OwnedBuilds ==
    ASSUME RuntimeInv, OwnedInv, NEW c \in Callers, NEW ok \in BOOLEAN, Built(c, ok)
    PROVE  OwnedInv'
<1>1. \A r \in Runtimes \ crossed : client[r] = "none"
  BY DEF Built, OwnedInv, Quiet
<1>2. CASE ~ok
  <2>1. UNCHANGED <<client, crossed>>
    BY <1>2 DEF Built
  <2> QED
    BY <1>1, <2>1, OwnedByNone
<1>3. CASE ok
  <2>1. /\ Starts(mine[c], Crosses(c)) /\ runtime' = mine[c]
        /\ pc' = [pc EXCEPT ![c] = "idle"] /\ mine[c] \in Runtimes
    BY <1>3 DEF Built, Done, Go, RuntimeInv, BuildsOwn
  <2>2. ASSUME NEW r \in Runtimes \ crossed', client'[r] # "none"
        PROVE  r = mine[c]
    BY <1>1, <2>1, <2>2 DEF Starts, RuntimeInv, Shape
  <2>3. mine[c] \notin crossed' => Quiet'
    BY <2>1 DEF Starts, Crosses, Quiet, RuntimeInv, Shape
  <2> QED
    BY <2>1, <2>2, <2>3 DEF OwnedInv
<1> QED
  BY <1>2, <1>3

\* Executions replace nothing, and a client they start is a crossed one.
LEMMA OwnedExecutes ==
    ASSUME RuntimeInv, OwnedInv, NEW c \in Callers, ExecuteStep(c)
    PROVE  OwnedInv'
<1> USE DEF RuntimeInv, Shape
<1>1. ASSUME NEW place \in {"rebuilding", "ready", "starting", "kernel"}, Move(c, place)
      PROVE  UNCHANGED runtime /\ (Quiet => Quiet')
  BY <1>1 DEF Move, Quiet
<1>2. CASE Fails(c)
  BY <1>2, OwnedLeft DEF Fails, Done, Go, Quiet
<1>3. CASE Join(c) \/ EnterExecute(c)
  BY <1>1, <1>3, OwnedLeft DEF Join, EnterExecute
<1>4. CASE ThreadStarts(c) \/ KernelEnds(c)
  BY <1>1, <1>2, <1>4, OwnedLeft DEF ThreadStarts, KernelEnds
<1>5. ASSUME NEW ok \in BOOLEAN, Rebuilt(c, ok) PROVE OwnedInv'
  <2>1. CASE ok /\ Starts(mine[c], TRUE) /\ Move(c, "ready")
    BY <1>1, <2>1 DEF Starts, OwnedInv
  <2> QED
    BY <1>2, <1>5, <2>1 DEF Rebuilt
<1> QED
  BY <1>3, <1>4, <1>5 DEF ExecuteStep

\* OwnedInv is inductive with RuntimeInv.
LEMMA OwnedStep == RuntimeInv /\ OwnedInv /\ [Next]_vars => OwnedInv'
<1> SUFFICES ASSUME RuntimeInv, OwnedInv, [Next]_vars PROVE OwnedInv'
  OBVIOUS
<1>1. CASE UNCHANGED vars
  BY <1>1, OwnedLeft DEF vars, Quiet
<1>2. ASSUME NEW r \in Runtimes, ClientDies(r) PROVE OwnedInv'
  BY <1>2, OwnedLeft DEF ClientDies, Quiet, RuntimeInv, Shape
<1>3. ASSUME NEW c \in Callers, NEW place \in {"idle", "selecting", "captured"},
             NEW r, Go(c, place, r, NoTarget), UNCHANGED <<runtime, client, crossed>>
      PROVE OwnedInv'
  BY <1>3, OwnedLeft DEF Go, Quiet, RuntimeInv, Shape
<1>4. ASSUME NEW c \in Callers, Connect(c) \/ Capture(c) \/ SelectFails(c)
      PROVE OwnedInv'
  BY <1>3, <1>4 DEF Connect, Capture, SelectFails, Done
<1>5. ASSUME NEW c \in Callers, NEW t \in Targets, Selected(c, t) PROVE OwnedInv'
  BY <1>3, <1>5, OwnedRetires DEF Selected, Done
<1>6. ASSUME NEW c \in Callers, NEW t, Attach(c, t) PROVE OwnedInv'
  BY <1>6, OwnedRetires DEF Attach
<1> QED
  BY <1>1, <1>2, <1>4, <1>5, <1>6, OwnedCloses, OwnedBuilds, OwnedExecutes
  DEF Next, ManagerStep

\* A client that was started is the manager's or is being stopped, unless
\* another call was closing or building when it was started, or an execution
\* started it again after a close; connects, changes and executions may overlap
\* in any other way.
THEOREM OwnershipCorrect == Spec => []NoOrphan
<1>1. RuntimeInv /\ CountInv /\ OwnedInv => NoOrphan
  <2> SUFFICES ASSUME CountInv, OwnedInv, NEW r \in Runtimes \ crossed,
                      unstopped[r] > 0, r # runtime
               PROVE  \E c \in Callers : pc[c] = "closing" /\ mine[c] = r
    BY DEF NoOrphan
  <2>1. Holds(r) = 0
    BY DEF OwnedInv, Holds
  <2>2. ClosingOf(r) # {}
    BY <2>1, FS_EmptySet DEF CountInv
  <2> QED
    BY <2>2 DEF ClosingOf
<1> QED
  BY <1>1, ClientsCorrect, OwnedInit, OwnedStep, PTL DEF Spec
=============================================================================
