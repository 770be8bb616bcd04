------------------------ MODULE ProcessRegistry_proofs ------------------------
(***************************************************************************)
(* Theorems about ProcessRegistry, for any number of processes and PIDs    *)
(* and any command lines and profiles: the registry file has one entry per *)
(* PID, a running server loses its entry only to an old load, to the       *)
(* --stop-pid of a dead owner of its PID or because it cannot be           *)
(* identified, and signals go only to servers whose command line shows the *)
(* profile they are for, the second signal as long as no PID is reused     *)
(* before it.                                                              *)
(***************************************************************************)
EXTENDS ProcessRegistry, TLAPS

Tables == [Procs -> Entries]

\* One entry per PID, all of processes that have been launched: a PID is
\* fixed by then.
Sound(S, place, number) ==
    /\ \A p \in Listed(S) : place[p] # "new"
    /\ \A p, q \in Listed(S) : number[p] = number[q] => p = q

\* A cleanup writes what is left of the file it once loaded, so the files that
\* are loaded have to be sound as well as the one on disk.
FileInv ==
    /\ file \in Tables /\ snap \in [Procs -> Tables]
    /\ pc \in [Procs -> Pcs]
    /\ pid \in [Procs -> Pids \cup {NoPid}]
    /\ Sound(file, pc, pid)
    /\ \A p \in Procs : Sound(snap[p], pc, pid)

\* The invariant holds at first.
LEMMA FileInit == Init => FileInv
BY DEF Init, FileInv, Tables, Sound, Listed, Empty, Entries, Pcs, States

\* What was sound stays so: the PID of a launched process does not change.
LEMMA SoundKept ==
    ASSUME NEW S \in Tables, Sound(S, pc, pid),
           \A p \in Procs : pc[p] # "new" => pc'[p] # "new" /\ pid'[p] = pid[p]
    PROVE  Sound(S, pc', pid')
BY DEF Sound, Listed

\* Removing entries keeps a file sound.
LEMMA WithoutSound ==
    ASSUME NEW S \in Tables, NEW G, Sound(S, pc, pid)
    PROVE  Without(S, G) \in Tables /\ Sound(Without(S, G), pc, pid)
BY DEF Sound, Without, Listed, Tables, Entries

\* The empty table is sound.
LEMMA EmptySound == Empty \in Tables /\ Sound(Empty, pc, pid) /\ Sound(Empty, pc', pid')
BY DEF Empty, Sound, Listed, Tables, Entries

\* A process is new only until it is launched, and its PID is set then.
LEMMA PidsStay ==
    ASSUME FileInv, [Next]_vars
    PROVE  /\ pc' \in [Procs -> Pcs]
           /\ pid' \in [Procs -> Pids \cup {NoPid}]
           /\ \A p \in Procs : pc[p] # "new" => pc'[p] # "new" /\ pid'[p] = pid[p]
<1> USE DEF FileInv, Pcs
<1> DEFINE Stay ==
       /\ pc' \in [Procs -> Pcs]
       /\ pid' \in [Procs -> Pids \cup {NoPid}]
       /\ \A p \in Procs : pc[p] # "new" => pc'[p] # "new" /\ pid'[p] = pid[p]
<1>1. ASSUME NEW p \in Procs, NEW command \in Commands[p], NEW n \in Pids,
             Launch(p, command, n)
      PROVE Stay
  BY <1>1 DEF Launch
<1>2. ASSUME NEW p \in Procs, NEW e \in Procs, Examine(p, e) \/ Sight(p, e) \/ Stop(p, e)
      PROVE Stay
  BY <1>2 DEF Examine, Sight, Stop, Terminate
<1>3. ASSUME NEW p \in Procs,
             \/ Load(p) \/ TargetGone(p) \/ GiveUp(p) \/ KillFails(p)
             \/ Scan(p) \/ StopEnds(p)
             \/ Register(p) \/ Link(p) \/ Mark(p) \/ Unregister(p) \/ End(p)
      PROVE Stay
  BY <1>3 DEF Load, TargetGone, GiveUp, KillFails, Scan, StopEnds, Register,
     Link, Mark,
              Unregister, End
<1>4. ASSUME NEW p \in Procs, Save(p) PROVE Stay
  <2>1. Onward(p)[1] \in {"launched", "ready", "leaving"}
    BY DEF Onward
  <2> QED
    BY <1>4, <2>1 DEF Save
<1>5. ASSUME NEW p \in Procs, Kill(p) PROVE Stay
  BY <1>5 DEF Kill
<1>6. CASE UNCHANGED vars
  BY <1>6 DEF vars
<1> QED
  BY <1>1, <1>2, <1>3, <1>4, <1>5, <1>6 DEF Next, CleanStep

\* What a step does to the file.
LEMMA FileStep ==
    ASSUME FileInv, [Next]_vars
    PROVE  file' \in Tables /\ Sound(file', pc', pid')
<1> USE DEF FileInv
<1> DEFINE Kept == file' \in Tables /\ Sound(file', pc', pid')
<1> USE PidsStay, SoundKept
<1>1. CASE UNCHANGED file
  BY <1>1
<1>2. ASSUME NEW p \in Procs, Save(p) PROVE Kept
  BY <1>2, WithoutSound DEF Save
<1>3. ASSUME NEW p \in Procs, StopEnds(p) PROVE Kept
  BY <1>3, WithoutSound DEF StopEnds
<1>4. ASSUME NEW p \in Procs, Register(p) PROVE Kept
  BY <1>4 DEF Register, Sound, Listed, Tables, Entries, States
<1>5. ASSUME NEW p \in Procs, Mark(p) PROVE Kept
  <2>1. file' \in Tables
    BY <1>5 DEF Mark, Tables, Entries, States
  <2>2. Listed(file') = Listed(file)
    BY <1>5 DEF Mark, Listed, Tables
  <2> QED
    BY <2>1, <2>2 DEF Sound
<1>6. ASSUME NEW p \in Procs, Unregister(p) PROVE Kept
  BY <1>6 DEF Unregister, Sound, Listed, Tables, Entries
<1>7. UNCHANGED file
      \/ \E p \in Procs : \/ Save(p) \/ StopEnds(p) \/ Register(p) \/ Mark(p)
                          \/ Unregister(p)
  BY DEF Next, CleanStep, Launch, Load, TargetGone, GiveUp, KillFails, Kill, Scan,
         Examine, Sight, Stop, Link, End, vars
<1> QED
  BY <1>1, <1>2, <1>3, <1>4, <1>5, <1>6, <1>7

\* What a step does to the files the cleanups have loaded: one takes the file,
\* some forget theirs.
LEMMA SnapStep ==
    ASSUME FileInv, [Next]_vars
    PROVE  /\ snap' \in [Procs -> Tables]
           /\ \A p \in Procs : snap'[p] \in {snap[p], file, Empty}
<1> USE EmptySound DEF FileInv
<1> DEFINE Held == /\ snap' \in [Procs -> Tables]
                   /\ \A p \in Procs : snap'[p] \in {snap[p], file, Empty}
<1>1. CASE UNCHANGED snap
  BY <1>1
<1>2. ASSUME NEW p \in Procs, Load(p) PROVE Held
  BY <1>2 DEF Load
<1>3. ASSUME NEW p \in Procs, Save(p) \/ StopEnds(p) \/ End(p) PROVE Held
  BY <1>3 DEF Save, StopEnds, End, Forget
<1>4. ASSUME NEW p \in Procs, Kill(p) PROVE Held
  BY <1>4 DEF Kill
<1>5. UNCHANGED snap
      \/ \E p \in Procs : Load(p) \/ Save(p) \/ StopEnds(p) \/ End(p) \/ Kill(p)
  BY DEF Next, CleanStep, Launch, TargetGone, GiveUp, KillFails, Scan, Examine,
     Sight, Stop,
         Terminate, Register, Link, Mark, Unregister, vars, cleanVars
<1> QED
  BY <1>1, <1>2, <1>3, <1>4, <1>5

\* FileInv is inductive.
LEMMA FileInvStep == FileInv /\ [Next]_vars => FileInv'
<1> SUFFICES ASSUME FileInv, [Next]_vars PROVE FileInv'
  OBVIOUS
<1>1. ASSUME NEW p \in Procs PROVE Sound(snap'[p], pc', pid')
  BY SnapStep, EmptySound, PidsStay, SoundKept DEF FileInv
<1>2. pc' \in [Procs -> Pcs] /\ pid' \in [Procs -> Pids \cup {NoPid}]
  BY PidsStay
<1>3. file' \in Tables /\ Sound(file', pc', pid') /\ snap' \in [Procs -> Tables]
  BY FileStep, SnapStep
<1> QED
  BY <1>1, <1>2, <1>3 DEF FileInv

\* A PID has one entry in the registry file: neither cleanups that write back
\* an old load nor registrations under a reused PID ever leave two.
THEOREM EntryUnique == Spec => []OneEntryPerPid
<1>1. FileInv => OneEntryPerPid
  BY DEF FileInv, Sound, OneEntryPerPid
<1> QED
  BY FileInit, FileInvStep, <1>1, PTL DEF Spec

-----------------------------------------------------------------------------
(* Types.                                                                  *)

Lines == (UNION {Commands[q] : q \in Procs}) \cup {NoCommand}

LocalTypes ==
    /\ cmd \in [Procs -> Lines]
    /\ pass \in [Procs -> Passes]
    /\ todo \in [Procs -> SUBSET Procs]
    /\ seen \in [Procs -> SUBSET (Pids \cup {NoPid})]
    /\ gone \in [Procs -> SUBSET Procs]
    /\ victim \in [Procs -> SUBSET Procs]
    /\ linked \in [Procs -> BOOLEAN]
    /\ failed \in [Procs -> BOOLEAN]

\* The locals are well typed at first.
LEMMA TypesInit == Init => LocalTypes
<1>1. NoCommand \in Lines
  BY DEF Lines
<1>2. Init => cmd \in [Procs -> Lines]
  BY <1>1 DEF Init
<1>3. Init => /\ linked \in [Procs -> BOOLEAN]
              /\ failed \in [Procs -> BOOLEAN]
  BY Zenon DEF Init
<1>4. Init => /\ pass \in [Procs -> Passes]
              /\ todo \in [Procs -> SUBSET Procs]
              /\ seen \in [Procs -> SUBSET (Pids \cup {NoPid})]
              /\ gone \in [Procs -> SUBSET Procs]
              /\ victim \in [Procs -> SUBSET Procs]
  BY DEF Init, Passes
<1> QED
  BY <1>2, <1>3, <1>4 DEF LocalTypes

\* Every step keeps the types.
LEMMA TypesStep == FileInv /\ LocalTypes /\ [Next]_vars => LocalTypes'
<1> SUFFICES ASSUME FileInv, LocalTypes, [Next]_vars PROVE LocalTypes'
  OBVIOUS
<1> USE DEF LocalTypes, Passes
<1>1. ASSUME NEW p \in Procs, NEW command \in Commands[p], NEW n \in Pids,
             Launch(p, command, n)
      PROVE  LocalTypes'
  <2>1. command \in Lines
    BY DEF Lines
  <2>2. FirstPass(command) \in Passes
    BY DEF FirstPass
  <2>3. QED
    BY <1>1, <2>1, <2>2 DEF Launch
<1>2. ASSUME NEW p \in Procs, Load(p) PROVE LocalTypes'
  BY <1>2 DEF Load, Scope, Listed
<1>3. ASSUME NEW p \in Procs, NEW e \in Procs, Examine(p, e) \/ Sight(p, e)
      PROVE  LocalTypes'
  <2>1. \A q \in Procs : victim' = [victim EXCEPT ![p] = {q}]
           => victim' \in [Procs -> SUBSET Procs]
    OBVIOUS
  <2>2. CASE Examine(p, e)
    BY <2>1, <2>2 DEF Examine, Terminate, Note, FileInv
  <2>3. CASE Sight(p, e)
    BY <2>1, <2>3 DEF Sight, Terminate, Owners
  <2>4. QED
    BY <1>3, <2>2, <2>3
<1>4. ASSUME NEW p \in Procs,
             TargetGone(p) \/ GiveUp(p) \/ KillFails(p) \/ Scan(p)
      PROVE  LocalTypes'
  BY <1>4 DEF TargetGone, GiveUp, KillFails, Removed, Scan, cleanVars
<1>5. ASSUME NEW p \in Procs, Kill(p) PROVE LocalTypes'
  <2>1. UNCHANGED <<cmd, pass>>
    BY <1>5 DEF Kill
  <2>2. todo' \in [Procs -> SUBSET Procs] /\ victim' \in [Procs -> SUBSET Procs]
    BY <1>5 DEF Kill
  <2>3. /\ gone' \in [Procs -> SUBSET Procs]
        /\ seen' \in [Procs -> SUBSET (Pids \cup {NoPid})]
    BY <1>5 DEF Kill, Removed
  <2>4. linked' \in [Procs -> BOOLEAN] /\ failed' \in [Procs -> BOOLEAN]
    BY <1>5, Zenon DEF Kill
  <2>5. QED
    BY <2>1, <2>2, <2>3, <2>4
<1>6. ASSUME NEW p \in Procs, Save(p) PROVE LocalTypes'
  <2>1. Onward(p)[2] \in Passes
    BY DEF Onward
  <2>2. QED
    BY <1>6, <2>1 DEF Save, Forget
<1>7. ASSUME NEW p \in Procs, NEW e \in Procs, Stop(p, e) PROVE LocalTypes'
  BY <1>7 DEF Stop, Terminate
<1>8. ASSUME NEW p \in Procs, StopEnds(p) PROVE LocalTypes'
  BY <1>8 DEF StopEnds, Forget
<1>9. ASSUME NEW p \in Procs, Register(p) PROVE LocalTypes'
  BY <1>9 DEF Register, cleanVars
<1>10. ASSUME NEW p \in Procs, Link(p) \/ Mark(p) PROVE LocalTypes'
  BY <1>10 DEF Link, Mark, cleanVars
<1>11. ASSUME NEW p \in Procs, Unregister(p) \/ End(p) PROVE LocalTypes'
  BY <1>11 DEF Unregister, End, Forget, cleanVars
<1>12. CASE UNCHANGED vars
  BY <1>12 DEF vars, cleanVars
<1>13. QED
  BY <1>1, <1>2, <1>3, <1>4, <1>5, <1>6, <1>7, <1>8, <1>9, <1>10, <1>11, <1>12
     DEF Next, CleanStep

\* Every variable keeps its type, for any processes and command lines.
THEOREM RegistryTypes == Spec => []TypeOK
<1>1. FileInv /\ LocalTypes => TypeOK
  BY DEF FileInv, LocalTypes, Lines, Tables, TypeOK
<1>2. QED
  BY FileInit, FileInvStep, TypesInit, TypesStep, <1>1, PTL DEF Spec
-----------------------------------------------------------------------------
(* Whom a process signals.                                                 *)

\* Places a process passes before it has an entry or a state of its own.
Early == {"new", "launched", "passing", "term", "force", "ready"}

OnePid == \A q, r \in Procs : Alive(q) /\ Alive(r) /\ pid[q] = pid[r] => q = r

Plain(p) == cmd[p].kind = "start"

StartsClean == \A p \in Procs :
    pc[p] # "new" /\ Plain(p) => pass[p] \in {"prune", "sweep"}

\* A process without a life of its own yet is in no file and has not failed.
Fresh == \A e \in Procs : pc[e] \in Early =>
    file[e] = "absent" /\ ~failed[e] /\ \A q \in Procs : snap[q][e] = "absent"

\* Whoever a file says has failed has failed, if it lives.
FailedKnown == \A e \in Procs : Alive(e) /\ ~failed[e] =>
    /\ file[e] # "connection_failed"
    /\ \A q \in Procs : snap[q][e] # "connection_failed"

TodoInv == \A p, e \in Procs : e \in todo[p] =>
    /\ pc[p] # "new" /\ pc[e] # "new"
    /\ pass[p] \in {"prune", "scan"} \/ Matches(e, p)

\* The victim of p is one it may signal.
Rightful(p, e) ==
    /\ pc[e] # "new" /\ IsServer(e) /\ Shows(e, p)
    /\ Plain(p) => /\ cmd[e].transport = cmd[p].transport
                   /\ Matches(e, p)
                   /\ Alive(e) => failed[e]

VictimInv == \A p, e \in Procs :
    pc[p] \in {"term", "force"} /\ e \in victim[p] => Rightful(p, e)

\* The second signal reaches the victim or nobody.
ForceInv == \A p, e \in Procs :
    pc[p] = "force" /\ e \in victim[p] => Owners(e) \subseteq {e}

ScopeInv ==
    OnePid /\ StartsClean /\ Fresh /\ FailedKnown /\ TodoInv /\ VictimInv

\* The invariant holds at first.
LEMMA ScopeInit == Init => ScopeInv /\ ForceInv
<1> SUFFICES ASSUME Init PROVE ScopeInv /\ ForceInv
  OBVIOUS
<1>1. \A q \in Procs : ~failed[q]
  BY Zenon DEF Init
<1>2. Fresh /\ FailedKnown
  BY <1>1 DEF Init, Fresh, FailedKnown, Alive, Empty
<1>3. OnePid /\ StartsClean /\ TodoInv /\ VictimInv /\ ForceInv
  BY DEF Init, OnePid, StartsClean, TodoInv, VictimInv, ForceInv, Alive
<1> QED
  BY <1>2, <1>3 DEF ScopeInv

\* Every step but a launch.
Moves(p) ==
    CleanStep(p) \/ Register(p) \/ Link(p) \/ Mark(p) \/ Unregister(p) \/ End(p)

\* Only a launch gives a process its command line, its PID and its life.
LEMMA MovesKeep ==
    ASSUME FileInv, NEW p \in Procs, Moves(p)
    PROVE  /\ cmd' = cmd /\ pid' = pid
           /\ \A q \in Procs : /\ Alive(q)' => Alive(q)
                               /\ pc'[q] = "new" <=> pc[q] = "new"
                               /\ pc'[q] \in Early => pc[q] \in Early
<1> USE DEF FileInv, Pcs, Alive, Early
<1> DEFINE Kept ==
       /\ cmd' = cmd /\ pid' = pid
       /\ \A q \in Procs : /\ Alive(q)' => Alive(q)
                           /\ pc'[q] = "new" <=> pc[q] = "new"
                           /\ pc'[q] \in Early => pc[q] \in Early
<1>1. ASSUME NEW e \in Procs, Examine(p, e) \/ Sight(p, e) \/ Stop(p, e) PROVE Kept
  BY <1>1 DEF Examine, Sight, Stop, Terminate
<1>2. CASE \/ Load(p) \/ TargetGone(p) \/ GiveUp(p) \/ KillFails(p)
           \/ Scan(p) \/ StopEnds(p)
           \/ Register(p) \/ Link(p) \/ Mark(p) \/ Unregister(p) \/ End(p)
  BY <1>2 DEF Load, TargetGone, GiveUp, KillFails, Scan, StopEnds, Register,
     Link, Mark,
              Unregister, End, cleanVars
<1>3. CASE Save(p)
  <2>1. Onward(p)[1] \in {"launched", "ready", "leaving"}
    BY DEF Onward
  <2> QED
    BY <1>3, <2>1 DEF Save
<1>4. CASE Kill(p)
  <2> DEFINE hit == UNION {Owners(e) : e \in victim[p]}
  <2>1. /\ pc[p] = "force"
        /\ pc' = [q \in Procs |-> IF q = p THEN "passing"
                                  ELSE IF q \in hit THEN "dead" ELSE pc[q]]
        /\ cmd' = cmd /\ pid' = pid
    BY <1>4 DEF Kill
  <2>2. \A q \in hit : Alive(q)
    BY DEF Owners
  <2> HIDE DEF hit
  <2> QED
    BY <2>1, <2>2
<1> QED
  BY <1>1, <1>2, <1>3, <1>4 DEF Moves, CleanStep

\* A step is a launch or a move of a process that runs.
LEMMA StepKinds ==
    ASSUME [Next]_vars
    PROVE  \/ \E p \in Procs : \E command \in Commands[p], n \in Pids :
                 Launch(p, command, n)
           \/ \E p \in Procs : Moves(p)
           \/ UNCHANGED vars
BY DEF Next, Moves

\* Processes that run keep different PIDs.
LEMMA OnePidStep == FileInv /\ OnePid /\ [Next]_vars => OnePid'
<1> SUFFICES ASSUME FileInv, OnePid, [Next]_vars PROVE OnePid'
  OBVIOUS
<1> USE DEF OnePid, FileInv
<1>1. ASSUME NEW p \in Procs, NEW command \in Commands[p], NEW n \in Pids,
             Launch(p, command, n)
      PROVE  OnePid'
  BY <1>1 DEF Launch, Alive
<1>2. ASSUME NEW p \in Procs, Moves(p) PROVE OnePid'
  BY <1>2, MovesKeep
<1>3. CASE UNCHANGED vars
  BY <1>3 DEF vars, Alive
<1> QED
  BY <1>1, <1>2, <1>3, StepKinds

\* A plain startup runs prune_dead and cleanup_unhealthy only.
LEMMA StartsCleanStep ==
    FileInv /\ LocalTypes /\ StartsClean /\ [Next]_vars => StartsClean'
<1> SUFFICES ASSUME FileInv, LocalTypes, StartsClean, [Next]_vars
             PROVE  StartsClean'
  OBVIOUS
<1> USE DEF StartsClean, FileInv, LocalTypes, Plain
<1>1. ASSUME NEW p \in Procs, NEW command \in Commands[p], NEW n \in Pids,
             Launch(p, command, n)
      PROVE  StartsClean'
  <2>1. command.kind = "start" => FirstPass(command) = "prune"
    BY DEF FirstPass
  <2> QED
    BY <1>1, <2>1 DEF Launch
<1>2. ASSUME NEW p \in Procs, Moves(p) PROVE StartsClean'
  <2>1. CASE Scan(p)
    BY <2>1 DEF Scan
  <2>2. CASE Save(p)
    <3>1. Plain(p) /\ pc[p] # "new" => Onward(p)[2] = "sweep"
      BY DEF Onward
    <3>2. pc[p] # "new" /\ cmd' = cmd /\ \A q \in Procs : pc'[q] = "new" <=> pc[q] = "new"
      BY <1>2, <2>2, MovesKeep DEF Save
    <3> QED
      BY <2>2, <3>1, <3>2 DEF Save
  <2>3. CASE UNCHANGED pass
    BY <1>2, <2>3, MovesKeep
  <2>4. UNCHANGED pass \/ Scan(p) \/ Save(p)
    BY <1>2 DEF Moves, CleanStep, Load, TargetGone, GiveUp, KillFails, Kill,
       StopEnds,
       Examine, Sight, Stop, Register, Link, Mark, Unregister, End, cleanVars
  <2> QED
    BY <2>1, <2>2, <2>3, <2>4
<1>3. CASE UNCHANGED vars
  BY <1>3 DEF vars, cleanVars
<1> QED
  BY <1>1, <1>2, <1>3, StepKinds

\* No file comes to list a process that has not registered.
LEMMA FreshStep == FileInv /\ LocalTypes /\ Fresh /\ [Next]_vars => Fresh'
<1> SUFFICES ASSUME FileInv, LocalTypes, Fresh, [Next]_vars PROVE Fresh'
  OBVIOUS
<1> USE DEF Fresh, FileInv, LocalTypes, Tables
<1>1. ASSUME NEW p \in Procs, NEW command \in Commands[p], NEW n \in Pids,
             Launch(p, command, n)
      PROVE  Fresh'
  BY <1>1 DEF Launch, Early
<1>2. ASSUME NEW p \in Procs, Moves(p) PROVE Fresh'
  <2> SUFFICES ASSUME NEW e \in Procs, pc'[e] \in Early
               PROVE  /\ file'[e] = "absent"
                      /\ ~failed'[e]
                      /\ \A q \in Procs : snap'[q][e] = "absent"
    BY Zenon
  <2>1. pc[e] \in Early
    BY <1>2, MovesKeep
  <2>2. \A q \in Procs : snap'[q][e] = "absent"
    BY <2>1, SnapStep DEF Empty
  <2>3. file'[e] = "absent"
    <3>1. CASE UNCHANGED file
      BY <2>1, <3>1
    <3>2. CASE Save(p) \/ StopEnds(p)
      BY <2>1, <3>2 DEF Save, StopEnds, Without
    <3>3. CASE Register(p)
      BY <2>1, <3>3 DEF Register, Early
    <3>4. CASE Mark(p) \/ Unregister(p)
      BY <2>1, <3>4 DEF Mark, Unregister, Early
    <3> QED
      BY <1>2, <3>1, <3>2, <3>3, <3>4 DEF Moves, CleanStep, Load, TargetGone,
         GiveUp, KillFails, Kill, Scan, Examine, Sight, Stop, Link, End, cleanVars
  <2>4. ~failed'[e]
    <3>1. CASE Mark(p)
      <4>1. e # p
        BY <2>1, <3>1 DEF Mark, Early
      <4>2. failed'[e] = failed[e]
        BY <3>1, <4>1, Zenon DEF Mark
      <4> QED
        BY <2>1, <4>2, Zenon
    <3>2. CASE Kill(p)
      <4>1. failed'[e] = (failed[e] /\ e \notin UNION {Owners(x) : x \in victim[p]})
        BY <3>2, Zenon DEF Kill
      <4> QED
        BY <2>1, <4>1, Zenon
    <3>3. CASE End(p)
      BY <2>1, <3>3, Zenon DEF End
    <3>4. CASE UNCHANGED failed
      BY <2>1, <3>4, Zenon
    <3>5. UNCHANGED failed \/ Mark(p) \/ Kill(p) \/ End(p)
      BY <1>2, Zenon DEF Moves, CleanStep, Load, TargetGone, GiveUp, KillFails,
         Scan, Save,
         StopEnds, Examine, Sight, Stop, Register, Link, Unregister, cleanVars
    <3> QED
      BY <3>1, <3>2, <3>3, <3>4, <3>5
  <2> QED
    BY <2>2, <2>3, <2>4
<1>3. CASE UNCHANGED vars
  BY <1>3 DEF vars, cleanVars
<1> QED
  BY <1>1, <1>2, <1>3, StepKinds
\* A process that has failed and lives on has failed.
LEMMA FailedStays ==
    ASSUME FileInv, LocalTypes, NEW p \in Procs, Moves(p),
           NEW e \in Procs, Alive(e)', ~failed'[e]
    PROVE  ~failed[e] \/ pc[e] \in Early
<1> USE DEF FileInv, LocalTypes
<1>1. CASE Kill(p)
  <2> DEFINE hit == UNION {Owners(x) : x \in victim[p]}
  <2>1. failed'[e] = (failed[e] /\ e \notin hit)
    BY <1>1, Zenon DEF Kill
  <2>2. pc[p] = "force" /\ pc' = [q \in Procs |-> IF q = p THEN "passing"
                             ELSE IF q \in hit THEN "dead" ELSE pc[q]]
    BY <1>1 DEF Kill
  <2> HIDE DEF hit
  <2>3. e \in hit => e = p
    BY <2>2 DEF Alive
  <2>4. pc[p] \in Early
    BY <2>2 DEF Early
  <2> QED
    BY <2>1, <2>3, <2>4, Zenon
<1>2. CASE Mark(p)
  <2>1. failed' = [failed EXCEPT ![p] = @ \/ ~linked[p]]
    BY <1>2 DEF Mark
  <2>2. failed[e] => failed'[e]
    BY <2>1, Zenon
  <2> QED
    BY <2>2, Zenon
<1>3. CASE End(p)
  <2>1. e # p
    BY <1>3 DEF End, Alive
  <2> QED
    BY <1>3, <2>1, Zenon DEF End
<1>4. CASE UNCHANGED failed
  BY <1>4, Zenon
<1>5. UNCHANGED failed \/ Mark(p) \/ Kill(p) \/ End(p)
  BY Zenon DEF Moves, CleanStep, Load, TargetGone, GiveUp, KillFails, Scan, Save,
     StopEnds, Examine, Sight, Stop, Register, Link, Unregister, cleanVars
<1> QED
  BY <1>1, <1>2, <1>3, <1>4, <1>5

\* No file comes to say of a process that it failed before it did.
LEMMA FailedKnownStep ==
    FileInv /\ LocalTypes /\ Fresh /\ FailedKnown /\ [Next]_vars => FailedKnown'
<1> SUFFICES ASSUME FileInv, LocalTypes, Fresh, FailedKnown, [Next]_vars
             PROVE  FailedKnown'
  OBVIOUS
<1> USE DEF FailedKnown, FileInv, LocalTypes, Tables
<1>1. ASSUME NEW p \in Procs, NEW command \in Commands[p], NEW n \in Pids,
             Launch(p, command, n)
      PROVE  FailedKnown'
  BY <1>1 DEF Launch, Alive, Fresh, Early
<1>2. ASSUME NEW p \in Procs, Moves(p) PROVE FailedKnown'
  <2> SUFFICES ASSUME NEW e \in Procs, Alive(e)', ~failed'[e]
               PROVE  /\ file'[e] # "connection_failed"
                      /\ \A q \in Procs : snap'[q][e] # "connection_failed"
    BY Zenon
  <2>1. Alive(e)
    BY <1>2, MovesKeep
  <2>2. ~failed[e] \/ pc[e] \in Early
    BY <1>2, FailedStays
  <2>3. file[e] # "connection_failed"
        /\ \A q \in Procs : snap[q][e] # "connection_failed"
    BY <2>1, <2>2 DEF Fresh
  <2>4. \A q \in Procs : snap'[q][e] # "connection_failed"
    BY <2>3, SnapStep DEF Empty
  <2>5. file'[e] # "connection_failed"
    <3>1. CASE UNCHANGED file
      BY <2>3, <3>1
    <3>2. CASE Save(p) \/ StopEnds(p)
      BY <2>3, <3>2 DEF Save, StopEnds, Without
    <3>3. CASE Register(p) \/ Unregister(p)
      BY <2>3, <3>3 DEF Register, Unregister
    <3>4. CASE Mark(p)
      <4>1. CASE e = p
        <5>1. linked[p]
          BY <3>4, <4>1, Zenon DEF Mark
        <5> QED
          BY <2>3, <3>4, <4>1, <5>1 DEF Mark
      <4>2. CASE e # p
        BY <2>3, <3>4, <4>2 DEF Mark
      <4> QED
        BY <4>1, <4>2
    <3> QED
      BY <1>2, <3>1, <3>2, <3>3, <3>4 DEF Moves, CleanStep, Load, TargetGone,
         GiveUp, KillFails, Kill, Scan, Examine, Sight, Stop, Link, End, cleanVars
  <2> QED
    BY <2>4, <2>5
<1>3. CASE UNCHANGED vars
  BY <1>3 DEF vars, cleanVars, Alive
<1> QED
  BY <1>1, <1>2, <1>3, StepKinds

\* What a cleanup has to examine stays in its scope.
LEMMA TodoStep == FileInv /\ LocalTypes /\ TodoInv /\ [Next]_vars => TodoInv'
<1> SUFFICES ASSUME FileInv, LocalTypes, TodoInv, [Next]_vars PROVE TodoInv'
  OBVIOUS
<1> USE DEF TodoInv, FileInv, LocalTypes, Matches
<1>1. ASSUME NEW p \in Procs, NEW command \in Commands[p], NEW n \in Pids,
             Launch(p, command, n)
      PROVE  TodoInv'
  BY <1>1 DEF Launch
<1>2. ASSUME NEW p \in Procs, Moves(p) PROVE TodoInv'
  <2>1. cmd' = cmd /\ \A q \in Procs : pc'[q] = "new" <=> pc[q] = "new"
    BY <1>2, MovesKeep
  <2>2. CASE Load(p)
    <3>1. \A e \in Scope(p) : pc[e] # "new" /\ (pass[p] = "prune" \/ Matches(e, p))
      BY DEF Scope, Sound
    <3> QED
      BY <2>1, <2>2, <3>1 DEF Load
  <2>3. CASE Scan(p)
    BY <2>1, <2>3 DEF Scan, Server, Alive
  <2>4. CASE Save(p)
    BY <2>1, <2>4 DEF Save, Forget
  <2>5. ASSUME pass' = pass, \A q \in Procs : todo'[q] \subseteq todo[q]
        PROVE  TodoInv'
    BY <2>1, <2>5
  <2>6. CASE UNCHANGED <<pass, todo>>
    BY <2>5, <2>6
  <2>7. ASSUME NEW e \in Procs, Examine(p, e) \/ Sight(p, e) PROVE TodoInv'
    BY <2>5, <2>7 DEF Examine, Sight
  <2>8. CASE StopEnds(p) \/ End(p)
    BY <2>5, <2>8 DEF StopEnds, End, Forget
  <2>9. CASE Kill(p)
    BY <2>5, <2>9 DEF Kill
  <2> QED
    BY <1>2, <2>2, <2>3, <2>4, <2>6, <2>7, <2>8, <2>9 DEF Moves, CleanStep,
       TargetGone, GiveUp, KillFails, Stop, Register, Link, Mark, Unregister,
       cleanVars
<1>3. CASE UNCHANGED vars
  BY <1>3 DEF vars, cleanVars
<1> QED
  BY <1>1, <1>2, <1>3, StepKinds
\* A victim is one the process may signal.
LEMMA VictimStep ==
    FileInv /\ LocalTypes /\ ScopeInv /\ [Next]_vars => VictimInv'
<1> SUFFICES ASSUME FileInv, LocalTypes, ScopeInv, [Next]_vars PROVE VictimInv'
  OBVIOUS
<1> USE DEF VictimInv, FileInv, LocalTypes, ScopeInv
<1>1. ASSUME NEW p \in Procs, NEW command \in Commands[p], NEW n \in Pids,
             Launch(p, command, n)
      PROVE  VictimInv'
  BY <1>1 DEF Launch, Rightful, IsServer, Matches, Shows, Plain, Alive
<1>2. ASSUME NEW p \in Procs, Moves(p) PROVE VictimInv'
  <2>1. cmd' = cmd /\ \A q \in Procs : pc'[q] = "new" <=> pc[q] = "new"
    BY <1>2, MovesKeep
  <2>2. ASSUME NEW q \in Procs, NEW e \in Procs, Rightful(q, e)
        PROVE  Rightful(q, e)'
    <3>1. Plain(q) /\ Alive(e)' => failed[e] /\ pc[e] \notin Early
      BY <1>2, <2>2, MovesKeep DEF Rightful, Fresh
    <3>2. Plain(q) /\ Alive(e)' => failed'[e]
      BY <1>2, <3>1, FailedStays
    <3> QED
      BY <2>1, <2>2, <3>2 DEF Rightful, IsServer, Matches, Shows, Plain
  <2>3. ASSUME \A q \in Procs : pc'[q] \in {"term", "force"} =>
                  pc[q] \in {"term", "force"} /\ victim'[q] \subseteq victim[q]
        PROVE  VictimInv'
    BY <2>2, <2>3
  <2>4. ASSUME NEW e \in Procs, Rightful(p, e), Terminate(p, e)
        PROVE  VictimInv'
    <3>1. \A q \in Procs \ {p} : pc'[q] = pc[q] /\ victim'[q] = victim[q]
      BY <2>4 DEF Terminate
    <3>2. victim'[p] = {e}
      BY <2>4 DEF Terminate
    <3> QED
      BY <2>2, <2>4, <3>1, <3>2
  <2>5. ASSUME NEW e \in Procs, Examine(p, e) PROVE VictimInv'
    <3>1. CASE Verified(e) /\ Condemned(p, e)
      <4>1. pass[p] \notin {"prune", "scan"}
        BY <3>1 DEF Condemned
      <4>2. Matches(e, p)
        BY <2>5, <4>1 DEF Examine, TodoInv
      <4>3. Plain(p) => /\ cmd[e].transport = cmd[p].transport
                        /\ failed[e]
        BY <2>5, <3>1, <4>1 DEF Examine, Condemned, StartsClean, FailedKnown,
           Verified, Server
      <4>4. Rightful(p, e)
        BY <3>1, <4>2, <4>3 DEF Rightful, Verified, Named, Shows, Matches,
           Server, Alive
      <4> QED
        BY <2>3, <2>4, <2>5, <4>4 DEF Examine
    <3>2. CASE ~(Verified(e) /\ Condemned(p, e))
      BY <2>3, <2>5, <3>2 DEF Examine
    <3> QED
      BY <3>1, <3>2
  <2>6. ASSUME NEW e \in Procs, Stop(p, e) PROVE VictimInv'
    <3>1. CASE Stoppable(p, e) /\ Terminate(p, e)
      <4>1. ~Plain(p)
        BY <2>6 DEF Stop, StartsClean
      <4>2. Rightful(p, e)
        BY <3>1, <4>1 DEF Rightful, Stoppable, Named, Shows, Matches, Server,
           Alive
      <4> QED
        BY <2>4, <3>1, <4>2
    <3>2. CASE pc' = [pc EXCEPT ![p] = "leaving"] /\ UNCHANGED victim
      BY <2>3, <3>2
    <3> QED
      BY <2>6, <3>1, <3>2 DEF Stop
  <2>7. CASE \/ Load(p) \/ TargetGone(p) \/ GiveUp(p) \/ KillFails(p)
             \/ Scan(p) \/ StopEnds(p)
             \/ Register(p) \/ Link(p) \/ Mark(p) \/ Unregister(p) \/ End(p)
    BY <2>3, <2>7 DEF Load, TargetGone, GiveUp, KillFails, Scan, StopEnds,
       Register, Link,
       Mark, Unregister, End, Forget, cleanVars
  <2>8. CASE Save(p)
    <3>1. Onward(p)[1] \in {"launched", "ready", "leaving"}
      BY DEF Onward
    <3> QED
      BY <2>3, <2>8, <3>1 DEF Save, Forget
  <2>9. CASE Kill(p)
    <3> DEFINE hit == UNION {Owners(e) : e \in victim[p]}
    <3>1. /\ pc' = [q \in Procs |-> IF q = p THEN "passing"
                                    ELSE IF q \in hit THEN "dead" ELSE pc[q]]
          /\ victim' = [q \in Procs |-> IF q \in hit \cup {p} THEN {} ELSE victim[q]]
      BY <2>9 DEF Kill
    <3> HIDE DEF hit
    <3> QED
      BY <2>3, <3>1
  <2>10. ASSUME NEW e \in Procs, Sight(p, e) PROVE VictimInv'
    <3>1. ~Plain(p)
      BY <2>10 DEF Sight, StartsClean
    <3>2. ASSUME NEW q \in Owners(e), Server(q), Shows(q, p), Terminate(p, q)
          PROVE  VictimInv'
      <4>1. q \in Procs /\ Rightful(p, q)
        BY <3>1, <3>2 DEF Rightful, Owners, Server, Alive
      <4> QED
        BY <2>4, <3>2, <4>1
    <3>3. CASE UNCHANGED <<pc, victim>>
      BY <2>3, <3>3
    <3> QED
      BY <2>10, <3>2, <3>3 DEF Sight
  <2> QED
    BY <1>2, <2>5, <2>6, <2>7, <2>8, <2>9, <2>10 DEF Moves, CleanStep
<1>3. CASE UNCHANGED vars
  BY <1>3 DEF vars, cleanVars, Rightful, IsServer, Matches, Shows, Plain, Alive
<1> QED
  BY <1>1, <1>2, <1>3, StepKinds

\* Nobody else gets the PID of a victim before SIGKILL.
LEMMA ForceStep ==
    ASSUME ~GapReuse, FileInv, LocalTypes, ScopeInv, ForceInv, [Next]_vars
    PROVE  ForceInv'
<1> USE DEF ForceInv, FileInv, LocalTypes, ScopeInv
<1>1. ASSUME NEW p \in Procs, NEW command \in Commands[p], NEW n \in Pids,
             Launch(p, command, n)
      PROVE  ForceInv'
  <2> SUFFICES ASSUME NEW q \in Procs, NEW e \in Procs,
                      pc'[q] = "force", e \in victim'[q]
               PROVE  Owners(e)' \subseteq {e}
    OBVIOUS
  <2>1. pc[q] = "force" /\ e \in victim[q]
    BY <1>1 DEF Launch
  <2>2. pid[e] # n /\ pc[e] # "new"
    BY <1>1, <2>1 DEF Launch, VictimInv, Rightful
  <2>3. Owners(e)' \subseteq Owners(e)
    BY <1>1, <2>2 DEF Launch, Owners, Alive
  <2> QED
    BY <2>1, <2>3
<1>2. ASSUME NEW p \in Procs, Moves(p) PROVE ForceInv'
  <2>1. \A e \in Procs : Owners(e)' \subseteq Owners(e)
    BY <1>2, MovesKeep DEF Owners
  <2>2. ASSUME \A q \in Procs : pc'[q] = "force" =>
                  pc[q] = "force" /\ victim'[q] \subseteq victim[q]
        PROVE  ForceInv'
    BY <2>1, <2>2
  <2>3. CASE GiveUp(p)
    <3>1. \A e \in victim[p] : Owners(e) \subseteq {e}
      BY <2>3 DEF GiveUp, Server, Owners, OnePid
    <3> QED
      BY <2>1, <2>3, <3>1 DEF GiveUp, KillFails, cleanVars
  <2>4. ASSUME NEW e \in Procs, Examine(p, e) \/ Sight(p, e) \/ Stop(p, e)
        PROVE  ForceInv'
    BY <2>2, <2>4 DEF Examine, Sight, Stop, Terminate
  <2>5. CASE \/ Load(p) \/ TargetGone(p) \/ KillFails(p) \/ Scan(p) \/ StopEnds(p)
             \/ Register(p) \/ Link(p) \/ Mark(p) \/ Unregister(p) \/ End(p)
    BY <2>2, <2>5 DEF Load, TargetGone, KillFails, Scan, StopEnds, Register, Link,
       Mark, Unregister, End, Forget, cleanVars
  <2>6. CASE Save(p)
    <3>1. Onward(p)[1] \in {"launched", "ready", "leaving"}
      BY DEF Onward
    <3> QED
      BY <2>2, <2>6, <3>1 DEF Save, Forget
  <2>7. CASE Kill(p)
    <3> DEFINE hit == UNION {Owners(e) : e \in victim[p]}
    <3>1. /\ pc' = [q \in Procs |-> IF q = p THEN "passing"
                                    ELSE IF q \in hit THEN "dead" ELSE pc[q]]
          /\ victim' = [q \in Procs |-> IF q \in hit \cup {p} THEN {} ELSE victim[q]]
      BY <2>7 DEF Kill
    <3> HIDE DEF hit
    <3> QED
      BY <2>2, <3>1
  <2> QED
    BY <1>2, <2>3, <2>4, <2>5, <2>6, <2>7 DEF Moves, CleanStep
<1>3. CASE UNCHANGED vars
  BY <1>3 DEF vars, cleanVars, Owners, Alive
<1> QED
  BY <1>1, <1>2, <1>3, StepKinds

\* ScopeInv is inductive with the types.
LEMMA ScopeInvStep ==
    ASSUME FileInv, LocalTypes, ScopeInv, [Next]_vars
    PROVE  ScopeInv'
BY OnePidStep, StartsCleanStep, FreshStep, FailedKnownStep, TodoStep, VictimStep
   DEF ScopeInv

\* The first signal goes to a process verified in the same step.
LEMMA FirstSignal ==
    ASSUME FileInv, LocalTypes, ScopeInv, VictimInv', [Next]_vars,
           NEW p \in Procs, NEW t \in Signalled(p),
           pc[p] # "term" /\ pc'[p] = "term"
    PROVE  MaySignal(p, t)
<1> USE DEF FileInv, LocalTypes, ScopeInv
<1>1. ASSUME NEW e \in Procs, Server(e), Terminate(p, e),
             UNCHANGED <<cmd, pid, failed>>
      PROVE  t = e /\ Rightful(p, t) /\ Alive(t)
  <2>1. victim'[p] = {e}
    BY <1>1 DEF Terminate
  <2>2. t \in Owners(e)
    BY <2>1 DEF Signalled
  <2>3. t = e
    BY <1>1, <2>2 DEF Owners, OnePid, Server
  <2>4. Rightful(p, e)'
    BY <2>1 DEF VictimInv
  <2>5. Alive(e) /\ Alive(e)'
    BY <1>1 DEF Terminate, Server, Alive
  <2> QED
    BY <1>1, <2>3, <2>4, <2>5 DEF Rightful, IsServer, Matches, Shows, Plain,
       Server, Alive
<1>2. ASSUME NEW q \in Procs, Moves(q)
      PROVE  \E e \in Procs : Server(e) /\ Terminate(p, e)
                              /\ UNCHANGED <<cmd, pid, failed>>
  <2>1. ASSUME NEW e \in Procs, Examine(q, e)
        PROVE  Server(e) /\ Terminate(p, e) /\ UNCHANGED <<cmd, pid, failed>>
    BY <2>1 DEF Examine, Terminate, Verified
  <2>2. ASSUME NEW e \in Procs, Stop(q, e)
        PROVE  Server(e) /\ Terminate(p, e) /\ UNCHANGED <<cmd, pid, failed>>
    BY <2>2 DEF Stop, Stoppable, Terminate
  <2>3. CASE \/ Load(q) \/ TargetGone(q) \/ GiveUp(q) \/ KillFails(q)
             \/ Scan(q) \/ StopEnds(q)
             \/ Register(q) \/ Link(q) \/ Mark(q) \/ Unregister(q) \/ End(q)
    BY <2>3 DEF Load, TargetGone, GiveUp, KillFails, Scan, StopEnds, Register,
       Link,
       Mark, Unregister, End
  <2>4. CASE Save(q)
    <3>1. Onward(q)[1] \in {"launched", "ready", "leaving"}
      BY DEF Onward
    <3> QED
      BY <2>4, <3>1 DEF Save
  <2>5. CASE Kill(q)
    <3> DEFINE hit == UNION {Owners(e) : e \in victim[q]}
    <3>1. pc' = [r \in Procs |-> IF r = q THEN "passing"
                                 ELSE IF r \in hit THEN "dead" ELSE pc[r]]
      BY <2>5 DEF Kill
    <3> HIDE DEF hit
    <3> QED
      BY <3>1
  <2>6. ASSUME NEW e \in Procs, Sight(q, e)
        PROVE  \E r \in Procs : Server(r) /\ Terminate(p, r)
                                /\ UNCHANGED <<cmd, pid, failed>>
    BY <2>6 DEF Sight, Terminate, Owners
  <2> QED
    BY <1>2, <2>1, <2>2, <2>3, <2>4, <2>5, <2>6 DEF Moves, CleanStep
<1>3. ASSUME NEW q \in Procs, NEW command \in Commands[q], NEW n \in Pids,
             Launch(q, command, n)
      PROVE  FALSE
  BY <1>3 DEF Launch
<1>4. ~UNCHANGED vars
  BY DEF vars
<1> QED
  BY <1>1, <1>2, <1>3, <1>4, StepKinds DEF MaySignal, Rightful, Plain

\* The second goes to the only process that still has the PID.
LEMMA SecondSignal ==
    ASSUME FileInv, LocalTypes, ScopeInv, ForceInv,
           NEW p \in Procs, NEW t \in Signalled(p),
           pc[p] = "force" /\ pc'[p] = "passing"
    PROVE  MaySignal(p, t)
<1>1. PICK e \in victim[p] : t \in Owners(e)
  BY DEF Signalled
<1>2. t = e /\ Rightful(p, e) /\ Alive(t)
  BY <1>1 DEF ScopeInv, ForceInv, VictimInv, LocalTypes, Owners
<1> QED
  BY <1>2 DEF MaySignal, Rightful, Plain

\* The first signal of a cleanup or of --stop-pid.
FirstSignalsScoped ==
    [][\A p \in Procs : pc[p] # "term" /\ pc'[p] = "term" =>
          \A t \in Signalled(p) : MaySignal(p, t)]_vars

\* The first signal goes only to whom the process may signal by its command line,
\* even if the system gives out PIDs again at any time: only SIGKILL, which is
\* sent without another look at the process table, can meet a stranger.
THEOREM FirstSignalCorrect == Spec => FirstSignalsScoped
<1>1. Init => FileInv /\ LocalTypes /\ ScopeInv
  BY FileInit, TypesInit, ScopeInit
<1>2. FileInv /\ LocalTypes /\ ScopeInv /\ [Next]_vars
      => (FileInv /\ LocalTypes /\ ScopeInv)'
  BY FileInvStep, TypesStep, ScopeInvStep
<1>3. FileInv /\ LocalTypes /\ ScopeInv /\ [Next]_vars
      => [\A p \in Procs : pc[p] # "term" /\ pc'[p] = "term" =>
             \A t \in Signalled(p) : MaySignal(p, t)]_vars
  BY <1>2, FirstSignal DEF ScopeInv
<1>4. QED
  BY <1>1, <1>2, <1>3, PTL DEF Spec, FirstSignalsScoped

\* Cleanups and explicit actions signal only servers whose command line shows the
\* profile they are for, and a plain startup only peers that have registered
\* under that profile too, of its transport, that have marked themselves
\* connection_failed: for any number of processes, PIDs and command lines, as
\* long as no PID gets a new owner between its last check and SIGKILL.
THEOREM ScopedCorrect ==
    ASSUME ~GapReuse
    PROVE  Spec => SignalsScoped
<1> DEFINE Inv == FileInv /\ LocalTypes /\ ScopeInv /\ ForceInv
<1>1. Init => Inv
  BY FileInit, TypesInit, ScopeInit
<1>2. Inv /\ [Next]_vars => Inv'
  BY FileInvStep, TypesStep, ScopeInvStep, ForceStep
<1>3. Inv /\ [Next]_vars
      => [\A p \in Procs : \A t \in Signalled(p) : MaySignal(p, t)]_vars
  <2> SUFFICES ASSUME Inv, [Next]_vars, NEW p \in Procs, NEW t \in Signalled(p)
               PROVE  MaySignal(p, t)
    OBVIOUS
  <2>1. CASE pc[p] # "term" /\ pc'[p] = "term"
    BY <1>2, <2>1, FirstSignal DEF ScopeInv
  <2>2. CASE ~(pc[p] # "term" /\ pc'[p] = "term")
    <3>1. pc[p] = "force" /\ pc'[p] = "passing"
      BY <2>2 DEF Signalled
    <3> QED
      BY <3>1, SecondSignal
  <2> QED
    BY <2>1, <2>2
<1>4. QED
  BY <1>1, <1>2, <1>3, PTL DEF Spec, SignalsScoped

-----------------------------------------------------------------------------
(* What a running server loses its entry to.                               *)

\* Only a server runs prune_dead or cleanup_unhealthy and registers; --stop-pid
\* is not one.
ServesInv == \A p \in Procs : pc[p] # "new" =>
    /\ pass[p] \in {"prune", "sweep"} \/ pc[p] \in {"ready", "up"} => IsServer(p)
    /\ pass[p] = "stop" => ~IsServer(p)

\* No process terminates itself.
SelfInv == \A p \in Procs : pc[p] \in {"term", "force"} => p \notin victim[p]

\* Whatever a cleanup removes has died, is no server, or is one that others may
\* take for dead.
GoneInv == \A p, e \in Procs : e \in gone[p] =>
    pc[e] # "new" /\ (~Server(e) \/ ~Identifiable(e))

LossInv == ServesInv /\ SelfInv /\ GoneInv

\* The invariant holds at first.
LEMMA LossInit == Init => LossInv
BY DEF Init, LossInv, ServesInv, SelfInv, GoneInv

\* What a process may do follows from its command line.
LEMMA ServesStep == FileInv /\ LocalTypes /\ ServesInv /\ [Next]_vars => ServesInv'
<1> SUFFICES ASSUME FileInv, LocalTypes, ServesInv, [Next]_vars PROVE ServesInv'
  OBVIOUS
<1> USE DEF ServesInv, FileInv, LocalTypes, IsServer
<1>1. ASSUME NEW p \in Procs, NEW command \in Commands[p], NEW n \in Pids,
             Launch(p, command, n)
      PROVE  ServesInv'
  <2>1. /\ FirstPass(command) \in {"prune", "sweep"} => command.kind = "start"
        /\ FirstPass(command) = "stop" => command.kind = "stop"
    BY DEF FirstPass
  <2> QED
    BY <1>1, <2>1 DEF Launch
<1>2. ASSUME NEW p \in Procs, Moves(p) PROVE ServesInv'
  <2>1. cmd' = cmd /\ \A q \in Procs : pc'[q] = "new" <=> pc[q] = "new"
    BY <1>2, MovesKeep
  <2>2. CASE Scan(p)
    BY <2>1, <2>2 DEF Scan
  <2>3. CASE Save(p)
    <3>1. pc[p] # "new" /\ (pass[p] \in {"prune", "sweep"} => IsServer(p))
      BY <2>3 DEF Save
    <3>2. /\ Onward(p)[2] \in {"prune", "sweep"} => IsServer(p)
          /\ Onward(p)[1] \in {"ready", "up"} => IsServer(p)
          /\ Onward(p)[2] # "stop"
      BY <2>3, <3>1 DEF Save, Onward
    <3> QED
      BY <2>1, <2>3, <3>2 DEF Save
  <2>4. CASE Register(p)
    BY <2>1, <2>4 DEF Register, cleanVars
  <2>5. ASSUME pass' = pass, \A q \in Procs :
                  pc'[q] \in {"ready", "up"} => pc[q] \in {"ready", "up"}
        PROVE  ServesInv'
    BY <2>1, <2>5
  <2>6. ASSUME NEW e \in Procs, Examine(p, e) \/ Sight(p, e) \/ Stop(p, e)
        PROVE  ServesInv'
    BY <2>5, <2>6 DEF Examine, Sight, Stop, Terminate
  <2>7. CASE \/ Load(p) \/ TargetGone(p) \/ GiveUp(p) \/ KillFails(p)
             \/ StopEnds(p) \/ Link(p)
             \/ Mark(p) \/ Unregister(p) \/ End(p)
    BY <2>5, <2>7 DEF Load, TargetGone, GiveUp, KillFails, StopEnds, Link,
       Mark, Unregister,
       End, cleanVars
  <2>8. CASE Kill(p)
    <3> DEFINE hit == UNION {Owners(e) : e \in victim[p]}
    <3>1. /\ pc' = [q \in Procs |-> IF q = p THEN "passing"
                                    ELSE IF q \in hit THEN "dead" ELSE pc[q]]
          /\ pass' = pass
      BY <2>8 DEF Kill
    <3> HIDE DEF hit
    <3> QED
      BY <2>5, <3>1
  <2> QED
    BY <1>2, <2>2, <2>3, <2>4, <2>6, <2>7, <2>8 DEF Moves, CleanStep
<1>3. CASE UNCHANGED vars
  BY <1>3 DEF vars, cleanVars
<1> QED
  BY <1>1, <1>2, <1>3, StepKinds

\* _terminate_verified passes over the PID of its own process.
LEMMA SelfStep == FileInv /\ LocalTypes /\ SelfInv /\ [Next]_vars => SelfInv'
<1> SUFFICES ASSUME FileInv, LocalTypes, SelfInv, [Next]_vars PROVE SelfInv'
  OBVIOUS
<1> USE DEF SelfInv, FileInv, LocalTypes
<1>1. ASSUME NEW p \in Procs, NEW command \in Commands[p], NEW n \in Pids,
             Launch(p, command, n)
      PROVE  SelfInv'
  BY <1>1 DEF Launch
<1>2. ASSUME NEW p \in Procs, Moves(p) PROVE SelfInv'
  <2>1. ASSUME NEW e \in Procs, Terminate(p, e) PROVE SelfInv'
    BY <2>1 DEF Terminate
  <2>2. ASSUME \A q \in Procs : pc'[q] \in {"term", "force"} =>
                  pc[q] \in {"term", "force"} /\ victim'[q] \subseteq victim[q]
        PROVE  SelfInv'
    BY <2>2
  <2>3. ASSUME NEW e \in Procs, Examine(p, e) \/ Sight(p, e) \/ Stop(p, e)
        PROVE  SelfInv'
    <3>1. \/ \E q \in Procs : Terminate(p, q)
          \/ UNCHANGED <<pc, victim>>
          \/ pc' = [pc EXCEPT ![p] = "leaving"] /\ UNCHANGED victim
      BY <2>3 DEF Examine, Sight, Stop, Owners
    <3> QED
      BY <2>1, <2>2, <3>1
  <2>4. CASE \/ Load(p) \/ TargetGone(p) \/ GiveUp(p) \/ KillFails(p) \/ Scan(p)
             \/ StopEnds(p) \/ Register(p) \/ Link(p) \/ Mark(p) \/ Unregister(p)
             \/ End(p)
    BY <2>2, <2>4 DEF Load, TargetGone, GiveUp, KillFails, Scan, StopEnds,
       Register, Link, Mark, Unregister, End, Forget, cleanVars
  <2>5. CASE Save(p)
    <3>1. Onward(p)[1] \in {"launched", "ready", "leaving"}
      BY DEF Onward
    <3> QED
      BY <2>2, <2>5, <3>1 DEF Save, Forget
  <2>6. CASE Kill(p)
    <3> DEFINE hit == UNION {Owners(e) : e \in victim[p]}
    <3>1. /\ pc' = [q \in Procs |-> IF q = p THEN "passing"
                                    ELSE IF q \in hit THEN "dead" ELSE pc[q]]
          /\ victim' = [q \in Procs |-> IF q \in hit \cup {p} THEN {} ELSE victim[q]]
      BY <2>6 DEF Kill
    <3> HIDE DEF hit
    <3> QED
      BY <2>2, <3>1
  <2> QED
    BY <1>2, <2>3, <2>4, <2>5, <2>6 DEF Moves, CleanStep
<1>3. CASE UNCHANGED vars
  BY <1>3 DEF vars, cleanVars
<1> QED
  BY <1>1, <1>2, <1>3, StepKinds

\* An entry is removed only once a query has not found its process, or after
\* SIGKILL.
LEMMA GoneStep ==
    FileInv /\ LocalTypes /\ ScopeInv /\ SelfInv /\ GoneInv /\ [Next]_vars => GoneInv'
<1> SUFFICES ASSUME FileInv, LocalTypes, ScopeInv, SelfInv, GoneInv, [Next]_vars
             PROVE  GoneInv'
  OBVIOUS
<1> USE DEF GoneInv, FileInv, LocalTypes
<1>1. ASSUME NEW p \in Procs, NEW command \in Commands[p], NEW n \in Pids,
             Launch(p, command, n)
      PROVE  GoneInv'
  BY <1>1 DEF Launch, Server, Alive, IsServer, Identifiable, Named
<1>2. ASSUME NEW p \in Procs, Moves(p) PROVE GoneInv'
  <2>1. \A e \in Procs :
           /\ pc[e] # "new" => pc'[e] # "new"
           /\ ~Server(e) => ~Server(e)'
           /\ ~Identifiable(e) => ~Identifiable(e)'
    BY <1>2, MovesKeep DEF Server, IsServer, Identifiable, Named
  <2>2. ASSUME \A q, e \in Procs : e \in gone'[q] => e \in gone[q]
        PROVE  GoneInv'
    BY <2>1, <2>2
  <2>3. ASSUME NEW e \in Procs, Examine(p, e) PROVE GoneInv'
    <3>1. pc[e] # "new"
      BY <2>3 DEF Examine, ScopeInv, TodoInv
    <3> QED
      BY <2>1, <2>2, <2>3, <3>1 DEF Examine, Verified, Identifiable
  <2>4. CASE TargetGone(p) \/ KillFails(p)
    <3>1. ASSUME \A e \in victim[p] : Missed(e),
                 gone' = [gone EXCEPT ![p] = @ \cup Removed(p)]
          PROVE  GoneInv'
      <4>1. Removed(p) \subseteq victim[p]
        BY DEF Removed
      <4>2. \A e \in victim[p] : pc[e] # "new" /\ (~Server(e) \/ ~Identifiable(e))
        BY <2>4, <3>1 DEF TargetGone, KillFails, Missed, Identifiable, ScopeInv,
           VictimInv, Rightful
      <4> QED
        BY <2>1, <3>1, <4>1, <4>2
    <3> QED
      BY <2>2, <2>4, <3>1 DEF TargetGone, KillFails
  <2>5. CASE Kill(p)
    <3> DEFINE hit == UNION {Owners(e) : e \in victim[p]}
    <3>1. /\ pc[p] = "force"
          /\ pc' = [q \in Procs |-> IF q = p THEN "passing"
                                    ELSE IF q \in hit THEN "dead" ELSE pc[q]]
          /\ gone' = [q \in Procs |-> IF q \in hit THEN {}
                                      ELSE IF q = p THEN gone[p] \cup Removed(p)
                                      ELSE gone[q]]
      BY <2>5 DEF Kill
    <3>2. ASSUME NEW e \in victim[p] PROVE pc'[e] # "new" /\ ~Server(e)'
      <4>1. e # p /\ pc[e] # "new"
        BY <3>1 DEF SelfInv, ScopeInv, VictimInv, Rightful
      <4>2. Alive(e) => e \in hit
        BY DEF Owners
      <4> HIDE DEF hit
      <4> QED
        BY <3>1, <4>1, <4>2 DEF Server, Alive
    <3>3. Removed(p) \subseteq victim[p]
      BY DEF Removed
    <3> HIDE DEF hit
    <3> QED
      BY <2>1, <3>1, <3>2, <3>3
  <2>6. CASE \/ Load(p) \/ GiveUp(p) \/ Scan(p) \/ StopEnds(p) \/ Save(p)
             \/ Register(p) \/ Link(p) \/ Mark(p) \/ Unregister(p) \/ End(p)
    BY <2>2, <2>6 DEF Load, GiveUp, Scan, StopEnds, Save, Register, Link, Mark,
       Unregister, End, Forget, cleanVars
  <2>7. ASSUME NEW e \in Procs, Sight(p, e) \/ Stop(p, e) PROVE GoneInv'
    BY <2>2, <2>7 DEF Sight, Stop
  <2> QED
    BY <1>2, <2>3, <2>4, <2>5, <2>6, <2>7 DEF Moves, CleanStep
<1>3. CASE UNCHANGED vars
  BY <1>3 DEF vars, cleanVars, Server, Alive, IsServer, Identifiable, Named
<1> QED
  BY <1>1, <1>2, <1>3, StepKinds

\* One step takes the entry of a server that runs on only if it is the end of a
\* cleanup or of --stop-pid, with the reason EntryLoss names.
LEMMA LossStep ==
    ASSUME FileInv, LocalTypes, ScopeInv, LossInv, [Next]_vars,
           NEW e \in Procs, pc[e] = "up", pc'[e] = "up",
           file[e] # "absent", file'[e] = "absent"
    PROVE  \E p \in Procs :
              /\ pc[p] = "passing" /\ pc'[p] # "passing"
              /\ \/ e \in gone[p] /\ ~Identifiable(e)
                 \/ pass[p] = "stop" /\ \E d \in gone[p] \ {e} : pid[d] = pid[e]
                 \/ pass[p] # "stop" /\ snap[p][e] = "absent"
<1> USE DEF FileInv, LocalTypes
<1>1. Server(e)
  BY DEF LossInv, ServesInv, Server, Alive
<1>2. \A q \in Procs : e \in gone[q] => ~Identifiable(e)
  BY <1>1 DEF LossInv, GoneInv
<1> DEFINE Reason(p) ==
       /\ pc[p] = "passing" /\ pc'[p] # "passing"
       /\ \/ e \in gone[p] /\ ~Identifiable(e)
          \/ pass[p] = "stop" /\ \E d \in gone[p] \ {e} : pid[d] = pid[e]
          \/ pass[p] # "stop" /\ snap[p][e] = "absent"
<1>3. ASSUME NEW p \in Procs, Save(p) PROVE Reason(p)
  <2>1. Onward(p)[1] \in {"launched", "ready", "leaving"}
    BY DEF Onward
  <2> QED
    BY <1>2, <1>3, <2>1 DEF Save, Without
<1>4. ASSUME NEW p \in Procs, StopEnds(p) PROVE Reason(p)
  BY <1>2, <1>4 DEF StopEnds, Without
<1>5. ASSUME NEW p \in Procs, Register(p) PROVE FALSE
  <2>1. e # p /\ pid[e] = pid[p]
    BY <1>5 DEF Register
  <2> QED
    BY <1>1, <1>5, <2>1 DEF Register, Server, Alive, ScopeInv, OnePid
<1>6. ASSUME NEW p \in Procs, Mark(p) \/ Unregister(p) PROVE FALSE
  BY <1>6 DEF Mark, Unregister, Tables
<1>7. file' # file
  OBVIOUS
<1> QED
  BY <1>3, <1>4, <1>5, <1>6, <1>7, StepKinds DEF Moves, CleanStep, Launch, Load,
     TargetGone, GiveUp, KillFails, Kill, Scan, Examine, Sight, Stop, Link,
     End, vars

\* A server that runs on loses its entry only to a cleanup that had loaded the
\* file before the entry was in it, to the --stop-pid of the process that had its
\* PID before, or to one that could not identify it because its command line
\* does not show its profile or a query of it failed, whatever PIDs are reused.
THEOREM EntryLossCorrect == Spec => EntryLoss
<1> DEFINE Inv == FileInv /\ LocalTypes /\ ScopeInv /\ LossInv
<1>1. Init => Inv
  BY FileInit, TypesInit, ScopeInit, LossInit
<1>2. Inv /\ [Next]_vars => Inv'
  BY FileInvStep, TypesStep, ScopeInvStep, ServesStep, SelfStep, GoneStep
     DEF LossInv, ScopeInv
<1>3. Inv /\ [Next]_vars =>
      [\A e \in Procs :
          /\ pc[e] = "up" /\ pc'[e] = "up"
          /\ file[e] # "absent" /\ file'[e] = "absent"
          => \E p \in Procs :
                /\ pc[p] = "passing" /\ pc'[p] # "passing"
                /\ \/ e \in gone[p] /\ ~Identifiable(e)
                   \/ pass[p] = "stop" /\ \E d \in gone[p] \ {e} : pid[d] = pid[e]
                   \/ pass[p] # "stop" /\ snap[p][e] = "absent"]_vars
  BY LossStep
<1>4. QED
  BY <1>1, <1>2, <1>3, PTL DEF Spec, EntryLoss
=============================================================================
