--------------------------- MODULE ProcessRegistry ---------------------------
(***************************************************************************)
(* The process registry of src/colab_mcp/process_registry.py, as the       *)
(* startup, the running and the end of a server and the command line       *)
(* actions use it (main_async of src/colab_mcp/__init__.py).               *)
(*                                                                         *)
(* Processes run concurrently and share registry.json.  The file is        *)
(* replaced atomically, so a load is one step; a section under the file    *)
(* lock is one step.  prune_dead, cleanup_unhealthy and cleanup_stale load *)
(* the file, examine its entries and save what they retain, and hold the   *)
(* lock only while they save.                                              *)
(*                                                                         *)
(* A process here is one incarnation of a PID.  _verified_info compares    *)
(* the command line and the start time, so it accepts an entry only while  *)
(* the incarnation that wrote it lives: two servers with one command line  *)
(* that get one PID within START_TIME_TOLERANCE_SECONDS are left out.      *)
(*                                                                         *)
(* A process has two profiles.  It registers under args.profile, which may *)
(* come from COLAB_MCP_PROFILE; whoever looks at its command line sees the *)
(* value of --profile, or "default" where there is none.  And the query of *)
(* a process may fail or time out, which looks as if it were not there.    *)
(*                                                                         *)
(* Verifying a process and the first signal to it are one step; the second *)
(* signal is not verified again, and GapReuse says whether its PID may     *)
(* have a new owner by then.  The process table is read one PID at a time, *)
(* as on Linux.                                                            *)
(***************************************************************************)
EXTENDS FiniteSets

CONSTANTS
    Procs,      \* process incarnations
    Pids,
    NoPid,
    Commands,   \* what each process may be started with
    Unreadable, \* processes whose query may fail at any moment
    GapReuse    \* whether a PID is reused between its last check and SIGKILL

ASSUME PidAssumption == NoPid \notin Pids
ASSUME CommandsAssumption ==
    Commands \in [Procs -> SUBSET [kind : {"start", "replace", "kill_stale", "stop"},
                                   profile : STRING, shown : STRING,
                                   transport : STRING]]
ASSUME UnreadableAssumption == Unreadable \subseteq Procs
ASSUME GapAssumption == GapReuse \in BOOLEAN

VARIABLES
    file,     \* the entry of each process in registry.json: its state
    cmd,      \* what the process is started for, its profile ("all" for
              \* --all-profiles), the profile its command line shows, and
              \* its --transport
    pid,
    pc,       \* how far the process has come
    pass,     \* the cleanup it is in
    snap,     \* the file as that cleanup loaded it
    todo,     \* entries, then PIDs, it has still to examine
    seen,     \* PIDs of the entries cleanup_stale has verified
    gone,     \* processes whose entries it removes
    victim,   \* the process it terminates, as a set of at most one
    linked,   \* a browser tab is connected
    failed    \* it runs and has marked itself connection_failed

cleanVars == <<pass, snap, todo, seen, gone, victim>>
vars == <<file, cmd, pid, pc, cleanVars, linked, failed>>

States  == {"starting", "connected", "connection_failed"}
Entries == States \cup {"absent"}
NoCommand ==
    [kind |-> "none", profile |-> "none", shown |-> "none", transport |-> "none"]
Pcs     == {"new", "launched", "passing", "term", "force", "ready", "up",
            "leaving", "dead"}
\* "scan" is the second half of cleanup_stale, over the process table.
Passes  == {"prune", "sweep", "stale", "scan", "stop"}

TypeOK ==
    /\ file \in [Procs -> Entries]
    /\ cmd \in [Procs -> (UNION {Commands[q] : q \in Procs}) \cup {NoCommand}]
    /\ pid \in [Procs -> Pids \cup {NoPid}]
    /\ pc \in [Procs -> Pcs]
    /\ pass \in [Procs -> Passes]
    /\ snap \in [Procs -> [Procs -> Entries]]
    /\ todo \in [Procs -> SUBSET Procs]
    /\ seen \in [Procs -> SUBSET (Pids \cup {NoPid})]
    /\ gone \in [Procs -> SUBSET Procs]
    /\ victim \in [Procs -> SUBSET Procs]
    /\ linked \in [Procs -> BOOLEAN]
    /\ failed \in [Procs -> BOOLEAN]

Empty == [q \in Procs |-> "absent"]

Init ==
    /\ file = Empty
    /\ cmd = [p \in Procs |-> NoCommand]
    /\ pid = [p \in Procs |-> NoPid]
    /\ pc = [p \in Procs |-> "new"]
    /\ pass = [p \in Procs |-> "prune"]
    /\ snap = [p \in Procs |-> Empty]
    /\ todo = [p \in Procs |-> {}]
    /\ seen = [p \in Procs |-> {}]
    /\ gone = [p \in Procs |-> {}]
    /\ victim = [p \in Procs |-> {}]
    /\ linked = [p \in Procs |-> FALSE]
    /\ failed = [p \in Procs |-> FALSE]

Alive(p) == pc[p] \notin {"new", "dead"}

\* _is_server_command: no diagnostic flag on the command line.
IsServer(p) == cmd[p].kind \in {"start", "replace"}

\* _entry_matches_profile of an entry of the file, and of an entry made from
\* the command line of a process.
Matches(e, p) == cmd[p].profile \in {"all", cmd[e].profile}
Shows(q, p)   == cmd[p].profile \in {"all", cmd[q].shown}

Server(p) == Alive(p) /\ IsServer(p)

\* The command line shows the profile of the entry.
Named(e) == cmd[e].shown = cmd[e].profile

\* Fault: the start time is not compared.
VerifiedByPid(e) ==
    \E q \in Procs : Server(q) /\ pid[q] = pid[e] /\ cmd[q].shown = cmd[e].profile

\* _verified_info of an entry of the file, when the query succeeds.
Verified(e) == Server(e) /\ Named(e)

\* A query does not find the process e, once verified, any more.
Missed(e) == ~Server(e) \/ e \in Unreadable

Listed(S) == {e \in Procs : S[e] # "absent"}

\* The processes that get a signal sent to the PID of e.
Owners(e) == {q \in Procs : Alive(q) /\ pid[q] = pid[e]}

-----------------------------------------------------------------------------
(* main_async up to the transport: --replace first runs cleanup_stale, then *)
(* every startup runs prune_dead and cleanup_unhealthy and registers.       *)

FirstPass(command) ==
    CASE command.kind = "start" -> "prune"
      [] command.kind = "stop" -> "stop"
      [] OTHER -> "stale"

Launch(p, command, n) ==
    /\ pc[p] = "new"
    /\ \A q \in Procs : Alive(q) => pid[q] # n
    /\ GapReuse \/ \A q \in Procs :
          pc[q] = "force" => \A e \in victim[q] : pid[e] # n
    /\ pc' = [pc EXCEPT ![p] = "launched"]
    /\ cmd' = [cmd EXCEPT ![p] = command]
    /\ pid' = [pid EXCEPT ![p] = n]
    /\ pass' = [pass EXCEPT ![p] = FirstPass(command)]
    /\ UNCHANGED <<file, snap, todo, seen, gone, victim, linked, failed>>

\* The entries a cleanup looks at: all, or those of the process's profile.
Scope(p) ==
    {e \in Listed(file) : pass[p] = "prune" \/ Matches(e, p)}

Load(p) ==
    /\ pc[p] = "launched" /\ pass[p] # "stop"
    /\ pc' = [pc EXCEPT ![p] = "passing"]
    /\ snap' = [snap EXCEPT ![p] = file]
    /\ todo' = [todo EXCEPT ![p] = Scope(p)]
    /\ seen' = [seen EXCEPT ![p] = {}]
    /\ gone' = [gone EXCEPT ![p] = {}]
    /\ UNCHANGED <<file, cmd, pid, pass, victim, linked, failed>>

\* Whom a cleanup terminates: prune_dead nobody; cleanup_unhealthy the peers
\* of its transport the file it loaded says have failed.
Condemned(p, e) ==
    \/ pass[p] = "stale"
    \/ /\ pass[p] = "sweep"
       /\ snap[p][e] = "connection_failed"
       /\ cmd[e].transport = cmd[p].transport

\* SIGTERM to the PID of e, unless it is p's own, after which
\* _terminate_verified polls.
Terminate(p, e) ==
    /\ pid[e] # pid[p]
    /\ pc' = [pc EXCEPT ![p] = "term"]
    /\ victim' = [victim EXCEPT ![p] = {e}]

\* cleanup_stale notes the PIDs of the entries it has verified.
Note(p, e) ==
    seen' = IF pass[p] = "stale" THEN [seen EXCEPT ![p] = @ \cup {pid[e]}] ELSE seen

\* Fault: an entry whose process is not signalled is removed all the same.
RemoveUnsignalled(p, e) ==
    /\ pc[p] = "passing" /\ pass[p] # "scan" /\ e \in todo[p]
    /\ Condemned(p, e) \/ ~Verified(e)
    /\ todo' = [todo EXCEPT ![p] = @ \ {e}]
    /\ gone' = [gone EXCEPT ![p] = @ \cup {e}]
    /\ UNCHANGED <<file, cmd, pid, pc, pass, snap, seen, victim, linked, failed>>

\* One entry of the file: invalid or taken for it, retained (not condemned, or
\* the signal is refused), or terminated.
Examine(p, e) ==
    /\ pc[p] = "passing" /\ pass[p] # "scan" /\ e \in todo[p]
    /\ todo' = [todo EXCEPT ![p] = @ \ {e}]
    /\ \/ /\ ~Verified(e) \/ e \in Unreadable
          /\ gone' = [gone EXCEPT ![p] = @ \cup {e}]
          /\ UNCHANGED <<pc, seen, victim>>
       \/ /\ Verified(e)
          /\ Note(p, e)
          /\ \/ UNCHANGED <<pc, victim>>
             \/ Condemned(p, e) /\ Terminate(p, e)
          /\ UNCHANGED gone
    /\ UNCHANGED <<file, cmd, pid, pass, snap, linked, failed>>

\* One PID of the process table: whoever has it now is left alone (not found,
\* not a server, of another profile by its command line, or the signal is
\* refused), or terminated.
Sight(p, e) ==
    /\ pc[p] = "passing" /\ pass[p] = "scan" /\ e \in todo[p]
    /\ todo' = [todo EXCEPT ![p] = @ \ {e}]
    /\ \/ UNCHANGED <<pc, victim>>
       \/ \E q \in Owners(e) : Server(q) /\ Shows(q, p) /\ Terminate(p, q)
    /\ UNCHANGED <<file, cmd, pid, pass, snap, seen, gone, linked, failed>>

\* The locals of a cleanup end with it, and with the process.
Forget(p) ==
    /\ snap' = [snap EXCEPT ![p] = Empty]
    /\ todo' = [todo EXCEPT ![p] = {}]
    /\ seen' = [seen EXCEPT ![p] = {}]
    /\ gone' = [gone EXCEPT ![p] = {}]
    /\ victim' = [victim EXCEPT ![p] = {}]

\* The entry that goes with the victim: the scan goes through no entries.
Removed(p) == IF pass[p] = "scan" THEN {} ELSE victim[p]

\* A poll finds the PID free or verifiably in other hands, or fails.
TargetGone(p) ==
    /\ pc[p] = "term"
    /\ \A e \in victim[p] : Missed(e)
    /\ pc' = [pc EXCEPT ![p] = "passing"]
    /\ gone' = [gone EXCEPT ![p] = @ \cup Removed(p)]
    /\ victim' = [victim EXCEPT ![p] = {}]
    /\ UNCHANGED <<file, cmd, pid, pass, snap, todo, seen, linked, failed>>

\* Fault: there is no deadline, the target is polled again.
GiveUpNever(p) ==
    /\ pc[p] = "term"
    /\ \A e \in victim[p] : Server(e)
    /\ UNCHANGED vars

\* The last poll before the deadline still finds the target.
GiveUp(p) ==
    /\ pc[p] = "term"
    /\ \A e \in victim[p] : Server(e)
    /\ pc' = [pc EXCEPT ![p] = "force"]
    /\ UNCHANGED <<file, cmd, pid, cleanVars, linked, failed>>

\* SIGKILL to whoever has the PID by now, and the polls after it.
Kill(p) ==
    LET hit == UNION {Owners(e) : e \in victim[p]} IN
    /\ pc[p] = "force"
    /\ pc' = [q \in Procs |-> IF q = p THEN "passing"
                              ELSE IF q \in hit THEN "dead" ELSE pc[q]]
    /\ snap' = [q \in Procs |-> IF q \in hit THEN Empty ELSE snap[q]]
    /\ todo' = [q \in Procs |-> IF q \in hit THEN {} ELSE todo[q]]
    /\ seen' = [q \in Procs |-> IF q \in hit THEN {} ELSE seen[q]]
    /\ gone' = [q \in Procs |-> IF q \in hit THEN {}
                                ELSE IF q = p THEN gone[p] \cup Removed(p)
                                ELSE gone[q]]
    /\ victim' = [q \in Procs |-> IF q \in hit \cup {p} THEN {} ELSE victim[q]]
    /\ linked' = [q \in Procs |-> linked[q] /\ q \notin hit]
    /\ failed' = [q \in Procs |-> failed[q] /\ q \notin hit]
    /\ UNCHANGED <<file, cmd, pid, pass>>

\* SIGKILL is refused, or the target is still there at the end of the polls:
\* the entry is retained, unless a query misses the process.
KillFails(p) ==
    /\ pc[p] = "force"
    /\ pc' = [pc EXCEPT ![p] = "passing"]
    /\ \/ UNCHANGED gone
       \/ /\ \A e \in victim[p] : Missed(e)
          /\ gone' = [gone EXCEPT ![p] = @ \cup Removed(p)]
    /\ victim' = [victim EXCEPT ![p] = {}]
    /\ UNCHANGED <<file, cmd, pid, pass, snap, todo, seen, linked, failed>>

\* cleanup_stale goes on with the process table, but for its own PID and those
\* of entries it has verified.
Scan(p) ==
    /\ pc[p] = "passing" /\ pass[p] = "stale" /\ todo[p] = {}
    /\ pass' = [pass EXCEPT ![p] = "scan"]
    /\ todo' = [todo EXCEPT ![p] = {q \in Procs \ {p} : Alive(q) /\ pid[q] \notin seen[p]}]
    /\ UNCHANGED <<file, cmd, pid, pc, snap, seen, gone, victim, linked, failed>>

\* What is left of S when the processes in G are removed.
Without(S, G) == [q \in Procs |-> IF q \in G THEN "absent" ELSE S[q]]

\* What the process does after this cleanup.
Onward(p) ==
    CASE pass[p] = "prune" -> <<"launched", "sweep">>
      [] pass[p] = "scan" /\ cmd[p].kind = "replace" -> <<"launched", "prune">>
      [] pass[p] = "sweep" -> <<"ready", "sweep">>
      [] OTHER -> <<"leaving", pass[p]>>

\* The cleanup writes what it retains of the file it loaded; prune_dead only
\* if it removes something.
Save(p) ==
    /\ pc[p] = "passing" /\ pass[p] \in {"prune", "sweep", "scan"}
    /\ todo[p] = {}
    /\ file' = IF pass[p] = "prune" /\ gone[p] = {}
               THEN file ELSE Without(snap[p], gone[p])
    /\ pc' = [pc EXCEPT ![p] = Onward(p)[1]]
    /\ pass' = [pass EXCEPT ![p] = Onward(p)[2]]
    /\ Forget(p)
    /\ UNCHANGED <<cmd, pid, linked, failed>>

\* stop: the PID must be that of a server.  The entry of the PID, if there is
\* one, must be verified as its own and of the profile; without one, the
\* command line must show the profile.
Stoppable(p, e) ==
    LET listed == {q \in Listed(file) : pid[q] = pid[e]} IN
    /\ Server(e)
    /\ \/ listed = {} /\ Shows(e, p)
       \/ listed = {e} /\ Named(e) /\ Matches(e, p)

Stop(p, e) ==
    /\ pc[p] = "launched" /\ pass[p] = "stop"
    /\ \/ Stoppable(p, e) /\ Terminate(p, e)
       \/ /\ pc' = [pc EXCEPT ![p] = "leaving"]
          /\ UNCHANGED <<victim>>
    /\ gone' = [gone EXCEPT ![p] = {}]
    /\ UNCHANGED <<file, cmd, pid, pass, snap, todo, seen, linked, failed>>

\* stop removes the entries of the PID from the file as it is now.
StopEnds(p) ==
    /\ pc[p] = "passing" /\ pass[p] = "stop"
    /\ file' = Without(file, {q \in Procs : \E e \in gone[p] : pid[q] = pid[e]})
    /\ pc' = [pc EXCEPT ![p] = "leaving"]
    /\ Forget(p)
    /\ UNCHANGED <<cmd, pid, pass, linked, failed>>

-----------------------------------------------------------------------------
(* A running server.                                                       *)

\* Fault: register keeps what it finds.
RegisterAppends(p) ==
    /\ pc[p] = "ready"
    /\ file' = [file EXCEPT ![p] = "starting"]
    /\ pc' = [pc EXCEPT ![p] = "up"]
    /\ UNCHANGED <<cmd, pid, cleanVars, linked, failed>>

\* register: entries of the process's own PID are of dead incarnations.
Register(p) ==
    /\ pc[p] = "ready"
    /\ file' = [q \in Procs |-> IF q = p THEN "starting"
                                ELSE IF pid[q] = pid[p] THEN "absent"
                                ELSE file[q]]
    /\ pc' = [pc EXCEPT ![p] = "up"]
    /\ UNCHANGED <<cmd, pid, cleanVars, linked, failed>>

\* A tab connects or goes away; the registry is not told.
Link(p) ==
    /\ pc[p] = "up"
    /\ linked' = [linked EXCEPT ![p] = ~@]
    /\ UNCHANGED <<file, cmd, pid, pc, cleanVars, failed>>

\* mark_state, called by the connection tools with what is_connected says;
\* nothing is recorded if the entry is not in the file.
Mark(p) ==
    /\ pc[p] = "up"
    /\ file' = [file EXCEPT ![p] =
                   IF @ = "absent" THEN @
                   ELSE IF linked[p] THEN "connected" ELSE "connection_failed"]
    /\ failed' = [failed EXCEPT ![p] = @ \/ ~linked[p]]
    /\ UNCHANGED <<cmd, pid, pc, cleanVars, linked>>

\* unregister by PID, start time and instance id: the own entry alone.
Unregister(p) ==
    /\ pc[p] = "up"
    /\ file' = [file EXCEPT ![p] = "absent"]
    /\ pc' = [pc EXCEPT ![p] = "leaving"]
    /\ linked' = [linked EXCEPT ![p] = FALSE]
    /\ UNCHANGED <<cmd, pid, cleanVars, failed>>

\* A process that is done ends; one that crashes, or that obeys a signal,
\* leaves its entry behind.
End(p) ==
    /\ Alive(p)
    /\ pc' = [pc EXCEPT ![p] = "dead"]
    /\ linked' = [linked EXCEPT ![p] = FALSE]
    /\ failed' = [failed EXCEPT ![p] = FALSE]
    /\ Forget(p)
    /\ UNCHANGED <<file, cmd, pid, pass>>

-----------------------------------------------------------------------------

CleanStep(p) ==
    \/ Load(p) \/ TargetGone(p) \/ GiveUp(p) \/ Kill(p) \/ KillFails(p)
    \/ Scan(p) \/ Save(p) \/ StopEnds(p)
    \/ \E e \in Procs : Examine(p, e) \/ Sight(p, e) \/ Stop(p, e)

Next ==
    \E p \in Procs :
       \/ \E command \in Commands[p], n \in Pids : Launch(p, command, n)
       \/ CleanStep(p)
       \/ Register(p) \/ Link(p) \/ Mark(p) \/ Unregister(p) \/ End(p)

Spec == Init /\ [][Next]_vars

Starting(p) == pc[p] \in {"launched", "passing", "term", "force", "ready"}

\* A process that runs gets on with its cleanup and its registration.
Fairness ==
    \A p \in Procs : WF_vars(Starting(p) /\ (CleanStep(p) \/ Register(p)))

FairSpec == Spec /\ Fairness

-----------------------------------------------------------------------------
(* Safety.                                                                 *)

\* A PID has at most one entry, so that mark_state and stop, which take the
\* first entry of a PID, take the right one: whatever loads and saves overlap
\* and whatever PIDs are reused.
OneEntryPerPid ==
    \A p, q \in Listed(file) : pid[p] = pid[q] => p = q

\* The processes p sends a signal to in this step, the first or the second one.
Signalled(p) ==
    IF pc[p] # "term" /\ pc'[p] = "term" THEN UNION {Owners(e) : e \in victim'[p]}
    ELSE IF pc[p] = "force" /\ pc'[p] = "passing"
         THEN UNION {Owners(e) : e \in victim[p]} ELSE {}

\* Whom p may signal: servers whose command line shows the profile it is for; a
\* plain startup only servers that have also registered under it, of its own
\* transport, that have marked themselves connection_failed.
MaySignal(p, t) ==
    /\ IsServer(t) /\ Shows(t, p)
    /\ cmd[p].kind = "start" =>
          failed[t] /\ cmd[t].transport = cmd[p].transport /\ Matches(t, p)

\* Cleanups and explicit actions signal only whom they may, whoever had the
\* PID before.  A profile from COLAB_MCP_PROFILE does not protect a server from
\* --replace and --stop-pid of the default profile, only from plain startups.
SignalsScoped == [][\A p \in Procs : \A t \in Signalled(p) : MaySignal(p, t)]_vars

\* Others can tell that an entry is that of its process: the command line shows
\* its profile, and queries of the process succeed.
Identifiable(e) == Named(e) /\ e \notin Unreadable

\* A server that runs on loses its entry only to a cleanup that loaded the file
\* before the entry was in it, to a --stop-pid of the process that had its PID
\* before, or because others cannot identify it; if they can, never because a
\* cleanup has taken it for dead, did not get its signal through, or gave up
\* waiting for it.
EntryLoss ==
    [][\A e \in Procs :
          /\ pc[e] = "up" /\ pc'[e] = "up"
          /\ file[e] # "absent" /\ file'[e] = "absent"
          => \E p \in Procs :
                /\ pc[p] = "passing" /\ pc'[p] # "passing"
                /\ \/ e \in gone[p] /\ ~Identifiable(e)
                   \/ pass[p] = "stop" /\ \E d \in gone[p] \ {e} : pid[d] = pid[e]
                   \/ pass[p] # "stop" /\ snap[p][e] = "absent"]_vars

\* Every process that starts comes to run, or ends: no cleanup waits forever
\* for a process that does not obey.
StartupEnds ==
    \A p \in Procs : pc[p] = "launched" ~> pc[p] \in {"up", "leaving", "dead"}
=============================================================================
