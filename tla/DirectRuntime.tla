---------------------------- MODULE DirectRuntime ----------------------------
(***************************************************************************)
(* The direct, browser-independent runtime of src/colab_mcp/runtime.py:    *)
(* the manager that owns one DirectColabRuntime, the kernel client of each *)
(* and the tool calls that connect, replace, use and close them            *)
(* (src/colab_mcp/__init__.py).                                            *)
(*                                                                         *)
(* A step is the code between two awaits.  The blocking work (listing the  *)
(* assignments, building or stopping a client, executing) is in worker     *)
(* threads, during which other calls run.  The manager has no lock.  The   *)
(* locks of a runtime are not variables: _connect_lock and _execute_lock   *)
(* are held by the calls in certain places.  A tool call that is cancelled *)
(* while its thread works is left out.                                     *)
(***************************************************************************)
EXTENDS Naturals, FiniteSets

CONSTANTS
    Callers,   \* tool calls and execution tasks
    Runtimes,  \* bound: DirectColabRuntime objects in use at one time
    NoRuntime,
    Targets,   \* endpoint and credentials of an assignment
    NoTarget

ASSUME CallersAssumption == IsFiniteSet(Callers)
ASSUME RuntimeAssumption == NoRuntime \notin Runtimes
ASSUME NoTargetAssumption == NoTarget \notin Targets

VARIABLES
    runtime,   \* the manager's runtime
    endpoint,  \* the manager's endpoint
    target,    \* target of each runtime object
    client,    \* _kernel_client: "none", "live" or "dead" (not is_alive)
    unstopped, \* kernel clients started for the runtime and not stopped
    pc,        \* where a call is
    mine,      \* the runtime it works on
    want,      \* the target it is to connect
    crossed    \* runtimes whose client was started while another call was
               \* closing or building, or again after a close

vars == <<runtime, endpoint, target, client, unstopped, pc, mine, want, crossed>>

\* "selecting": list_assignments.  "closing": stop, for manager.close.
\* "building": runtime.connect of a new runtime.  "captured": an execution
\* that has read manager.runtime.  "rebuilding": execute's own connect.
\* "ready": before the execute lock.  "starting", "kernel": inside it, before
\* and after the worker thread has read the client.
Pcs == {"idle", "selecting", "closing", "building", "captured",
        "rebuilding", "ready", "starting", "kernel"}

TypeOK ==
    /\ runtime \in Runtimes \cup {NoRuntime}
    /\ endpoint \in Targets \cup {NoTarget}
    /\ target \in [Runtimes -> Targets \cup {NoTarget}]
    /\ client \in [Runtimes -> {"none", "live", "dead"}]
    /\ unstopped \in [Runtimes -> Nat]
    /\ pc \in [Callers -> Pcs]
    /\ mine \in [Callers -> Runtimes \cup {NoRuntime}]
    /\ want \in [Callers -> Targets \cup {NoTarget}]
    /\ crossed \subseteq Runtimes

Init ==
    /\ runtime = NoRuntime
    /\ endpoint = NoTarget
    /\ target = [r \in Runtimes |-> NoTarget]
    /\ client = [r \in Runtimes |-> "none"]
    /\ unstopped = [r \in Runtimes |-> 0]
    /\ pc = [c \in Callers |-> "idle"]
    /\ mine = [c \in Callers |-> NoRuntime]
    /\ want = [c \in Callers |-> NoTarget]
    /\ crossed = {}

\* Another call is between the close of the old runtime and the end of the
\* build of its own.
Crosses(c) == \E d \in Callers \ {c} : pc[d] \in {"closing", "building"}

Go(c, place, r, t) ==
    /\ pc' = [pc EXCEPT ![c] = place]
    /\ mine' = [mine EXCEPT ![c] = r]
    /\ want' = [want EXCEPT ![c] = t]

Done(c) == Go(c, "idle", NoRuntime, NoTarget)

\* The client of r is started (the field is assigned after the thread).
Starts(r, across) ==
    /\ client' = [client EXCEPT ![r] = "live"]
    /\ unstopped' = [unstopped EXCEPT ![r] = @ + 1]
    /\ crossed' = IF across THEN crossed \cup {r} ELSE crossed \ {r}

-----------------------------------------------------------------------------
(* The manager.                                                            *)

\* Objects nobody refers to and that have left nothing behind.
Fresh ==
    {r \in Runtimes \ {runtime} :
        unstopped[r] = 0 /\ \A c \in Callers : mine[c] # r}

\* manager.close has returned: a runtime for t is built.  Without t that is
\* all; the bound on objects ends the call like a failed build.
Replace(c, t) ==
    /\ runtime' = NoRuntime
    /\ endpoint' = NoTarget
    /\ IF t = NoTarget \/ Fresh = {}
       THEN Done(c) /\ UNCHANGED target
       ELSE \E r \in Fresh :
               target' = [target EXCEPT ![r] = t] /\ Go(c, "building", r, t)

HasClient(r) == r # NoRuntime /\ client[r] # "none"

\* manager.close, on the way to a runtime for t: a runtime with a client is
\* awaited while the client stops; the field is cleared at once.
Retire(c, t) ==
    \/ /\ ~HasClient(runtime)
       /\ Replace(c, t)
       /\ UNCHANGED <<client, unstopped>>
    \/ /\ HasClient(runtime)
       /\ client' = [client EXCEPT ![runtime] = "none"]
       /\ Go(c, "closing", runtime, t)
       /\ UNCHANGED <<runtime, endpoint, target, unstopped>>

Connect(c) ==
    /\ pc[c] = "idle" /\ Go(c, "selecting", NoRuntime, NoTarget)
    /\ UNCHANGED <<runtime, endpoint, target, client, unstopped, crossed>>

\* No assignment, none for the endpoint, or several without one.
SelectFails(c) ==
    /\ pc[c] = "selecting" /\ Done(c)
    /\ UNCHANGED <<runtime, endpoint, target, client, unstopped, crossed>>

Selected(c, t) ==
    /\ pc[c] = "selecting"
    /\ IF runtime # NoRuntime /\ endpoint = t /\ target[runtime] = t
       THEN Done(c) /\ UNCHANGED <<runtime, endpoint, target, client, unstopped>>
       ELSE Retire(c, t)
    /\ UNCHANGED crossed

\* attach_target of change_runtime; close at the end of the process when t is
\* NoTarget.
Attach(c, t) ==
    /\ pc[c] = "idle" /\ Retire(c, t)
    /\ UNCHANGED crossed

\* Fault: the client is let go of without being stopped.
ClosedUnstopped(c) ==
    /\ pc[c] = "closing" /\ Replace(c, want[c])
    /\ UNCHANGED <<client, unstopped, crossed>>

Closed(c) ==
    /\ pc[c] = "closing"
    /\ unstopped' = [unstopped EXCEPT ![mine[c]] = @ - 1]
    /\ Replace(c, want[c])
    /\ UNCHANGED <<client, crossed>>

\* Fault: the endpoint is not set with the runtime.
BuiltUnnamed(c, ok) ==
    /\ pc[c] = "building"
    /\ IF ok
       THEN /\ Starts(mine[c], Crosses(c))
            /\ runtime' = mine[c]
       ELSE UNCHANGED <<client, unstopped, crossed, runtime>>
    /\ Done(c)
    /\ UNCHANGED <<endpoint, target>>

Built(c, ok) ==
    /\ pc[c] = "building"
    /\ IF ok
       THEN /\ Starts(mine[c], Crosses(c))
            /\ runtime' = mine[c]
            /\ endpoint' = want[c]
       ELSE UNCHANGED <<client, unstopped, crossed, runtime, endpoint>>
    /\ Done(c)
    /\ UNCHANGED target

-----------------------------------------------------------------------------
(* An execution.                                                           *)

\* run_code_cell takes the runtime only while it is connected; the blocking
\* form takes whatever runtime there is once it has tried to connect.
Capture(c) ==
    /\ pc[c] = "idle" /\ runtime # NoRuntime
    /\ Go(c, "captured", runtime, NoTarget)
    /\ UNCHANGED <<runtime, endpoint, target, client, unstopped, crossed>>

\* Fault: _connect_lock is left out.
ConnectFreeAlways(r) == TRUE

ConnectFree(r) == \A d \in Callers : ~(pc[d] = "rebuilding" /\ mine[d] = r)

ExecuteFree(r) ==
    \A d \in Callers : ~(pc[d] \in {"starting", "kernel"} /\ mine[d] = r)

Move(c, place) ==
    /\ pc' = [pc EXCEPT ![c] = place]
    /\ UNCHANGED <<runtime, endpoint, target, mine, want>>

\* execute's connect: the client of a runtime that was closed is built again.
Join(c) ==
    /\ pc[c] = "captured" /\ ConnectFree(mine[c])
    /\ Move(c, IF client[mine[c]] = "none" THEN "rebuilding" ELSE "ready")
    /\ UNCHANGED <<client, unstopped, crossed>>

Fails(c) ==
    /\ Done(c)
    /\ UNCHANGED <<runtime, endpoint, target, client, unstopped, crossed>>

Rebuilt(c, ok) ==
    /\ pc[c] = "rebuilding"
    /\ \/ ok /\ Starts(mine[c], TRUE) /\ Move(c, "ready")
       \/ ~ok /\ Fails(c)

EnterExecute(c) ==
    /\ pc[c] = "ready" /\ ExecuteFree(mine[c]) /\ Move(c, "starting")
    /\ UNCHANGED <<client, unstopped, crossed>>

\* Fault: the thread waits for a client instead of failing without one.
ThreadWaits(c) ==
    /\ pc[c] = "starting" /\ client[mine[c]] # "none" /\ Move(c, "kernel")
    /\ UNCHANGED <<client, unstopped, crossed>>

\* _execute_sync finds the client gone if the runtime was closed meanwhile.
ThreadStarts(c) ==
    /\ pc[c] = "starting"
    /\ \/ client[mine[c]] = "none" /\ Fails(c)
       \/ /\ client[mine[c]] # "none"
          /\ Move(c, "kernel")
          /\ UNCHANGED <<client, unstopped, crossed>>

\* The reply, an error or the timeout.
KernelEnds(c) == pc[c] = "kernel" /\ Fails(c)

\* The kernel connection is lost.
ClientDies(r) ==
    /\ client[r] = "live"
    /\ client' = [client EXCEPT ![r] = "dead"]
    /\ UNCHANGED <<runtime, endpoint, target, unstopped, pc, mine, want, crossed>>

-----------------------------------------------------------------------------

ManagerStep(c) ==
    \/ SelectFails(c) \/ Closed(c)
    \/ \E t \in Targets : Selected(c, t)
    \/ \E ok \in BOOLEAN : Built(c, ok)

ExecuteStep(c) ==
    \/ Join(c) \/ EnterExecute(c) \/ ThreadStarts(c) \/ KernelEnds(c)
    \/ \E ok \in BOOLEAN : Rebuilt(c, ok)

Next ==
    \/ \E c \in Callers :
          \/ Connect(c) \/ Capture(c) \/ ManagerStep(c) \/ ExecuteStep(c)
          \/ \E t \in Targets \cup {NoTarget} : Attach(c, t)
    \/ \E r \in Runtimes : ClientDies(r)

Spec == Init /\ [][Next]_vars

\* Worker threads end (each blocking call has a deadline of its own) and the
\* locks of a runtime are first come, first served.
Fairness ==
    \A c \in Callers :
       /\ WF_vars(ManagerStep(c))
       /\ SF_vars(Join(c) \/ EnterExecute(c))
       /\ WF_vars(ThreadStarts(c)) /\ WF_vars(KernelEnds(c))
       /\ WF_vars(\E ok \in BOOLEAN : Rebuilt(c, ok))

FairSpec == Spec /\ Fairness

-----------------------------------------------------------------------------

\* The endpoint the manager reports is that of the runtime it has, whatever
\* connects, changes and closes overlap.
EndpointOfRuntime ==
    IF runtime = NoRuntime THEN endpoint = NoTarget
                           ELSE endpoint = target[runtime]

\* A kernel client is not used by two executions at once, and every client that
\* was started is the one its runtime holds or is being stopped, by one call.
ClientExclusive ==
    /\ \A c, d \in Callers :
          pc[c] = "kernel" /\ pc[d] = "kernel" /\ mine[c] = mine[d] => c = d
    /\ \A r \in Runtimes :
          unstopped[r] = Cardinality({c \in Callers :
                            pc[c] = "closing" /\ mine[c] = r})
                         + (IF client[r] = "none" THEN 0 ELSE 1)

\* A client that was started is the manager's or is being stopped, unless a
\* call was closing or building beside the one that started it, or an execution
\* started it again for a runtime that had been closed: a client gets lost in
\* no other way, whatever connects, changes and executions overlap.
NoOrphan ==
    \A r \in Runtimes :
       unstopped[r] > 0 => \/ r = runtime \/ r \in crossed
                           \/ \E c \in Callers : pc[c] = "closing" /\ mine[c] = r

\* Every connect, change and execution returns: the locks and the threads
\* never wait for each other in a circle.
CallsReturn == \A c \in Callers : pc[c] # "idle" ~> pc[c] = "idle"
=============================================================================
