-------------------------- MODULE ExecutionRegistry --------------------------
(***************************************************************************)
(* The background execution registry of src/colab_mcp/execution.py: the    *)
(* bounded table of executions, the asyncio task and the kernel reader     *)
(* thread of each, the retained output events and the clients that         *)
(* long-poll for them.                                                     *)
(*                                                                         *)
(* Every step of a coroutine runs on the one event loop and is atomic with *)
(* respect to other coroutines; the kernel reader thread of a direct       *)
(* execution runs beside the loop, so its steps may fall between the       *)
(* locked sections of a get_events call (a poller in a phase of HoldsLoop).*)
(***************************************************************************)
EXTENDS Integers, Sequences, FiniteSets

CONSTANTS
    Execs,              \* the executions a run may start (uuid4 ids, fresh)
    Pollers,            \* the callers of get_code_execution
    NextCursorClients,  \* the pollers that pass the reply's next_cursor back;
                        \* the others pass the largest event_id they received
    NoExec,             \* the target of a poller that has not polled yet
    MaxEntries,         \* max_entries
    MaxRetained,        \* MAX_RETAINED_EVENTS
    Ttl,                \* ttl_seconds, in ticks of the clock
    MaxOutputs,         \* bound: outputs of one execution
    MaxTime             \* bound: ticks of the clock

ASSUME EntriesAssumption == MaxEntries \in Nat \ {0}
ASSUME RetainedAssumption == MaxRetained \in Nat \ {0}
ASSUME TtlAssumption == Ttl \in Nat \ {0}
ASSUME BoundsAssumption == MaxOutputs \in Nat /\ MaxTime \in Nat
ASSUME ClientAssumption == NextCursorClients \subseteq Pollers
ASSUME TargetAssumption == NoExec \notin Execs

VARIABLES
    now,          \* time.time()
    closed,       \* "open", "closing" (close awaits the tasks) or "closed"
    entries,      \* the keys of _entries
    starts,       \* insertions so far: the next insertion position
    born,         \* insertion position of each execution in _entries
    status,       \* CodeExecution.status
    finishedAt,   \* CodeExecution.finished_at, NotFinished for None
    task,         \* the asyncio task of each execution
    runner,       \* where the runner coroutine or its kernel thread is
    events,       \* CodeExecution.events, as the sequence of their event_ids
    nextId,       \* CodeExecution.next_event_id
    setCalls,     \* events_changed.set callbacks scheduled on the loop
    target,       \* the execution a poller follows
    phase,        \* where a poller is inside get_events
    longPoll,     \* wait_seconds > 0
    cursor,       \* the cursor a poller passes
    snap,         \* the events and oldest retained id read under the lock
    got,          \* event_ids delivered to the poller
    missed,       \* event_ids a reply declared truncated
    replied       \* the kind of the last reply

execVars == <<entries, starts, born, status, finishedAt, task, runner>>
outVars  == <<events, nextId, setCalls>>
pollVars == <<target, phase, longPoll, cursor, snap, got, missed, replied>>
vars     == <<now, closed, execVars, outVars, pollVars>>

NotFinished == -1
NoSnap == [new |-> {}, oldest |-> 0]

Statuses == {"running", "completed", "failed"}

\* "unstarted": cancelled before its first step, so _run's try is never
\* entered.  "stopping": cancelled later, CancelledError not yet thrown.
Tasks == {"none", "created", "running", "unstarted", "stopping", "done"}

\* "queued": runtime.execute awaits its connect and execute locks.  "kernel",
\* "found", "appended": the reader thread outside publish, after the lookup,
\* after the append.  "returned", "raised": the thread has ended.
Runners == {"idle", "queued", "kernel", "found", "appended",
            "returned", "raised", "browser"}

Phases == {"idle", "decide", "again", "waiting", "woken", "timedout"}

-----------------------------------------------------------------------------
(* The table.                                                              *)

Terminal(e) == status[e] # "running"

Expired(e) == finishedAt[e] # NotFinished /\ now - finishedAt[e] >= Ttl

OlderTerminal(S, e) == {f \in S : Terminal(f) /\ born[f] < born[e]}

\* The table _prune leaves of S: first the expired entries go, then, while
\* there are too many, the first terminal one in insertion order.
Prune(S) ==
    LET live == {e \in S : ~Expired(e)}
        surplus == Cardinality(live) - MaxEntries
    IN  {e \in live :
            ~(Terminal(e) /\ Cardinality(OlderTerminal(live, e)) < surplus)}

\* Faults: any oldest entry is given up; the newest terminal one is.
VictimsAnyStatus(S) ==
    IF Cardinality(S) >= MaxEntries
    THEN {e \in S : \A f \in S : born[e] <= born[f]} ELSE {}

VictimsNewest(S) ==
    IF Cardinality(S) >= MaxEntries
    THEN {e \in S : Terminal(e) /\ \A f \in S : Terminal(f) => born[f] <= born[e]}
    ELSE {}

\* A full table gives up its oldest terminal entry to a new execution.
Victims(S) ==
    IF Cardinality(S) >= MaxEntries
    THEN {e \in S : Terminal(e) /\ OlderTerminal(S, e) = {}}
    ELSE {}

\* Fault: the limit is off by one.
AtLimitLate(S) == Cardinality(S) > MaxEntries /\ \A e \in S : ~Terminal(e)

AtLimit(S) == Cardinality(S) >= MaxEntries /\ \A e \in S : ~Terminal(e)

-----------------------------------------------------------------------------
(* The event loop, the wake-up of waiters and the retained events.         *)

HoldsLoop(p) == phase[p] \in {"decide", "again"}

LoopFree == \A p \in Pollers : ~HoldsLoop(p)

\* events_changed.set(): every waiter's future is resolved.  The flag itself
\* is not a variable: it is read by wait() alone, which get_events reaches
\* without suspending after clear(), and set() runs only on the loop.
Wake(e) ==
    phase' = [p \in Pollers |->
                 IF phase[p] = "waiting" /\ target[p] = e
                 THEN "woken" ELSE phase[p]]

\* Fault: the newest events are dropped instead of the oldest.
RetainOldest(s) == IF Len(s) > MaxRetained THEN SubSeq(s, 1, MaxRetained) ELSE s

Retain(s) ==
    IF Len(s) > MaxRetained
    THEN SubSeq(s, Len(s) - MaxRetained + 1, Len(s)) ELSE s

AppendEvent(e) ==
    /\ events' = [events EXCEPT ![e] = Retain(Append(@, nextId[e]))]
    /\ nextId' = [nextId EXCEPT ![e] = @ + 1]

Retained(e) == {events[e][i] : i \in 1 .. Len(events[e])}

NewEvents(e, c) == {id \in Retained(e) : id > c}

-----------------------------------------------------------------------------
Init ==
    /\ now = 0
    /\ closed = "open"
    /\ entries = {}
    /\ starts = 0
    /\ born = [e \in Execs |-> 0]
    /\ status = [e \in Execs |-> "running"]
    /\ finishedAt = [e \in Execs |-> NotFinished]
    /\ task = [e \in Execs |-> "none"]
    /\ runner = [e \in Execs |-> "idle"]
    /\ events = [e \in Execs |-> <<>>]
    /\ nextId = [e \in Execs |-> 1]
    /\ setCalls = [e \in Execs |-> 0]
    /\ target = [p \in Pollers |-> NoExec]
    /\ phase = [p \in Pollers |-> "idle"]
    /\ longPoll = [p \in Pollers |-> FALSE]
    /\ cursor = [p \in Pollers |-> 0]
    /\ snap = [p \in Pollers |-> NoSnap]
    /\ got = [p \in Pollers |-> {}]
    /\ missed = [p \in Pollers |-> {}]
    /\ replied = [p \in Pollers |-> "none"]

-----------------------------------------------------------------------------
(* start, get and list.                                                    *)

\* run_code_cell starts e: an expired or oldest terminal entry makes room.
Start(e) ==
    LET live == Prune(entries)
        room == live \ Victims(live)
    IN  /\ LoopFree
        /\ closed = "open" /\ task[e] = "none" /\ ~AtLimit(live)
        /\ entries' = Prune(room \cup {e})
        /\ starts' = starts + 1
        /\ born' = [born EXCEPT ![e] = starts]
        /\ task' = [task EXCEPT ![e] = "created"]
        /\ UNCHANGED <<now, closed, status, finishedAt, runner, outVars, pollVars>>

\* start raises "background execution limit reached": only _prune has run.
StartRefused ==
    /\ LoopFree /\ closed = "open" /\ AtLimit(Prune(entries))
    /\ entries' = Prune(entries)
    /\ UNCHANGED <<now, closed, starts, born, status, finishedAt, task, runner,
                   outVars, pollVars>>

\* get and list prune the table and read it.
Inspect ==
    /\ LoopFree
    /\ entries' = Prune(entries)
    /\ UNCHANGED <<now, closed, starts, born, status, finishedAt, task, runner,
                   outVars, pollVars>>

-----------------------------------------------------------------------------
(* _run: the task of an execution.                                         *)

\* The task enters _run's try and awaits the runner: a direct execution waits
\* for the runtime's locks, a cell execution for the browser's answer.
FirstStep(e) ==
    /\ LoopFree /\ task[e] = "created"
    /\ task' = [task EXCEPT ![e] = "running"]
    /\ \E path \in {"queued", "browser"} : runner' = [runner EXCEPT ![e] = path]
    /\ UNCHANGED <<now, closed, entries, starts, born, status, finishedAt,
                   outVars, pollVars>>

\* Fault: no wake-up at the end of a task.
FinishSilently(e, st) ==
    /\ status' = [status EXCEPT ![e] = st]
    /\ finishedAt' = [finishedAt EXCEPT ![e] = now]
    /\ task' = [task EXCEPT ![e] = "done"]
    /\ UNCHANGED phase

\* _run's finally, after the status is set: finished_at, then the wake-up.
Finish(e, st) ==
    /\ status' = [status EXCEPT ![e] = st]
    /\ finishedAt' = [finishedAt EXCEPT ![e] = now]
    /\ task' = [task EXCEPT ![e] = "done"]
    /\ Wake(e)

\* Fault: the task ends while its reader thread may still publish.
RunFinishEarly(e) ==
    /\ LoopFree /\ task[e] = "running"
    /\ runner[e] \in {"kernel", "found", "appended", "returned"}
    /\ Finish(e, "completed")
    /\ UNCHANGED <<now, closed, entries, starts, born, runner, events, nextId,
                   setCalls, target, longPoll, cursor, snap, got, missed, replied>>

\* The thread's result or exception reaches the task.
RunFinish(e) ==
    /\ LoopFree /\ task[e] = "running" /\ runner[e] \in {"returned", "raised"}
    /\ Finish(e, IF runner[e] = "returned" THEN "completed" ELSE "failed")
    /\ UNCHANGED <<now, closed, entries, starts, born, runner, events, nextId,
                   setCalls, target, longPoll, cursor, snap, got, missed, replied>>

\* connect or the kernel client raises before the thread starts.
ConnectFails(e) ==
    /\ LoopFree /\ task[e] = "running" /\ runner[e] = "queued"
    /\ runner' = [runner EXCEPT ![e] = "raised"]
    /\ Finish(e, "failed")
    /\ UNCHANGED <<now, closed, entries, starts, born, events, nextId,
                   setCalls, target, longPoll, cursor, snap, got, missed, replied>>

\* The browser's answer: published on the loop itself, then the runner
\* returns, all in one step of the task.
BrowserAnswer(e) ==
    /\ LoopFree /\ task[e] = "running" /\ runner[e] = "browser"
    /\ runner' = [runner EXCEPT ![e] = "returned"]
    /\ IF e \in entries THEN AppendEvent(e) ELSE UNCHANGED <<events, nextId>>
    /\ Finish(e, "completed")
    /\ UNCHANGED <<now, closed, entries, starts, born, setCalls, target,
                   longPoll, cursor, snap, got, missed, replied>>

\* The browser's answer is one of the error strings the runner raises on.
BrowserFails(e) ==
    /\ LoopFree /\ task[e] = "running" /\ runner[e] = "browser"
    /\ runner' = [runner EXCEPT ![e] = "raised"]
    /\ Finish(e, "failed")
    /\ UNCHANGED <<now, closed, entries, starts, born, events, nextId,
                   setCalls, target, longPoll, cursor, snap, got, missed, replied>>

\* Fault: the runner swallows CancelledError.
StoppedSwallowed(e) ==
    /\ LoopFree /\ task[e] = "stopping"
    /\ task' = [task EXCEPT ![e] = "running"]
    /\ UNCHANGED <<now, closed, entries, starts, born, status, finishedAt,
                   runner, outVars, pollVars>>

\* CancelledError is thrown into _run; a thread it awaited goes on alone.
Stopped(e) ==
    /\ LoopFree /\ task[e] = "stopping" /\ Finish(e, "failed")
    /\ UNCHANGED <<now, closed, entries, starts, born, runner, events, nextId,
                   setCalls, target, longPoll, cursor, snap, got, missed, replied>>

\* A task cancelled before its first step ends without entering _run: neither
\* its status nor finished_at is ever written.
NeverRan(e) ==
    /\ LoopFree /\ task[e] = "unstarted"
    /\ task' = [task EXCEPT ![e] = "done"]
    /\ UNCHANGED <<now, closed, entries, starts, born, status, finishedAt,
                   runner, outVars, pollVars>>

-----------------------------------------------------------------------------
(* publish: the kernel reader thread.                                      *)

\* to_thread hands the code to a worker thread.
ThreadBegins(e) ==
    /\ LoopFree /\ task[e] = "running" /\ runner[e] = "queued"
    /\ runner' = [runner EXCEPT ![e] = "kernel"]
    /\ UNCHANGED <<now, closed, entries, starts, born, status, finishedAt, task,
                   outVars, pollVars>>

\* An output arrives and publish finds the execution in the table; an output
\* of an execution that is no longer there is dropped.
Lookup(e) ==
    /\ runner[e] = "kernel" /\ nextId[e] <= MaxOutputs /\ e \in entries
    /\ runner' = [runner EXCEPT ![e] = "found"]
    /\ UNCHANGED <<now, closed, entries, starts, born, status, finishedAt, task,
                   outVars, pollVars>>

AppendOutput(e) ==
    /\ runner[e] = "found" /\ AppendEvent(e)
    /\ runner' = [runner EXCEPT ![e] = "appended"]
    /\ UNCHANGED <<now, closed, entries, starts, born, status, finishedAt, task,
                   setCalls, pollVars>>

\* Fault: the reader thread does not call the loop.
ScheduleNothing(e) ==
    /\ runner[e] = "appended"
    /\ runner' = [runner EXCEPT ![e] = "kernel"]
    /\ UNCHANGED <<now, closed, entries, starts, born, status, finishedAt, task,
                   outVars, pollVars>>

\* call_soon_threadsafe(events_changed.set)
ScheduleSet(e) ==
    /\ runner[e] = "appended"
    /\ runner' = [runner EXCEPT ![e] = "kernel"]
    /\ setCalls' = [setCalls EXCEPT ![e] = @ + 1]
    /\ UNCHANGED <<now, closed, entries, starts, born, status, finishedAt, task,
                   events, nextId, pollVars>>

\* The loop runs a scheduled events_changed.set.
RunSet(e) ==
    /\ LoopFree /\ setCalls[e] > 0
    /\ setCalls' = [setCalls EXCEPT ![e] = @ - 1]
    /\ Wake(e)
    /\ UNCHANGED <<now, closed, execVars, events, nextId, target, longPoll,
                   cursor, snap, got, missed, replied>>

\* execute_interactive returns or raises (kernel error, timeout, lost socket).
ThreadEnds(e) ==
    /\ runner[e] = "kernel"
    /\ \E how \in {"returned", "raised"} : runner' = [runner EXCEPT ![e] = how]
    /\ UNCHANGED <<now, closed, entries, starts, born, status, finishedAt, task,
                   outVars, pollVars>>

-----------------------------------------------------------------------------
(* get_events: one call of a poller.                                       *)

Snapshot(p, e) ==
    snap' = [snap EXCEPT ![p] =
                [new |-> NewEvents(e, cursor[p]),
                 oldest |-> IF events[e] = <<>> THEN 0 ELSE events[e][1]]]

\* The call prunes the table and, when it finds the execution, reads its
\* events under the lock.  A client learns an id from the reply of start, by
\* which time the task has taken its first step.
PollBegin(p, e) ==
    /\ LoopFree /\ phase[p] = "idle" /\ replied[p] \notin {"done", "unknown"}
    /\ target[p] \in {e, NoExec}
    /\ task[e] \notin {"none", "created", "unstarted"}
    /\ entries' = Prune(entries)
    /\ target' = [target EXCEPT ![p] = e]
    /\ IF e \in entries'
       THEN /\ \E w \in BOOLEAN : longPoll' = [longPoll EXCEPT ![p] = w]
            /\ phase' = [phase EXCEPT ![p] = "decide"]
            /\ Snapshot(p, e)
            /\ UNCHANGED replied
       ELSE /\ replied' = [replied EXCEPT ![p] = "unknown"]
            /\ UNCHANGED <<phase, longPoll, snap>>
    /\ UNCHANGED <<now, closed, starts, born, status, finishedAt, task, runner,
                   outVars, cursor, got, missed>>

\* The loop of get_events goes round: a newer event was seen by the re-check,
\* or the waiter's task resumes.
PollAgain(p) ==
    /\ \/ phase[p] = "again"
       \/ phase[p] = "woken" /\ LoopFree
    /\ phase' = [phase EXCEPT ![p] = "decide"]
    /\ Snapshot(p, target[p])
    /\ UNCHANGED <<now, closed, execVars, outVars, target, longPoll, cursor,
                   got, missed, replied>>

Newest(S) == CHOOSE m \in S : \A n \in S : n <= m

\* The reply carries the ids of new and declares those of lost truncated; its
\* next_cursor is read after the events were.  The client keeps its cursor by
\* the rule it follows.
Reply(p, new, lost) ==
    LET e == target[p]
    IN  /\ phase' = [phase EXCEPT ![p] = "idle"]
        /\ snap' = [snap EXCEPT ![p] = NoSnap]
        /\ got' = [got EXCEPT ![p] = @ \cup new]
        /\ missed' = [missed EXCEPT ![p] = @ \cup lost]
        /\ cursor' = [cursor EXCEPT ![p] =
                         IF p \in NextCursorClients THEN nextId[e] - 1
                         ELSE IF new = {} THEN @ ELSE Newest(new)]
        /\ replied' = [replied EXCEPT ![p] = IF Terminal(e) THEN "done" ELSE "open"]
        /\ UNCHANGED <<now, closed, execVars, outVars, target, longPoll>>

\* Fault: events_truncated is not reported.
AnswerUnflagged(p) ==
    /\ phase[p] = "decide"
    /\ snap[p].new # {} \/ Terminal(target[p]) \/ ~longPoll[p]
    /\ Reply(p, snap[p].new, {})

\* Events to return, a terminal status, or no wish to wait.
Answer(p) ==
    /\ phase[p] = "decide"
    /\ snap[p].new # {} \/ Terminal(target[p]) \/ ~longPoll[p]
    /\ Reply(p, snap[p].new, (cursor[p] + 1) .. (snap[p].oldest - 1))

\* Nothing to return and the deadline has passed.
DeadlinePassed(p) ==
    /\ phase[p] = "decide" /\ snap[p].new = {} /\ ~Terminal(target[p])
    /\ longPoll[p] /\ Reply(p, {}, {})

\* Nothing to return yet: clear the event, look again, then wait for it.
ClearAndWait(p) ==
    LET e == target[p]
        waits == NewEvents(e, cursor[p]) = {}
    IN  /\ phase[p] = "decide"
        /\ snap[p].new = {} /\ ~Terminal(e) /\ longPoll[p]
        /\ phase' = [phase EXCEPT ![p] = IF waits THEN "waiting" ELSE "again"]
        /\ snap' = [snap EXCEPT ![p] = NoSnap]
        /\ UNCHANGED <<now, closed, execVars, outVars, target, longPoll, cursor,
                       got, missed, replied>>

\* wait_for's timer cancels the wait, whether or not the waiter's future has
\* been resolved by a set its task has not seen yet.
TimerFires(p) ==
    /\ LoopFree /\ phase[p] \in {"waiting", "woken"}
    /\ phase' = [phase EXCEPT ![p] = "timedout"]
    /\ UNCHANGED <<now, closed, execVars, outVars, target, longPoll, cursor,
                   snap, got, missed, replied>>

\* The TimeoutError branch replies without looking at the events again.
TimedOut(p) ==
    /\ LoopFree /\ phase[p] = "timedout" /\ Reply(p, {}, {})

-----------------------------------------------------------------------------
(* close, and the clock.                                                   *)

LiveTasks == {e \in entries : task[e] \in {"created", "running"}}

\* close cancels every task that is not done and awaits them.
CloseBegin ==
    /\ LoopFree /\ closed = "open"
    /\ task' = [e \in Execs |->
                   IF e \notin LiveTasks THEN task[e]
                   ELSE IF task[e] = "created" THEN "unstarted" ELSE "stopping"]
    /\ closed' = IF LiveTasks = {} THEN "closed" ELSE "closing"
    /\ entries' = IF LiveTasks = {} THEN {} ELSE entries
    /\ UNCHANGED <<now, starts, born, status, finishedAt, runner, outVars, pollVars>>

\* The gathered tasks are done: _entries.clear().
CloseEnd ==
    /\ LoopFree /\ closed = "closing"
    /\ \A e \in entries : task[e] = "done"
    /\ closed' = "closed"
    /\ entries' = {}
    /\ UNCHANGED <<now, starts, born, status, finishedAt, task, runner, outVars,
                   pollVars>>

Tick ==
    /\ now < MaxTime
    /\ now' = now + 1
    /\ UNCHANGED <<closed, execVars, outVars, pollVars>>

-----------------------------------------------------------------------------
TaskStep(e) ==
    \/ FirstStep(e) \/ RunFinish(e) \/ ConnectFails(e) \/ BrowserAnswer(e)
    \/ BrowserFails(e) \/ Stopped(e) \/ NeverRan(e)

ThreadStep(e) ==
    \/ ThreadBegins(e) \/ Lookup(e) \/ AppendOutput(e) \/ ScheduleSet(e)
    \/ ThreadEnds(e)

PollStep(p) ==
    \/ PollAgain(p) \/ Answer(p) \/ DeadlinePassed(p) \/ ClearAndWait(p)
    \/ TimedOut(p)

Next ==
    \/ \E e \in Execs : Start(e) \/ TaskStep(e) \/ ThreadStep(e) \/ RunSet(e)
    \/ \E p \in Pollers : (\E e \in Execs : PollBegin(p, e))
    \/ \E p \in Pollers : PollStep(p) \/ TimerFires(p)
    \/ StartRefused \/ Inspect \/ CloseBegin \/ CloseEnd \/ Tick

Spec == Init /\ [][Next]_vars

\* The event loop runs its ready callbacks in FIFO order, so a callback that
\* is ready again and again is run; the reader thread is not blocked between
\* the steps of publish.  Nothing is assumed of the browser, the kernel, the
\* timers or the clients.
Fairness ==
    /\ \A e \in Execs :
          /\ SF_vars(FirstStep(e) \/ RunFinish(e) \/ Stopped(e) \/ NeverRan(e))
          /\ SF_vars(RunSet(e))
          /\ WF_vars(AppendOutput(e) \/ ScheduleSet(e))
    /\ \A p \in Pollers : SF_vars(PollStep(p))
    /\ SF_vars(CloseEnd)

FairSpec == Spec /\ Fairness

-----------------------------------------------------------------------------
(* What the registry promises.                                             *)

\* Every variable has its type.
TypeOK ==
    /\ now \in Nat
    /\ closed \in {"open", "closing", "closed"}
    /\ entries \subseteq Execs
    /\ starts \in Nat
    /\ born \in [Execs -> Nat]
    /\ status \in [Execs -> Statuses]
    /\ finishedAt \in [Execs -> Nat \cup {NotFinished}]
    /\ task \in [Execs -> Tasks]
    /\ runner \in [Execs -> Runners]
    /\ events \in [Execs -> Seq(Nat)]
    /\ nextId \in [Execs -> Nat \ {0}]
    /\ setCalls \in [Execs -> Nat]
    /\ target \in [Pollers -> Execs \cup {NoExec}]
    /\ phase \in [Pollers -> Phases]
    /\ longPoll \in [Pollers -> BOOLEAN]
    /\ cursor \in [Pollers -> Nat]
    /\ snap \in [Pollers -> [new : SUBSET Nat, oldest : Nat]]
    /\ got \in [Pollers -> SUBSET Nat]
    /\ missed \in [Pollers -> SUBSET Nat]
    /\ replied \in [Pollers -> {"none", "open", "done", "unknown"}]

\* "Keep memory bounded even if a client starts cells continuously": the
\* table never holds more than max_entries executions.
CapacityBound == Cardinality(entries) <= MaxEntries

\* "A running task is never evicted": an execution whose task has not ended
\* stays in the table, through any expiry, eviction and the start of close.
LiveRetained ==
    \A e \in Execs :
        task[e] \in {"created", "running", "unstarted", "stopping"} => e \in entries

\* The retained events are the newest ones, in order and without a hole, and
\* there are at most MAX_RETAINED_EVENTS of them.
RetainedWindow ==
    \A e \in Execs :
        /\ Len(events[e]) <= MaxRetained /\ Len(events[e]) < nextId[e]
        /\ \A i \in 1 .. Len(events[e]) :
              events[e][i] = nextId[e] - Len(events[e]) + i - 1
        /\ Len(events[e]) < MaxRetained => Len(events[e]) = nextId[e] - 1

\* A poller that waits although its execution has newer events or is terminal
\* will be woken: the set that does it is scheduled, or the reader thread is
\* about to schedule it.  Ending an execution wakes it in the same step.
NoLostWakeup ==
    \A p \in Pollers :
        phase[p] = "waiting" =>
            LET e == target[p]
            IN  /\ ~Terminal(e)
                /\ NewEvents(e, cursor[p]) # {} =>
                      setCalls[e] > 0 \/ runner[e] = "appended"

\* A client that passes the largest event_id it received has, up to that
\* cursor, received every event or been told that it was truncated, never
\* both, and only events the buffer really dropped are declared truncated.
DeliveryAccounted ==
    \A p \in Pollers \ NextCursorClients :
        /\ got[p] \cup missed[p] = 1 .. cursor[p] /\ got[p] \cap missed[p] = {}
        /\ target[p] # NoExec =>
              \A id \in missed[p] : id < nextId[target[p]] - MaxRetained

\* The same of a client that passes next_cursor back, as README.md asks.
NextCursorAccounted ==
    \A p \in NextCursorClients : got[p] \cup missed[p] = 1 .. cursor[p]

\* An entry leaves the table only when it is terminal and expired, when the
\* table is full and it is the oldest terminal one, or when close clears it.
EvictionJustified ==
    [][ \A e \in entries \ entries' :
          \/ closed' = "closed"
          \/ Terminal(e) /\ Expired(e)
          \/ /\ Terminal(e)
             /\ Cardinality(entries) = MaxEntries
             /\ \A f \in entries \ {e} : born[f] < born[e] =>
                   ~Terminal(f) \/ Expired(f) ]_vars

\* "completed" means all of it: a reply that has read the buffer of a
\* completed execution leaves no event for a later call.  Neither a failed
\* execution, whose thread may go on, nor the reply of a long poll that timed
\* out promises that.
CompletedMeansAll ==
    [][ \A p \in Pollers \ NextCursorClients :
          /\ phase[p] = "decide" /\ phase'[p] = "idle"
          /\ status[target[p]] = "completed"
          => got'[p] \cup missed'[p] = 1 .. nextId[target[p]] - 1 ]_vars

\* A waiting poller with something to read stops waiting, with no help from
\* its own timer.
WaiterServed ==
    \A p \in Pollers :
        (phase[p] = "waiting" /\ target[p] \in Execs
           /\ (NewEvents(target[p], cursor[p]) # {} \/ Terminal(target[p])))
          ~> phase[p] # "waiting"

\* close gets to clear the table: no cancelled task keeps it waiting.
ShutdownReleases == closed = "closing" ~> entries = {}

\* The promise of the output stream, read off the registry's state.
Delivery == INSTANCE OutputDelivery WITH
    Clients <- Pollers \ NextCursorClients,
    Window <- MaxRetained,
    emitted <- [e \in Execs |-> nextId[e] - 1],
    complete <- [e \in Execs |-> status[e] = "completed"],
    feed <- [p \in Pollers \ NextCursorClients |-> target[p]],
    known <- [p \in Pollers \ NextCursorClients |-> cursor[p]],
    received <- [p \in Pollers \ NextCursorClients |-> got[p]],
    truncated <- [p \in Pollers \ NextCursorClients |-> missed[p]]

\* The registry implements the promised delivery: every step of start, _run,
\* publish, get_events and close is a step of OutputDelivery or a stutter.
DeliveryRefined == Delivery!Spec
=============================================================================
