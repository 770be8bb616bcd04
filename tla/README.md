# colab-mcp in TLA+

A verification project for colab-mcp, the local MCP server that connects coding
agents to Google Colab (`src/colab_mcp`). It contains models of the parts that
keep state and run concurrently, TLC configurations that check them on small
instances, and machine-checked proofs (TLAPS) about each of them.

## 1. The system

One server process per MCP client (stdio) or one shared daemon (HTTP). Inside a
process everything is one asyncio event loop, except worker threads for
blocking calls (kernel client, HTTP). Several processes share a registry file.

| Component | State | Operations |
|---|---|---|
| execution registry, `execution.py` | `_entries` (ordered table), per execution: status, finish time, task, retained events, next event id, `events_changed` | `start`, `_run`, `publish` (from the kernel's reader thread), `get`, `list`, `get_events` (long poll), `close` |
| WebSocket server, `websocket_server.py` | `connection_lock`, `connection_live`, two zero-buffer streams | `_connection_handler` with a reading and a writing task |
| session proxy, `session.py` | `proxy_mcp_client`, `_start_task` | start (once), `is_connected`, `await_proxy_connection`, `await_tools_ready` |
| tools, `__init__.py` | connection attempt (URL, time), nonce, last URL | open, prepare, forward a notebook call, run a cell, change runtime |
| direct runtime, `runtime.py` | manager: `runtime`, `endpoint`; runtime: `_kernel_client`, two locks | `connect`, `attach_target`, `close`, `execute` |
| process registry, `process_registry.py` | `registry.json` and its lock file | `register`, `unregister`, `mark_state`, `prune_dead`, `cleanup_unhealthy`, `cleanup_stale`, `stop`, `list_running` |
| startup and shutdown, `main_async` | the process's own entry | cleanup, register, run, close, unregister |
| connection URLs, `connection.py` | none (nonce and last URL are kept by the tools) | `normalize_notebook_url`, `build_connection_info` |
| Colab API client, `client.py` | the account: the VMs assigned to it | `list_assignments`, `unassign`, `assign` |
| OAuth credentials, `auth.py` | the token file | `get_credentials` |

How they interact. A tool call reaches the browser through the session proxy
and the WebSocket server, or a kernel through the direct runtime. `run_code_cell`
hands either path, as a `runner`, to the execution registry; a direct runner's
outputs come back from a reader thread by `publish`, which wakes pollers with
`call_soon_threadsafe`. The connection tools record what they see of the
connection in the process registry (`mark_state`), and the next process to
start reads that record to decide which peer to terminate. They also give out
the URLs by which a tab comes to know the port and the token it shows in the
WebSocket handshake. The runtime manager chooses its VM from the assignments
the API client lists, with credentials all servers of a user share in one file.

What is hard, and the properties that answer it:

- *execution registry*: a shared, clearable event and several pollers beside a
  thread; a bounded buffer that truncates under a reader; a table that must stay
  bounded without losing a running task; cancellation at shutdown. A client
  must get every event or be told that it did not; a reply that has read the buffer
  of a completed execution must leave nothing behind; no waiter may be left asleep.
- *browser bridge*: tabs that disconnect and reconnect while the old handler
  ends, a start that happens once, timeouts that cancel shared work, tool calls
  of several clients. One frontend at a time, one tab per process, no
  handoff replaced, reconnection.
- *process registry*: unlocked load-examine-save beside locked updates, PIDs
  that are reused, crashes, peers that do not obey. Never signal a
  stranger, one entry per PID, startups that end.
- *direct runtime*: a manager without a lock whose methods await threads; locks
  that executions queue for. One user per kernel client, an endpoint that tells the
  truth, no client left running, no circular wait.
- *connection URLs and handshake*: ports and tabs outlive servers, users copy
  URLs of earlier runs, and Chrome focuses an equal URL instead of loading it.
  Current coordinates only, no token sent to a web server, every URL new to
  Chrome, and a tab let in by the server it was opened for.
- *tools and API client*: lists of assignments that are out of date when they
  are used, `change_runtime` failing between its requests, code that runs after
  the runtime was changed. Code runs where it was accepted, every call is
  answered, and the manager follows the account.
- *credentials*: several servers that read, refresh and replace one file, and
  crash or fail at any step. The cache is whole, private and kept; starting
  again helps.

## 2. The modules

| Module | Models | Checked by |
|---|---|---|
| `OutputDelivery` | what polling promises: the abstract specification | refined by `ExecutionRegistry` |
| `ExecutionRegistry` | `execution.py` and the runners' side of it | `MCExecutionRegistry`: Exec, ExecLive, ExecNextCursor |
| `FrontendExchange` | what the bridge promises of messages: the abstract specification | refined by `BrowserBridge` |
| `BrowserBridge` | `websocket_server.py`, `session.py`, the connection tools | `MCBrowserBridge`: Bridge, BridgeLoss |
| `ProcessRegistry` | `process_registry.py`, `main_async` | `MCProcessRegistry`: Registry |
| `DirectRuntime` | `runtime.py` and the calls that use it | `MCDirectRuntime`: Direct |
| `ToolCalls` (extends `DirectRuntime`) | `run_code_cell`, `run_code_cell_blocking`, `open_...`, `change_runtime`, `_select_target`, `client.py` | `MCToolCalls`: Tools, ToolsLive, ToolsDead |
| `Handoff` | `connection.py`, the connection tools' URLs, the handshake | `MCHandoff`: Handoff |
| `Credentials` | `auth.py` and its use at startup | `MCCredentials`: Creds |
| seven modules `..._proofs` | theorems about the module they are named for | TLAPS |

Operators under a comment "Fault:" are not part of a specification. Each is a
variant of the definition below it, with a bug a change to the code could
introduce; replacing the definition by it makes the property it is meant for
fail. `PROJECT.json` pairs each property with one ("mutants") and maps every
other definition to its lines ("map").

### ExecutionRegistry

A step is the code between two awaits. `events`, `nextId`, `status`,
`finishedAt` and `task` are the fields of `CodeExecution`; an event is its id.
`entries` is the table and `born` its insertion order. `runner` says where the
runner coroutine is, or the thread it awaits: a thread goes through `publish`
in three steps (`Lookup`, `AppendOutput`, `ScheduleSet`), which may fall
between the locked sections of a `get_events` call on the loop. Such a call is in
a phase for which `HoldsLoop` is true; every action of the loop requires
`LoopFree`. `events_changed` needs no variable: its flag is read by `wait()`
alone, and `get_events` reaches that without suspending after `clear()`; what
matters is which waiters a `set()` finds, and that `set()` runs as a loop
callback (`setCalls`). The clock `now` ticks freely; a poll deadline may
pass at any time.

A poller follows one execution with one of two client rules: pass the largest
`event_id` received (the docstring of `get_code_execution`), or pass
`next_cursor` (README.md). `got` and `missed` are history variables: the ids
delivered to the client and those a reply's `events_truncated` told it are lost.

### BrowserBridge

`socket` is the tab's side and `handler` the server's side of a tab's
connection; they end at different times, which is the point. The MCP client
library is external: it sends "initialize", awaits the answer, sends
"initialized", and is then `ready`; its requests wait for an answer without a
deadline. A message the writing task takes while the socket is closed is lost.
`FrontendExchange` says what is left of a request's way once tabs, sockets and
handlers are forgotten: it is queued while a tab is served, delivered to one
served tab at most, once, and answered by the tab that holds it; what a tab
holds is lost with it.
Where `_connection_open_lock` is held there is no await, so `Handoff`,
`HandoffRefused` and `Prepare` are one step each. `Direct = TRUE` (OAuth is
configured) adds an await before the handoff, so that its interleavings include those
without it; the violation runs use `FALSE`, with fewer steps.

### ProcessRegistry

A process is one incarnation of a PID, so PID reuse is two processes with one
`pid`. The file maps a process to the state in its entry. A section under the
file lock is one step (`Register`, `Mark`, `Unregister`, `StopEnds`); a cleanup
is `Load`, one `Examine` (with termination) per entry, then for `cleanup_stale`
`Scan` and one `Sight` per PID of the process table, and `Save` of what it
retained of its load. Crashes,
and a process that obeys a SIGTERM, are `End`; that it may happen at any time,
or not at all, covers peers that hang.

`cmd` is the command line, with its transport and two profiles. `profile` is
`args.profile`, under which the process registers and which may come from
`COLAB_MCP_PROFILE`; `shown` is what `profile_from_command` finds on the command
line, "default" without a flag. `_verified_info` compares the two (`Named`), the
entries of the file are filtered by the first (`Matches`), and the scan of the
process table, which goes on with PIDs that are not among the verified entries
(`seen`), by the second (`Shows`). `Unreadable` are the processes whose query may
fail or time out at any moment, which looks as if they had ended; a process that
could not query itself when it registered is one of them.

Verification and the first signal are one step. The second signal (`Kill`) comes
after a deadline; it may be refused, or the process may outlast the polls
after it (`KillFails`). Whether the PID may have a new
owner by then is the constant `GapReuse`, FALSE in the runs, so what
`SignalsScoped` shows is relative to that. `EntryLoss` names the only three ways
in which a server that runs on loses its entry.

### DirectRuntime

`client` and `unstopped` relate what a runtime object holds to what was started
and not yet stopped. The manager has no lock: `Closed` clears whatever
the manager holds after the await, as the code does. `_connect_lock` and
`_execute_lock` are the calls in certain places (`ConnectFree`, `ExecuteFree`).
`crossed` is a history: the runtimes whose client was started while another call
was closing or building, or was started again by an execution that had captured
the runtime before it was closed. `NoOrphan` says that a client gets lost in
these two ways only; any other overlap of calls that connect, change,
select, fail and execute is in its scope.

### ToolCalls

The composition of the tools with the manager. `DirectRuntime` lets any caller
connect, attach, close or execute at any time; here each tool does so where its
code does, by an action of `DirectRuntime`, so what is proved of the manager
holds under the tools (`ToolsExclusive`). `call` is the last call of
each caller, with its arguments, the place it is at, the assignments it has
listed and the VM its code was accepted for. `account` is the set of VMs Colab
has assigned; a request that fails may have been carried out (`MayHave`).
`connect` lists the assignments in a worker thread; `change_runtime` sends its requests from
the event loop, so it holds `busy` until it awaits. The list that
`change_runtime` takes first is part of `AskChange`: nothing else of this
process runs between the two. What the manager does
between two awaits is one action, shared with `DirectRuntime`.

### Handoff

A process is one run of a server, and stands for its token, which is random. A
URL is a host, a notebook, a set of query pairs and the pair of token and port in
its fragment. `Normalize` and `Build` translate `connection.py`; keys are
compared in lower case, so the model has keys of several spellings. `given` is a
history of the URLs given out, which users may ask for and load later, also in
a server on the same port. `Browse` is what Chrome does with a URL. Tabs load,
close, and take a pair pasted into Colab's dialog. `Verdict` is the decision of
the handshake as a function of what the request shows; `Handshake` is the
connection that gets through it, where `BrowserBridge` takes over: it models
what happens to connections that are let in.

### Credentials

One step is one operation on the file system or one request. `cache` is the
token file, `temp` the temporary file of each server that writes, `litter` what
crashes left. `token` is what the server holds in memory. Tokens expire, the
grant is revoked, the user deletes the file, a write fails at any of its steps,
a server is killed between any two. `Posix` says whether the system has
permissions: the code protects files on POSIX only, and `OwnerOnly` claims
nothing elsewhere.

## 3. The runs

States and times on two workers:

| Run | Instance | Distinct states | Shows |
|---|---|---|---|
| Exec | 3 executions, table of 2, 2 pollers, buffer of 1, 3 outputs, ttl 1, clock to 2 | 256 k, 75 s | `CapacityBound`, `LiveRetained`, `EvictionJustified`, `RetainedWindow`, `NoLostWakeup`, `DeliveryAccounted`, `CompletedMeansAll`, refinement of `OutputDelivery` |
| ExecLive | 1 execution, 2 pollers, 1 output, fair | 17 k, 20 s | `WaiterServed`, `ShutdownReleases` |
| Bridge | 2 tabs, 2 callers, fair | 15 k, 5 s | `SoleFrontend`, `OneBrowserTab`, refinement of `FrontendExchange`, `HandoffKept`, `PasteRaceSpared`, `HandoffConnects` |
| Registry | 3 processes, 2 PIDs, 2 profiles on the command line or in the environment, 2 transports, one process queries may miss, all actions, fair | 254 k, 80 s | `OneEntryPerPid`, `SignalsScoped`, `EntryLoss`, `StartupEnds` |
| Direct | 3 callers, 2 runtime objects, 1 target, fair | 71 k, 60 s | `EndpointOfRuntime`, `ClientExclusive`, `NoOrphan`, `CallsReturn` |
| Handoff | 2 servers, 2 ports, 1 tab, 2 nonces, 3 typed URLs, 4 keys, fair | 231 k, 90 s | `CurrentCoordinates`, `NotebookKept`, `TokenUnsent`, `NeverDeduped`, `TokenHolders`, `OpenedConnects` |
| Creds | 2 servers that start any number of times, on POSIX, fair | 4 k, 2 s | `CacheWhole`, `OwnerOnly`, `NoLitter`, `CacheKept`, `StartHelps` |
| Tools | 2 clients, 2 runtime objects, 2 VMs, a tab, VMs that others start and stop | 1.26 M, 45 s | `RunsWhereAccepted`, `CodeMeant`, `EndpointMeant` |
| ToolsLive | the same without the tab and the others, run_code_cell with code only, fair | 84 k, 110 s | `CallsAnswered`, `Follows` |

Why the bounds are enough. *Exec*: three executions for two places make a
start meet a full table of every mix of running, terminal and expired entries,
and the clock has to pass one ttl twice; with a buffer of one, three outputs
overrun a client twice, and a second poller clears the event the first waits
for. The two do not depend on each other: the constraint `Focus` keeps, of all
behaviours, those with one execution and any pollers, and those with
several that nobody follows and whose kernels put out at most one event. It is used in this
run only, which checks safety only, and so is the symmetry of executions and
pollers. *Bridge*: one tab reconnecting and one other tab, one call that
waits and one that interferes. *Registry*: a cleanup, its victim and the process
that reuses a PID or writes in between; a server whose profile is in its
environment beside one that replaces the default profile, and one that queries
miss. *Direct*: a call that holds the lock, one that waits, one that closes. *Handoff*: a server, and one that has its port
later or another port beside it; the tab may have gone through any of them
before; the URLs users type are a plain one, one with an old token under
another spelling of its key, and one of another site, and all that were given
out before. *Creds*: a server that has failed, ended or crashed may start
again, so two of them make any number of starts, two at a time. *Tools*: a call
that runs code beside one that connects, changes the runtime or fails to;
the VM a call was accepted for, and the one it is changed to. *ToolsLive* has no
tab and no blocking calls, so `CallsAnswered` says nothing of a call that waits
for a tab (`LossEndsCall` does).
`MaxOutputs`, `MaxTime`, `Runtimes`, `Nonces` and the sets of processes, VMs
and tabs bound what the code does not.

Deadlock is checked in Bridge, Direct, Creds, Tools and ToolsLive, which never
stop. It is not in the others: a registry that is closed, all executions done,
or processes that have all ended, have nothing left to do.

The liveness properties rest on fairness.

- *Execution registry*: asyncio runs ready callbacks in order, so a step of the
  loop that is ready again and again is taken (strong fairness, because a step
  of the loop waits for a call that holds it); a reader thread between two steps
  of `publish` goes on. Nothing is assumed of kernels, browsers, timers or
  clients.
- *Bridge*: handlers, the writing task and calls whose wait is over go on; tabs
  keep trying to connect and answer what they hold, and `HandoffConnects`
  assumes they stop going away.
- *Process registry*: a running process goes on with its startup; no process is
  assumed to obey a signal.
- *Direct runtime*: worker threads end, since each blocking call has a deadline,
  and the locks are first come, first served.
- *Tools*: the same, per caller, with strong fairness because a call that has
  the event loop keeps the others off it; and requests to Colab end, which
  `requests` does not guarantee (section 5). `Follows` and `DeadClientReplaced`
  also take a client for granted that tries again and again and not always in
  vain; that is their premise `Retrying`, not part of the specification. It
  also leaves out behaviours that go on because the bound `Runtimes` is
  reached (`Exhausted`): races lose runtime objects for good, and the code can
  always make another one.
- *Handoff*: a tab that has a pair keeps trying it, as Colab's front end does.
- *Credentials*: `StartHelps` is about servers that are started again and again
  and users who answer, so both are assumed; it allows for mishaps that go on.

### What the code does not do

Three runs check what a document or comment of the repository says, and TLC
finds a behaviour of the code that does not do it.

- **ExecNextCursor** (`NextCursorAccounted`): "Pass that cursor to the next
  call" (README.md:324-325). `next_cursor` is computed after the reply's
  events were read (`execution.py:53`) and, after a timeout, without any; an
  event published in between is skipped without notice. A client that
  passes the last received `event_id` is safe (`DeliveryAccounted`).
- **BridgeLoss** (`LossEndsCall`): "Treat transport loss as a failed local
  execution" (`__init__.py:455`). The session is not told of a closed socket:
  `asyncio.wait` (`websocket_server.py:195`) does not raise, so the branch that would
  tell it is not reached, and the call never ends.
- **ToolsDead** (`DeadClientReplaced`): "call open_colab_browser_connection first
  ..., then retry" (`session.py:42`). `connect` returns early when endpoint, URL
  and proxy token are those the manager has (`runtime.py:234-240`), without asking whether the
  kernel client is alive, and a runtime keeps a client that is not None
  (`runtime.py:104`): while Colab lists the VM with the same proxy token, the
  dead client stays, and `run_code_cell` answers that nothing is connected.

The models show more of this kind. Nobody should have to find it again, so here
are the formulas TLC refutes, each to be put at the end of the module it is
about, with a run of the instance named:

```tla
\* BrowserBridge; Bridge.cfg with one tab, one caller, Direct = FALSE.
LateTabConnects ==
    <>[][\A t \in Tabs : ~Drop(t)]_vars => <>Connected
\* ExecutionRegistry; ExecNextCursor.cfg with NextCursorClients = {}.
DoneMeansDelivered ==
    \A p \in Pollers :
        replied[p] = "done" /\ status[target[p]] = "completed" =>
            got[p] \cup missed[p] = 1 .. (nextId[target[p]] - 1)
\* ProcessRegistry; Registry.cfg.
ProfileRespected ==
    [][\A p \in Procs : \A t \in Signalled(p) :
          cmd[p].profile \in {"all", cmd[t].profile}]_vars
NamedKept ==
    [][\A e \in Procs :
          /\ pc[e] = "up" /\ pc'[e] = "up" /\ e \notin Unreadable
          /\ file[e] # "absent" /\ file'[e] = "absent"
          => \E p \in Procs :
                /\ pc[p] = "passing" /\ pc'[p] # "passing" /\ e \notin gone[p]]_vars
LivePeerSpared ==
    [][\A p \in Procs : \A t \in Signalled(p) :
          cmd[p].kind = "start" => ~linked[t]]_vars
EntryKept == \A p \in Procs : pc[p] = "up" => file[p] # "absent"
\* The same with GapReuse = TRUE.
SecondSignalVerified ==
    [][\A p \in Procs : pc[p] = "force" /\ pc'[p] = "passing" =>
          UNION {Owners(e) : e \in victim[p]} \subseteq victim[p]]_vars
\* DirectRuntime; Direct.cfg.
ManagerOwns ==
    \A r \in Runtimes : unstopped[r] > 0 =>
        r = runtime \/ \E c \in Callers : pc[c] = "closing" /\ mine[c] = r
RebuildsCurrent ==
    [][\A c \in Callers : Rebuilt(c, TRUE) => mine[c] = runtime]_vars
\* Credentials; Creds.cfg.  StartHelps without its disjunct <>[]Revoked.
RevokedHelped ==
    \/ []<>(\E p \in Procs : pc[p] = "ready")
    \/ []<><<Delete \/ \E p \in Procs : Mishap(p)>>_vars
\* ToolCalls; Tools.cfg with Others = FALSE.
AttachesActive ==
    [][endpoint' \notin {endpoint, NoTarget} => endpoint' \in account]_allVars
CurrentVmOnly ==
    [][endpoint # NoTarget => account \ account' \subseteq {endpoint}]_allVars
\* The same with CallOf("blocking", FALSE, NoTarget) among the calls of c1.
CellFormServed ==
    [][\A c \in Callers :
          call[c].at = "deciding" /\ call'[c].at = "code_required" => ~tab]_allVars
\* Tools.cfg with OAuth = FALSE.
ForwardsCells ==
    \A c \in Callers : call[c].at = "forwarded" => ~call[c].asked.code
```

- `LateTabConnects`: the timeout of an open call cancels the only start of the
  proxy client (`session.py:91`). The reply advises to keep the daemon and to
  connect an existing tab (`__init__.py:353-355`); that tab is served but never
  used. The same happens when the tab goes away while it holds "initialize".
- `DoneMeansDelivered`: a long poll whose timer fires just as the execution ends
  replies `completed` with no events (`execution.py:271-275`); a client that
  polls "until the status is `completed`" (README.md:306-307) misses the last
  output, unless it polls once more.
- `ProfileRespected`: "The default profile scope protects a separately configured
  Claude/Codex profile" (`process_registry.py:689-690`). A server that has its
  profile from `COLAB_MCP_PROFILE` (`__init__.py:662`) shows none on its command
  line; the scan of `--replace` takes it for one of the default profile and
  terminates it.
- `NamedKept`: "Verify an entry still refers to the same colab-mcp process"
  (`process_registry.py:486`). The entry of that server never passes, because
  its profile is not on the command line (line 506): the first startup after it
  takes it for dead and removes it.
- `LivePeerSpared`: "A failed browser connection is ... not a reason to kill a
  live peer" (`process_registry.py:614`). The mark is only rewritten by a later
  tool call and is read from an earlier load: a peer whose tab has connected
  since is terminated. What does hold is `SignalsScoped`: a plain startup
  terminates no peer that has never marked itself failed.
- `EntryKept`: "Serialize registry read/modify/write operations"
  (`process_registry.py:138`). Cleanups lock the save only; an entry registered
  after their load is lost, though the server runs.
- `SecondSignalVerified`: "Never send a second signal to a PID that has already
  been reused" (`process_registry.py:664`). Nothing looks at the owner of the
  PID between the last poll and SIGKILL (line 676).
- `ManagerOwns`: "Select and own one direct runtime" (`runtime.py:195`). Two calls
  that build at once each set the manager's fields; the client of the first is
  never stopped.
- `RebuildsCurrent`: an execution that captured a runtime which has been closed
  since starts its client again (`runtime.py:158`); nobody stops it.
- `RevokedHelped`: once the grant is revoked each start reads the cache, fails to
  refresh it (`auth.py:77`) and goes on without OAuth; the user is not asked
  again until they delete the file.
- `AttachesActive`: "attaches to the only active runtime" (README.md:184-185). A
  `connect` that listed the assignments before a change of runtime attaches the
  VM which that change has unassigned. It is put right by the next one (`Follows`).
- `CurrentVmOnly`: "Unassign current VM if any" (`__init__.py:552`).
  `change_runtime` unassigns every VM of the account, those of other servers and
  of the user's own tabs too.
- `CellFormServed`: "The existing `cellId` form remains available"
  (README.md:186-187). `run_code_cell_blocking` refuses it whenever a direct
  runtime is connected, without asking for a tab (`__init__.py:489`);
  `run_code_cell` does ask.
- `ForwardsCells`: "Direct execution requires OAuth runtime setup"
  (`__init__.py:432`). Without it, and with a tab, a call with code is forwarded
  to the tab with an empty `cellId` (line 454).

## 4. What is proved

Each theorem is about every value of the constants of its module, under the
assumptions the module names: for the execution registry positive limits, as
`__init__` enforces; for the handoff that `p` and `mcpNonce` are among the
reserved keys, that old tokens stand under reserved keys only, that nobody types
a nonce before it is drawn, and that the default notebook is on Colab; for
the process registry that `Unreadable` are processes; for the tools that nobody is
called `Nobody`; for the rest that the "none" values are none of
the others. `Callers` of the direct runtime is finite.

| Module | Theorem | States |
|---|---|---|
| `ExecutionRegistry_proofs` | `TypeCorrect`, `WindowCorrect` | `TypeOK`, `RetainedWindow` are invariants |
| | `RunningNeverEvicted`, `WakeupCorrect`, `CapacityCorrect` | `LiveRetained`, `NoLostWakeup`, `CapacityBound` are |
| | `EvictionCorrect`, `CompletedCorrect` | the action properties `EvictionJustified`, `CompletedMeansAll` |
| | `DeliveryCorrect` | `DeliveryAccounted` is an invariant |
| | `DeliveryRefinement` | every behaviour is one of `OutputDelivery` |
| `BrowserBridge_proofs` | `TypeCorrect`, `FrontendCorrect`, `OneTabCorrect` | `TypeOK`, `SoleFrontend`, `OneBrowserTab` are invariants |
| | `HandoffCorrect`, `PasteRaceCorrect` | the action properties `HandoffKept`, `PasteRaceSpared` |
| | `ExchangeRefinement` | every behaviour is one of `FrontendExchange` |
| `ProcessRegistry_proofs` | `EntryUnique`, `RegistryTypes` | `OneEntryPerPid`, `TypeOK` are invariants |
| | `ScopedCorrect` | the action property `SignalsScoped`, if `GapReuse` is FALSE |
| | `FirstSignalCorrect` | the same of the first signal alone, whatever `GapReuse` is |
| | `EntryLossCorrect` | the action property `EntryLoss`, whatever `GapReuse` is |
| `DirectRuntime_proofs` | `EndpointCorrect`, `ClientsExclusive`, `RuntimeTypes`, `OwnershipCorrect` | `EndpointOfRuntime`, `ClientExclusive`, `TypeOK`, `NoOrphan` are invariants |
| `ToolCalls_proofs` | `ToolsExclusive` | `ClientExclusive` under the tools: by lemma `ToolsUseManager` the theorems about the manager hold there |
| | `CodeCorrect` | `CodeMeant` is an invariant |
| | `MeantCorrect` | the action property `EndpointMeant` |
| | `AcceptedCorrect`, `ToolTypes` | `RunsWhereAccepted`, `ToolTypeOK` are invariants |
| `Handoff_proofs` | `CoordinatesCorrect`, `NotebookCorrect`, `TokenCorrect`, `DedupeCorrect`, `HolderCorrect`, `HandoffTypes` | `CurrentCoordinates`, `NotebookKept`, `TokenUnsent`, `NeverDeduped`, `TokenHolders`, `TypeOK` are |
| | `RebuildCorrect` | normalising is idempotent and undoes building; a URL handed on from server to server is as good as the notebook's own |
| | `OpenedCorrect` | the action property `OpensOwnTab`, the first half of `OpenedConnects` |
| `Credentials_proofs` | `WholeCorrect`, `OwnerCorrect`, `LitterCorrect`, `CredentialTypes` | `CacheWhole`, `OwnerOnly`, `NoLitter`, `TypeOK` are |
| | `KeptCorrect` | the action property `CacheKept` |

The argument of each is an inductive invariant per concern.

- *Execution registry*. `OutputInv`: types; a poller inside `get_events` follows
  an execution; the retained events are a stretch of ids that ends at
  `nextId - 1`; and what a poller read under the lock is the part beyond its
  cursor of such a stretch as it was at some earlier moment. Without the last
  two nothing can be said of what a truncation beside a poll drops. `TaskInv`:
  how task, status, finish time, runner and shutdown go together. It is what
  makes "a running task is never evicted" inductive: an entry that can be
  evicted or expire is terminal, and a terminal one has no task left, because
  `Finish` writes all three in one step. `TableInv`: the table is finite and
  bounded; by lemma `PruneWithinBound`, within the bound `_prune` only removes
  what has expired, so a start removes an entry by expiry or by its own
  eviction. `DeliveryInv`: the accounts of the clients; lemma `AccountShape` says
  how any step may change them: not at all, or by a stretch declared lost
  followed by a stretch delivered. `CompleteInv`, for `CompletedMeansAll`: when a
  poller is about to decide on a completed execution, what it has read ends with the
  execution's last event. It holds although status and buffer are read in two
  steps, because the status is written by the event loop, which the poller holds,
  and only after the thread has ended. The refinement maps `emitted` to `nextId - 1`,
  `complete` to the status, and the abstract client's variables to the poller's
  histories. `Answer` is `Account` or a stutter, `AppendOutput` is `Emit`,
  `RunFinish` is `Complete`, and everything else stutters.
- *Bridge*. `SoleFrontend` is inductive with `TypeOK`, because it already
  relates the lock, `connection_live` and the messages in flight to the
  handlers; a message or a lock left behind by a handler would break
  the next step. `OneBrowserTab` needs `AttemptInv`: a tab is opened only
  together with the one attempt of the process, and a call that waits has opened one.
  For `ExchangeRefinement`, the tabs that are served are those that have a handler;
  `SoleFrontend` says that there is one at most, and the one that holds a message is
  it, so a teardown is `Depart` with all that is lost, a closed socket
  is `Break`, and everything a tool call does besides asking stutters.
- *Process registry*. `FileInv` says that the file and also every table a
  cleanup holds in memory list a PID once. It needs no lock: a `Save` writes a
  part of a sound table, and `Register` drops the entries of its own PID.
  `ScopeInv` is about whom an examined entry still describes. No two running
  processes have one PID; what any file says has failed has failed, if it lives;
  what a cleanup has to examine is in its scope, and its victim is one it may
  signal (`Rightful`); and, with `GapReuse` FALSE, nobody else has
  the victim's PID when SIGKILL is due (`ForceInv`). "In its scope" is by the
profile of the entry while the file is examined, where a verified entry shows the
same on its command line, and by the command line in the scan. The first signal does not need
  the last of these, so `FirstSignalCorrect` has no assumption on reuse.
  `LossInv`, for `EntryLoss`: only servers run cleanups (`ServesInv`), none
  examines itself (`SelfInv`), and what a cleanup is about to remove has died, is
  no server or cannot be identified (`GoneInv`). What is left of a load that had the entry is then
  written back with it, so the entry was not in the load, or a `--stop-pid` removes
  it for a process that is gone and had the same PID.
- *Direct runtime*. `RuntimeInv` says that a build has a runtime object of its own,
  with the target it is to connect, so the two fields of the manager can be set in
  one step; and that `_connect_lock` and `_execute_lock` have one holder. `CountInv`
  counts: the clients started and not stopped of a runtime are exactly the one it
  holds and those that calls are stopping, one call each. `OwnedInv` is for `NoOrphan`: a runtime
  that is not `crossed` and holds a client is the manager's, and no call is closing
  or building then, because the first step of either takes the client away.
- *Tools*. `ToolInv` says that a call that uses a runtime is one that runs code,
  and that the runtime's target is the VM its code was accepted for. It cannot
  change: a runtime object gets its target before anyone uses it (`BuildsOwn` of
  the direct runtime). Each tool step is a step of `DirectRuntime` by its shape.
  `CodeInv`, for `CodeMeant`: a call that has connected and is to run code has the
  loop until it takes the manager's runtime, so the VM it takes is the one it has
  just been brought to.
  `MeantInv`: a call that closes or builds wants a VM of its own list, which it was
  assigned, asked for or found alone there, and wants it still after each
  await, whatever the others did to the manager meanwhile.
- *Handoff*. `GivenInv`: what was given out is a URL, and so is the last one asked
  for, since normalising and building make URLs of URLs; the types of pages and pairs follow.
  `UrlInv`: a URL that was given out is the one its process would
  build again at any time, because its port and nonce do not change once they
  are used; nonces differ. `CleanInv`: tokens are under reserved keys, in all URLs
  users can ask for. `TabInv`: the pair of a tab is that of a process that has
  started. `PageInv`: a tab shows nothing but the default page and URLs that were
  typed or given out. So when Chrome takes the page of an old tab for the URL it is to
  open, the nonce in both is the same (`SamePageSamePair`), and the tab has the
  coordinates of the process that opens it.
- *Credentials*. `TempInv`: a temporary file exists just while it is filled, is
  private, and whole before it replaces the cache. `CacheInv`: a start that has
  got past the permissions of the file leaves none that others can read.

Only model-checked: liveness (`WaiterServed`, `ShutdownReleases`,
`HandoffConnects`, `StartupEnds`, `CallsReturn`, the second half of
`OpenedConnects`, `StartHelps`, `CallsAnswered`, `Follows`), for which the installed provers have no rules of
fairness and ENABLED. What the violation runs refute is not provable. The
types of the variables are proved for every value of the constants, in every module,
so no run repeats them.

## 5. What is not modelled

- `ColabProxyMiddleware`, `_make_injected_tools` and `client_factory` of the
  session proxy: `main_async` does not install them.
- `parse_args` (validation of a command line), logging, the wording of replies,
  `list_running` (read-only), the headers of CORS, which are the same on every
  response, the scripts and the tests.
- `get_subscription_tier` and `get_ccu_info`, which no tool calls, and the
  parsing of Colab's responses.
- MCP clients cancelling a tool call in the middle. For the direct runtime it
  would release the execute lock while the thread still works.
- Requests to Colab that never return: `requests` has no deadline here, and
  `change_runtime` sends its own from the event loop. `CallsAnswered` is
  relative to their end.
- Errors other than `DirectRuntimeError` that end an open call early; a call
  with both code and `cellId`: its code runs if a runtime is connected, else its
  cell. An open call with a tab connected answers without looking at
  `runtime_endpoint`, and is modelled so.
- A failing save, an unreadable `registry.json` and a lock that cannot be taken
  (the server goes on in each case); two servers with one command line that get
  one PID within `START_TIME_TOLERANCE_SECONDS`; a permission error as
  anything but a refused signal. The process table of macOS and Windows, which is a
  snapshot taken before the scan; abbreviated options and `--stop-pid=N`, which
  `_is_server_command` does not recognise.
- Proxy tokens of a VM that Colab renews while the VM runs: `connect` would then
  take it for another target and replace the client.
- The order and the escaping of a query, parameters of a path, a header that
  cannot be parsed.

## 6. Plan

Done: the execution registry (the program's core: what a client is told of its
code), the bridge, the process registry, the direct runtime, the tools over it
with the account, the URLs and the handshake, and the credentials, each with its
proofs.

What would come next: cancelled tool calls, with what they do to the locks of
the direct runtime; `run_code_cell` over `ExecutionRegistry` and `ToolCalls`
together (which status a background execution ends with when its runtime is
replaced under it); and a table
of live servers for the process registry under the assumption that cleanups do
not overlap registrations.
