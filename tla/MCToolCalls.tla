----------------------------- MODULE MCToolCalls -----------------------------
(* Small instances of ToolCalls.                                           *)
EXTENDS ToolCalls, TLC

CONSTANTS c1, c2

CallOf(tool, code, v) == [tool |-> tool, code |-> code, vm |-> v]

Change == CallOf("change", FALSE, NoTarget)

\* One client runs code; another one changes the runtime, or connects.
RunCalls ==
    [c \in Callers |-> IF c = c1 THEN {CallOf("run", TRUE, NoTarget)}
                       ELSE {PlainOpen, Change}]

\* It runs code also in the blocking form, and cells.
MixedCalls ==
    [RunCalls EXCEPT ![c1] = @ \cup {CallOf("blocking", TRUE, NoTarget),
                                     CallOf("run", FALSE, NoTarget)}]

\* A client that opens, also by endpoint, and runs code.
OpenCalls ==
    [c \in Callers |-> {PlainOpen, CallOf("run", TRUE, NoTarget)}
                       \cup {CallOf("open", FALSE, v) : v \in Targets}]
=============================================================================
