-------------------------- MODULE MCExecutionRegistry --------------------------
(* ExecutionRegistry on small instances.                                   *)
EXTENDS ExecutionRegistry, TLC

\* The executions are interchangeable, and so are the pollers.  Used by the
\* safety run only.
Symmetry == Permutations(Execs) \cup Permutations(Pollers)

\* What becomes of several executions in the table and what pollers receive of
\* one do not depend on each other: a behaviour has several executions that
\* nobody follows and whose kernels put out nothing, or it has one.
Several ==
    /\ \A p \in Pollers : target[p] = NoExec
    /\ \A e \in Execs : runner[e] # "found" /\ setCalls[e] = 0 /\ nextId[e] <= 2

OneFollowed == starts <= 1 /\ now = 0

Focus == Several \/ OneFollowed
=============================================================================
