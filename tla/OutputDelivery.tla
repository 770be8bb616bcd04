---------------------------- MODULE OutputDelivery ----------------------------
(***************************************************************************)
(* What the output polling of colab-mcp promises a client that passes the  *)
(* largest event_id it received: executions emit the events 1, 2, 3, ...   *)
(* until they complete; a reply accounts for a next stretch of them, in    *)
(* order, delivering each or declaring it truncated, and it declares       *)
(* truncated only what no longer is among the newest Window events.      *)
(***************************************************************************)
EXTENDS Integers

CONSTANTS Execs, Clients, NoExec, Window

VARIABLES emitted, complete, feed, known, received, truncated

vars == <<emitted, complete, feed, known, received, truncated>>

Init ==
    /\ emitted = [e \in Execs |-> 0]
    /\ complete = [e \in Execs |-> FALSE]
    /\ feed = [c \in Clients |-> NoExec]
    /\ known = [c \in Clients |-> 0]
    /\ received = [c \in Clients |-> {}]
    /\ truncated = [c \in Clients |-> {}]

Emit(e) ==
    /\ ~complete[e]
    /\ emitted' = [emitted EXCEPT ![e] = @ + 1]
    /\ UNCHANGED <<complete, feed, known, received, truncated>>

\* The last event may come with the completion.
Complete(e) ==
    /\ ~complete[e]
    /\ complete' = [complete EXCEPT ![e] = TRUE]
    /\ \/ UNCHANGED emitted
       \/ emitted' = [emitted EXCEPT ![e] = @ + 1]
    /\ UNCHANGED <<feed, known, received, truncated>>

Follow(c, e) ==
    /\ feed[c] = NoExec
    /\ feed' = [feed EXCEPT ![c] = e]
    /\ UNCHANGED <<emitted, complete, known, received, truncated>>

\* The events after known up to lost are declared truncated, those after lost
\* up to last delivered.
Account(c) ==
    /\ feed[c] # NoExec
    /\ \E last \in known[c] + 1 .. emitted[feed[c]] :
         \E lost \in known[c] .. last - 1 :
            /\ lost > known[c] => lost <= emitted[feed[c]] - Window
            /\ received' = [received EXCEPT ![c] = @ \cup (lost + 1 .. last)]
            /\ truncated' = [truncated EXCEPT ![c] = @ \cup (known[c] + 1 .. lost)]
            /\ known' = [known EXCEPT ![c] = last]
    /\ UNCHANGED <<emitted, complete, feed>>

Next ==
    \/ \E e \in Execs : Emit(e) \/ Complete(e)
    \/ \E c \in Clients : Account(c) \/ (\E e \in Execs : Follow(c, e))

Spec == Init /\ [][Next]_vars
=============================================================================
