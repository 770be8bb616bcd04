--------------------------- MODULE FrontendExchange ---------------------------
(***************************************************************************)
(* What the bridge promises of the messages it passes on: one frontend is  *)
(* served at a time; the session is opened once, with one of them, and     *)
(* requests are made of an open session alone; a request is delivered to   *)
(* at most one frontend, once, and answered by the one that holds it while *)
(* it is still served.  What a frontend holds when it goes is lost, never  *)
(* delivered to the next one.                                              *)
(***************************************************************************)

CONSTANTS Frontends, Callers, Nobody

VARIABLES
    served,   \* the frontends that are served
    session,  \* how far the opening of the session has come
    greeter,  \* the frontend that holds its "initialize"
    asked,    \* the request of each caller: "none", "queued" or "sent"
    holder    \* the frontend that holds it

vars == <<served, session, greeter, asked, holder>>

Init ==
    /\ served = {}
    /\ session = "connecting"
    /\ greeter = Nobody
    /\ asked = [c \in Callers |-> "none"]
    /\ holder = [c \in Callers |-> Nobody]

Admit(f) ==
    /\ served = {}
    /\ served' = {f}
    /\ UNCHANGED <<session, greeter, asked, holder>>

\* A frontend forgets what it holds: its socket is gone.
Lose(f) ==
    /\ holder' = [c \in Callers |-> IF holder[c] = f THEN Nobody ELSE holder[c]]
    /\ greeter' = IF greeter = f THEN Nobody ELSE greeter
    /\ UNCHANGED <<session, asked>>

Depart(f) == served = {f} /\ served' = {} /\ Lose(f)

Break(f) == Lose(f) /\ UNCHANGED served

\* "initialize" reaches the frontend, or is lost with its socket.
Greet(f) ==
    /\ served = {f} /\ session = "connecting"
    /\ session' = "initializing"
    /\ greeter' \in {f, Nobody}
    /\ UNCHANGED <<served, asked, holder>>

Agree(f) ==
    /\ served = {f} /\ session = "initializing" /\ greeter = f
    /\ session' = "notifying"
    /\ greeter' = Nobody
    /\ UNCHANGED <<served, asked, holder>>

Open(f) ==
    /\ served = {f} /\ session = "notifying"
    /\ session' = "ready"
    /\ UNCHANGED <<served, greeter, asked, holder>>

GiveUp ==
    /\ session # "ready"
    /\ session' = "cancelled"
    /\ greeter' = Nobody
    /\ UNCHANGED <<served, asked, holder>>

Request(c) ==
    /\ session = "ready" /\ served # {} /\ asked[c] = "none"
    /\ asked' = [asked EXCEPT ![c] = "queued"]
    /\ UNCHANGED <<served, session, greeter, holder>>

Deliver(f, c) ==
    /\ served = {f} /\ asked[c] = "queued"
    /\ asked' = [asked EXCEPT ![c] = "sent"]
    /\ \E h \in {f, Nobody} : holder' = [holder EXCEPT ![c] = h]
    /\ UNCHANGED <<served, session, greeter>>

\* The caller is done, or asks again at once.
Answer(f, c) ==
    /\ served = {f} /\ asked[c] = "sent" /\ holder[c] = f
    /\ \E next \in {"none", "queued"} : asked' = [asked EXCEPT ![c] = next]
    /\ holder' = [holder EXCEPT ![c] = Nobody]
    /\ UNCHANGED <<served, session, greeter>>

Next ==
    \/ \E f \in Frontends :
          \/ Admit(f) \/ Depart(f) \/ Break(f)
          \/ Greet(f) \/ Agree(f) \/ Open(f)
          \/ \E c \in Callers : Deliver(f, c) \/ Answer(f, c)
    \/ \E c \in Callers : Request(c)
    \/ GiveUp

Spec == Init /\ [][Next]_vars
=============================================================================
