------------------------------ MODULE MCHandoff ------------------------------
(* Small instances of Handoff.                                             *)
EXTENDS Handoff, TLC

CONSTANTS p1, p2, hl

KeySet == {"p", "mcpNonce", "MCPPROXYTOKEN", "authuser"}

LowerCase ==
    [k \in KeySet |-> CASE k = "mcpNonce" -> "mcpnonce"
                        [] k = "MCPPROXYTOKEN" -> "mcpproxytoken"
                        [] OTHER -> k]

ReservedKeys == {"p", "mcpnonce", "mcpproxytoken"}

Plain == [host |-> "colab", notebook |-> "empty", query |-> {}, pair |-> None]

\* A shared notebook, one copied with old parameters in its query, and a page
\* of another site.
Pasted ==
    {Plain,
     [Plain EXCEPT !.notebook = "mine",
                   !.query = {<<"authuser", hl>>, <<"MCPPROXYTOKEN", p1>>}],
     [Plain EXCEPT !.host = "elsewhere"]}
=============================================================================
