------------------------------- MODULE Handoff -------------------------------
(***************************************************************************)
(* How a Colab tab comes by the credentials of a server: the URLs the      *)
(* connection tools give out (src/colab_mcp/connection.py, __init__.py),   *)
(* what the browser does with them, and the WebSocket handshake that lets  *)
(* the tab in (websocket_server.py).                                       *)
(*                                                                         *)
(* A process is one run of a server.  Its token is drawn at random when it *)
(* starts, so the process itself stands for it; its port is whatever the   *)
(* system gives it, possibly that of a server that has ended.  A query is  *)
(* a set of key-value pairs; order, escaping and the parameters of the     *)
(* path are left out.                                                      *)
(***************************************************************************)

CONSTANTS
    Procs, Ports, Tabs, None,
    Nonces,         \* bound: values of secrets.token_urlsafe(8), all different
    Colab,          \* _ALLOWED_HOSTS
    Default,        \* the URL of SCRATCH_PATH
    Asked,          \* notebook URLs as users type them
    Keys, Lower,    \* query keys; str.lower
    Reserved        \* _RESERVED_QUERY_KEYS, "token" and the like: lower case

Pairs == [token : Procs, port : Ports]

\* URLs made of what users type and what servers add.
Typed  == Asked \cup {Default}
Values == {x[2] : x \in UNION {u.query : u \in Typed}} \cup Ports \cup Nonces
UrlType == [host : {u.host : u \in Typed}, notebook : {u.notebook : u \in Typed},
            query : SUBSET (Keys \X Values), pair : Pairs \cup {None}]

ASSUME NoneAssumption == None \notin Procs \cup Ports \cup Nonces \cup Pairs
ASSUME TokenAssumption == Procs \cap (Ports \cup Nonces) = {}
ASSUME KeysAssumption ==
    /\ {"p", "mcpNonce"} \subseteq Keys
    /\ {Lower["p"], Lower["mcpNonce"]} \subseteq Reserved
ASSUME TypedAssumption == Typed \subseteq UrlType
ASSUME DefaultAssumption == Default.host \in Colab /\ Default.query = {}
\* What users type holds tokens only where old versions and the tab put them.
ASSUME AskedAssumption ==
    \A u \in Asked : \A x \in u.query : x[2] \in Procs => Lower[x[1]] \in Reserved
\* Nonces are random: users do not type them.  A URL that was given out is
\* loaded as it was given (Urls); a copy without its fragment is left out.
ASSUME NonceAssumption == \A u \in Asked : \A x \in u.query : x[2] \notin Nonces

VARIABLES
    phase,    \* "new", "up" or "ended"
    port,
    nonce,    \* _connection_nonce
    last,     \* _last_notebook_url
    attempt,  \* _connection_attempt_url: "none", "manual" (the empty one), or
              \* a URL, "prepared" for a tab or opened in the "browser"
    given,    \* history: who gave out which URL for which notebook URL
    page,     \* the URL a tab shows
    key,      \* the token and port a tab uses
    served    \* the process that has let the tab in

vars == <<phase, port, nonce, last, attempt, given, page, key, served>>

TypeOK ==
    /\ phase \in [Procs -> {"new", "up", "ended"}]
    /\ port \in [Procs -> Ports \cup {None}]
    /\ \A p \in Procs : phase[p] # "new" => port[p] \in Ports
    /\ nonce \in [Procs -> Nonces \cup {None}]
    /\ last \in [Procs -> UrlType]
    /\ attempt \in [Procs -> {"none", "manual", "prepared", "browser"}]
    /\ given \subseteq [by : Procs, asked : UrlType, url : UrlType]
    /\ page \in [Tabs -> UrlType]
    /\ key \in [Tabs -> Pairs \cup {None}]
    /\ served \in [Tabs -> Procs \cup {None}]

Init ==
    /\ phase = [p \in Procs |-> "new"]
    /\ port = [p \in Procs |-> None]
    /\ nonce = [p \in Procs |-> None]
    /\ last = [p \in Procs |-> Default]
    /\ attempt = [p \in Procs |-> "none"]
    /\ given = {}
    /\ page = [t \in Tabs |-> Default]
    /\ key = [t \in Tabs |-> None]
    /\ served = [t \in Tabs |-> None]

Start(p, n) ==
    /\ phase[p] = "new"
    /\ \A q \in Procs : phase[q] = "up" => port[q] # n
    /\ phase' = [phase EXCEPT ![p] = "up"]
    /\ port' = [port EXCEPT ![p] = n]
    /\ UNCHANGED <<nonce, last, attempt, given, page, key, served>>

End(p) ==
    /\ phase[p] = "up"
    /\ phase' = [phase EXCEPT ![p] = "ended"]
    /\ served' = [t \in Tabs |-> IF served[t] = p THEN None ELSE served[t]]
    /\ UNCHANGED <<port, nonce, last, attempt, given, page, key>>

-----------------------------------------------------------------------------
(* connection.py: a URL is its host, notebook, query and fragment (pair).  *)

Pair(p) == [token |-> p, port |-> port[p]]

\* Fault: keys are compared as they are written.
SensitiveAsWritten(x) == x[1] \in Reserved

Sensitive(x) == Lower[x[1]] \in Reserved

\* Fault: everything is kept.
SafeAll(query) == query

\* Fault: nothing is kept.
SafeNone(query) == {}

Safe(query) == {x \in query : ~Sensitive(x)}

\* Another host, no HTTPS or user credentials raise InvalidNotebookUrl.
Valid(u) == u.host \in Colab

Url(u, query, pair) ==
    [host |-> u.host, notebook |-> u.notebook, query |-> query, pair |-> pair]

Normalize(u) == Url(u, Safe(u.query), None)

\* Fault: there is no nonce, as in the versions before it.
CoordinatesByPort(p, fresh) == {<<"p", port[p]>>}

Coordinates(p, fresh) == {<<"p", port[p]>>, <<"mcpNonce", fresh>>}

\* build_connection_info
Build(u, p, fresh) ==
    Url(u, Safe(Normalize(u).query) \cup Coordinates(p, fresh), Pair(p))

-----------------------------------------------------------------------------
(* The tools.                                                              *)

\* The stored nonce, or a new one.
NonceFor(p) ==
    IF nonce[p] # None THEN {nonce[p]} ELSE Nonces \ {nonce[q] : q \in Procs}

\* p answers with the URL for the notebook URL u.
Give(p, u, fresh) ==
    /\ fresh \in NonceFor(p)
    /\ given' = given \cup {[by |-> p, asked |-> u, url |-> Build(u, p, fresh)]}
    /\ nonce' = [nonce EXCEPT ![p] = fresh]

Connected(p) == \E t \in Tabs : served[t] = p

\* get_colab_connection_info
Info(p, fresh) ==
    /\ phase[p] = "up" /\ Give(p, last[p], fresh)
    /\ UNCHANGED <<phase, port, last, attempt, page, key, served>>

\* What Chrome compares: the URL without its fragment.
Canonical(u) == Url(u, u.query, None)

\* webbrowser.open_new: Chrome focuses a tab that shows the URL already.
Browse(u) ==
    \/ /\ \E t \in Tabs : Canonical(page[t]) = Canonical(u)
       /\ UNCHANGED <<page, key>>
    \/ /\ \A t \in Tabs : Canonical(page[t]) # Canonical(u)
       /\ \E t \in Tabs :
             /\ key[t] = None
             /\ page' = [page EXCEPT ![t] = u]
             /\ key' = [key EXCEPT ![t] = u.pair]

\* open_colab_browser_connection up to its wait.  A process makes one attempt;
\* every other call, and an invalid URL, is answered without effect.
Open(p, u, fresh) ==
    /\ phase[p] = "up" /\ ~Connected(p) /\ attempt[p] = "none" /\ Valid(u)
    /\ Give(p, u, fresh)
    /\ last' = [last EXCEPT ![p] = Normalize(u)]
    /\ \/ /\ attempt' = [attempt EXCEPT ![p] = "browser"]
          /\ Browse(Build(u, p, fresh))
       \/ /\ attempt' = [attempt EXCEPT ![p] = "prepared"]
          /\ UNCHANGED <<page, key>>
    /\ UNCHANGED <<phase, port, served>>

\* prepare_colab_browser_connection; the pair alone is always to be had.
Prepare(p) ==
    /\ phase[p] = "up" /\ ~Connected(p) /\ attempt[p] = "none"
    /\ attempt' = [attempt EXCEPT ![p] = "manual"]
    /\ UNCHANGED <<phase, port, nonce, last, given, page, key, served>>

-----------------------------------------------------------------------------
(* Tabs, and the handshake.                                                *)

Show(t, u, pair) ==
    /\ page' = [page EXCEPT ![t] = u]
    /\ key' = [key EXCEPT ![t] = pair]
    /\ served' = [served EXCEPT ![t] = None]
    /\ UNCHANGED <<phase, port, nonce, last, attempt, given>>

\* A user loads a URL that was given out, or one of their own; closes the tab;
\* or types a pair into Colab's dialog.
Load(t, u)  == Show(t, u, u.pair)
Close(t)    == Show(t, Default, None)
Paste(t, p) == phase[p] # "new" /\ Show(t, page[t], Pair(p))

\* Fault: a token is asked for, not compared.
VerdictUnread(p, r) ==
    IF r.path # None \/ r.bearer # None THEN "accept" ELSE "401"

\* _validate_authorization of a request with a token in its path or header; a
\* header that cannot be read (400) is left out.
Verdict(p, r) ==
    CASE ~r.upgrade -> "204"
      [] r.upgrade /\ p \in {r.path, r.bearer} -> "accept"
      [] r.upgrade /\ p # r.path /\ r.bearer = None -> "401"
      [] OTHER -> "403"

\* The tab reaches whoever has the port.  One connection at a time:
\* connection_lock.
Handshake(t, p) ==
    /\ key[t] # None /\ served[t] = None
    /\ phase[p] = "up" /\ port[p] = key[t].port /\ ~Connected(p)
    /\ \E r \in [upgrade : BOOLEAN, path : {None, key[t].token},
                 bearer : {None, key[t].token}] : Verdict(p, r) = "accept"
    /\ served' = [served EXCEPT ![t] = p]
    /\ UNCHANGED <<phase, port, nonce, last, attempt, given, page, key>>

-----------------------------------------------------------------------------

\* URLs to be asked for and loaded: also those given out before.
Urls == Asked \cup {g.url : g \in given}

Next ==
    \/ \E p \in Procs :
          \/ \E n \in Ports : Start(p, n)
          \/ \E fresh \in Nonces :
                Info(p, fresh) \/ \E u \in Urls : Open(p, u, fresh)
          \/ Prepare(p) \/ End(p)
    \/ \E t \in Tabs :
          \/ Close(t)
          \/ \E u \in Urls : Load(t, u)
          \/ \E p \in Procs : Paste(t, p) \/ Handshake(t, p)

Spec == Init /\ [][Next]_vars

\* A tab that has a pair keeps trying.
Fairness == \A t \in Tabs : WF_vars(\E p \in Procs : Handshake(t, p))

FairSpec == Spec /\ Fairness

-----------------------------------------------------------------------------

\* Every URL a process gives out carries its own token and port and its one
\* nonce, each once, whatever old connection parameters the URL it was asked
\* for had, under whatever spelling of their keys.
CurrentCoordinates ==
    \A g \in given :
       /\ g.url.pair = Pair(g.by)
       /\ {x \in g.url.query : Sensitive(x)}
             = {<<"p", port[g.by]>>, <<"mcpNonce", nonce[g.by]>>}

\* It leads to the notebook asked for, with the rest of its query, on Colab.
NotebookKept ==
    \A g \in given :
       /\ g.url.host = g.asked.host /\ Valid(g.url)
       /\ g.url.notebook = g.asked.notebook
       /\ {x \in g.url.query : ~Sensitive(x)} = {x \in g.asked.query : ~Sensitive(x)}

\* No token of any process is in a query, which would be sent to the web
\* server, not even an old one a user has copied.
TokenUnsent == \A g \in given : \A x \in g.url.query : x[2] \notin Procs

\* Chrome never takes a URL a process gives out for that of another process,
\* though the second has the port of the first.
NeverDeduped ==
    \A g, h \in given : Canonical(g.url) = Canonical(h.url) => g.by = h.by

\* A tab is let in by the process whose token it has: one that still has the
\* pair of an ended server is shut out though its port is in use again.
TokenHolders == \A t \in Tabs : served[t] # None => key[t] = Pair(served[t])

\* A process that opens a tab gets a tab with its own URL, never an old one
\* that Chrome takes for it.
OpensOwnTab ==
    [][\A p \in Procs : attempt[p] = "none" /\ attempt'[p] = "browser"
          => \E t \in Tabs : page'[t].pair = Pair(p)]_vars

\* So a server that has opened one is connected in the end, as long as users
\* leave a tab with its pair alone.
OpenedConnects ==
    /\ OpensOwnTab
    /\ \A p \in Procs : attempt[p] = "browser"
          ~> Connected(p) \/ phase[p] = "ended" \/ \A t \in Tabs : key[t] # Pair(p)
=============================================================================
