--------------------------- MODULE Handoff_proofs ---------------------------
(***************************************************************************)
(* Theorems about Handoff, for any servers, ports, tabs and notebook URLs. *)
(***************************************************************************)
EXTENDS Handoff, TLAPS

\* A URL given out is the one its process would build again at any time.
Rebuilt(g) ==
    /\ g.by \in Procs /\ phase[g.by] # "new" /\ nonce[g.by] # None
    /\ Valid(g.asked)
    /\ g.url = Build(g.asked, g.by, nonce[g.by])

NonceInv ==
    /\ nonce \in [Procs -> Nonces \cup {None}]
    /\ \A p, q \in Procs : nonce[p] = nonce[q] /\ nonce[p] # None => p = q

LastInv ==
    /\ last = [p \in Procs |-> last[p]]
    /\ \A p \in Procs : Valid(last[p])

UrlInv ==
    /\ phase \in [Procs -> {"new", "up", "ended"}]
    /\ port \in [Procs -> Ports \cup {None}]
    /\ \A p \in Procs : phase[p] # "new" => port[p] \in Ports
    /\ NonceInv
    /\ LastInv
    /\ \A g \in given : Rebuilt(g)

-----------------------------------------------------------------------------

\* The invariant holds at first.
LEMMA UrlInvInit == Init => UrlInv
  BY DefaultAssumption DEF Init, UrlInv, NonceInv, LastInv, Valid

\* One answer of a tool: its URL can be built again, since the nonce it was
\* built with is stored, and the nonces stored before it stay.
LEMMA GiveKeeps ==
  ASSUME UrlInv, NEW p \in Procs, phase[p] = "up", NEW u, Valid(u),
         NEW fresh \in Nonces, Give(p, u, fresh), UNCHANGED <<phase, port>>
  PROVE  NonceInv' /\ \A g \in given' : Rebuilt(g)'
<1>1. /\ nonce' \in [Procs -> Nonces \cup {None}]
      /\ nonce'[p] = fresh
      /\ \A q \in Procs : nonce[q] # None => nonce'[q] = nonce[q]
      /\ \A q \in Procs \ {p} : nonce'[q] = nonce[q]
  BY DEF Give, UrlInv, NonceInv, NonceFor
<1>2. NonceInv'
  BY <1>1 DEF Give, UrlInv, NonceInv, NonceFor
<1>3. ASSUME NEW g \in given' PROVE Rebuilt(g)'
  <2>1. CASE g \in given
    BY <1>1, <2>1 DEF UrlInv, Rebuilt, Build, Url, Pair, Coordinates
  <2>2. CASE g = [by |-> p, asked |-> u, url |-> Build(u, p, fresh)]
    BY <1>1, <2>2, NoneAssumption
       DEF UrlInv, Rebuilt, Build, Url, Pair, Coordinates
  <2>3. QED
    BY <2>1, <2>2 DEF Give
<1>4. QED
  BY <1>2, <1>3

\* A step that leaves what the tools give out alone.
LEMMA SameUrls ==
  ASSUME UrlInv, UNCHANGED <<nonce, last, given>>,
         phase' \in [Procs -> {"new", "up", "ended"}],
         port' \in [Procs -> Ports \cup {None}],
         \A p \in Procs : phase[p] # "new" => phase'[p] # "new" /\ port'[p] = port[p],
         \A p \in Procs : phase'[p] # "new" => port'[p] \in Ports
  PROVE  UrlInv'
<1>1. ASSUME NEW g \in given PROVE Rebuilt(g)'
  BY DEF UrlInv, Rebuilt, Build, Url, Pair, Coordinates
<1>2. QED
  BY <1>1 DEF UrlInv, NonceInv, LastInv

\* UrlInv is inductive.
LEMMA UrlInvNext == UrlInv /\ [Next]_vars => UrlInv'
<1> SUFFICES ASSUME UrlInv, [Next]_vars PROVE UrlInv'
  OBVIOUS
<1>1. ASSUME NEW p \in Procs, NEW n \in Ports, Start(p, n) PROVE UrlInv'
  BY <1>1, SameUrls DEF Start, UrlInv
<1>2. ASSUME NEW p \in Procs, NEW fresh \in Nonces, Info(p, fresh) PROVE UrlInv'
  BY <1>2, GiveKeeps DEF Info, UrlInv, LastInv
<1>3. ASSUME NEW p \in Procs, NEW fresh \in Nonces, NEW u, Open(p, u, fresh)
      PROVE  UrlInv'
  <2>1. NonceInv' /\ \A g \in given' : Rebuilt(g)'
    BY <1>3, GiveKeeps DEF Open
  <2>2. LastInv'
    BY <1>3 DEF Open, UrlInv, LastInv, Valid, Normalize, Url
  <2>3. QED
    BY <1>3, <2>1, <2>2 DEF Open, UrlInv
<1>4. ASSUME NEW p \in Procs, Prepare(p) PROVE UrlInv'
  BY <1>4, SameUrls DEF Prepare, UrlInv
<1>5. ASSUME NEW p \in Procs, End(p) PROVE UrlInv'
  BY <1>5, SameUrls DEF End, UrlInv
<1>6. ASSUME NEW t \in Tabs, NEW u, NEW pair, Show(t, u, pair) PROVE UrlInv'
  BY <1>6, SameUrls DEF Show, UrlInv
<1>7. ASSUME NEW t \in Tabs, NEW p \in Procs, Handshake(t, p) PROVE UrlInv'
  BY <1>7, SameUrls DEF Handshake, UrlInv
<1>8. CASE UNCHANGED vars
  BY <1>8, SameUrls DEF vars, UrlInv
<1>9. QED
  BY <1>1, <1>2, <1>3, <1>4, <1>5, <1>6, <1>7, <1>8
     DEF Next, Close, Load, Paste

\* It holds always.
LEMMA UrlsSound == Spec => []UrlInv
  BY UrlInvInit, UrlInvNext, PTL DEF Spec

-----------------------------------------------------------------------------

\* The reserved keys of a URL that was given out are those it was given.
LEMMA BuildSensitive ==
  ASSUME NEW u, NEW p, NEW fresh
  PROVE  /\ {x \in Build(u, p, fresh).query : Sensitive(x)} = Coordinates(p, fresh)
         /\ {x \in Build(u, p, fresh).query : ~Sensitive(x)} = Safe(u.query)
<1>1. \A x \in Coordinates(p, fresh) : Sensitive(x)
  BY KeysAssumption DEF Coordinates, Sensitive
<1>2. Build(u, p, fresh).query = Safe(u.query) \cup Coordinates(p, fresh)
  BY DEF Build, Normalize, Url, Safe
<1>3. QED
  BY <1>1, <1>2 DEF Safe

\* Handing a URL on loses nothing and adds nothing: what one server has given
\* out leads, in another one, to the URL it would have built from the notebook
\* URL itself, so old coordinates never pile up or win over the current ones.
THEOREM RebuildCorrect ==
  ASSUME NEW u, NEW p, NEW fresh, NEW q, NEW old
  PROVE  /\ Normalize(Normalize(u)) = Normalize(u)
         /\ Normalize(Build(u, q, old)) = Normalize(u)
         /\ Build(Build(u, q, old), p, fresh) = Build(u, p, fresh)
<1>1. Safe(Safe(u.query)) = Safe(u.query)
  BY DEF Safe
<1>2. Safe(Build(u, q, old).query) = Safe(u.query)
  BY BuildSensitive DEF Safe
<1>3. Normalize(Build(u, q, old)) = Normalize(u)
  BY <1>2 DEF Normalize, Build, Url
<1>4. Build(Build(u, q, old), p, fresh) = Build(u, p, fresh)
  <2>1. /\ Build(u, q, old).host = u.host
        /\ Build(u, q, old).notebook = u.notebook
    BY DEF Build, Url
  <2>2. Build(Build(u, q, old), p, fresh)
          = Url(Build(u, q, old), Safe(Normalize(u).query) \cup Coordinates(p, fresh), Pair(p))
    BY <1>3 DEF Build
  <2>3. QED
    BY <2>1, <2>2 DEF Build, Url
<1>5. QED
  BY <1>1, <1>3, <1>4 DEF Normalize, Url

\* Whatever URL a tool is given, the one it answers with carries the
\* process's own token, port and nonce, each once.
THEOREM CoordinatesCorrect == Spec => []CurrentCoordinates
<1>1. UrlInv => CurrentCoordinates
  <2> SUFFICES ASSUME UrlInv, NEW g \in given
               PROVE  /\ g.url.pair = Pair(g.by)
                      /\ {x \in g.url.query : Sensitive(x)} = Coordinates(g.by, nonce[g.by])
    BY DEF CurrentCoordinates, Coordinates
  <2>1. g.url = Build(g.asked, g.by, nonce[g.by])
    BY DEF UrlInv, Rebuilt
  <2>2. g.url.pair = Pair(g.by)
    BY <2>1 DEF Build, Url
  <2>3. QED
    BY <2>1, <2>2, BuildSensitive
<1>2. QED
  BY <1>1, UrlsSound, PTL

\* It leads to the notebook asked for, with the rest of its query.
THEOREM NotebookCorrect == Spec => []NotebookKept
<1>1. UrlInv => NotebookKept
  <2> SUFFICES ASSUME UrlInv, NEW g \in given
               PROVE  /\ g.url.host = g.asked.host /\ Valid(g.url)
                      /\ g.url.notebook = g.asked.notebook
                      /\ {x \in g.url.query : ~Sensitive(x)} = Safe(g.asked.query)
    BY DEF NotebookKept, Safe
  <2>1. Valid(g.asked) /\ g.url = Build(g.asked, g.by, nonce[g.by])
    BY DEF UrlInv, Rebuilt
  <2>2. g.url.host = g.asked.host /\ Valid(g.url) /\ g.url.notebook = g.asked.notebook
    BY <2>1 DEF Build, Url, Normalize, Valid
  <2>3. QED
    BY <2>1, <2>2, BuildSensitive
<1>2. QED
  BY <1>1, UrlsSound, PTL

\* Chrome never takes the URL of one process for that of another, though they
\* may have had the same port: their nonces differ.
THEOREM DedupeCorrect == Spec => []NeverDeduped
<1>1. UrlInv => NeverDeduped
  <2> SUFFICES ASSUME UrlInv, NEW g \in given, NEW h \in given,
                      Canonical(g.url) = Canonical(h.url)
               PROVE  g.by = h.by
    BY DEF NeverDeduped
  <2>1. /\ g.url = Build(g.asked, g.by, nonce[g.by])
        /\ h.url = Build(h.asked, h.by, nonce[h.by])
        /\ g.by \in Procs /\ h.by \in Procs /\ nonce[g.by] # None
    BY DEF UrlInv, Rebuilt
  <2>2. g.url.query = h.url.query
    BY DEF Canonical, Url
  <2>3. Coordinates(g.by, nonce[g.by]) = Coordinates(h.by, nonce[h.by])
    <3>1. {x \in g.url.query : Sensitive(x)} = {x \in h.url.query : Sensitive(x)}
      BY <2>2
    <3>2. {x \in g.url.query : Sensitive(x)} = Coordinates(g.by, nonce[g.by])
      BY <2>1, BuildSensitive
    <3>3. {x \in h.url.query : Sensitive(x)} = Coordinates(h.by, nonce[h.by])
      BY <2>1, BuildSensitive
    <3>4. QED
      BY <3>1, <3>2, <3>3
  <2>4. nonce[g.by] = nonce[h.by]
    <3>1. <<"mcpNonce", nonce[g.by]>> \in Coordinates(h.by, nonce[h.by])
      BY <2>3 DEF Coordinates
    <3>2. QED
      BY <3>1 DEF Coordinates
  <2>5. QED
    BY <2>1, <2>4 DEF UrlInv, NonceInv
<1>2. QED
  BY <1>1, UrlsSound, PTL

-----------------------------------------------------------------------------

\* A URL with tokens only where Safe removes them, and a pair that is one.
Clean(u) == \A x \in u.query : x[2] \in Procs => Sensitive(x)

CleanInv ==
    /\ \A g \in given : Clean(g.asked)
    /\ \A p \in Procs : Clean(last[p])

\* What is built from a clean URL holds no token at all.
LEMMA BuildUnsent ==
  ASSUME UrlInv, NEW g \in given, Clean(g.asked)
  PROVE  \A x \in g.url.query : x[2] \notin Procs
<1>1. /\ g.url = Build(g.asked, g.by, nonce[g.by])
      /\ g.by \in Procs /\ port[g.by] \in Ports /\ nonce[g.by] \in Nonces
  BY DEF UrlInv, Rebuilt, NonceInv
<1>2. \A x \in Coordinates(g.by, nonce[g.by]) : x[2] \notin Procs
  BY <1>1, TokenAssumption DEF Coordinates
<1>3. \A x \in Safe(g.asked.query) : x[2] \notin Procs
  BY DEF Clean, Safe
<1>4. \A x \in g.url.query : Sensitive(x) => x \in Coordinates(g.by, nonce[g.by])
  BY <1>1, BuildSensitive
<1>5. \A x \in g.url.query : ~Sensitive(x) => x \in Safe(g.asked.query)
  BY <1>1, BuildSensitive
<1>6. QED
  BY <1>2, <1>3, <1>4, <1>5

\* CleanInv is inductive with UrlInv.
LEMMA CleanNext == UrlInv /\ CleanInv /\ [Next]_vars => CleanInv'
<1> SUFFICES ASSUME UrlInv, CleanInv, [Next]_vars PROVE CleanInv'
  OBVIOUS
<1>1. \A u \in Urls : Clean(u)
  BY BuildUnsent, AskedAssumption DEF Urls, Clean, CleanInv, Sensitive
<1>2. ASSUME NEW p \in Procs, NEW fresh \in Nonces, Info(p, fresh)
      PROVE  CleanInv'
  BY <1>2 DEF Info, Give, CleanInv, Clean, Sensitive
<1>3. ASSUME NEW p \in Procs, NEW fresh \in Nonces, NEW u \in Urls,
             Open(p, u, fresh)
      PROVE  CleanInv'
  <2>1. Clean(u) /\ Clean(Normalize(u))
    BY <1>1 DEF Clean, Normalize, Url, Safe
  <2>2. \A g \in given' : Clean(g.asked)
    BY <1>3, <2>1 DEF Open, Give, CleanInv
  <2>3. \A q \in Procs : Clean(last'[q])
    BY <1>3, <2>1 DEF Open, CleanInv, UrlInv, LastInv
  <2>4. QED
    BY <2>2, <2>3 DEF CleanInv, Clean, Sensitive
<1>4. CASE UNCHANGED <<given, last>>
  BY <1>4 DEF CleanInv, Clean, Sensitive
<1>5. QED
  BY <1>2, <1>3, <1>4
     DEF Next, vars, Start, Prepare, End, Close, Load, Paste, Show, Handshake

\* No token, current or old, is ever in a query.
THEOREM TokenCorrect == Spec => []TokenUnsent
<1>1. Init => CleanInv
  BY DefaultAssumption DEF Init, CleanInv, Clean
<1>2. UrlInv /\ CleanInv => TokenUnsent
  BY BuildUnsent DEF TokenUnsent, CleanInv
<1>3. QED
  BY <1>1, <1>2, CleanNext, UrlsSound, PTL DEF Spec

-----------------------------------------------------------------------------

\* The tabs: pairs are of processes that have started, and who is let in has
\* the pair of the process, which runs.
TabInv ==
    /\ key \in [Tabs -> Pairs \cup {None}]
    /\ served \in [Tabs -> Procs \cup {None}]
    /\ \A t \in Tabs : served[t] # None => phase[served[t]] = "up"
    /\ TokenHolders
    /\ attempt \in [Procs -> {"none", "manual", "prepared", "browser"}]

\* TabInv is inductive with UrlInv.
LEMMA TabNext == UrlInv /\ TabInv /\ [Next]_vars => TabInv'
<1> SUFFICES ASSUME UrlInv, TabInv, [Next]_vars PROVE TabInv'
  OBVIOUS
<1> USE DEF TabInv, TokenHolders, Pair, Pairs
<1>1. \A u \in Urls : u.pair \in Pairs \cup {None}
  <2>1. ASSUME NEW g \in given
        PROVE  g.url.pair \in Pairs
    <3>0. g.url = Build(g.asked, g.by, nonce[g.by])
      BY DEF UrlInv, Rebuilt
    <3>1. g.url.pair = Pair(g.by)
      BY <3>0 DEF Build, Url
    <3>2. g.by \in Procs /\ port[g.by] \in Ports
      BY DEF UrlInv, Rebuilt
    <3>3. QED
      BY <3>1, <3>2
  <2>2. QED
    BY <2>1, TypedAssumption DEF Urls, Typed, UrlType
<1>2. ASSUME NEW p \in Procs, NEW n \in Ports, Start(p, n) PROVE TabInv'
  BY <1>2, NoneAssumption DEF Start, UrlInv
<1>3. ASSUME NEW p \in Procs, NEW fresh \in Nonces, Info(p, fresh) PROVE TabInv'
  BY <1>3 DEF Info
<1>4. ASSUME NEW p \in Procs, NEW fresh \in Nonces, NEW u \in Urls, Open(p, u, fresh)
      PROVE  TabInv'
  <2>1. Build(u, p, fresh).pair \in Pairs
    BY <1>4 DEF Open, UrlInv, Build, Url
  <2>2. key' \in [Tabs -> Pairs \cup {None}]
    BY <1>4, <2>1 DEF Open, Browse
  <2>3. \A t \in Tabs : key[t] # None => key'[t] = key[t]
    BY <1>4 DEF Open, Browse
  <2>4. QED
    <3>1. \A t \in Tabs : served[t] # None => key[t] # None
      BY NoneAssumption DEF UrlInv
    <3>2. TokenHolders'
      BY <1>4, <2>3, <3>1 DEF Open
    <3>3. attempt' \in [Procs -> {"none", "manual", "prepared", "browser"}]
      BY <1>4 DEF Open
    <3>4. QED
      BY <1>4, <2>2, <3>2, <3>3 DEF Open
<1>5. ASSUME NEW p \in Procs, Prepare(p) PROVE TabInv'
  BY <1>5 DEF Prepare
<1>6. ASSUME NEW p \in Procs, End(p) PROVE TabInv'
  BY <1>6, NoneAssumption DEF End
<1>7. ASSUME NEW t \in Tabs, NEW u, NEW pair \in Pairs \cup {None},
             Show(t, u, pair)
      PROVE  TabInv'
  BY <1>7, NoneAssumption DEF Show
<1>8. ASSUME NEW t \in Tabs, NEW p \in Procs, Handshake(t, p) PROVE TabInv'
  <2>1. key[t].token = p /\ key[t].port = port[p] /\ phase[p] = "up"
    BY <1>8, NoneAssumption DEF Handshake, Verdict
  <2>2. key[t] = Pair(p)
    BY <1>8, <2>1 DEF Handshake
  <2>3. QED
    BY <1>8, <2>1, <2>2 DEF Handshake
<1>9. CASE UNCHANGED vars
  BY <1>9 DEF vars
<1>10. \A p \in Procs : phase[p] # "new" => Pair(p) \in Pairs
  BY DEF UrlInv
<1>11. QED
  BY <1>1, <1>2, <1>3, <1>4, <1>5, <1>6, <1>7, <1>8, <1>9, <1>10
     DEF Next, Close, Load, Paste

\* It holds always.
LEMMA TabsSound == Spec => []TabInv
<1>1. Init => TabInv
  BY DEF Init, TabInv, TokenHolders
<1>2. QED
  BY <1>1, TabNext, UrlsSound, PTL DEF Spec

\* A tab is served only by the process whose token it has, whatever ports are
\* used again.
THEOREM HolderCorrect == Spec => []TokenHolders
<1>1. TabInv => TokenHolders
  BY DEF TabInv
<1>2. QED
  BY <1>1, TabsSound, PTL

-----------------------------------------------------------------------------

\* A tab shows nothing but what it has been shown.
PageInv ==
    /\ page = [t \in Tabs |-> page[t]]
    /\ \A t \in Tabs : page[t] \in {Default} \cup Urls

\* PageInv is inductive.
LEMMA PageNext == PageInv /\ [Next]_vars => PageInv'
<1> SUFFICES ASSUME PageInv, [Next]_vars PROVE PageInv'
  OBVIOUS
<1> USE DEF PageInv
<1>1. given \subseteq given'
  BY DEF Next, Start, Info, Open, Prepare, End, Load, Close, Paste, Show, Handshake,
     Give, vars
<1>2. Urls \subseteq Urls'
  BY <1>1 DEF Urls
<1>3. CASE UNCHANGED page
  BY <1>2, <1>3
<1>4. ASSUME NEW t \in Tabs, NEW u \in {Default} \cup Urls', page' = [page EXCEPT ![t] = u]
      PROVE  PageInv'
  BY <1>2, <1>4
<1>5. ASSUME NEW p \in Procs, NEW fresh \in Nonces, NEW u, Open(p, u, fresh)
      PROVE  PageInv'
  <2> DEFINE g == [by |-> p, asked |-> u, url |-> Build(u, p, fresh)]
  <2>a. g \in given' /\ g.url = Build(u, p, fresh)
    BY <1>5 DEF Open, Give
  <2>1. Build(u, p, fresh) \in Urls'
    BY <2>a DEF Urls
  <2>2. QED
    BY <1>3, <1>4, <1>5, <2>1 DEF Open, Browse
<1>6. ASSUME NEW t \in Tabs, NEW u \in Urls, Load(t, u) PROVE PageInv'
  BY <1>2, <1>4, <1>6 DEF Load, Show
<1>7. ASSUME NEW t \in Tabs, Close(t) PROVE PageInv'
  BY <1>4, <1>7 DEF Close, Show
<1>8. ASSUME NEW t \in Tabs, NEW p \in Procs, Paste(t, p) PROVE PageInv'
  BY <1>2, <1>4, <1>8 DEF Paste, Show
<1>9. QED
  BY <1>3, <1>5, <1>6, <1>7, <1>8
     DEF Next, Start, Info, Prepare, End, Handshake, vars

\* A tab with a page that Chrome takes for the URL p gives out has the pair of p:
\* the nonce of p is in no URL but its own.
LEMMA SamePageSamePair ==
  ASSUME UrlInv, NEW p \in Procs, NEW fresh \in NonceFor(p), fresh \in Nonces,
         NEW u, NEW old \in {Default} \cup Urls,
         Canonical(old) = Canonical(Build(u, p, fresh))
  PROVE  old.pair = Pair(p)
<1>1. old.query = Build(u, p, fresh).query
  BY DEF Canonical, Url
<1>2. <<"mcpNonce", fresh>> \in {x \in old.query : Sensitive(x)}
  <2>1. <<"mcpNonce", fresh>> \in {x \in Build(u, p, fresh).query : Sensitive(x)}
    BY BuildSensitive DEF Coordinates
  <2>2. QED
    BY <1>1, <2>1
<1>3. old # Default
  BY <1>2, DefaultAssumption
<1>4. old \notin Asked
  BY <1>2, NonceAssumption
<1>5. PICK g \in given : old = g.url
  BY <1>3, <1>4 DEF Urls
<1>6. g.by \in Procs /\ nonce[g.by] # None /\ old = Build(g.asked, g.by, nonce[g.by])
  BY <1>5 DEF UrlInv, Rebuilt
<1>7. fresh = nonce[g.by]
  <2>1. <<"mcpNonce", fresh>> \in Coordinates(g.by, nonce[g.by])
    BY <1>2, <1>6, BuildSensitive
  <2>2. QED
    BY <2>1 DEF Coordinates
<1>8. g.by = p
  BY <1>6, <1>7 DEF NonceFor, UrlInv, NonceInv
<1>9. QED
  BY <1>6, <1>8 DEF Build, Url

\* A step in which p opens a tab leaves one that shows a URL of p.
LEMMA OpenShows ==
  ASSUME UrlInv, TabInv, PageInv, [Next]_vars,
         NEW p \in Procs, attempt[p] = "none", attempt'[p] = "browser"
  PROVE  \E t \in Tabs : page'[t].pair = Pair(p)
<1>1. ASSUME NEW q \in Procs, NEW fresh \in Nonces, NEW u, Open(q, u, fresh)
      PROVE  q = p /\ Browse(Build(u, q, fresh)) /\ fresh \in NonceFor(p)
  BY <1>1 DEF Open, Give, TabInv
<1>2. PICK fresh \in Nonces, u \in Urls : Open(p, u, fresh)
  BY <1>1 DEF Next, Start, Info, Prepare, End, Load, Close, Paste, Show, Handshake,
     vars, TabInv
<1>3. CASE /\ \E t \in Tabs : Canonical(page[t]) = Canonical(Build(u, p, fresh))
           /\ UNCHANGED page
  BY <1>1, <1>2, <1>3, SamePageSamePair DEF PageInv
<1>4. CASE \E t \in Tabs : page' = [page EXCEPT ![t] = Build(u, p, fresh)]
  <2>1. Build(u, p, fresh).pair = Pair(p)
    BY DEF Build, Url
  <2>2. QED
    BY <1>4, <2>1 DEF PageInv
<1>5. QED
  BY <1>1, <1>2, <1>3, <1>4 DEF Browse

\* A server that opens a tab gets one with its own URL: Chrome never focuses an
\* old tab instead, for any servers, ports, tabs and notebook URLs.
THEOREM OpenedCorrect == Spec => OpensOwnTab
<1>1. Init => PageInv
  BY DEF Init, PageInv
<1>2. UrlInv /\ TabInv /\ PageInv /\ [Next]_vars
      => [\A p \in Procs : attempt[p] = "none" /\ attempt'[p] = "browser"
             => \E t \in Tabs : page'[t].pair = Pair(p)]_vars
  BY OpenShows
<1>3. QED
  BY <1>1, <1>2, PageNext, UrlsSound, TabsSound, PTL DEF Spec, OpensOwnTab

-----------------------------------------------------------------------------

GivenInv ==
    /\ last \in [Procs -> UrlType]
    /\ given \subseteq [by : Procs, asked : UrlType, url : UrlType]

\* What the tools make of a URL is one.
LEMMA UrlsTyped ==
  ASSUME UrlInv, NEW p \in Procs, phase[p] # "new", NEW fresh \in Nonces,
         NEW u \in UrlType
  PROVE  Normalize(u) \in UrlType /\ Build(u, p, fresh) \in UrlType
<1>1. Safe(u.query) \in SUBSET (Keys \X Values)
  BY DEF UrlType, Safe
<1>2. Coordinates(p, fresh) \in SUBSET (Keys \X Values)
  BY KeysAssumption DEF Coordinates, Values, UrlInv
<1>3. Pair(p) \in Pairs
  BY DEF Pair, Pairs, UrlInv
<1>4. ASSUME NEW query \in SUBSET (Keys \X Values), NEW pair \in Pairs \cup {None}
      PROVE  Url(u, query, pair) \in UrlType
  BY DEF Url, UrlType
<1>5. Normalize(u) \in UrlType
  BY <1>1, <1>4 DEF Normalize
<1>6. Safe(Normalize(u).query) \in SUBSET (Keys \X Values)
  BY <1>5 DEF UrlType, Safe
<1>7. Build(u, p, fresh) \in UrlType
  BY <1>2, <1>3, <1>4, <1>6 DEF Build
<1>8. QED
  BY <1>5, <1>7

\* GivenInv is inductive with UrlInv.
LEMMA GivenNext == UrlInv /\ GivenInv /\ [Next]_vars => GivenInv'
<1> SUFFICES ASSUME UrlInv, GivenInv, [Next]_vars PROVE GivenInv'
  OBVIOUS
<1> USE DEF GivenInv
<1>1. \A u \in Urls : u \in UrlType
  BY TypedAssumption DEF Urls, Typed
<1>2. ASSUME NEW p \in Procs, NEW fresh \in Nonces, NEW u \in UrlType,
             phase[p] # "new", Give(p, u, fresh)
      PROVE  given' \subseteq [by : Procs, asked : UrlType, url : UrlType]
  BY <1>2, UrlsTyped DEF Give
<1>3. ASSUME NEW p \in Procs, NEW fresh \in Nonces, Info(p, fresh) PROVE GivenInv'
  BY <1>2, <1>3 DEF Info
<1>4. ASSUME NEW p \in Procs, NEW fresh \in Nonces, NEW u \in Urls, Open(p, u, fresh)
      PROVE  GivenInv'
  <2>1. u \in UrlType /\ phase[p] # "new" /\ Give(p, u, fresh)
    BY <1>1, <1>4 DEF Open
  <2>2. Normalize(u) \in UrlType
    BY <2>1, UrlsTyped
  <2>3. QED
    BY <1>2, <1>4, <2>1, <2>2 DEF Open
<1>5. CASE UNCHANGED <<last, given>>
  BY <1>5
<1>6. QED
  BY <1>3, <1>4, <1>5
     DEF Next, vars, Start, Prepare, End, Close, Load, Paste, Show, Handshake

\* Every variable keeps its type: a process that runs has its port, every URL
\* that is kept, given out or shown is made of what users type, ports and
\* nonces, and a tab has a pair or none.
THEOREM HandoffTypes == Spec => []TypeOK
<1>1. Init => GivenInv /\ PageInv
  BY TypedAssumption DEF Init, GivenInv, PageInv, Typed
<1>2. GivenInv /\ PageInv => page \in [Tabs -> UrlType]
  <2> SUFFICES ASSUME GivenInv, PageInv PROVE page \in [Tabs -> UrlType]
    OBVIOUS
  <2>1. \A u \in {Default} \cup Urls : u \in UrlType
    BY TypedAssumption DEF Urls, GivenInv, Typed
  <2>2. QED
    BY <2>1 DEF PageInv
<1>3. UrlInv /\ TabInv /\ GivenInv /\ PageInv => TypeOK
  BY <1>2 DEF UrlInv, TabInv, NonceInv, GivenInv, TypeOK
<1>4. QED
  BY <1>1, <1>3, GivenNext, PageNext, UrlsSound, TabsSound, PTL DEF Spec
=============================================================================
