------------------------- MODULE Credentials_proofs -------------------------
(***************************************************************************)
(* Theorems about Credentials, for any number of servers.                  *)
(***************************************************************************)
EXTENDS Credentials, TLAPS

\* A temporary file exists exactly while it is filled, is private on POSIX
\* systems, and is whole before it replaces the cache.
TempInv ==
    \A p \in Procs :
       /\ temp[p] # NoFile <=> pc[p] \in {"filling", "filled"}
       /\ Posix /\ temp[p] # NoFile => temp[p].private
       /\ pc[p] = "filled" => temp[p].whole
       /\ pc[p] \in Writing => token[p] # "none"

\* A start that has got past the permissions of the cache, or has found none.
Past(p) == token[p] # "none" \/ pc[p] \notin {"off", "found", "failed", "dead"}

CacheInv ==
    /\ CacheWhole
    /\ Posix => /\ \A f \in litter : f.private
                /\ \A p \in Procs : Past(p) /\ cache # NoFile => cache.private

CredInv == TypeOK /\ TempInv /\ CacheInv

-----------------------------------------------------------------------------

\* The invariant holds at first.
LEMMA CredInit == Init => CredInv
<1> SUFFICES ASSUME Init PROVE CredInv
  OBVIOUS
<1> USE NoFileAssumption, PosixAssumption DEF Init, Files, Tokens, Ended, Writing
<1>1. cache \in Files \cup {NoFile}
  <2>1. \A b \in {FALSE, Posix} : [token |-> "expired", whole |-> TRUE, private |-> b] \in Files
    OBVIOUS
  <2>2. QED
    BY <2>1
<1>2. TypeOK
  <2> HIDE DEF Files
  <2>1. QED
    BY <1>1 DEF TypeOK
<1>3. TempInv
  BY DEF TempInv
<1>4. CacheInv
  BY DEF CacheInv, CacheWhole, Past
<1>5. QED
  BY <1>2, <1>3, <1>4 DEF CredInv

\* Every step keeps it, crashes and failures included.
LEMMA CredNext == CredInv /\ [Next]_vars => CredInv'
<1> SUFFICES ASSUME CredInv, [Next]_vars PROVE CredInv'
  OBVIOUS
<1> USE NoFileAssumption, PosixAssumption
    DEF CredInv, TypeOK, TempInv, CacheInv, CacheWhole, Past, Files, Tokens,
        Ended, Writing, Move, Fails, EnsurePrivate
<1>1. ASSUME NEW p \in Procs, Begin(p) PROVE CredInv'
  BY <1>1 DEF Begin
<1>2. ASSUME NEW p \in Procs, Protect(p) PROVE CredInv'
  BY <1>2 DEF Protect
<1>3. ASSUME NEW p \in Procs, Read(p) PROVE CredInv'
  BY <1>3 DEF Read, Readable
<1>4. ASSUME NEW p \in Procs, NEW ok \in BOOLEAN, Refresh(p, ok) PROVE CredInv'
  BY <1>4 DEF Refresh
<1>5. ASSUME NEW p \in Procs, NEW ok \in BOOLEAN, Consent(p, ok) PROVE CredInv'
  BY <1>5 DEF Consent
<1>6. ASSUME NEW p \in Procs, Make(p) PROVE CredInv'
  <2> DEFINE f == [token |-> token[p], whole |-> FALSE, private |-> Posix]
  <2>1. f \in Files /\ ~f.whole /\ (Posix => f.private) /\ f # NoFile
    <3>1. token[p] \in Tokens
      BY <1>6 DEF Make
    <3>2. f \in Files
      BY <3>1
    <3>3. QED
      BY <3>2
  <2>2. temp' = [temp EXCEPT ![p] = f]
    BY <1>6 DEF Make
  <2> HIDE DEF f, Files
  <2>3. TypeOK'
    BY <1>6, <2>1, <2>2 DEF Make
  <2>4. TempInv'
    BY <1>6, <2>1, <2>2 DEF Make
  <2>5. CacheInv'
    BY <1>6 DEF Make
  <2>6. QED
    BY <2>3, <2>4, <2>5
<1>7. ASSUME NEW p \in Procs, Fill(p) PROVE CredInv'
  <2>1. temp[p] \in Files /\ (Posix => temp[p].private)
    BY <1>7 DEF Fill
  <2> DEFINE f == [temp[p] EXCEPT !.whole = TRUE]
  <2>2. f \in Files /\ f.whole /\ (Posix => f.private)
    BY <2>1
  <2>3. temp' = [temp EXCEPT ![p] = f] /\ f # NoFile
    BY <1>7, <2>2 DEF Fill
  <2> HIDE DEF f, Files
  <2>4. TypeOK'
    BY <1>7, <2>2, <2>3 DEF Fill
  <2>5. TempInv'
    BY <1>7, <2>2, <2>3 DEF Fill
  <2>6. CacheInv'
    BY <1>7 DEF Fill
  <2>7. QED
    BY <2>4, <2>5, <2>6
<1>8. ASSUME NEW p \in Procs, Replace(p) PROVE CredInv'
  <2>1. temp[p] \in Files /\ (Posix => temp[p].private) /\ temp[p].whole
    BY <1>8 DEF Replace
  <2>2. TypeOK'
    BY <1>8, <2>1 DEF Replace
  <2>3. TempInv'
    BY <1>8 DEF Replace
  <2>4. CacheInv'
    BY <1>8, <2>1 DEF Replace
  <2>5. QED
    BY <2>2, <2>3, <2>4
<1>9. ASSUME NEW p \in Procs, Saved(p) PROVE CredInv'
  BY <1>9 DEF Saved
<1>10. ASSUME NEW p \in Procs, WriteFails(p) PROVE CredInv'
  BY <1>10 DEF WriteFails
<1>11. ASSUME NEW p \in Procs, Crash(p) PROVE CredInv'
  BY <1>11 DEF Crash
<1>12. CASE Expire
  BY <1>12 DEF Expire
<1>13. CASE Revoke
  BY <1>13 DEF Revoke
<1>14. CASE Delete
  BY <1>14 DEF Delete
<1>15. CASE UNCHANGED vars
  BY <1>15 DEF vars
<1>16. QED
  BY <1>1, <1>2, <1>3, <1>4, <1>5, <1>6, <1>7, <1>8, <1>9, <1>10, <1>11,
     <1>12, <1>13, <1>14, <1>15 DEF Next, Step

\* It holds always.
LEMMA CredSound == Spec => []CredInv
  BY CredInit, CredNext, PTL DEF Spec

-----------------------------------------------------------------------------

\* No interleaving of starts, crashes and failures leaves part of a token in
\* the cache.
THEOREM WholeCorrect == Spec => []CacheWhole
<1>1. CredInv => CacheWhole
  BY DEF CredInv, CacheInv
<1>2. QED
  BY <1>1, CredSound, PTL

\* On POSIX systems no file with a token this version wrote, or has read, is
\* open to others.
THEOREM OwnerCorrect == Spec => []OwnerOnly
<1>1. CredInv => OwnerOnly
  BY DEF CredInv, TempInv, CacheInv, OwnerOnly, Past
<1>2. QED
  BY <1>1, CredSound, PTL

\* Only a crash leaves a temporary file behind.
THEOREM LitterCorrect == Spec => []NoLitter
<1>1. CredInv => NoLitter
  BY DEF CredInv, TempInv, NoLitter
<1>2. QED
  BY <1>1, CredSound, PTL

\* Every variable keeps its type, whatever fails or crashes.
THEOREM CredentialTypes == Spec => []TypeOK
<1>1. CredInv => TypeOK
  BY DEF CredInv
<1>2. QED
  BY <1>1, CredSound, PTL

\* No failure or crash costs the user the cached token.
THEOREM KeptCorrect == Spec => CacheKept
<1>1. CredInv /\ [Next]_vars => [cache # NoFile => cache' # NoFile \/ Delete]_vars
  <2> SUFFICES ASSUME CredInv, Next, cache # NoFile, cache' = NoFile
               PROVE  Delete
    OBVIOUS
  <2>1. ASSUME NEW p \in Procs PROVE ~Replace(p)
    BY NoFileAssumption DEF Replace, CredInv, TempInv
  <2>2. [cache EXCEPT !.private = TRUE] # NoFile
    BY NoFileAssumption DEF CredInv, TypeOK, Files
  <2>3. [cache EXCEPT !.token = "expired"] # NoFile
    BY NoFileAssumption DEF CredInv, TypeOK, Files, Tokens
  <2>4. [cache EXCEPT !.token = "revoked"] # NoFile
    BY NoFileAssumption DEF CredInv, TypeOK, Files, Tokens
  <2>5. QED
    BY <2>1, <2>2, <2>3, <2>4
       DEF Next, Step, Begin, Protect, Read, Refresh, Consent, Make, Fill, Saved,
           WriteFails, Crash, Expire, Revoke, EnsurePrivate
<1>2. QED
  BY <1>1, CredSound, PTL DEF Spec, CacheKept
=============================================================================
