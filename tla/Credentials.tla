----------------------------- MODULE Credentials -----------------------------
(***************************************************************************)
(* The OAuth credentials of src/colab_mcp/auth.py: every start of a server *)
(* with --client-oauth-config calls get_credentials, which reads, renews   *)
(* or asks for a token and keeps it in one cache file.                     *)
(*                                                                         *)
(* Servers start, fail and crash at any time, and nothing keeps them from  *)
(* using the file at once; a step is one operation on the file system, or  *)
(* one exchange with Google.  A file holds a token, or part of one; the    *)
(* contents matter by whether they are whole and still good.               *)
(***************************************************************************)

CONSTANTS
    Procs,    \* servers; one that has ended may start again
    Posix,    \* os.name is not "nt": the server may set the mode of a file
    NoFile

ASSUME PosixAssumption == Posix \in BOOLEAN

VARIABLES
    cache,    \* ~/.colab-mcp-auth-token.json
    temp,     \* the temporary file of each server
    litter,   \* temporary files of servers that are gone
    pc,       \* where get_credentials is
    token     \* the credentials in memory

vars == <<cache, temp, litter, pc, token>>

\* "private": its mode lets nobody but the owner read it (on Windows the code
\* sees to nothing of the kind, and no file counts as private).
\* "revoked": neither the token nor its refresh token is accepted.
Tokens == {"valid", "expired", "revoked"}
Files  == [token : Tokens, whole : BOOLEAN, private : BOOLEAN]
ASSUME NoFileAssumption == NoFile \notin Files
Writing == {"renewed", "filling", "filled", "saved"}
Ended   == {"off", "ready", "failed", "dead"}

TypeOK ==
    /\ cache \in Files \cup {NoFile}
    /\ temp \in [Procs -> Files \cup {NoFile}]
    /\ litter \subseteq Files
    /\ pc \in [Procs -> Ended \cup Writing \cup
                        {"found", "checked", "refreshing", "asking"}]
    /\ token \in [Procs -> Tokens \cup {"none"}]

\* The cache may have been written by an older version, for others to read.
Init ==
    /\ cache \in {[token |-> "expired", whole |-> TRUE, private |-> b] :
                     b \in {FALSE, Posix}} \cup {NoFile}
    /\ temp = [p \in Procs |-> NoFile]
    /\ litter = {}
    /\ pc = [p \in Procs |-> "off"]
    /\ token = [p \in Procs |-> "none"]

Move(p, place) == pc' = [pc EXCEPT ![p] = place]

\* main_async logs what get_credentials raises and goes on without OAuth.
Fails(p) == Move(p, "failed")

-----------------------------------------------------------------------------
(* get_credentials                                                         *)

\* _ensure_private_permissions
EnsurePrivate(f) ==
    IF Posix /\ f # NoFile THEN [f EXCEPT !.private = TRUE] ELSE f

\* token_path.exists().  Without a file the user is asked at once, by a local
\* server on a fixed port, which fails while another start has the port.
Begin(p) ==
    /\ pc[p] \in Ended
    /\ \/ cache # NoFile /\ Move(p, "found")
       \/ /\ cache = NoFile
          /\ Move(p, IF \E q \in Procs : pc[q] = "asking" THEN "failed" ELSE "asking")
    /\ token' = [token EXCEPT ![p] = "none"]
    /\ UNCHANGED <<cache, temp, litter>>

\* Fault: the permissions of an existing file are left as they are.
ProtectNothing(p) ==
    /\ pc[p] = "found" /\ Move(p, "checked")
    /\ UNCHANGED <<cache, temp, litter, token>>

\* The permissions of the file found, if there still is one.
Protect(p) ==
    /\ pc[p] = "found"
    /\ cache' = EnsurePrivate(cache)
    /\ Move(p, "checked")
    /\ UNCHANGED <<temp, litter, token>>

Readable == cache # NoFile /\ cache.whole

\* Fault: an expired token is not refreshed.
ReadValid(p) ==
    /\ pc[p] = "checked"
    /\ \/ ~Readable /\ Fails(p) /\ UNCHANGED token
       \/ /\ Readable
          /\ token' = [token EXCEPT ![p] = cache.token]
          /\ Move(p, IF cache.token = "valid" THEN "ready" ELSE "failed")
    /\ UNCHANGED <<cache, temp, litter>>

\* A file that is gone or broken raises.  A token read from a file has a
\* refresh token, so one that is not valid is refreshed.
Read(p) ==
    /\ pc[p] = "checked"
    /\ \/ /\ ~Readable
          /\ Fails(p)
          /\ UNCHANGED token
       \/ /\ Readable
          /\ token' = [token EXCEPT ![p] = cache.token]
          /\ Move(p, IF cache.token = "valid" THEN "ready" ELSE "refreshing")
    /\ UNCHANGED <<cache, temp, litter>>

\* creds.refresh: refused, or without a connection, it raises.
Refresh(p, ok) ==
    /\ pc[p] = "refreshing"
    /\ IF ok THEN /\ token[p] # "revoked"
                  /\ token' = [token EXCEPT ![p] = "valid"]
                  /\ Move(p, "renewed")
             ELSE Fails(p) /\ UNCHANGED token
    /\ UNCHANGED <<cache, temp, litter>>

\* The user consents or does not.
Consent(p, ok) ==
    /\ pc[p] = "asking"
    /\ IF ok THEN /\ token' = [token EXCEPT ![p] = "valid"]
                  /\ Move(p, "renewed")
             ELSE Fails(p) /\ UNCHANGED token
    /\ UNCHANGED <<cache, temp, litter>>

-----------------------------------------------------------------------------
(* _write_token_atomically                                                 *)

\* Fault: the cache itself is opened for writing.
MakeInPlace(p) ==
    /\ pc[p] = "renewed"
    /\ cache' = [token |-> token[p], whole |-> FALSE, private |-> Posix]
    /\ Move(p, "filling")
    /\ UNCHANGED <<temp, litter, token>>

\* mkstemp, and fchmod where there is one.
Make(p) ==
    /\ pc[p] = "renewed"
    /\ temp' = [temp EXCEPT ![p] = [token |-> token[p], whole |-> FALSE,
                                    private |-> Posix]]
    /\ Move(p, "filling")
    /\ UNCHANGED <<cache, litter, token>>

\* write, flush and fsync
Fill(p) ==
    /\ pc[p] = "filling"
    /\ temp' = [temp EXCEPT ![p].whole = TRUE]
    /\ Move(p, "filled")
    /\ UNCHANGED <<cache, litter, token>>

Replace(p) ==
    /\ pc[p] = "filled"
    /\ cache' = temp[p]
    /\ temp' = [temp EXCEPT ![p] = NoFile]
    /\ Move(p, "saved")
    /\ UNCHANGED <<litter, token>>

\* The last _ensure_private_permissions.
Saved(p) ==
    /\ pc[p] = "saved"
    /\ cache' = EnsurePrivate(cache)
    /\ Move(p, "ready")
    /\ UNCHANGED <<temp, litter, token>>

\* Fault: the file is left behind.
WriteFailsUntidily(p) ==
    /\ pc[p] \in Writing /\ Fails(p)
    /\ UNCHANGED <<cache, temp, litter, token>>

\* Fault: the cache is removed with it.
WriteFailsOver(p) ==
    /\ pc[p] \in Writing
    /\ temp' = [temp EXCEPT ![p] = NoFile]
    /\ cache' = NoFile
    /\ Fails(p)
    /\ UNCHANGED <<litter, token>>

\* Any of these steps raises: the temporary file, if any, is removed.
WriteFails(p) ==
    /\ pc[p] \in Writing
    /\ temp' = [temp EXCEPT ![p] = NoFile]
    /\ Fails(p)
    /\ UNCHANGED <<cache, litter, token>>

-----------------------------------------------------------------------------

\* The process dies; nobody looks for its temporary file again.
Crash(p) ==
    /\ pc[p] \notin Ended /\ Move(p, "dead")
    /\ litter' = litter \cup ({temp[p]} \ {NoFile})
    /\ temp' = [temp EXCEPT ![p] = NoFile]
    /\ UNCHANGED <<cache, token>>

Expire ==
    /\ cache # NoFile /\ cache.token = "valid"
    /\ cache' = [cache EXCEPT !.token = "expired"]
    /\ UNCHANGED <<temp, litter, pc, token>>

\* The grant is revoked, or runs out, while no start is using it.
Revoke ==
    /\ cache # NoFile /\ cache.token = "expired"
    /\ \A p \in Procs : pc[p] \in Ended
    /\ cache' = [cache EXCEPT !.token = "revoked"]
    /\ UNCHANGED <<temp, litter, pc, token>>

Delete ==
    /\ cache' = NoFile
    /\ UNCHANGED <<temp, litter, pc, token>>

Step(p) ==
    \/ Protect(p) \/ Read(p) \/ Make(p) \/ Fill(p) \/ Replace(p) \/ Saved(p)
    \/ WriteFails(p)
    \/ \E ok \in BOOLEAN : Refresh(p, ok) \/ Consent(p, ok)

Next ==
    \/ \E p \in Procs : Begin(p) \/ Step(p) \/ Crash(p)
    \/ Expire \/ Revoke \/ Delete

Spec == Init /\ [][Next]_vars

\* Users start servers again and again, and answer when asked.
Fairness == \A p \in Procs : WF_vars(Begin(p)) /\ WF_vars(Step(p))

FairSpec == Spec /\ Fairness

-----------------------------------------------------------------------------

\* Whatever crashes or fails between two operations on the file system, and
\* however many servers renew the token at once, the cache is never part of a
\* token.
CacheWhole == cache # NoFile => cache.whole

\* On POSIX systems nobody but the owner can read a token this version has
\* written, be it in a file a crash has left, nor a cache a token was read from.
OwnerOnly ==
    Posix => /\ \A f \in litter \cup {temp[p] : p \in Procs} : f # NoFile => f.private
             /\ \A p \in Procs : token[p] # "none" /\ cache # NoFile => cache.private

\* A server that is not writing has no temporary file: only crashes leave one.
NoLitter == \A p \in Procs : temp[p] # NoFile => pc[p] \in {"filling", "filled"}

\* No failure and no crash costs the user the token they have consented to:
\* only the user removes the cache.
CacheKept == [][cache # NoFile => cache' # NoFile \/ Delete]_vars

\* What may keep a start from its credentials: a crash, the file system, the
\* connection to Google, a user who does not consent or removes the cache.
Mishap(p) ==
    \/ Crash(p) \/ WriteFails(p) \/ Consent(p, FALSE)
    \/ token[p] # "revoked" /\ Refresh(p, FALSE)

Revoked == cache # NoFile /\ cache.token = "revoked"

\* "Start with --client-oauth-config" helps: of servers that are started so
\* again and again, one has credentials in the end, unless mishaps go on, or
\* the grant in the cache is revoked.
StartHelps ==
    \/ []<>(\E p \in Procs : pc[p] = "ready") \/ <>[]Revoked
    \/ []<><<Delete \/ \E p \in Procs : Mishap(p)>>_vars
=============================================================================
