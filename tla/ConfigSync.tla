----------------------------- MODULE ConfigSync -----------------------------
(***************************************************************************)
(* One configuration file that a configuration server publishes            *)
(* (lib/nacos_floating_value.py) and the decision thread reads through a   *)
(* cache keyed by the modification time (lib/floating_value.py; road_state *)
(* has the same code).                                                     *)
(*                                                                         *)
(* Four parties touch it.  The sync thread polls, logs in again when its   *)
(* token is refused, replaces the file and then resets the two halves of   *)
(* the cache.  The decision thread fills and reads the cache without a     *)
(* lock.  An operator edits the file with the command line tool, a second  *)
(* process that shares the file but not the write lock.  And the process   *)
(* is restarted, which keeps the file only.                                *)
(***************************************************************************)
EXTENDS Naturals

CONSTANTS
    MaxVersion,      \* bound: publications
    Valid,           \* the published versions that pass validation
    MaxExpiries,     \* bound: how often the server forgets a token
    MaxEdits,        \* bound: operator edits
    MaxRestarts      \* bound: restarts of the process

ASSUME BoundsAssumption ==
    /\ MaxVersion \in Nat \ {0} /\ Valid \subseteq 1..MaxVersion
    /\ MaxExpiries \in Nat /\ MaxEdits \in Nat /\ MaxRestarts \in Nat

VARIABLES
    published,       \* the version the server holds; a version is its digest
    token,           \* _access_token: none, good, or stale
    sync,            \* where the sync thread is
    fetched,         \* the version it downloaded
    digest,          \* _remote_md5
    file,            \* the records on disk: the version they came with, and edits
    stamp,           \* the modification time of the file
    cacheStamp,      \* _cache_mtime
    cacheData,       \* _cache_data
    reader,          \* where the decision thread is in _load_floating_value
    mark,            \* the modification time it saw
    loaded,          \* what it read
    editor,          \* what the operator's tool read, or nothing
    trampled,        \* history: the tool wrote an older version over a newer one
    torn,            \* history: a fill fell between the two halves of a reset
    expiries, edits, restarts

syncVars == <<token, sync, fetched, digest>>
fileVars == <<file, stamp, trampled>>
cacheVars == <<cacheStamp, cacheData, torn>>
readerVars == <<reader, mark, loaded>>
bounds == <<expiries, edits, restarts>>
vars == <<published, syncVars, fileVars, cacheVars, readerVars, editor, bounds>>

\* No digest, no modification time.
None == 0

Records == [version : 0..MaxVersion, edit : 0..MaxEdits]

\* _cache_data = []
Empty == [version |-> 0, edit |-> 0]

\* The file the program was delivered with.
Delivered == [version |-> 1, edit |-> 0]

Init ==
    /\ published = 1
    /\ token = "none" /\ sync = "wait" /\ fetched = None /\ digest = None
    /\ file = Delivered /\ stamp = 1 /\ trampled = FALSE
    /\ cacheStamp = None /\ cacheData = Empty /\ torn = FALSE
    /\ reader = "idle" /\ mark = None /\ loaded = Empty
    /\ editor = Empty
    /\ expiries = 0 /\ edits = 0 /\ restarts = 0

-----------------------------------------------------------------------------
(* The server and the network.                                             *)

Publish ==
    /\ published < MaxVersion
    /\ published' = published + 1
    /\ UNCHANGED <<syncVars, fileVars, cacheVars, readerVars, editor, bounds>>

Expire ==
    /\ token = "good" /\ expiries < MaxExpiries
    /\ token' = "stale"
    /\ expiries' = expiries + 1
    /\ UNCHANGED <<published, sync, fetched, digest, fileVars, cacheVars, readerVars, editor, edits, restarts>>

-----------------------------------------------------------------------------
(* The sync thread: _run around sync_once.  Every exception ends the round *)
(* and the next one starts after the poll interval.                        *)

SyncOnly == UNCHANGED <<published, fileVars, cacheVars, readerVars, editor, bounds>>

Poll ==
    /\ sync = "wait"
    /\ sync' = IF token = "none" THEN "login" ELSE "get"
    /\ UNCHANGED <<token, fetched, digest>> /\ SyncOnly

\* After a refused request the login is followed by one more request.
Login ==
    /\ sync \in {"login", "relogin"}
    /\ token' = "good"
    /\ sync' = IF sync = "login" THEN "get" ELSE "get_again"
    /\ UNCHANGED <<fetched, digest>> /\ SyncOnly

\* No answer, an answer that is no configuration, or an error code.
RequestFails ==
    /\ sync \in {"login", "relogin", "get", "get_again"}
    /\ sync' = "wait"
    /\ UNCHANGED <<token, fetched, digest>> /\ SyncOnly

\* Mutant: the error is left to the next round, which has the same token.
RefusedNoLogin ==
    /\ token = "stale" /\ sync \in {"get", "get_again"}
    /\ sync' = "wait"
    /\ UNCHANGED <<token, fetched, digest>> /\ SyncOnly

\* 401 or 403, as a status or in the body.
Refused ==
    /\ token = "stale" /\ sync \in {"get", "get_again"}
    /\ IF sync = "get" THEN token' = "none" /\ sync' = "relogin"
                       ELSE sync' = "wait" /\ UNCHANGED token
    /\ UNCHANGED <<fetched, digest>> /\ SyncOnly

\* Mutant: the digest is remembered with the download.
FetchRecording ==
    /\ token = "good" /\ sync \in {"get", "get_again"}
    /\ fetched' = published /\ digest' = published
    /\ sync' = IF published # digest /\ published \in Valid THEN "replace" ELSE "wait"
    /\ UNCHANGED token /\ SyncOnly

\* What is known already or does not pass validation is dropped.
Fetch ==
    /\ token = "good" /\ sync \in {"get", "get_again"}
    /\ fetched' = published
    /\ sync' = IF published # digest /\ published \in Valid THEN "replace" ELSE "wait"
    /\ UNCHANGED <<token, digest>> /\ SyncOnly

\* _save_floating_value: os.replace, then the two assignments.
Replace ==
    /\ sync = "replace"
    /\ file' = [version |-> fetched, edit |-> 0] /\ stamp' = stamp + 1 /\ trampled' = FALSE
    /\ sync' = "reset_stamp"
    /\ UNCHANGED <<published, token, fetched, digest, cacheVars, readerVars, editor, bounds>>

\* The temporary file cannot be written.
ReplaceFails ==
    /\ sync = "replace"
    /\ sync' = "wait"
    /\ UNCHANGED <<token, fetched, digest>> /\ SyncOnly

ResetStamp ==
    /\ sync = "reset_stamp"
    /\ cacheStamp' = None
    /\ sync' = "reset_data"
    /\ UNCHANGED <<published, token, fetched, digest, fileVars, cacheData, torn, readerVars, editor, bounds>>

ResetData ==
    /\ sync = "reset_data"
    /\ cacheData' = Empty /\ torn' = (cacheStamp # None)
    /\ sync' = "record"
    /\ UNCHANGED <<published, token, fetched, digest, fileVars, cacheStamp, readerVars, editor, bounds>>

Record ==
    /\ sync = "record"
    /\ digest' = fetched
    /\ sync' = "wait"
    /\ UNCHANGED <<token, fetched>> /\ SyncOnly

-----------------------------------------------------------------------------
(* The decision thread: _load_floating_value.                              *)

ReaderOnly == UNCHANGED <<published, syncVars, fileVars, editor, bounds>>

Stat ==
    /\ reader = "idle"
    /\ mark' = stamp
    /\ reader' = IF cacheStamp = stamp THEN "return" ELSE "load"
    /\ UNCHANGED loaded /\ UNCHANGED cacheVars /\ ReaderOnly

Load ==
    /\ reader = "load"
    /\ loaded' = file
    /\ reader' = "set_stamp"
    /\ UNCHANGED mark /\ UNCHANGED cacheVars /\ ReaderOnly

\* Mutant: the modification time is taken when the cache is filled.
SetStampLate ==
    /\ reader = "set_stamp"
    /\ cacheStamp' = stamp
    /\ reader' = "set_data"
    /\ UNCHANGED <<mark, loaded, cacheData, torn>> /\ ReaderOnly

SetStamp ==
    /\ reader = "set_stamp"
    /\ cacheStamp' = mark
    /\ reader' = "set_data"
    /\ UNCHANGED <<mark, loaded, cacheData, torn>> /\ ReaderOnly

SetData ==
    /\ reader = "set_data"
    /\ cacheData' = loaded /\ torn' = FALSE
    /\ reader' = "return"
    /\ UNCHANGED <<mark, loaded, cacheStamp>> /\ ReaderOnly

\* It is the cache that is returned, whatever is in it by now.
Return ==
    /\ reader = "return"
    /\ reader' = "idle"
    /\ UNCHANGED <<mark, loaded>> /\ UNCHANGED cacheVars /\ ReaderOnly

-----------------------------------------------------------------------------
(* The operator's tool, and a restart.                                     *)

\* update_floating_value reads the file, changes a record and replaces the
\* file, under a lock of its own process.
EditReads ==
    /\ editor = Empty /\ edits < MaxEdits
    /\ editor' = [file EXCEPT !.edit = edits + 1]
    /\ edits' = edits + 1
    /\ UNCHANGED <<published, syncVars, fileVars, cacheVars, readerVars, expiries, restarts>>

EditWrites ==
    /\ editor # Empty
    /\ trampled' = (trampled \/ editor.version # file.version)
    /\ file' = editor /\ stamp' = stamp + 1
    /\ editor' = Empty
    /\ UNCHANGED <<published, syncVars, cacheVars, readerVars, bounds>>

Restart ==
    /\ restarts < MaxRestarts
    /\ restarts' = restarts + 1
    /\ token' = "none" /\ sync' = "wait" /\ fetched' = None /\ digest' = None
    /\ cacheStamp' = None /\ cacheData' = Empty /\ torn' = FALSE
    /\ reader' = "idle" /\ mark' = None /\ loaded' = Empty
    /\ UNCHANGED <<published, fileVars, editor, expiries, edits>>

-----------------------------------------------------------------------------

Sync ==
    \/ Poll \/ Login \/ RequestFails \/ Refused \/ Fetch
    \/ Replace \/ ReplaceFails \/ ResetStamp \/ ResetData \/ Record

Read == Stat \/ Load \/ SetStamp \/ SetData \/ Return

Next == Publish \/ Expire \/ Sync \/ Read \/ EditReads \/ EditWrites \/ Restart

\* The threads run.  Of the server and the disk it is assumed that they do
\* not fail for ever: a login, a request and a replacement that are tried
\* again and again are answered at last.
Fairness ==
    /\ WF_vars(Sync) /\ WF_vars(Read) /\ WF_vars(EditWrites)
    /\ SF_vars(Login) /\ SF_vars(Refused \/ Fetch) /\ SF_vars(Replace)

Spec == Init /\ [][Next]_vars /\ Fairness

-----------------------------------------------------------------------------
(* Properties.                                                             *)

TypeOK ==
    /\ published \in 1..MaxVersion
    /\ token \in {"none", "good", "stale"}
    /\ sync \in {"wait", "login", "relogin", "get", "get_again", "replace", "reset_stamp",
                 "reset_data", "record"}
    /\ fetched \in 0..MaxVersion /\ digest \in Valid \cup {None}
    /\ file \in Records /\ stamp \in Nat \ {0} /\ trampled \in BOOLEAN
    /\ cacheStamp \in Nat /\ cacheData \in Records /\ torn \in BOOLEAN
    /\ reader \in {"idle", "load", "set_stamp", "set_data", "return"}
    /\ mark \in Nat /\ loaded \in Records
    /\ editor \in Records
    /\ expiries \in 0..MaxExpiries /\ edits \in 0..MaxEdits /\ restarts \in 0..MaxRestarts

\* Safety: a cache whose time is that of the file holds the file, although
\* the file is replaced, by two processes, between any two steps of a fill,
\* and no lock joins the two halves.  The one exception the code has is a
\* whole fill between the two halves of a reset: it leaves the empty
\* configuration under the current time, until the next fill.
CacheIsTheFile ==
    cacheStamp = stamp /\ reader # "set_data" =>
        \/ cacheData = file /\ ~torn
        \/ cacheData = Empty /\ torn

\* Liveness: what was published last, if it is valid, gets to the file,
\* through expired tokens, failed requests, disk errors and restarts; unless
\* the operator's tool had read the file before and wrote it back after.
LatestArrives ==
    <>[](published \in Valid => file.version = published \/ trampled)
=============================================================================
