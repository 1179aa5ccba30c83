-------------------------- MODULE ExperienceRelease --------------------------
(***************************************************************************)
(* The experience table the selectors read, and who replaces it: the daily *)
(* job of the server (lib/data_ANS/experience_runtime.py) merges the       *)
(* samples of one source date into the experience pool, blends them into   *)
(* the table and releases the result; the operator's command               *)
(* (lib/data_ANS/experience_release.py) bootstraps, merges or rolls back.  *)
(*                                                                         *)
(* Every file is replaced atomically, but a release writes several, and    *)
(* the two writers hold no common lock.  Either may be abandoned between   *)
(* two writes: the process dies, or a write or a validation raises.        *)
(***************************************************************************)
EXTENDS Naturals

CONSTANTS Days,         \* source dates
          Candidates,   \* tables an operator may release
          Deployed,     \* the table the program is deployed with
          Absent,       \* there is no such file
          None,         \* no manifest was written yet
          MaxReleases   \* bound on the release ids given out

ASSUME SeedsAssumption == Deployed \notin Candidates
ASSUME ReleasesAssumption == MaxReleases \in Nat

Writers == {"job", "operator"}
Other(w) == IF w = "job" THEN "operator" ELSE "job"

\* A table is the one it started from and how often each day was blended in.
Table == [seed : Candidates \cup {Deployed}, days : [Days -> Nat]]

ASSUME AbsentAssumption == Absent \notin Table /\ None \notin [release : Nat, active : Table]

VARIABLES
    pool,      \* days whose samples are in the pool file, marked as processed
    runtime,   \* the table file the selectors read
    manifest,  \* the manifest of the active release
    backups,   \* the rollback file of each release id
    reports,   \* the run manifest of each day
    releases,  \* number of release ids given out
    work,      \* the call each writer is in: its step and its locals
    before,    \* history: the table each release replaced
    owed,      \* history: days whose blend changed a table not yet installed
    overlap    \* history: did the job and the operator ever run at once?

files == <<pool, runtime, manifest, backups, reports>>
history == <<before, owed, overlap>>
vars == <<files, releases, work, history>>

Ids == 1..MaxReleases
Steps == {"idle", "merging", "activating", "backup", "install", "restore", "announce", "report"}

Idle == [step |-> "idle", day |-> Absent, table |-> Absent, active |-> Absent, release |-> 0]

TypeOK ==
    /\ pool \subseteq Days /\ owed \subseteq Days /\ overlap \in BOOLEAN
    /\ runtime \in Table \cup {Absent}
    /\ manifest \in [release : Ids, active : Table] \cup {None}
    /\ backups \in [Ids -> Table \cup {Absent}] /\ before \in [Ids -> Table \cup {Absent}]
    /\ reports \in [Days -> {"none", "skipped", "updated", "unchanged"}]
    /\ releases \in 0..MaxReleases
    /\ work \in [Writers -> [step : Steps, day : Days \cup {Absent}, table : Table \cup {Absent},
                             active : Table \cup {Absent}, release : 0..MaxReleases]]

Fresh(seed) == [seed |-> seed, days |-> [d \in Days |-> 0]]

Init ==
    /\ runtime \in {Absent, Fresh(Deployed)}
    /\ pool = {} /\ manifest = None /\ releases = 0
    /\ backups = [i \in Ids |-> Absent] /\ before = [i \in Ids |-> Absent]
    /\ reports = [d \in Days |-> "none"]
    /\ work = [w \in Writers |-> Idle]
    /\ owed = {} /\ overlap = FALSE

\* The locals of writer w; "at" is the step that follows.
Goes(w, at, locals) == work' = [work EXCEPT ![w] = [locals EXCEPT !.step = at]]

\* No lock keeps one writer out while the other runs.
Starts(w, at, locals) ==
    /\ work[w].step = "idle"
    /\ Goes(w, at, locals)
    /\ overlap' = (overlap \/ work[Other(w)].step # "idle")
    /\ UNCHANGED <<files, before, owed>>

-----------------------------------------------------------------------------
(* run_experience_pool_day: a day without a terminal report is processed.  *)

\* Missing logs, no usable table, an unconfigured crossing or no qualified
\* sample: the report is terminal, the pool is left alone.
SkipDay(d) ==
    /\ work["job"].step = "idle" /\ reports[d] = "none"
    /\ reports' = [reports EXCEPT ![d] = "skipped"]
    /\ UNCHANGED <<pool, runtime, manifest, backups, releases, work, history>>

\* run_daily_pool_update loads the pool and, as the base of the blend, the
\* runtime table.
StartDay(d) ==
    /\ reports[d] = "none" /\ runtime # Absent
    /\ Starts("job", "merging", [Idle EXCEPT !.day = d, !.table = runtime])
    /\ UNCHANGED releases

Blended(table, d) == [table EXCEPT !.days[d] = @ + 1]

\* Mutant: the date is not recorded in the state saved with the pool.
CommitPoolUnmarked ==
    LET job == work["job"]
    IN  /\ job.step = "merging"
        /\ \/ /\ job.day \notin pool
              /\ owed' = owed \cup {job.day}
              /\ Goes("job", "activating", [job EXCEPT !.table = Blended(@, job.day)])
           \/ /\ Goes("job", "report", job)
              /\ UNCHANGED owed
        /\ UNCHANGED <<files, releases, before, overlap>>

\* The pool is saved with the date marked as processed, before the table it
\* led to is released.  A day that is marked already is not blended again, and
\* a blend below the sample threshold, or rounded away, changes nothing.
CommitPool ==
    LET job == work["job"]
    IN  /\ job.step = "merging"
        /\ pool' = pool \cup {job.day}
        /\ \/ /\ job.day \notin pool
              /\ owed' = owed \cup {job.day}
              /\ Goes("job", "activating", [job EXCEPT !.table = Blended(@, job.day)])
           \/ /\ Goes("job", "report", job)
              /\ UNCHANGED owed
        /\ UNCHANGED <<runtime, manifest, backups, reports, releases, before, overlap>>

\* The run manifest closes the day.
ReportDay ==
    LET job == work["job"]
    IN  /\ job.step = "report"
        /\ reports' = [reports EXCEPT ![job.day] = IF job.release = 0 THEN "unchanged" ELSE "updated"]
        /\ Goes("job", "idle", Idle)
        /\ UNCHANGED <<pool, runtime, manifest, backups, releases, history>>

-----------------------------------------------------------------------------
(* The operator's commands.                                                *)

\* release_bootstrap_experience_table: the candidate replaces everything.
StartBootstrap(c) ==
    /\ Starts("operator", "activating", [Idle EXCEPT !.table = Fresh(c)])
    /\ UNCHANGED releases

\* release_experience_table: the candidate is merged into the table read at
\* the start.  It is released even when that changes nothing.
StartMerge(c) ==
    /\ releases < MaxReleases
    /\ releases' = releases + 1
    /\ Starts("operator", "backup",
            [Idle EXCEPT !.table = IF runtime = Absent THEN Fresh(c) ELSE [runtime EXCEPT !.seed = c],
                         !.active = runtime, !.release = releases + 1])

\* rollback_experience_table: refused without a manifest and a rollback file.
StartRollback ==
    /\ manifest # None /\ backups[manifest.release] # Absent
    /\ Starts("operator", "restore",
            [Idle EXCEPT !.table = backups[manifest.release], !.release = manifest.release])
    /\ UNCHANGED releases

Restore ==
    /\ work["operator"].step = "restore"
    /\ runtime' = work["operator"].table
    /\ Goes("operator", "announce", work["operator"])
    /\ UNCHANGED <<pool, manifest, backups, reports, releases, history>>

-----------------------------------------------------------------------------
(* The steps of a release, whoever runs it.                                *)

AfterRelease(w) == IF w = "job" THEN "report" ELSE "idle"

\* activate_validated_experience_table: a table equal to the active one is not
\* released; otherwise a release id is drawn and the active table kept at hand.
Activate(w) ==
    /\ work[w].step = "activating"
    /\ \/ /\ work[w].table = runtime
          /\ Goes(w, AfterRelease(w), IF w = "job" THEN work[w] ELSE Idle)
          /\ UNCHANGED releases
       \/ /\ work[w].table # runtime /\ releases < MaxReleases
          /\ releases' = releases + 1
          /\ Goes(w, "backup", [work[w] EXCEPT !.active = runtime, !.release = releases + 1])
    /\ UNCHANGED <<files, history>>

\* Mutant: the new table is saved where the old one belongs.
BackupNew(w) ==
    /\ work[w].step = "backup"
    /\ backups' = [backups EXCEPT ![work[w].release] = work[w].table]
    /\ Goes(w, "install", work[w])
    /\ UNCHANGED <<pool, runtime, manifest, reports, releases, history>>

\* The rollback file, unless there was no table; then the version file, which
\* the program never reads.
Backup(w) ==
    /\ work[w].step = "backup"
    /\ backups' = [backups EXCEPT ![work[w].release] = work[w].active]
    /\ Goes(w, "install", work[w])
    /\ UNCHANGED <<pool, runtime, manifest, reports, releases, history>>

\* The table file is replaced; from here on the selectors read the new one.
Install(w) ==
    /\ work[w].step = "install"
    /\ runtime' = work[w].table
    /\ before' = [before EXCEPT ![work[w].release] = runtime]
    /\ owed' = owed \ {work[w].day}
    /\ Goes(w, "announce", work[w])
    /\ UNCHANGED <<pool, manifest, backups, reports, releases, overlap>>

\* Mutant: the manifest loses the release it was written for.
AnnounceAnonymous(w) ==
    /\ work[w].step = "announce"
    /\ manifest' = [release |-> 0, active |-> work[w].table]
    /\ Goes(w, AfterRelease(w), IF w = "job" THEN work[w] ELSE Idle)
    /\ UNCHANGED <<pool, runtime, backups, reports, releases, history>>

Announce(w) ==
    /\ work[w].step = "announce"
    /\ manifest' = [release |-> work[w].release, active |-> work[w].table]
    /\ Goes(w, AfterRelease(w), IF w = "job" THEN work[w] ELSE Idle)
    /\ UNCHANGED <<pool, runtime, backups, reports, releases, history>>

\* The process dies or an exception ends the call: the files stay as they are.
\* The job logs the exception and goes on; a restart finds the same files.
Abandon(w) ==
    /\ work[w].step # "idle"
    /\ Goes(w, "idle", Idle)
    /\ UNCHANGED <<files, releases, history>>

-----------------------------------------------------------------------------

Job == CommitPool \/ ReportDay \/ \E d \in Days : SkipDay(d) \/ StartDay(d)

Operator == StartRollback \/ Restore \/ \E c \in Candidates : StartBootstrap(c) \/ StartMerge(c)

Release(w) == Activate(w) \/ Backup(w) \/ Install(w) \/ Announce(w) \/ Abandon(w)

Next == Job \/ Operator \/ \E w \in Writers : Release(w)

Spec == Init /\ [][Next]_vars

-----------------------------------------------------------------------------
(* Properties.                                                             *)

Tables ==
    ({runtime} \cup {backups[i] : i \in Ids} \cup {work[w].table : w \in Writers}) \ {Absent}

\* No table, live, kept for a rollback or about to be installed, holds a day
\* twice, whatever was abandoned, repeated, rolled back or overwritten.
NoDayTwice == \A t \in Tables : \A d \in Days : t.days[d] <= 1

\* The pool runs ahead of everything derived from it: a day found in a table,
\* or reported as processed, is marked in the pool.
PoolRunsAhead ==
    /\ \A t \in Tables : \A d \in Days : t.days[d] > 0 => d \in pool
    /\ \A d \in Days : reports[d] \in {"updated", "unchanged"} => d \in pool

\* Rolling back the announced release restores the very table it replaced,
\* provided the job and the operator never ran at once.
RollbackRestoresPredecessor ==
    (~overlap /\ manifest # None) =>
        backups[manifest.release] = before[manifest.release]

\* "Process one source date exactly once and conditionally release": a day
\* reported as processed, whose blend changed the table, was installed.
ProcessedExactlyOnce ==
    \A d \in Days : reports[d] \in {"updated", "unchanged"} => d \notin owed
=============================================================================
