----------------------- MODULE ExperienceReleaseProofs -----------------------
(***************************************************************************)
(* Why no table ever holds a day twice: every table anyone holds or has    *)
(* stored is sound with respect to the pool, and a day is blended in only  *)
(* when the pool did not have it, in the very step that marks it.          *)
(***************************************************************************)
EXTENDS ExperienceRelease, TLAPS

\* A table counts each day at most once, and only days the pool has.
Sound(t, marked) ==
    t # Absent => \A d \in Days : t.days[d] <= 1 /\ (t.days[d] > 0 => d \in marked)

\* A sound table stays sound while the pool grows.
LEMMA SoundGrows ==
    ASSUME NEW t, NEW marked, NEW more, marked \subseteq more, Sound(t, marked)
    PROVE  Sound(t, more)
BY DEF Sound

\* Blending a day the pool does not have makes a table that is sound once the
\* pool is marked.
LEMMA BlendedIsSound ==
    ASSUME NEW t \in Table, NEW marked, NEW d \in Days, d \notin marked, Sound(t, marked)
    PROVE  /\ Blended(t, d) \in Table
           /\ Sound(Blended(t, d), marked \cup {d})
<1>1. t # Absent
  BY AbsentAssumption
<1>2. t.days \in [Days -> Nat] /\ t.seed \in Candidates \cup {Deployed}
  BY DEF Table
<1>3. Blended(t, d) = [seed |-> t.seed, days |-> [t.days EXCEPT ![d] = t.days[d] + 1]]
  BY DEF Blended, Table
<1>4. t.days[d] = 0
  BY <1>1, <1>2 DEF Sound
<1>5. \A e \in Days : Blended(t, d).days[e] = IF e = d THEN 1 ELSE t.days[e]
  BY <1>2, <1>3, <1>4
<1>6. Blended(t, d) \in Table
  BY <1>2, <1>3, <1>4 DEF Table
<1> QED
  BY <1>1, <1>5, <1>6 DEF Sound

\* A table without a blended day is sound under any pool, and so is a merge
\* into a sound table.
LEMMA SeedsAreSound ==
    ASSUME NEW seed \in Candidates \cup {Deployed}, NEW marked
    PROVE  /\ Fresh(seed) \in Table /\ Sound(Fresh(seed), marked)
           /\ \A t \in Table : Sound(t, marked) =>
                 [t EXCEPT !.seed = seed] \in Table /\ Sound([t EXCEPT !.seed = seed], marked)
<1>1. Fresh(seed) \in Table /\ Sound(Fresh(seed), marked)
  BY DEF Fresh, Table, Sound
<1>2. ASSUME NEW t \in Table, Sound(t, marked)
      PROVE  [t EXCEPT !.seed = seed] \in Table /\ Sound([t EXCEPT !.seed = seed], marked)
  BY <1>2, AbsentAssumption DEF Table, Sound
<1> QED
  BY <1>1, <1>2

Writing == {"activating", "backup", "install", "restore", "announce"}
Numbered == {"backup", "install", "restore", "announce"}

\* What the locals of a call hold at each of its steps.
WorkInvariant ==
    /\ \A w \in Writers :
          /\ work[w].step \in Writing => work[w].table # Absent
          /\ work[w].step \in Numbered => work[w].release \in Ids
    /\ work["operator"].step \notin {"merging", "report"}
    /\ work["job"].step = "merging" => work["job"].day \in Days /\ work["job"].table # Absent
    /\ work["job"].step \notin {"idle", "merging"} => work["job"].day \in pool

SoundTables ==
    /\ Sound(runtime, pool)
    /\ \A i \in Ids : Sound(backups[i], pool)
    /\ \A w \in Writers : Sound(work[w].table, pool) /\ Sound(work[w].active, pool)

ReportedDaysArePooled ==
    \A d \in Days : reports[d] \in {"updated", "unchanged"} => d \in pool

Invariant == TypeOK /\ WorkInvariant /\ SoundTables /\ ReportedDaysArePooled

-----------------------------------------------------------------------------
(* How a call's locals change.                                             *)

Locals == [step : Steps, day : Days \cup {Absent}, table : Table \cup {Absent},
           active : Table \cup {Absent}, release : 0..MaxReleases]

LEMMA IdleIsLocals == Idle \in Locals /\ Idle.step = "idle"
  BY ReleasesAssumption DEF Idle, Locals, Steps

\* A step of one call sets its step, leaves its other locals as given and the
\* other call alone.
LEMMA Moves ==
    ASSUME TypeOK, NEW w \in Writers, NEW at \in Steps, NEW l \in Locals, Goes(w, at, l)
    PROVE  /\ work' \in [Writers -> Locals]
           /\ work'[w].step = at
           /\ work'[w].day = l.day /\ work'[w].table = l.table
           /\ work'[w].active = l.active /\ work'[w].release = l.release
           /\ \A v \in Writers : v # w => work'[v] = work[v]
  <1>1. work \in [Writers -> Locals]
    BY DEF TypeOK, Locals
  <1>2. /\ [l EXCEPT !.step = at] \in Locals
        /\ [l EXCEPT !.step = at].step = at
        /\ [l EXCEPT !.step = at].day = l.day /\ [l EXCEPT !.step = at].table = l.table
        /\ [l EXCEPT !.step = at].active = l.active /\ [l EXCEPT !.step = at].release = l.release
    BY DEF Locals
  <1>3. work' = [work EXCEPT ![w] = [l EXCEPT !.step = at]]
    BY DEF Goes
  <1> HIDE DEF Locals
  <1> QED BY <1>1, <1>2, <1>3

\* A call that ends, or moves on with the locals it has, disturbs nothing the
\* invariant says of the locals' tables.
LEMMA Ends ==
    ASSUME Invariant, NEW w \in Writers, Goes(w, "idle", Idle),
           UNCHANGED <<runtime, manifest, backups, releases, before, overlap>>,
           pool' = pool, owed' \subseteq Days,
           reports' \in [Days -> {"none", "skipped", "updated", "unchanged"}],
           ReportedDaysArePooled'
    PROVE  Invariant'
  <1>1. /\ work' \in [Writers -> Locals]
        /\ work'[w].step = "idle" /\ work'[w].table = Absent /\ work'[w].active = Absent
        /\ \A v \in Writers : v # w => work'[v] = work[v]
    <2>1. "idle" \in Steps /\ Idle \in Locals
      BY IdleIsLocals DEF Steps
    <2> QED BY <2>1, Moves DEF Invariant, Idle
  <1>2. TypeOK'
    BY <1>1 DEF Invariant, TypeOK, Locals
  <1>3. WorkInvariant'
    BY <1>1 DEF Invariant, WorkInvariant, Writers, Writing, Numbered
  <1>4. SoundTables'
    BY <1>1 DEF Invariant, SoundTables, Sound
  <1> QED BY <1>2, <1>3, <1>4 DEF Invariant

-----------------------------------------------------------------------------
(* The daily job.                                                          *)

LEMMA SkipDayStep == ASSUME Invariant, NEW d \in Days, SkipDay(d) PROVE Invariant'
  <1>1. TypeOK'
    BY DEF SkipDay, Invariant, TypeOK, history
  <1>2. WorkInvariant' /\ SoundTables'
    BY DEF SkipDay, Invariant, WorkInvariant, SoundTables, Sound, history
  <1>3. ReportedDaysArePooled'
    BY DEF SkipDay, Invariant, TypeOK, ReportedDaysArePooled, history
  <1> QED BY <1>1, <1>2, <1>3 DEF Invariant

LEMMA StartDayStep == ASSUME Invariant, NEW d \in Days, StartDay(d) PROVE Invariant'
  <1> DEFINE l == [Idle EXCEPT !.day = d, !.table = runtime]
  <1>1. l \in Locals /\ l.day = d /\ l.table = runtime /\ l.active = Absent
    BY IdleIsLocals DEF Idle, Locals, Invariant, TypeOK
  <1>2. /\ work' \in [Writers -> Locals]
        /\ work'["job"].step = "merging" /\ work'["job"].day = d
        /\ work'["job"].table = runtime /\ work'["job"].active = Absent
        /\ work'["operator"] = work["operator"]
    <2>1. Goes("job", "merging", l) /\ "job" \in Writers /\ "operator" \in Writers /\ "merging" \in Steps
      BY DEF StartDay, Starts, Writers, Steps
    <2> HIDE DEF l
    <2> QED BY <1>1, <2>1, Moves DEF Invariant
  <1>3. /\ UNCHANGED <<pool, runtime, manifest, backups, reports, releases, before, owed>>
        /\ runtime # Absent /\ overlap' \in BOOLEAN
    BY DEF StartDay, Starts, files, Invariant, TypeOK
  <1>4. TypeOK'
    BY <1>2, <1>3 DEF Invariant, TypeOK, Locals
  <1>5. WorkInvariant'
    BY <1>2, <1>3 DEF Invariant, WorkInvariant, Writers, Writing, Numbered
  <1>6. SoundTables'
    BY <1>2, <1>3 DEF Invariant, SoundTables, Sound, Writers
  <1>7. ReportedDaysArePooled'
    BY <1>3 DEF Invariant, ReportedDaysArePooled
  <1> QED BY <1>4, <1>5, <1>6, <1>7 DEF Invariant

LEMMA CommitPoolStep == ASSUME Invariant, CommitPool PROVE Invariant'
  <1> DEFINE job == work["job"]
  <1>1. /\ job \in Locals /\ job.step = "merging" /\ job.day \in Days /\ job.table \in Table
        /\ "job" \in Writers /\ "operator" \in Writers
        /\ "activating" \in Steps /\ "report" \in Steps
    BY DEF CommitPool, Invariant, WorkInvariant, TypeOK, Locals, Writers, Steps
  <1>2. /\ pool' = pool \cup {job.day}
        /\ UNCHANGED <<runtime, manifest, backups, reports, releases, before, overlap>>
        /\ owed' \subseteq Days
    BY <1>1 DEF CommitPool, Invariant, TypeOK
  <1>3. /\ work' \in [Writers -> Locals]
        /\ work'["job"].step \in {"activating", "report"}
        /\ work'["job"].day = job.day /\ work'["job"].active = job.active
        /\ work'["job"].table \in Table /\ Sound(work'["job"].table, pool')
        /\ work'["operator"] = work["operator"]
    <2>1. CASE job.day \notin pool /\ Goes("job", "activating", [job EXCEPT !.table = Blended(@, job.day)])
      <3> DEFINE l == [job EXCEPT !.table = Blended(@, job.day)]
      <3>1. Blended(job.table, job.day) \in Table /\ Sound(Blended(job.table, job.day), pool')
        BY <1>1, <1>2, <2>1, BlendedIsSound DEF Invariant, SoundTables
      <3>2. l \in Locals /\ l.day = job.day /\ l.active = job.active /\ l.table = Blended(job.table, job.day)
        BY <1>1, <3>1 DEF Locals
      <3>3. Goes("job", "activating", l)
        BY <2>1
      <3> HIDE DEF l, job
      <3> QED BY <1>1, <3>1, <3>2, <3>3, Moves DEF Invariant, Writers
    <2>2. CASE Goes("job", "report", job)
      <3>1. Sound(job.table, pool')
        BY <1>1, <1>2, SoundGrows DEF Invariant, SoundTables
      <3> HIDE DEF job
      <3> QED BY <1>1, <2>2, <3>1, Moves DEF Invariant, Writers
    <2> QED BY <2>1, <2>2 DEF CommitPool
  <1>4. TypeOK'
    BY <1>1, <1>2, <1>3 DEF Invariant, TypeOK, Locals
  <1>5. WorkInvariant'
    <2>1. work'["job"].table # Absent
      BY <1>3, AbsentAssumption
    <2> QED BY <1>1, <1>2, <1>3, <2>1 DEF Invariant, WorkInvariant, Writers, Writing, Numbered
  <1>6. SoundTables'
    <2>1. \A t : Sound(t, pool) => Sound(t, pool')
      BY <1>2, SoundGrows
    <2> QED BY <1>1, <1>2, <1>3, <2>1 DEF Invariant, SoundTables, Writers
  <1>7. ReportedDaysArePooled'
    BY <1>2 DEF Invariant, ReportedDaysArePooled
  <1> QED BY <1>4, <1>5, <1>6, <1>7 DEF Invariant

LEMMA ReportDayStep == ASSUME Invariant, ReportDay PROVE Invariant'
  <1>1. /\ work["job"].day \in pool /\ pool \subseteq Days
        /\ reports' = [reports EXCEPT ![work["job"].day] =
                          IF work["job"].release = 0 THEN "unchanged" ELSE "updated"]
        /\ Goes("job", "idle", Idle) /\ "job" \in Writers
        /\ UNCHANGED <<pool, runtime, manifest, backups, releases, before, owed, overlap>>
    BY DEF ReportDay, Invariant, TypeOK, WorkInvariant, Writers, history
  <1>2. /\ reports' \in [Days -> {"none", "skipped", "updated", "unchanged"}]
        /\ ReportedDaysArePooled'
    BY <1>1 DEF Invariant, TypeOK, ReportedDaysArePooled
  <1>3. owed' \subseteq Days
    BY <1>1 DEF Invariant, TypeOK
  <1> QED BY <1>1, <1>2, <1>3, Ends

-----------------------------------------------------------------------------
(* The operator's commands and the steps of a release: they leave the pool *)
(* and the reports alone.                                                  *)

\* A call that goes on with sound locals keeps the invariant when the files
\* it writes are sound.
LEMMA Proceeds ==
    ASSUME Invariant, NEW w \in Writers, NEW at \in Steps, NEW l \in Locals, Goes(w, at, l),
           UNCHANGED <<pool, reports>>, owed' \subseteq Days, overlap' \in BOOLEAN,
           releases' \in 0..MaxReleases,
           runtime' \in Table \cup {Absent}, Sound(runtime', pool),
           manifest' \in [release : Ids, active : Table] \cup {None},
           backups' \in [Ids -> Table \cup {Absent}], \A i \in Ids : Sound(backups'[i], pool),
           before' \in [Ids -> Table \cup {Absent}],
           Sound(l.table, pool), Sound(l.active, pool),
           at \in Writing => l.table # Absent,
           at \in Numbered => l.release \in Ids,
           w = "operator" => at \notin {"merging", "report"},
           w = "job" => at # "merging" /\ (at # "idle" => l.day \in pool)
    PROVE  Invariant'
  <1>1. /\ work' \in [Writers -> Locals]
        /\ work'[w].step = at
        /\ work'[w].day = l.day /\ work'[w].table = l.table
        /\ work'[w].active = l.active /\ work'[w].release = l.release
        /\ \A v \in Writers : v # w => work'[v] = work[v]
    BY Moves DEF Invariant
  <1>2. TypeOK'
    BY <1>1 DEF Invariant, TypeOK, Locals
  <1>3. WorkInvariant'
    BY <1>1 DEF Invariant, WorkInvariant, Writers
  <1>4. SoundTables'
    BY <1>1 DEF Invariant, SoundTables
  <1>5. ReportedDaysArePooled'
    BY DEF Invariant, ReportedDaysArePooled
  <1> QED BY <1>2, <1>3, <1>4, <1>5 DEF Invariant

\* What Proceeds asks of the files, for the steps that leave them alone.
LEMMA FilesAreSound ==
    ASSUME Invariant
    PROVE  /\ owed \subseteq Days /\ overlap \in BOOLEAN /\ releases \in 0..MaxReleases
           /\ runtime \in Table \cup {Absent} /\ Sound(runtime, pool)
           /\ manifest \in [release : Ids, active : Table] \cup {None}
           /\ backups \in [Ids -> Table \cup {Absent}] /\ \A i \in Ids : Sound(backups[i], pool)
           /\ before \in [Ids -> Table \cup {Absent}]
           /\ work \in [Writers -> Locals]
           /\ \A w \in Writers : Sound(work[w].table, pool) /\ Sound(work[w].active, pool)
           /\ Sound(Absent, pool)
  BY DEF Invariant, TypeOK, SoundTables, Locals, Sound

LEMMA StartBootstrapStep ==
    ASSUME Invariant, NEW c \in Candidates, StartBootstrap(c) PROVE Invariant'
  <1> DEFINE l == [Idle EXCEPT !.table = Fresh(c)]
  <1>1. Fresh(c) \in Table /\ Sound(Fresh(c), pool) /\ Fresh(c) # Absent
    BY SeedsAreSound, AbsentAssumption
  <1>2. l \in Locals /\ l.table = Fresh(c) /\ l.active = Absent
    BY <1>1, IdleIsLocals DEF Idle, Locals
  <1>3. /\ Goes("operator", "activating", l) /\ "operator" \in Writers /\ "activating" \in Steps
        /\ UNCHANGED <<files, releases, before, owed>> /\ overlap' \in BOOLEAN
    BY FilesAreSound DEF StartBootstrap, Starts, Writers, Steps
  <1> HIDE DEF l
  <1> QED BY <1>1, <1>2, <1>3, FilesAreSound, Proceeds DEF files, history, Numbered

LEMMA StartMergeStep ==
    ASSUME Invariant, NEW c \in Candidates, StartMerge(c) PROVE Invariant'
  <1> DEFINE merged == IF runtime = Absent THEN Fresh(c) ELSE [runtime EXCEPT !.seed = c]
             l == [Idle EXCEPT !.table = merged, !.active = runtime, !.release = releases + 1]
  <1>1. merged \in Table /\ Sound(merged, pool) /\ merged # Absent
    BY SeedsAreSound, AbsentAssumption, FilesAreSound
  <1>2. releases + 1 \in Ids /\ releases + 1 \in 0..MaxReleases
    BY FilesAreSound, ReleasesAssumption DEF StartMerge, Ids
  <1>3. /\ l \in Locals /\ l.table = merged /\ l.active = runtime /\ l.release = releases + 1
    <2> HIDE DEF merged
    <2> QED BY <1>1, <1>2, FilesAreSound, IdleIsLocals DEF Idle, Locals
  <1>4. /\ Goes("operator", "backup", l) /\ "operator" \in Writers /\ "backup" \in Steps
        /\ releases' = releases + 1
        /\ UNCHANGED <<files, before, owed>> /\ overlap' \in BOOLEAN
    BY FilesAreSound DEF StartMerge, Starts, Writers, Steps
  <1> HIDE DEF l, merged
  <1> QED BY <1>1, <1>2, <1>3, <1>4, FilesAreSound, Proceeds DEF files, history

LEMMA StartRollbackStep == ASSUME Invariant, StartRollback PROVE Invariant'
  <1> DEFINE kept == backups[manifest.release]
             id == manifest.release
             l == [Idle EXCEPT !.table = kept, !.release = id]
  <1>1. /\ id \in Ids /\ id \in 0..MaxReleases
        /\ kept \in Table /\ Sound(kept, pool) /\ kept # Absent
    BY FilesAreSound, ReleasesAssumption DEF StartRollback, Ids
  <1>2. l \in Locals /\ l.table = kept /\ l.active = Absent /\ l.release = id
    <2> HIDE DEF kept, id
    <2> QED BY <1>1, IdleIsLocals DEF Idle, Locals
  <1>3. /\ Goes("operator", "restore", l) /\ "operator" \in Writers /\ "restore" \in Steps
        /\ UNCHANGED <<files, releases, before, owed>> /\ overlap' \in BOOLEAN
    BY FilesAreSound DEF StartRollback, Starts, Writers, Steps
  <1> HIDE DEF l, kept, id
  <1> QED BY <1>1, <1>2, <1>3, FilesAreSound, Proceeds DEF files, history

LEMMA RestoreStep == ASSUME Invariant, Restore PROVE Invariant'
  <1> DEFINE l == work["operator"]
  <1>1. /\ l \in Locals /\ l.table \in Table /\ l.table # Absent /\ l.release \in Ids
        /\ Sound(l.table, pool) /\ Sound(l.active, pool)
        /\ "operator" \in Writers /\ "announce" \in Steps
    BY FilesAreSound
    DEF Restore, Invariant, WorkInvariant, Writers, Steps, Writing, Numbered, Locals
  <1>2. /\ Goes("operator", "announce", l) /\ runtime' = l.table
        /\ UNCHANGED <<pool, manifest, backups, reports, releases, history>>
    BY DEF Restore
  <1> HIDE DEF l
  <1> QED BY <1>1, <1>2, FilesAreSound, Proceeds DEF history

\* What the invariant says of a call that is writing.
LEMMA WritersAreSound ==
    ASSUME Invariant, NEW w \in Writers, work[w].step \in Writing
    PROVE  /\ work[w] \in Locals /\ work[w].table \in Table /\ work[w].table # Absent
           /\ Sound(work[w].table, pool) /\ Sound(work[w].active, pool)
           /\ work[w].step \in Numbered => work[w].release \in Ids
           /\ w = "job" => work[w].day \in pool
  BY FilesAreSound DEF Invariant, WorkInvariant, Writing, Locals

\* The step that ends a release: on to the report, or done.
LEMMA ReleaseEnds ==
    ASSUME Invariant, NEW w \in Writers, work[w].step \in Writing,
           Goes(w, AfterRelease(w), IF w = "job" THEN work[w] ELSE Idle),
           UNCHANGED <<pool, runtime, backups, reports, releases, history>>,
           manifest' \in [release : Ids, active : Table] \cup {None}
    PROVE  Invariant'
  <1>1. CASE w = "job"
    <2>1. Goes(w, "report", work[w]) /\ "report" \in Steps
      BY <1>1 DEF AfterRelease, Steps
    <2> QED BY <1>1, <2>1, WritersAreSound, FilesAreSound, Proceeds DEF history, Writing, Numbered
  <1>2. CASE w = "operator"
    <2>1. Goes(w, "idle", Idle) /\ "idle" \in Steps /\ Idle.table = Absent /\ Idle.active = Absent
      BY <1>2 DEF AfterRelease, Steps, Idle
    <2> QED BY <1>2, <2>1, IdleIsLocals, FilesAreSound, Proceeds DEF history, Writing, Numbered
  <1> QED BY <1>1, <1>2 DEF Writers

LEMMA ActivateStep == ASSUME Invariant, NEW w \in Writers, Activate(w) PROVE Invariant'
  <1>1. work[w].step = "activating" /\ work[w].step \in Writing /\ UNCHANGED <<files, history>>
    BY DEF Activate, Writing
  <1>2. CASE /\ Goes(w, AfterRelease(w), IF w = "job" THEN work[w] ELSE Idle)
             /\ UNCHANGED releases
    BY <1>1, <1>2, FilesAreSound, ReleaseEnds DEF files
  <1>3. CASE /\ releases < MaxReleases /\ releases' = releases + 1
             /\ Goes(w, "backup", [work[w] EXCEPT !.active = runtime, !.release = releases + 1])
    <2> DEFINE l == [work[w] EXCEPT !.active = runtime, !.release = releases + 1]
    <2>1. releases + 1 \in Ids /\ releases + 1 \in 0..MaxReleases
      BY <1>3, FilesAreSound, ReleasesAssumption DEF Ids
    <2>2. /\ l \in Locals /\ l.table = work[w].table /\ l.active = runtime
          /\ l.release = releases + 1 /\ l.day = work[w].day
      BY <1>1, <2>1, WritersAreSound, FilesAreSound DEF Locals
    <2>3. Goes(w, "backup", l) /\ "backup" \in Steps
      BY <1>3 DEF Steps
    <2> HIDE DEF l
    <2> QED BY <1>1, <1>3, <2>1, <2>2, <2>3, WritersAreSound, FilesAreSound, Proceeds
        DEF files, history
  <1> QED BY <1>2, <1>3 DEF Activate

LEMMA BackupStep == ASSUME Invariant, NEW w \in Writers, Backup(w) PROVE Invariant'
  <1>1. /\ work[w].step \in Writing /\ work[w].step \in Numbered
        /\ backups' = [backups EXCEPT ![work[w].release] = work[w].active]
        /\ Goes(w, "install", work[w]) /\ "install" \in Steps
        /\ UNCHANGED <<pool, runtime, manifest, reports, releases, history>>
    BY DEF Backup, Writing, Numbered, Steps
  <1>2. /\ backups' \in [Ids -> Table \cup {Absent}]
        /\ \A i \in Ids : Sound(backups'[i], pool)
    <2>1. /\ work[w].release \in Ids /\ work[w].active \in Table \cup {Absent}
          /\ Sound(work[w].active, pool)
      BY <1>1, WritersAreSound DEF Locals
    <2> QED BY <1>1, <2>1, FilesAreSound
  <1> QED BY <1>1, <1>2, WritersAreSound, FilesAreSound, Proceeds DEF history

LEMMA InstallStep == ASSUME Invariant, NEW w \in Writers, Install(w) PROVE Invariant'
  <1>1. /\ work[w].step \in Writing /\ work[w].step \in Numbered
        /\ runtime' = work[w].table
        /\ before' = [before EXCEPT ![work[w].release] = runtime]
        /\ owed' \subseteq owed
        /\ Goes(w, "announce", work[w]) /\ "announce" \in Steps
        /\ UNCHANGED <<pool, manifest, backups, reports, releases, overlap>>
    BY DEF Install, Writing, Numbered, Steps
  <1>2. before' \in [Ids -> Table \cup {Absent}] /\ owed' \subseteq Days
    BY <1>1, FilesAreSound
  <1> QED BY <1>1, <1>2, WritersAreSound, FilesAreSound, Proceeds

LEMMA AnnounceStep == ASSUME Invariant, NEW w \in Writers, Announce(w) PROVE Invariant'
  <1>1. /\ work[w].step \in Writing /\ work[w].step \in Numbered
        /\ manifest' = [release |-> work[w].release, active |-> work[w].table]
        /\ Goes(w, AfterRelease(w), IF w = "job" THEN work[w] ELSE Idle)
        /\ UNCHANGED <<pool, runtime, backups, reports, releases, history>>
    BY DEF Announce, Writing, Numbered
  <1>2. manifest' \in [release : Ids, active : Table] \cup {None}
    BY <1>1, WritersAreSound
  <1> QED BY <1>1, <1>2, ReleaseEnds

LEMMA AbandonStep == ASSUME Invariant, NEW w \in Writers, Abandon(w) PROVE Invariant'
  <1>1. Goes(w, "idle", Idle) /\ UNCHANGED <<files, releases, history>>
    BY DEF Abandon
  <1>2. /\ owed' \subseteq Days /\ ReportedDaysArePooled'
        /\ reports' \in [Days -> {"none", "skipped", "updated", "unchanged"}]
    BY <1>1 DEF files, history, Invariant, TypeOK, ReportedDaysArePooled
  <1> QED BY <1>1, <1>2, Ends DEF files, history

-----------------------------------------------------------------------------
(* The theorems.                                                           *)

LEMMA InvariantHolds == Spec => []Invariant
  <1>1. Init => Invariant
    <2> SUFFICES ASSUME Init PROVE Invariant
      OBVIOUS
    <2>1. /\ runtime \in Table \cup {Absent} /\ Sound(runtime, pool) /\ Sound(Absent, pool)
      BY SeedsAreSound DEF Init, Sound
    <2>2. /\ work \in [Writers -> Locals]
          /\ \A w \in Writers : work[w] = Idle
      BY IdleIsLocals DEF Init
    <2>3. TypeOK
      <3>1. overlap \in BOOLEAN
        BY DEF Init
      <3>2. releases \in 0..MaxReleases
        BY ReleasesAssumption DEF Init
      <3>3. /\ backups \in [Ids -> Table \cup {Absent}] /\ before \in [Ids -> Table \cup {Absent}]
            /\ reports \in [Days -> {"none", "skipped", "updated", "unchanged"}]
            /\ pool \subseteq Days /\ owed \subseteq Days
            /\ manifest \in [release : Ids, active : Table] \cup {None}
        BY DEF Init
      <3> QED BY <2>1, <2>2, <3>1, <3>2, <3>3 DEF TypeOK, Locals
    <2>4. WorkInvariant
      BY <2>2 DEF WorkInvariant, Writers, Writing, Numbered, Idle
    <2>5. SoundTables
      BY <2>1, <2>2 DEF Init, SoundTables, Idle
    <2>6. ReportedDaysArePooled
      BY DEF Init, ReportedDaysArePooled
    <2> QED BY <2>3, <2>4, <2>5, <2>6 DEF Invariant
  <1>2. Invariant /\ [Next]_vars => Invariant'
    <2> SUFFICES ASSUME Invariant, [Next]_vars PROVE Invariant'
      OBVIOUS
    <2>1. CASE Job
      BY <2>1, SkipDayStep, StartDayStep, CommitPoolStep, ReportDayStep DEF Job
    <2>2. CASE Operator
      BY <2>2, StartBootstrapStep, StartMergeStep, StartRollbackStep, RestoreStep DEF Operator
    <2>3. CASE \E w \in Writers : Release(w)
      BY <2>3, ActivateStep, BackupStep, InstallStep, AnnounceStep, AbandonStep DEF Release
    <2>4. CASE UNCHANGED vars
      BY <2>4 DEF vars, files, history, Invariant, TypeOK, WorkInvariant, SoundTables,
                  Sound, ReportedDaysArePooled
    <2> QED BY <2>1, <2>2, <2>3, <2>4 DEF Next
  <1> QED BY <1>1, <1>2, PTL DEF Spec

\* Pool, tables, rollback files, reports and the locals of both writers keep
\* their types, for any number of days, candidates and releases.
THEOREM ReleaseTypesAreCorrect == Spec => []TypeOK
  <1>1. Invariant => TypeOK
    BY DEF Invariant
  <1> QED BY <1>1, InvariantHolds, PTL

\* No table in use, kept for a rollback or about to be installed ever holds a
\* day twice, for any number of days, candidates and releases, and whether or
\* not the job and the operator overlap.
THEOREM DaysAreBlendedOnce == Spec => []NoDayTwice
  <1>1. Invariant => NoDayTwice
    BY DEF Invariant, SoundTables, Sound, NoDayTwice, Tables
  <1> QED BY <1>1, InvariantHolds, PTL

\* The pool runs ahead of the tables and of the reports.
THEOREM PoolIsAhead == Spec => []PoolRunsAhead
  <1>1. Invariant => PoolRunsAhead
    BY DEF Invariant, SoundTables, Sound, ReportedDaysArePooled, PoolRunsAhead, Tables
  <1> QED BY <1>1, InvariantHolds, PTL

-----------------------------------------------------------------------------
(* What a rollback restores, as long as the two writers never overlap: a   *)
(* release id is drawn above the announced one, its rollback file and the  *)
(* table it replaces are the same, and both are settled before the         *)
(* manifest names it.                                                      *)

Agree(id) == backups[id] = before[id]

Settled(w) ==
    /\ work[w].step \in {"backup", "install"} =>
          /\ work[w].release <= releases
          /\ work[w].active = runtime
          /\ manifest # None => manifest.release < work[w].release
    /\ work[w].step = "install" => backups[work[w].release] = work[w].active
    /\ work[w].step = "restore" => manifest # None /\ work[w].release = manifest.release
    /\ work[w].step = "announce" => work[w].release <= releases /\ Agree(work[w].release)

Careful ==
    ~overlap =>
        /\ \A w \in Writers : work[w].step = "idle" \/ work[Other(w)].step = "idle"
        /\ manifest # None => manifest.release <= releases /\ Agree(manifest.release)
        /\ \A w \in Writers : Settled(w)

\* A call that starts alone finds the other idle.
LEMMA StartsAlone ==
    ASSUME Invariant, Careful, NEW w \in Writers, NEW at \in Steps, NEW l \in Locals,
           Starts(w, at, l), ~overlap', Settled(w)'
    PROVE  /\ ~overlap
           /\ releases' = releases => Careful'
           /\ releases' = releases + 1 => Careful'
  <1>1. ~overlap /\ work[Other(w)].step = "idle" /\ UNCHANGED <<files, before, owed>>
    BY DEF Starts
  <1>2. work'[w].step = at /\ \A v \in Writers : v # w => work'[v] = work[v]
    BY Moves DEF Starts, Invariant
  <1>3. Other(w) \in Writers /\ Other(w) # w /\ Other(Other(w)) = w
        /\ \A v \in Writers : v = w \/ v = Other(w)
    BY DEF Other, Writers
  <1>4. work'[Other(w)].step = "idle"
    BY <1>1, <1>2, <1>3
  <1>5. Settled(Other(w))'
    BY <1>4 DEF Settled
  <1>6. \A v \in Writers : work'[v].step = "idle" \/ work'[Other(v)].step = "idle"
    BY <1>3, <1>4
  <1>7. releases \in Nat /\ (manifest # None => manifest.release \in Nat)
    BY ReleasesAssumption DEF Invariant, TypeOK, Ids
  <1>8. (releases' = releases \/ releases' = releases + 1) =>
           (manifest' # None => manifest'.release <= releases' /\ Agree(manifest.release)')
    BY <1>1, <1>7 DEF Careful, files, Agree
  <1> QED BY <1>1, <1>3, <1>5, <1>6, <1>8 DEF Careful

\* Once the writers overlapped, nothing is claimed any more.
LEMMA OverlapStays ==
    ASSUME Invariant, [Next]_vars, overlap
    PROVE  overlap'
  BY DEF Next, Job, Operator, Release, SkipDay, StartDay, CommitPool, ReportDay, StartBootstrap,
         StartMerge, StartRollback, Restore, Activate, Backup, Install, Announce, Abandon,
         Starts, history, vars, Invariant, TypeOK

\* A call that goes on while the other writer is idle leaves only itself and
\* the manifest to be looked at.
LEMMA Continues ==
    ASSUME Invariant, Careful, ~overlap, NEW w \in Writers, work[w].step # "idle",
           NEW at \in Steps, NEW l \in Locals, Goes(w, at, l),
           Settled(w)',
           (manifest # None => manifest.release <= releases /\ Agree(manifest.release))'
    PROVE  Careful'
  <1>1. Other(w) \in Writers /\ Other(w) # w /\ Other(Other(w)) = w
        /\ \A v \in Writers : v = w \/ v = Other(w)
    BY DEF Other, Writers
  <1>2. work[Other(w)].step = "idle"
    BY DEF Careful
  <1>3. \A v \in Writers : v # w => work'[v] = work[v]
    BY Moves DEF Invariant
  <1>4. work'[Other(w)].step = "idle"
    BY <1>1, <1>2, <1>3
  <1>5. Settled(Other(w))'
    BY <1>4 DEF Settled
  <1> QED BY <1>1, <1>4, <1>5 DEF Careful

\* The steps at which nothing is claimed of a call.
LEMMA Unclaimed ==
    ASSUME NEW w, work'[w].step \notin {"backup", "install", "restore", "announce"}
    PROVE  Settled(w)'
  BY DEF Settled

\* The release numbers are numbers.
LEMMA Numbers ==
    ASSUME Invariant
    PROVE  /\ releases \in Nat
           /\ manifest # None => manifest.release \in Ids /\ manifest.release \in Nat
           /\ \A w \in Writers : work[w] \in Locals /\ work[w].release \in Nat
           /\ \A i \in Ids : i \in Nat
  BY FilesAreSound, ReleasesAssumption DEF Ids, Locals

LEMMA SkipIsCareful ==
    ASSUME Invariant, Careful, NEW d \in Days, SkipDay(d), ~overlap'
    PROVE  Careful'
  BY DEF SkipDay, history, Careful, Settled, Agree

LEMMA StartDayIsCareful ==
    ASSUME Invariant, Careful, NEW d \in Days, StartDay(d), ~overlap'
    PROVE  Careful'
  <1> DEFINE l == [Idle EXCEPT !.day = d, !.table = runtime]
  <1>1. l \in Locals
    BY IdleIsLocals, FilesAreSound DEF Idle, Locals
  <1>2. /\ Starts("job", "merging", l) /\ Goes("job", "merging", l) /\ releases' = releases
        /\ "job" \in Writers /\ "merging" \in Steps
    BY DEF StartDay, Starts, Writers, Steps
  <1> HIDE DEF l
  <1>3. work'["job"].step = "merging"
    BY <1>1, <1>2, Moves DEF Invariant
  <1>4. Settled("job")'
    BY <1>3, Unclaimed
  <1> QED BY <1>1, <1>2, <1>4, StartsAlone

LEMMA CommitPoolIsCareful ==
    ASSUME Invariant, Careful, CommitPool, ~overlap'
    PROVE  Careful'
  <1> DEFINE job == work["job"]
  <1>1. /\ job \in Locals /\ job.step = "merging" /\ job.day \in Days /\ job.table \in Table
        /\ "job" \in Writers /\ "activating" \in Steps /\ "report" \in Steps /\ ~overlap
        /\ UNCHANGED <<runtime, manifest, backups, releases, before>>
    BY DEF CommitPool, Invariant, WorkInvariant, TypeOK, Locals, Writers, Steps
  <1>2. /\ job.step # "idle"
        /\ (manifest # None => manifest.release <= releases /\ Agree(manifest.release))'
    BY <1>1 DEF Careful, Agree
  <1>3. CASE job.day \notin pool /\ Goes("job", "activating", [job EXCEPT !.table = Blended(@, job.day)])
    <2> DEFINE l == [job EXCEPT !.table = Blended(@, job.day)]
    <2>1. Blended(job.table, job.day) \in Table
      BY <1>1, <1>3, BlendedIsSound DEF Invariant, SoundTables
    <2>2. l \in Locals
      BY <1>1, <2>1 DEF Locals
    <2>3. Goes("job", "activating", l)
      BY <1>3
    <2> HIDE DEF l, job
    <2>4. Settled("job")'
      BY <1>1, <2>2, <2>3, Moves, Unclaimed DEF Invariant
    <2> QED BY <1>1, <1>2, <2>2, <2>3, <2>4, Continues DEF job
  <1>4. CASE Goes("job", "report", job)
    <2> HIDE DEF job
    <2>1. Settled("job")'
      BY <1>1, <1>4, Moves, Unclaimed DEF Invariant
    <2> QED BY <1>1, <1>2, <1>4, <2>1, Continues DEF job
  <1> QED BY <1>3, <1>4 DEF CommitPool

\* A call that ends leaves nothing to claim.
LEMMA EndIsCareful ==
    ASSUME Invariant, Careful, NEW w \in Writers, work[w].step # "idle", ~overlap,
           Goes(w, "idle", Idle), UNCHANGED <<manifest, backups, releases, before>>
    PROVE  Careful'
  <1>1. Idle \in Locals /\ "idle" \in Steps
    BY IdleIsLocals DEF Steps
  <1>2. Settled(w)'
    BY <1>1, Moves, Unclaimed DEF Invariant
  <1>3. (manifest # None => manifest.release <= releases /\ Agree(manifest.release))'
    BY DEF Careful, Agree
  <1> QED BY <1>1, <1>2, <1>3, Continues

LEMMA StartBootstrapIsCareful ==
    ASSUME Invariant, Careful, NEW c \in Candidates, StartBootstrap(c), ~overlap'
    PROVE  Careful'
  <1> DEFINE l == [Idle EXCEPT !.table = Fresh(c)]
  <1>1. l \in Locals
    BY SeedsAreSound, IdleIsLocals DEF Idle, Locals
  <1>2. /\ Starts("operator", "activating", l) /\ Goes("operator", "activating", l)
        /\ "operator" \in Writers /\ "activating" \in Steps /\ releases' = releases
    BY DEF StartBootstrap, Starts, Writers, Steps
  <1> HIDE DEF l
  <1>3. Settled("operator")'
    BY <1>1, <1>2, Moves, Unclaimed DEF Invariant
  <1> QED BY <1>1, <1>2, <1>3, StartsAlone

LEMMA StartMergeIsCareful ==
    ASSUME Invariant, Careful, NEW c \in Candidates, StartMerge(c), ~overlap'
    PROVE  Careful'
  <1> DEFINE merged == IF runtime = Absent THEN Fresh(c) ELSE [runtime EXCEPT !.seed = c]
             l == [Idle EXCEPT !.table = merged, !.active = runtime, !.release = releases + 1]
  <1>1. merged \in Table
    BY SeedsAreSound, AbsentAssumption, FilesAreSound
  <1>2. releases + 1 \in 0..MaxReleases
    BY FilesAreSound, ReleasesAssumption DEF StartMerge
  <1>3. l \in Locals /\ l.active = runtime /\ l.release = releases + 1
    <2> HIDE DEF merged
    <2> QED BY <1>1, <1>2, FilesAreSound, IdleIsLocals DEF Idle, Locals
  <1>4. /\ Starts("operator", "backup", l) /\ Goes("operator", "backup", l)
        /\ "operator" \in Writers /\ "backup" \in Steps /\ releases' = releases + 1
        /\ UNCHANGED <<runtime, manifest>> /\ ~overlap
    BY DEF StartMerge, Starts, Writers, Steps, files
  <1> HIDE DEF l, merged
  <1>5. work'["operator"].step = "backup" /\ work'["operator"].active = runtime
        /\ work'["operator"].release = releases + 1
    BY <1>3, <1>4, Moves DEF Invariant
  <1>6. Settled("operator")'
    BY <1>4, <1>5, Numbers DEF Settled, Careful
  <1> QED BY <1>3, <1>4, <1>6, StartsAlone

LEMMA StartRollbackIsCareful ==
    ASSUME Invariant, Careful, StartRollback, ~overlap'
    PROVE  Careful'
  <1> DEFINE kept == backups[manifest.release]
             id == manifest.release
             l == [Idle EXCEPT !.table = kept, !.release = id]
  <1>1. /\ id \in 0..MaxReleases /\ kept \in Table
    BY FilesAreSound, ReleasesAssumption DEF StartRollback, Ids
  <1>2. l \in Locals /\ l.release = id
    <2> HIDE DEF kept, id
    <2> QED BY <1>1, IdleIsLocals DEF Idle, Locals
  <1>3. /\ Starts("operator", "restore", l) /\ Goes("operator", "restore", l)
        /\ "operator" \in Writers /\ "restore" \in Steps /\ releases' = releases
        /\ manifest # None /\ UNCHANGED manifest
    BY DEF StartRollback, Starts, Writers, Steps, files
  <1> HIDE DEF l, kept
  <1>4. work'["operator"].step = "restore" /\ work'["operator"].release = id
    BY <1>2, <1>3, Moves DEF Invariant
  <1>5. Settled("operator")'
    BY <1>3, <1>4 DEF Settled
  <1> QED BY <1>2, <1>3, <1>5, StartsAlone

LEMMA RestoreIsCareful ==
    ASSUME Invariant, Careful, Restore, ~overlap'
    PROVE  Careful'
  <1> DEFINE l == work["operator"]
  <1>1. /\ "operator" \in Writers /\ "announce" \in Steps /\ l \in Locals /\ l.step = "restore"
        /\ Goes("operator", "announce", l) /\ ~overlap
        /\ UNCHANGED <<manifest, backups, before, releases>>
    BY Numbers DEF Restore, Writers, Steps, history
  <1>2. /\ manifest # None /\ l.release = manifest.release
        /\ manifest.release <= releases /\ Agree(manifest.release)
    BY <1>1 DEF Careful, Settled
  <1> HIDE DEF l
  <1>3. work'["operator"].step = "announce" /\ work'["operator"].release = l.release
    BY <1>1, Moves DEF Invariant
  <1>4. Settled("operator")'
    BY <1>1, <1>2, <1>3 DEF Settled, Agree
  <1>5. (manifest # None => manifest.release <= releases /\ Agree(manifest.release))'
    BY <1>1, <1>2 DEF Agree
  <1> QED BY <1>1, <1>4, <1>5, Continues DEF l

LEMMA ActivateIsCareful ==
    ASSUME Invariant, Careful, NEW w \in Writers, Activate(w), ~overlap'
    PROVE  Careful'
  <1>1. /\ work[w].step = "activating" /\ work[w].step # "idle" /\ work[w] \in Locals /\ ~overlap
        /\ UNCHANGED <<runtime, manifest, backups, before>>
    BY Numbers DEF Activate, files, history
  <1>2. CASE /\ Goes(w, AfterRelease(w), IF w = "job" THEN work[w] ELSE Idle)
             /\ UNCHANGED releases
    <2>1. /\ AfterRelease(w) \in Steps /\ AfterRelease(w) \in {"report", "idle"}
          /\ (IF w = "job" THEN work[w] ELSE Idle) \in Locals
      BY <1>1, IdleIsLocals DEF AfterRelease, Steps
    <2>2. Settled(w)'
      BY <1>2, <2>1, Moves, Unclaimed DEF Invariant
    <2>3. (manifest # None => manifest.release <= releases /\ Agree(manifest.release))'
      BY <1>1, <1>2 DEF Careful, Agree
    <2> QED BY <1>1, <1>2, <2>1, <2>2, <2>3, Continues
  <1>3. CASE /\ releases < MaxReleases /\ releases' = releases + 1
             /\ Goes(w, "backup", [work[w] EXCEPT !.active = runtime, !.release = releases + 1])
    <2> DEFINE l == [work[w] EXCEPT !.active = runtime, !.release = releases + 1]
    <2>1. releases + 1 \in 0..MaxReleases
      BY <1>3, FilesAreSound, ReleasesAssumption
    <2>2. l \in Locals /\ l.active = runtime /\ l.release = releases + 1
      BY <1>1, <2>1, FilesAreSound DEF Locals
    <2>3. Goes(w, "backup", l) /\ "backup" \in Steps
      BY <1>3 DEF Steps
    <2> HIDE DEF l
    <2>4. work'[w].step = "backup" /\ work'[w].active = runtime /\ work'[w].release = releases + 1
      BY <2>2, <2>3, Moves DEF Invariant
    <2>5. Settled(w)'
      BY <1>1, <1>3, <2>4, Numbers DEF Settled, Careful
    <2>6. (manifest # None => manifest.release <= releases /\ Agree(manifest.release))'
      BY <1>1, <1>3, Numbers DEF Careful, Agree
    <2> QED BY <1>1, <2>2, <2>3, <2>5, <2>6, Continues
  <1> QED BY <1>2, <1>3 DEF Activate

LEMMA BackupIsCareful ==
    ASSUME Invariant, Careful, NEW w \in Writers, Backup(w), ~overlap'
    PROVE  Careful'
  <1>1. /\ work[w].step = "backup" /\ work[w].step # "idle" /\ work[w] \in Locals /\ ~overlap
        /\ work[w].release \in Ids /\ "install" \in Steps
        /\ Goes(w, "install", work[w])
        /\ backups' = [backups EXCEPT ![work[w].release] = work[w].active]
        /\ UNCHANGED <<runtime, manifest, before, releases>>
    BY Numbers, WritersAreSound DEF Backup, history, Steps, Writing, Numbered
  <1>2. /\ work'[w].step = "install" /\ work'[w].active = work[w].active
        /\ work'[w].release = work[w].release
    BY <1>1, Moves DEF Invariant
  <1>3. backups'[work[w].release] = work[w].active
    BY <1>1, FilesAreSound
  <1>4. Settled(w)'
    BY <1>1, <1>2, <1>3 DEF Settled, Careful
  <1>5. (manifest # None => manifest.release <= releases /\ Agree(manifest.release))'
    <2>1. manifest # None => manifest.release # work[w].release
      BY <1>1, Numbers DEF Settled, Careful
    <2> QED BY <1>1, <2>1, Numbers, FilesAreSound DEF Careful, Agree
  <1> QED BY <1>1, <1>4, <1>5, Continues

LEMMA InstallIsCareful ==
    ASSUME Invariant, Careful, NEW w \in Writers, Install(w), ~overlap'
    PROVE  Careful'
  <1>1. /\ work[w].step = "install" /\ work[w].step # "idle" /\ work[w] \in Locals /\ ~overlap
        /\ work[w].release \in Ids /\ "announce" \in Steps
        /\ Goes(w, "announce", work[w])
        /\ before' = [before EXCEPT ![work[w].release] = runtime]
        /\ UNCHANGED <<manifest, backups, releases>>
    BY Numbers, WritersAreSound DEF Install, Steps, Writing, Numbered
  <1>2. work'[w].step = "announce" /\ work'[w].release = work[w].release
    BY <1>1, Moves DEF Invariant
  <1>3. before'[work[w].release] = runtime /\ backups[work[w].release] = runtime
        /\ work[w].release <= releases
    BY <1>1, FilesAreSound DEF Careful, Settled
  <1>4. Settled(w)'
    BY <1>1, <1>2, <1>3 DEF Settled, Agree
  <1>5. (manifest # None => manifest.release <= releases /\ Agree(manifest.release))'
    <2>1. manifest # None => manifest.release # work[w].release
      BY <1>1, Numbers DEF Settled, Careful
    <2> QED BY <1>1, <2>1, Numbers, FilesAreSound DEF Careful, Agree
  <1> QED BY <1>1, <1>4, <1>5, Continues

LEMMA AnnounceIsCareful ==
    ASSUME Invariant, Careful, NEW w \in Writers, Announce(w), ~overlap'
    PROVE  Careful'
  <1>1. /\ work[w].step = "announce" /\ work[w].step # "idle" /\ work[w] \in Locals /\ ~overlap
        /\ Goes(w, AfterRelease(w), IF w = "job" THEN work[w] ELSE Idle)
        /\ manifest' = [release |-> work[w].release, active |-> work[w].table]
        /\ UNCHANGED <<backups, before, releases>>
    BY Numbers DEF Announce, history
  <1>2. /\ AfterRelease(w) \in Steps /\ AfterRelease(w) \in {"report", "idle"}
        /\ (IF w = "job" THEN work[w] ELSE Idle) \in Locals
    BY <1>1, IdleIsLocals DEF AfterRelease, Steps
  <1>3. Settled(w)'
    BY <1>1, <1>2, Moves, Unclaimed DEF Invariant
  <1>4. (manifest # None => manifest.release <= releases /\ Agree(manifest.release))'
    BY <1>1 DEF Careful, Settled, Agree
  <1> QED BY <1>1, <1>2, <1>3, <1>4, Continues

\* Rolling back the announced release restores the very table it replaced, for
\* every history of crashes and retries in which the writers did not overlap.
THEOREM RollbacksRestore == Spec => []RollbackRestoresPredecessor
  <1>1. Init => Careful
    BY DEF Init, Careful, Settled, Idle, Writers, Other
  <1>2. Invariant /\ Careful /\ [Next]_vars => Careful'
    <2> SUFFICES ASSUME Invariant, Careful, [Next]_vars, ~overlap' PROVE Careful'
      BY DEF Careful
    <2>1. CASE Job
      <3>1. CASE ReportDay
        BY <3>1, EndIsCareful, OverlapStays DEF ReportDay, history, Writers
      <3> QED BY <2>1, <3>1, SkipIsCareful, StartDayIsCareful, CommitPoolIsCareful DEF Job
    <2>2. CASE Operator
      BY <2>2, StartBootstrapIsCareful, StartMergeIsCareful, StartRollbackIsCareful,
         RestoreIsCareful DEF Operator
    <2>3. CASE \E w \in Writers : Release(w)
      <3>1. ASSUME NEW w \in Writers, Abandon(w) PROVE Careful'
        BY <3>1, EndIsCareful, OverlapStays DEF Abandon, files, history
      <3> QED BY <2>3, <3>1, ActivateIsCareful, BackupIsCareful, InstallIsCareful,
                 AnnounceIsCareful DEF Release
    <2>4. CASE UNCHANGED vars
      BY <2>4 DEF vars, files, history, Careful, Settled, Agree
    <2> QED BY <2>1, <2>2, <2>3, <2>4 DEF Next
  <1>3. Careful => RollbackRestoresPredecessor
    BY DEF Careful, Agree, RollbackRestoresPredecessor
  <1> QED BY <1>1, <1>2, <1>3, InvariantHolds, PTL DEF Spec
=============================================================================
