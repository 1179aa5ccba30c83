-------------------------- MODULE ConfigSyncProofs --------------------------
(***************************************************************************)
(* The cache of a configuration file for any number of publications,       *)
(* edits and restarts.  Modification times only grow, so a fill that began *)
(* before a replacement can only leave a time that is no longer current;   *)
(* what remains is the reset, whose two halves a fill may fall between.    *)
(* The digest is recorded after the file, so that a version is applied     *)
(* before it counts as known.                                              *)
(***************************************************************************)
EXTENDS ConfigSync, TLAPS

\* From the download to the record a version is known to be valid.
FetchedIsValid ==
    sync \in {"replace", "reset_stamp", "reset_data", "record"} => fetched \in Valid

\* No time is newer than that of the file.
TimesArePast == cacheStamp <= stamp /\ mark <= stamp

\* What a fill read is the file if the time it saw still is.
FillIsOfItsTime ==
    /\ reader \in {"set_stamp", "set_data"} => (mark = stamp => loaded = file)
    /\ reader = "set_data" => cacheStamp \in {mark, None}

CacheInvariant == TypeOK /\ FetchedIsValid /\ TimesArePast /\ FillIsOfItsTime /\ CacheIsTheFile

LEMMA RecordTypes == Empty \in Records /\ Delivered \in Records
  BY BoundsAssumption DEF Empty, Delivered, Records

LEMMA BoundTypes ==
    /\ 1 \in 1..MaxVersion /\ None \in 0..MaxVersion /\ None \in Valid \cup {None}
    /\ 0 \in 0..MaxExpiries /\ 0 \in 0..MaxEdits /\ 0 \in 0..MaxRestarts /\ None \in Nat
    /\ 1 \in Nat \ {0}
  BY BoundsAssumption DEF None

LEMMA InitCache == Init => CacheInvariant
  <1> SUFFICES ASSUME Init PROVE CacheInvariant
    OBVIOUS
  <1>1. TypeOK
    BY BoundTypes, RecordTypes DEF Init, TypeOK
  <1>2. FetchedIsValid /\ TimesArePast /\ FillIsOfItsTime /\ CacheIsTheFile
    BY DEF Init, FetchedIsValid, TimesArePast, FillIsOfItsTime, CacheIsTheFile, None
  <1> QED
    BY <1>1, <1>2 DEF CacheInvariant

\* The steps of the sync thread that touch neither the file nor the cache.
LEMMA SyncOnlyStep ==
    ASSUME CacheInvariant, SyncOnly,
           Poll \/ Login \/ RequestFails \/ Refused \/ Fetch \/ ReplaceFails \/ Record
    PROVE  CacheInvariant'
  <1>1. TypeOK' /\ FetchedIsValid'
    BY BoundsAssumption
    DEF CacheInvariant, TypeOK, FetchedIsValid, SyncOnly, fileVars, cacheVars, readerVars, bounds,
        Poll, Login, RequestFails, Refused, Fetch, ReplaceFails, Record
  <1>2. TimesArePast' /\ FillIsOfItsTime' /\ CacheIsTheFile'
    BY DEF CacheInvariant, TimesArePast, FillIsOfItsTime, CacheIsTheFile, SyncOnly, fileVars, cacheVars,
           readerVars
  <1> QED
    BY <1>1, <1>2 DEF CacheInvariant

\* A file that is replaced is newer than whatever was cached or seen.
LEMMA ReplacedStep ==
    ASSUME CacheInvariant, stamp' = stamp + 1, UNCHANGED <<cacheVars, readerVars>>
    PROVE  TimesArePast' /\ FillIsOfItsTime' /\ CacheIsTheFile'
  BY DEF CacheInvariant, TypeOK, TimesArePast, FillIsOfItsTime, CacheIsTheFile, cacheVars, readerVars

LEMMA SyncStep == ASSUME CacheInvariant, Sync PROVE CacheInvariant'
  <1>1. CASE Poll \/ Login \/ RequestFails \/ Refused \/ Fetch \/ ReplaceFails \/ Record
    BY <1>1, SyncOnlyStep DEF Poll, Login, RequestFails, Refused, Fetch, ReplaceFails, Record
  <1>2. CASE Replace
    <2>1. file' \in Records /\ stamp' \in Nat \ {0}
      BY <1>2, BoundsAssumption DEF CacheInvariant, TypeOK, Replace, Records
    <2>2. TypeOK' /\ FetchedIsValid'
      BY <1>2, <2>1
      DEF CacheInvariant, TypeOK, FetchedIsValid, Replace, cacheVars, readerVars, bounds
    <2> QED
      BY <1>2, <2>2, ReplacedStep DEF Replace, CacheInvariant
  <1>3. CASE ResetStamp
    <2>1. TypeOK' /\ FetchedIsValid'
      BY <1>3
      DEF CacheInvariant, TypeOK, FetchedIsValid, ResetStamp, fileVars, readerVars, bounds, None
    <2>2. TimesArePast' /\ FillIsOfItsTime' /\ CacheIsTheFile'
      BY <1>3
      DEF CacheInvariant, TypeOK, TimesArePast, FillIsOfItsTime, CacheIsTheFile, ResetStamp, fileVars,
          readerVars, None
    <2> QED
      BY <2>1, <2>2 DEF CacheInvariant
  <1>4. CASE ResetData
    <2>1. TypeOK' /\ FetchedIsValid'
      BY <1>4, BoundsAssumption
      DEF CacheInvariant, TypeOK, FetchedIsValid, ResetData, fileVars, readerVars, bounds, Empty, Records
    <2>2. TimesArePast' /\ FillIsOfItsTime' /\ CacheIsTheFile'
      BY <1>4
      DEF CacheInvariant, TypeOK, TimesArePast, FillIsOfItsTime, CacheIsTheFile, ResetData, fileVars,
          readerVars, None
    <2> QED
      BY <2>1, <2>2 DEF CacheInvariant
  <1> QED
    BY <1>1, <1>2, <1>3, <1>4 DEF Sync

LEMMA ReadStep == ASSUME CacheInvariant, Read PROVE CacheInvariant'
  <1>1. TypeOK' /\ FetchedIsValid'
    BY DEF CacheInvariant, TypeOK, FetchedIsValid, Read, Stat, Load, SetStamp, SetData, Return, ReaderOnly,
           syncVars, fileVars, cacheVars, bounds
  <1>2. TimesArePast'
    BY DEF CacheInvariant, TypeOK, TimesArePast, Read, Stat, Load, SetStamp, SetData, Return, ReaderOnly,
           fileVars, cacheVars
  <1>3. FillIsOfItsTime'
    BY DEF CacheInvariant, TypeOK, FillIsOfItsTime, Read, Stat, Load, SetStamp, SetData, Return, ReaderOnly,
           fileVars, cacheVars
  <1>4. CacheIsTheFile'
    BY DEF CacheInvariant, TypeOK, FillIsOfItsTime, CacheIsTheFile, Read, Stat, Load, SetStamp, SetData,
           Return, ReaderOnly, fileVars, cacheVars, None
  <1> QED
    BY <1>1, <1>2, <1>3, <1>4 DEF CacheInvariant

LEMMA OthersStep ==
    ASSUME CacheInvariant, Publish \/ Expire \/ EditReads \/ EditWrites \/ Restart \/ UNCHANGED vars
    PROVE  CacheInvariant'
  <1>1. CASE Publish \/ Expire \/ EditReads \/ UNCHANGED vars
    <2>1. TypeOK' /\ FetchedIsValid'
      BY <1>1, BoundsAssumption
      DEF CacheInvariant, TypeOK, FetchedIsValid, Publish, Expire, EditReads, vars, syncVars, fileVars,
          cacheVars, readerVars, bounds, Records
    <2>2. TimesArePast' /\ FillIsOfItsTime' /\ CacheIsTheFile'
      BY <1>1
      DEF CacheInvariant, TimesArePast, FillIsOfItsTime, CacheIsTheFile, Publish, Expire, EditReads, vars,
          fileVars, cacheVars, readerVars
    <2> QED
      BY <2>1, <2>2 DEF CacheInvariant
  <1>2. CASE EditWrites
    <2>1. TypeOK' /\ FetchedIsValid'
      BY <1>2, BoundsAssumption
      DEF CacheInvariant, TypeOK, FetchedIsValid, EditWrites, Empty, Records, syncVars, cacheVars,
          readerVars, bounds
    <2> QED
      BY <1>2, <2>1, ReplacedStep DEF EditWrites, CacheInvariant
  <1>3. CASE Restart
    <2>1. TypeOK' /\ FetchedIsValid'
      <3>1. restarts' \in 0..MaxRestarts
        BY <1>3, BoundsAssumption DEF CacheInvariant, TypeOK, Restart
      <3> QED
        BY <1>3, <3>1, BoundTypes, RecordTypes
        DEF CacheInvariant, TypeOK, FetchedIsValid, Restart, fileVars
    <2>2. TimesArePast' /\ FillIsOfItsTime' /\ CacheIsTheFile'
      BY <1>3
      DEF CacheInvariant, TypeOK, TimesArePast, FillIsOfItsTime, CacheIsTheFile, Restart, fileVars, None
    <2> QED
      BY <2>1, <2>2 DEF CacheInvariant
  <1> QED
    BY <1>1, <1>2, <1>3

LEMMA NextCache == CacheInvariant /\ [Next]_vars => CacheInvariant'
  BY SyncStep, ReadStep, OthersStep DEF Next

\* Types; among them that only a valid version is ever recorded as applied.
THEOREM SyncTypesAreCorrect == Spec => []TypeOK
  <1>1. CacheInvariant => TypeOK
    BY DEF CacheInvariant
  <1> QED
    BY <1>1, InitCache, NextCache, PTL DEF Spec

\* The cache of lib/floating_value.py under its two writers: what is cached
\* under the current time is the file, or what a torn reset left.
THEOREM CacheIsTheFileHolds == Spec => []CacheIsTheFile
  <1>1. CacheInvariant => CacheIsTheFile
    BY DEF CacheInvariant
  <1> QED
    BY <1>1, InitCache, NextCache, PTL DEF Spec

-----------------------------------------------------------------------------
(* The versions: the part of LatestArrives that holds at every moment.     *)

\* From the replacement of the file to the record of its digest.
Applying == sync \in {"reset_stamp", "reset_data", "record"}

\* The digest is recorded last, so that a crash, a disk error or a refused
\* request in between repeats the download: a version whose digest is known is
\* in the file, unless the operator's tool wrote an older one over it.
RecordedIsApplied == digest # None /\ ~Applying => file.version = digest \/ trampled

\* What was downloaded is no older than what was in the file, or read from it,
\* at that time, and stays so until it is in the file itself.
VersionInvariant ==
    /\ file.version <= published /\ editor.version <= published /\ fetched <= published
    /\ sync = "replace" => file.version <= fetched /\ editor.version <= fetched
    /\ Applying => file.version = fetched \/ trampled
    /\ RecordedIsApplied

\* The file goes back to an older version only by the hand of the tool, which
\* had read it before.
OnlyTheToolGoesBack ==
    [][file'.version < file.version => EditWrites /\ trampled']_vars

LEMMA InitVersion == Init => VersionInvariant
  BY DEF Init, VersionInvariant, RecordedIsApplied, Applying, Delivered, Empty, None

LEMMA VersionTypes ==
    ASSUME TypeOK
    PROVE  /\ published \in Nat /\ fetched \in Nat /\ file.version \in Nat /\ editor.version \in Nat
           /\ file \in Records /\ editor \in Records
  BY BoundsAssumption DEF TypeOK, Records

LEMMA NextVersion == TypeOK /\ VersionInvariant /\ [Next]_vars => VersionInvariant'
  <1> SUFFICES ASSUME TypeOK, VersionInvariant, [Next]_vars PROVE VersionInvariant'
    OBVIOUS
  <1>1. CASE Publish
    BY <1>1, VersionTypes
    DEF Publish, syncVars, fileVars, VersionInvariant, RecordedIsApplied, Applying
  <1>2. CASE Expire \/ Read \/ UNCHANGED vars
    BY <1>2
    DEF Expire, Read, Stat, Load, SetStamp, SetData, Return, ReaderOnly, vars, syncVars, fileVars,
        VersionInvariant, RecordedIsApplied, Applying
  <1>3. CASE Poll \/ Login \/ RequestFails \/ Refused \/ ReplaceFails
    BY <1>3
    DEF Poll, Login, RequestFails, Refused, ReplaceFails, SyncOnly, fileVars,
        VersionInvariant, RecordedIsApplied, Applying
  <1>4. CASE Fetch
    BY <1>4, VersionTypes DEF Fetch, SyncOnly, fileVars, VersionInvariant, RecordedIsApplied, Applying
  <1>5. CASE Replace
    BY <1>5, VersionTypes DEF Replace, VersionInvariant, RecordedIsApplied, Applying
  <1>6. CASE ResetStamp \/ ResetData \/ Record
    BY <1>6
    DEF ResetStamp, ResetData, Record, SyncOnly, fileVars, VersionInvariant, RecordedIsApplied, Applying
  <1>7. CASE EditReads
    <2>1. editor'.version = file.version
      BY <1>7, VersionTypes DEF EditReads, Records
    <2> QED
      BY <1>7, <2>1 DEF EditReads, syncVars, fileVars, VersionInvariant, RecordedIsApplied, Applying
  <1>8. CASE EditWrites
    <2>1. trampled' <=> trampled \/ editor.version # file.version
      BY <1>8 DEF EditWrites
    <2>2. file'.version = editor.version /\ editor'.version = 0
      BY <1>8 DEF EditWrites, Empty
    <2>3. UNCHANGED <<published, sync, fetched, digest>>
      BY <1>8 DEF EditWrites, syncVars
    <2> QED
      BY <2>1, <2>2, <2>3, VersionTypes DEF VersionInvariant, RecordedIsApplied, Applying
  <1>9. CASE Restart
    BY <1>9, VersionTypes DEF Restart, fileVars, None, VersionInvariant, RecordedIsApplied, Applying
  <1> QED
    BY <1>1, <1>2, <1>3, <1>4, <1>5, <1>6, <1>7, <1>8, <1>9 DEF Next, Sync

\* The synchronisation (lib/nacos_floating_value.py) never takes a version for
\* applied that is not: neither a crash nor a failure between the download and
\* the record makes it skip one.
THEOREM RecordedIsAppliedHolds == Spec => []RecordedIsApplied
  <1>1. VersionInvariant => RecordedIsApplied
    BY DEF VersionInvariant
  <1> QED
    BY <1>1, InitVersion, NextVersion, SyncTypesAreCorrect, PTL DEF Spec

\* The synchronisation itself never puts an older version into the file.
THEOREM FilesMoveForward == Spec => OnlyTheToolGoesBack
  <1>1. ASSUME TypeOK, VersionInvariant, Next, file'.version < file.version
        PROVE  EditWrites /\ trampled'
    <2>1. file' # file
      BY <1>1, VersionTypes
    <2>2. Replace \/ EditWrites
      BY <1>1, <2>1
      DEF Next, Publish, Expire, Sync, Poll, Login, RequestFails, Refused, Fetch, ReplaceFails, ResetStamp,
          ResetData, Record, Read, Stat, Load, SetStamp, SetData, Return, ReaderOnly, SyncOnly, EditReads,
          Restart, fileVars
    <2>3. ~Replace
      BY <1>1, VersionTypes DEF VersionInvariant, Replace
    <2>4. EditWrites => trampled'
      <3> SUFFICES ASSUME EditWrites PROVE trampled'
        OBVIOUS
      <3>1. file' = editor /\ (trampled' <=> trampled \/ editor.version # file.version)
        BY DEF EditWrites
      <3>2. editor.version # file.version
        BY <1>1, <3>1, VersionTypes
      <3> QED BY <3>1, <3>2
    <2> QED BY <2>2, <2>3, <2>4
  <1>2. TypeOK /\ VersionInvariant /\ [Next]_vars
           => [file'.version < file.version => EditWrites /\ trampled']_vars
    BY <1>1
  <1> QED
    BY <1>2, InitVersion, NextVersion, SyncTypesAreCorrect, PTL DEF Spec, OnlyTheToolGoesBack
=============================================================================
