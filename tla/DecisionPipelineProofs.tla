----------------------- MODULE DecisionPipelineProofs -----------------------
(***************************************************************************)
(* The decision pipeline, for every set of roads, of plans and of          *)
(* configurations: what it publishes can be sent, and every publication    *)
(* is a step of the result board.                                          *)
(***************************************************************************)
EXTENDS DecisionPipeline, SafetyGateProofs, FiniteSetTheorems

-----------------------------------------------------------------------------
(* Type correctness.                                                       *)

LEMMA InitTypeOK == Init => TypeOK
  BY BatchesAssumption
  DEF Init, TypeOK, Stages, NoScan, Blank, NoEntries

\* Dropping the locals of a batch restores their initial types.
LEMMA DropLocalsTypeOK ==
    ASSUME TypeOK, DropLocals, UNCHANGED coord, races' \in Nat
    PROVE  TypeOK'
  BY BatchesAssumption
  DEF TypeOK, DropLocals, Stages, NoScan, Blank, NoEntries, shared

\* The size of an event map is a number.
LEMMA SizeIsNat == ASSUME NEW map PROVE SizeOf(map) \in Nat
  <1>1. IsFiniteSet({d \in Devices : <<map, d>> \in events})
    BY FS_Subset, EventsAssumption
  <1> QED BY <1>1, FS_CardinalityType DEF SizeOf

LEMMA NextTypeOK == TypeOK /\ [Next]_vars => TypeOK'
  <1> SUFFICES ASSUME TypeOK, [Next]_vars PROVE TypeOK'
    OBVIOUS
  <1> USE DEF TypeOK, Stages
  <1>1. ASSUME NEW map \in EventMaps, NEW d \in Devices, ReceiveEvent(map, d)
        PROVE  TypeOK'
    BY <1>1 DEF ReceiveEvent, working, judging
  <1>2. ASSUME NEW c \in Configs, ReplaceConfig(c) PROVE TypeOK'
    BY <1>2 DEF ReplaceConfig, working, judging
  <1>3. CASE RequestStop
    BY <1>3 DEF RequestStop, working, judging
  <1>4. CASE StartBatch
    <2>1. batch' \in 0..MaxBatches
      BY <1>4, BatchesAssumption DEF StartBatch
    <2>2. scan' \in [map : {0} \cup EventMaps, size : Nat, seen : Nat]
      BY <1>4, SizeIsNat, EventsAssumption DEF StartBatch, BeginScan, EventMaps
    <2> QED BY <1>4, <2>1, <2>2 DEF StartBatch, shared, working, judging
  <1>5. CASE ScanNext
    <2>1. scan' \in [map : {0} \cup EventMaps, size : Nat, seen : Nat]
      BY <1>5, SizeIsNat DEF ScanNext, BeginScan, NoScan
    <2> QED BY <1>5, <2>1 DEF ScanNext, shared, working, judging
  <1>6. CASE ScanRaises
    BY <1>6, DropLocalsTypeOK DEF ScanRaises, Fail
  <1>7. CASE StageRaises
    BY <1>7, DropLocalsTypeOK DEF StageRaises, Fail
  <1>8. CASE CollectWorkers
    BY <1>8 DEF CollectWorkers, shared, working
  <1>9. CASE Coordinate
    BY <1>9 DEF Coordinate, shared, working
  <1>10. CASE FreezeConfig
    BY <1>10 DEF FreezeConfig, shared, working
  <1>11. ASSUME NEW r \in Roads, GateRoad(r) PROVE TypeOK'
    BY <1>11 DEF GateRoad, shared, working
  <1>12. CASE Report
    BY <1>12 DEF Report, shared, working, judging
  <1>13. CASE Publish
    BY <1>13, DropLocalsTypeOK DEF Publish
  <1>14. ASSUME NEW r \in Roads, Worker(r) PROVE TypeOK'
    <2>1. ASSUME NEW plan \in Selections \cup {Empty}, NEW b \in {0, batch},
                 WorkerReturns(r, plan, b), UNCHANGED coord
          PROVE  TypeOK'
      BY <2>1, BatchesAssumption DEF WorkerReturns, shared, judging
    <2> QED BY <1>14, <2>1 DEF Worker, WorkerSelects, WorkerFails, WorkerCannotStore
  <1>15. CASE UNCHANGED vars
    BY <1>15 DEF vars
  <1> QED BY <1>1, <1>2, <1>3, <1>4, <1>5, <1>6, <1>7, <1>8, <1>9, <1>10,
             <1>11, <1>12, <1>13, <1>14, <1>15 DEF Next, DecisionThread

\* Every variable keeps its type.
THEOREM TypeCorrect == Spec => []TypeOK
  BY InitTypeOK, NextTypeOK, PTL DEF Spec

-----------------------------------------------------------------------------
(* What is published can be sent.  The invariant that carries it through   *)
(* the batch: between the freezing of the configuration and the            *)
(* publication, every road already judged is deliverable under the frozen  *)
(* configuration, and nothing is judged at any other time.                 *)

JudgedIsDeliverable ==
    \A r \in Roads : final[r] # Unset => Deliverable(r, final[r].plan, snapshot)

BatchInvariant ==
    /\ stage \notin {"gating", "publish"} => final = Blank
    /\ stage \in {"gating", "publish"} => snapshot \in Configs /\ JudgedIsDeliverable
    /\ stage = "publish" => \A r \in Roads : final[r] # Unset

\* The warehouse holds whole batches, none newer than the running one, and
\* older than it until it is published.
BoardInvariant ==
    /\ warehouse # Nothing => warehouse \in Board!Entry
    /\ Board!BatchOf(warehouse) <= batch
    /\ stage # "idle" => Board!BatchOf(warehouse) < batch

Invariant == TypeOK /\ BatchInvariant /\ BoardInvariant /\ PublishedIsDeliverable

LEMMA InitInvariant == Init => Invariant
  BY InitTypeOK
  DEF Init, Invariant, BatchInvariant, BoardInvariant, PublishedIsDeliverable,
      Blank, Board!BatchOf

\* A deliverable plan is a plan, so a judged batch makes a board entry.
LEMMA PublishedEntry ==
    ASSUME TypeOK, BatchInvariant, Publish, batch # 0
    PROVE  /\ warehouse' \in Board!Entry
           /\ warehouse'.batch = batch
           /\ \A r \in Roads : Deliverable(r, warehouse'.plans[r], warehouse'.config)
  <1>1. warehouse' = [batch |-> batch, plans |-> [r \in Roads |-> final[r].plan], config |-> snapshot]
    BY DEF Publish
  <1>2. snapshot \in Configs /\ \A r \in Roads : Deliverable(r, final[r].plan, snapshot)
    BY DEF Publish, BatchInvariant, JudgedIsDeliverable
  <1>3. batch \in Nat \ {0}
    BY BatchesAssumption DEF TypeOK
  <1>4. \A r \in Roads : final[r].plan \in Plan
    BY <1>2 DEF Deliverable
  <1> QED BY <1>1, <1>2, <1>3, <1>4 DEF Board!Entry

\* Steps that touch neither the verdicts nor the warehouse.
LEMMA OutsideTheGate ==
    ASSUME Invariant, UNCHANGED <<batch, final, snapshot, warehouse>>,
           stage' = "idle" <=> stage = "idle",
           stage' \in {"gating", "publish"} => stage \in {"gating", "publish"},
           stage' = "publish" => stage = "publish" \/ \A r \in Roads : final[r] # Unset,
           stage' \notin {"gating", "publish"} => final = Blank
    PROVE  BatchInvariant' /\ BoardInvariant' /\ PublishedIsDeliverable'
  BY DEF Invariant, BatchInvariant, JudgedIsDeliverable, BoardInvariant,
         PublishedIsDeliverable, Board!BatchOf

\* A batch that fails leaves the warehouse alone.
LEMMA FailedBatch ==
    ASSUME Invariant, DropLocals, UNCHANGED warehouse
    PROVE  BatchInvariant' /\ BoardInvariant' /\ PublishedIsDeliverable'
  BY DEF Invariant, BatchInvariant, BoardInvariant, PublishedIsDeliverable,
         Board!BatchOf, DropLocals

LEMMA NextInvariant == Invariant /\ [Next]_vars => Invariant'
  <1> SUFFICES ASSUME Invariant, [Next]_vars
               PROVE  BatchInvariant' /\ BoardInvariant' /\ PublishedIsDeliverable'
    BY NextTypeOK DEF Invariant
  <1> USE DEF judging
  <1>0. /\ stage \notin {"gating", "publish"} => final = Blank
        /\ stage = "publish" => \A r \in Roads : final[r] # Unset
    BY DEF Invariant, BatchInvariant
  <1>1. ASSUME NEW map \in EventMaps, NEW d \in Devices, ReceiveEvent(map, d)
        PROVE  BatchInvariant' /\ BoardInvariant' /\ PublishedIsDeliverable'
    BY <1>0, <1>1, OutsideTheGate DEF ReceiveEvent
  <1>2. ASSUME NEW c \in Configs, ReplaceConfig(c)
        PROVE  BatchInvariant' /\ BoardInvariant' /\ PublishedIsDeliverable'
    BY <1>0, <1>2, OutsideTheGate DEF ReplaceConfig
  <1>3. CASE RequestStop
    BY <1>0, <1>3, OutsideTheGate DEF RequestStop
  <1>4. CASE StartBatch
    <2>1. batch \in Nat /\ batch' = batch + 1
      BY <1>4, BatchesAssumption DEF StartBatch, Invariant, TypeOK
    <2>2. Board!BatchOf(warehouse) \in Nat /\ Board!BatchOf(warehouse) <= batch
      BY DEF Invariant, BoardInvariant, Board!BatchOf, Board!Entry
    <2>3. Board!BatchOf(warehouse)' = Board!BatchOf(warehouse)
      BY <1>4 DEF StartBatch, Board!BatchOf
    <2>4. BoardInvariant'
      BY <1>4, <2>1, <2>2, <2>3 DEF StartBatch, Invariant, BoardInvariant
    <2>5. BatchInvariant' /\ PublishedIsDeliverable'
      BY <1>0, <1>4 DEF StartBatch, Invariant, BatchInvariant, PublishedIsDeliverable
    <2> QED BY <2>4, <2>5
  <1>5. CASE ScanNext
    BY <1>0, <1>5, OutsideTheGate DEF ScanNext
  <1>6. CASE ScanRaises
    BY <1>6, FailedBatch DEF ScanRaises, Fail
  <1>7. CASE StageRaises
    BY <1>7, FailedBatch DEF StageRaises, Fail
  <1>8. CASE CollectWorkers
    BY <1>0, <1>8, OutsideTheGate DEF CollectWorkers
  <1>9. CASE Coordinate
    BY <1>0, <1>9, OutsideTheGate DEF Coordinate
  <1>10. CASE FreezeConfig
    <2>1. final' = Blank /\ snapshot' \in Configs
      BY <1>0, <1>10 DEF FreezeConfig, Invariant, TypeOK
    <2>2. BatchInvariant'
      BY <1>10, <2>1 DEF FreezeConfig, BatchInvariant, JudgedIsDeliverable, Blank
    <2>3. BoardInvariant' /\ PublishedIsDeliverable'
      BY <1>10 DEF FreezeConfig, Invariant, BoardInvariant, PublishedIsDeliverable, Board!BatchOf
    <2> QED BY <2>2, <2>3
  <1>11. ASSUME NEW r \in Roads, GateRoad(r)
         PROVE  BatchInvariant' /\ BoardInvariant' /\ PublishedIsDeliverable'
    <2>1. PICK t \in Timetables :
              final' = [final EXCEPT ![r] = Gate(r, action[r], fallback[r], t, snapshot)]
      BY <1>11 DEF GateRoad
    <2>2. DOMAIN final = Roads
      BY DEF Invariant, TypeOK
    <2>3. \A q \in Roads : final'[q] # Unset => Deliverable(q, final'[q].plan, snapshot)
      <3> SUFFICES ASSUME NEW q \in Roads, final'[q] # Unset
                   PROVE  Deliverable(q, final'[q].plan, snapshot)
        OBVIOUS
      <3>1. CASE q = r
        BY <2>1, <2>2, <3>1, GateIsSafe
      <3>2. CASE q # r
        BY <1>11, <2>1, <2>2, <3>2 DEF GateRoad, Invariant, BatchInvariant, JudgedIsDeliverable
      <3> QED BY <3>1, <3>2
    <2>4. BatchInvariant'
      BY <1>11, <2>3 DEF GateRoad, Invariant, BatchInvariant, JudgedIsDeliverable
    <2>5. BoardInvariant' /\ PublishedIsDeliverable'
      BY <1>11 DEF GateRoad, Invariant, BoardInvariant, PublishedIsDeliverable, Board!BatchOf
    <2> QED BY <2>4, <2>5
  <1>12. CASE Report
    BY <1>0, <1>12, OutsideTheGate DEF Report
  <1>13. CASE Publish
    <2>1. batch \in Nat /\ batch # 0
      <3>1. batch \in Nat /\ Board!BatchOf(warehouse) < batch /\ Board!BatchOf(warehouse) \in Nat
        BY <1>13, BatchesAssumption
        DEF Publish, Invariant, TypeOK, BoardInvariant, Board!BatchOf, Board!Entry
      <3> QED BY <3>1
    <2>2. /\ warehouse' \in Board!Entry
          /\ warehouse'.batch = batch
          /\ \A r \in Roads : Deliverable(r, warehouse'.plans[r], warehouse'.config)
      BY <1>13, <2>1, PublishedEntry DEF Invariant
    <2>3. BatchInvariant'
      BY <1>13 DEF Publish, DropLocals, BatchInvariant
    <2>4. BoardInvariant'
      BY <1>13, <2>1, <2>2 DEF Publish, DropLocals, BoardInvariant, Board!BatchOf
    <2> QED BY <2>2, <2>3, <2>4 DEF PublishedIsDeliverable
  <1>14. ASSUME NEW r \in Roads, Worker(r)
         PROVE  BatchInvariant' /\ BoardInvariant' /\ PublishedIsDeliverable'
    BY <1>0, <1>14, OutsideTheGate
    DEF Worker, WorkerSelects, WorkerFails, WorkerCannotStore, WorkerReturns
  <1>15. CASE UNCHANGED vars
    BY <1>0, <1>15, OutsideTheGate DEF vars
  <1> QED BY <1>1, <1>2, <1>3, <1>4, <1>5, <1>6, <1>7, <1>8, <1>9, <1>10,
             <1>11, <1>12, <1>13, <1>14, <1>15 DEF Next, DecisionThread

LEMMA InvariantHolds == Spec => []Invariant
  BY InitInvariant, NextInvariant, PTL DEF Spec

\* Every published plan can be sent under the configuration of its batch.
THEOREM PublicationIsSafe == Spec => []PublishedIsDeliverable
  <1>1. Invariant => PublishedIsDeliverable
    BY DEF Invariant
  <1> QED BY <1>1, InvariantHolds, PTL

-----------------------------------------------------------------------------
(* The pipeline implements the result board.                               *)

LEMMA OnlyPublishWrites ==
    ASSUME Invariant, [Next]_vars
    PROVE  Publish \/ warehouse' = warehouse
  BY DEF Next, DecisionThread, ReceiveEvent, ReplaceConfig, RequestStop, StartBatch,
         ScanNext, ScanRaises, StageRaises, Fail, CollectWorkers, Coordinate,
         FreezeConfig, GateRoad, Report, Worker, WorkerSelects, WorkerFails,
         WorkerCannotStore, WorkerReturns, vars

LEMMA PublishReplaces ==
    ASSUME Invariant, Publish
    PROVE  Board!Replace
  <1>1. Board!BatchOf(warehouse) < batch /\ Board!BatchOf(warehouse) \in Nat /\ batch \in Nat
    BY BatchesAssumption
    DEF Publish, Invariant, TypeOK, BoardInvariant, Board!BatchOf, Board!Entry
  <1>2. /\ warehouse' \in Board!Entry
        /\ warehouse'.batch = batch
        /\ \A r \in Roads : Deliverable(r, warehouse'.plans[r], warehouse'.config)
    BY <1>1, PublishedEntry DEF Invariant
  <1> QED BY <1>1, <1>2 DEF Board!Replace

\* Readers of the warehouse see whole, deliverable batches in increasing order.
THEOREM PipelineImplementsBoard == Spec => BoardSpec
  <1>1. Init => Board!Init
    BY DEF Init, Board!Init
  <1>2. Invariant /\ [Next]_vars => [Board!Replace]_warehouse
    BY OnlyPublishWrites, PublishReplaces
  <1> QED BY <1>1, <1>2, InvariantHolds, PTL DEF Spec, BoardSpec, Board!Spec

-----------------------------------------------------------------------------
(* The coordinate set.  Workers run in one stage only, and in that stage   *)
(* the set is not replaced; it is replaced before the board is.            *)

BeforeWorkers == stage \in {"idle", "events"}
AfterWorkers == stage \in {"coordination", "safety", "gating", "publish"}

OneBatch(b) ==
    /\ \A r \in Roads : coord[r] \in {0, b}
    /\ (\E r \in Roads : coord[r] # 0) /\ warehouse # Nothing => b >= warehouse.batch

CoordinateInvariant ==
    /\ BeforeWorkers => basis = Blank /\ entry = NoEntries
    /\ stage = "workers" => \A r \in Roads : basis[r] \in {Unset, coord}
    /\ WorkersShareBasis
    /\ \A r \in Roads : entry[r] \in {0, batch}
    /\ AfterWorkers => OneBatch(batch)
    /\ CoordinateSetIsOfOneBatch

LEMMA InitCoordinate == Init => CoordinateInvariant
  BY BatchesAssumption
  DEF Init, CoordinateInvariant, WorkersShareBasis, CoordinateSetIsOfOneBatch,
      Blank, NoEntries, BeforeWorkers, AfterWorkers

\* Steps that leave the coordinate set, its readers and the board alone.
LEMMA CoordinateUntouched ==
    ASSUME CoordinateInvariant, UNCHANGED <<batch, entry, basis, coord, warehouse>>,
           stage' \in Stages,
           BeforeWorkers' => BeforeWorkers,
           stage' = "workers" => stage = "workers" \/ basis = Blank,
           AfterWorkers' => AfterWorkers
    PROVE  CoordinateInvariant'
  BY DEF CoordinateInvariant, WorkersShareBasis, CoordinateSetIsOfOneBatch, OneBatch,
         BeforeWorkers, AfterWorkers, Blank

\* The end of a batch forgets the readers.
LEMMA CoordinateForgets ==
    ASSUME CoordinateInvariant, DropLocals, UNCHANGED <<coord, warehouse>>
    PROVE  CoordinateInvariant'
  BY DEF CoordinateInvariant, WorkersShareBasis, CoordinateSetIsOfOneBatch, OneBatch,
         BeforeWorkers, AfterWorkers, DropLocals, Blank, NoEntries

LEMMA NextCoordinate ==
    Invariant /\ CoordinateInvariant /\ [Next]_vars => CoordinateInvariant'
  <1> SUFFICES ASSUME Invariant, CoordinateInvariant, [Next]_vars
               PROVE  CoordinateInvariant'
    OBVIOUS
  <1> USE DEF working, BeforeWorkers, AfterWorkers
  <1>0. stage \in Stages /\ (BeforeWorkers => basis = Blank /\ entry = NoEntries)
    BY DEF Invariant, TypeOK, CoordinateInvariant
  <1>1. ASSUME NEW map \in EventMaps, NEW d \in Devices, ReceiveEvent(map, d)
        PROVE  CoordinateInvariant'
    BY <1>0, <1>1, CoordinateUntouched DEF ReceiveEvent
  <1>2. ASSUME NEW c \in Configs, ReplaceConfig(c) PROVE CoordinateInvariant'
    BY <1>0, <1>2, CoordinateUntouched DEF ReplaceConfig
  <1>3. CASE RequestStop
    BY <1>0, <1>3, CoordinateUntouched DEF RequestStop
  <1>4. CASE StartBatch
    <2>1. basis' = Blank /\ entry' = entry /\ coord' = coord /\ warehouse' = warehouse
      BY <1>0, <1>4 DEF StartBatch
    <2>2. batch \in Nat /\ batch' = batch + 1
      BY <1>4, BatchesAssumption DEF StartBatch, Invariant, TypeOK
    <2>3. entry = NoEntries
      BY <1>0, <1>4 DEF StartBatch
    <2> QED
      BY <1>4, <2>1, <2>2, <2>3
      DEF StartBatch, CoordinateInvariant, WorkersShareBasis, CoordinateSetIsOfOneBatch,
          Blank, NoEntries
  <1>5. CASE ScanNext
    BY <1>0, <1>5, CoordinateUntouched DEF ScanNext, Stages
  <1>6. CASE ScanRaises
    BY <1>6, CoordinateForgets DEF ScanRaises, Fail
  <1>7. CASE StageRaises
    BY <1>7, CoordinateForgets DEF StageRaises, Fail
  <1>8. CASE CollectWorkers
    <2>1. batch \in 0..batch /\ batch \in Nat
      BY BatchesAssumption DEF Invariant, TypeOK
    <2>2. warehouse # Nothing => batch >= warehouse.batch
      BY <2>1 DEF Invariant, BoardInvariant, Board!BatchOf, Board!Entry
    <2>3. OneBatch(batch)'
      BY <1>8, <2>2 DEF CollectWorkers, OneBatch, CoordinateInvariant
    <2> QED
      BY <1>8, <2>1, <2>3
      DEF CollectWorkers, OneBatch, CoordinateInvariant, WorkersShareBasis,
          CoordinateSetIsOfOneBatch
  <1>9. CASE Coordinate
    BY <1>0, <1>9, CoordinateUntouched DEF Coordinate, Stages
  <1>10. CASE FreezeConfig
    BY <1>0, <1>10, CoordinateUntouched DEF FreezeConfig, Stages
  <1>11. ASSUME NEW r \in Roads, GateRoad(r) PROVE CoordinateInvariant'
    BY <1>0, <1>11, CoordinateUntouched DEF GateRoad
  <1>12. CASE Report
    BY <1>0, <1>12, CoordinateUntouched DEF Report, Stages
  <1>13. CASE Publish
    <2>1. OneBatch(batch) /\ batch \in 0..batch /\ batch >= batch
      BY <1>13, BatchesAssumption DEF Publish, CoordinateInvariant, Invariant, TypeOK
    <2>2. warehouse'.batch = batch
      BY <1>13 DEF Publish
    <2> QED
      BY <1>13, <2>1, <2>2
      DEF Publish, DropLocals, OneBatch, CoordinateInvariant, WorkersShareBasis,
          CoordinateSetIsOfOneBatch, Blank, NoEntries
  <1>14. ASSUME NEW r \in Roads, Worker(r) PROVE CoordinateInvariant'
    <2>1. PICK b \in {0, batch} :
              /\ stage = "workers" /\ stage' = "workers"
              /\ entry' = [entry EXCEPT ![r] = b]
              /\ basis' = [basis EXCEPT ![r] = coord]
              /\ coord' = coord /\ batch' = batch /\ warehouse' = warehouse
      BY <1>14 DEF Worker, WorkerSelects, WorkerFails, WorkerCannotStore, WorkerReturns
    <2>2. DOMAIN basis = Roads /\ DOMAIN entry = Roads
      BY DEF Invariant, TypeOK
    <2>3. \A q \in Roads : basis'[q] \in {Unset, coord} /\ entry'[q] \in {0, batch}
      BY <2>1, <2>2 DEF CoordinateInvariant
    <2> QED
      BY <2>1, <2>3 DEF CoordinateInvariant, WorkersShareBasis, CoordinateSetIsOfOneBatch
  <1>15. CASE UNCHANGED vars
    BY <1>0, <1>15, CoordinateUntouched DEF vars
  <1> QED BY <1>1, <1>2, <1>3, <1>4, <1>5, <1>6, <1>7, <1>8, <1>9, <1>10,
             <1>11, <1>12, <1>13, <1>14, <1>15 DEF Next, DecisionThread

LEMMA CoordinateHolds == Spec => []CoordinateInvariant
  BY InitCoordinate, NextCoordinate, InvariantHolds, PTL DEF Spec

\* All workers of a batch select from one coordinate set.
THEOREM WorkersAgree == Spec => []WorkersShareBasis
  <1>1. CoordinateInvariant => WorkersShareBasis
    BY DEF CoordinateInvariant
  <1> QED BY <1>1, CoordinateHolds, PTL

\* The coordinate set is that of one batch, at least as new as the board.
THEOREM CoordinateSetIsWhole == Spec => []CoordinateSetIsOfOneBatch
  <1>1. CoordinateInvariant => CoordinateSetIsOfOneBatch
    BY DEF CoordinateInvariant
  <1> QED BY <1>1, CoordinateHolds, PTL

-----------------------------------------------------------------------------
(* Batches lost to the unlocked scan.  Each is paid for by a key inserted  *)
(* since the scan began, and a key is inserted once.                       *)

Lost == IF stage = "events" /\ Grown THEN races + 1 ELSE races

RaceInvariant == Lost <= Cardinality(events)

LEMMA EventsFinite == ASSUME TypeOK PROVE IsFiniteSet(events) /\ Cardinality(events) \in Nat
  <1>1. IsFiniteSet(EventMaps)
    BY EventsAssumption, FS_Interval DEF EventMaps
  <1>2. IsFiniteSet(EventMaps \X Devices)
    BY <1>1, EventsAssumption, FS_Product
  <1>3. IsFiniteSet(events)
    BY <1>2, FS_Subset DEF TypeOK
  <1> QED BY <1>3, FS_CardinalityType

LEMMA NextRace == TypeOK /\ RaceInvariant /\ [Next]_vars => RaceInvariant'
  <1> SUFFICES ASSUME TypeOK, RaceInvariant, [Next]_vars PROVE RaceInvariant'
    OBVIOUS
  <1> USE DEF RaceInvariant, Lost
  <1>0. races \in Nat /\ Cardinality(events) \in Nat
    BY EventsFinite DEF TypeOK
  <1>1. ASSUME NEW map \in EventMaps, NEW d \in Devices, ReceiveEvent(map, d)
        PROVE  RaceInvariant'
    <2>1. Cardinality(events') = Cardinality(events) + 1
      BY <1>1, EventsFinite, FS_AddElement DEF ReceiveEvent
    <2>2. races' = races
      BY <1>1 DEF ReceiveEvent
    <2> QED BY <1>0, <2>1, <2>2
  \* No other step inserts a key; those below lose no batch either.
  <1>2. ASSUME UNCHANGED <<events, races>>, (stage' = "events" /\ Grown') => (stage = "events" /\ Grown)
        PROVE  RaceInvariant'
    BY <1>0, <1>2
  <1>3. ASSUME NEW c \in Configs, ReplaceConfig(c) PROVE RaceInvariant'
    BY <1>2, <1>3 DEF ReplaceConfig, Grown, SizeOf
  <1>4. CASE RequestStop
    BY <1>2, <1>4 DEF RequestStop, Grown, SizeOf
  <1>5. CASE StartBatch
    <2>1. ~Grown'
      BY <1>5 DEF StartBatch, BeginScan, Grown, SizeOf, shared
    <2> QED BY <1>2, <1>5, <2>1 DEF StartBatch, shared
  <1>6. CASE ScanNext
    <2>1. stage' = "events" => ~Grown'
      <3>1. events' = events /\ ~Grown
        BY <1>6 DEF ScanNext, shared
      <3>2. ASSUME scan' = [scan EXCEPT !.seen = @ + 1] PROVE ~Grown'
        <4>1. scan'.map = scan.map /\ scan'.size = scan.size
          BY <3>2 DEF TypeOK
        <4> QED BY <3>1, <4>1 DEF Grown, SizeOf
      <3>3. ASSUME NEW map, BeginScan(map) PROVE ~Grown'
        BY <3>1, <3>3 DEF BeginScan, Grown, SizeOf
      <3>4. CASE stage' = "workers"
        BY <3>4
      <3> QED BY <1>6, <3>2, <3>3, <3>4 DEF ScanNext
    <2> QED BY <1>2, <1>6, <2>1 DEF ScanNext, shared
  <1>7. CASE ScanRaises
    BY <1>0, <1>7 DEF ScanRaises, Fail, DropLocals, shared
  <1>8. CASE StageRaises
    BY <1>2, <1>8 DEF StageRaises, Fail, DropLocals, shared
  <1>9. CASE CollectWorkers \/ Coordinate \/ FreezeConfig \/ Report \/ Publish
    BY <1>2, <1>9
    DEF CollectWorkers, Coordinate, FreezeConfig, Report, Publish, DropLocals, shared
  <1>10. ASSUME NEW r \in Roads, GateRoad(r) PROVE RaceInvariant'
    BY <1>2, <1>10 DEF GateRoad, shared
  <1>11. ASSUME NEW r \in Roads, Worker(r) PROVE RaceInvariant'
    BY <1>2, <1>11
    DEF Worker, WorkerSelects, WorkerFails, WorkerCannotStore, WorkerReturns, shared
  <1>12. CASE UNCHANGED vars
    BY <1>2, <1>12 DEF vars, Grown, SizeOf
  <1> QED BY <1>1, <1>3, <1>4, <1>5, <1>6, <1>7, <1>8, <1>9, <1>10, <1>11, <1>12
          DEF Next, DecisionThread

\* The number of devices bounds the batches lost to the unlocked scan, so the
\* race cannot keep the pipeline from publishing for ever.
THEOREM RacesNeverStarve == Spec => []RacesAreBounded
  <1>1. Init => RaceInvariant
    BY FS_EmptySet DEF Init, RaceInvariant, Lost
  <1>2. TypeOK /\ RaceInvariant => RacesAreBounded
    BY EventsFinite DEF RaceInvariant, Lost, RacesAreBounded, TypeOK
  <1> QED BY <1>1, <1>2, NextRace, TypeCorrect, PTL DEF Spec

-----------------------------------------------------------------------------
(* The fallbacks are the workers' own selections to the end of the batch.  *)

FallbackInvariant ==
    /\ AfterWorkers => fallback = selected
    /\ stage \notin {"gating", "publish"} => final = Blank
    /\ SelectionBeforeTimetable

LEMMA NextFallback ==
    TypeOK /\ FallbackInvariant /\ [Next]_vars => FallbackInvariant'
  <1> SUFFICES ASSUME TypeOK, FallbackInvariant, [Next]_vars PROVE FallbackInvariant'
    OBVIOUS
  <1> USE DEF FallbackInvariant, AfterWorkers, Blank
  \* Steps that change no verdict, candidate or frozen configuration.
  <1>1. ASSUME UNCHANGED <<selected, fallback, final, snapshot>>,
               AfterWorkers' => AfterWorkers,
               stage' \notin {"gating", "publish"} => final = Blank
        PROVE  FallbackInvariant'
    BY <1>1 DEF SelectionBeforeTimetable, Usable, PreparedStatus
  \* Steps after which there is no verdict.
  <1>2. ASSUME final' = Blank, AfterWorkers' => fallback' = selected'
        PROVE  FallbackInvariant'
    BY <1>2 DEF SelectionBeforeTimetable
  <1>3. ASSUME NEW map \in EventMaps, NEW d \in Devices, ReceiveEvent(map, d)
        PROVE  FallbackInvariant'
    BY <1>1, <1>3 DEF ReceiveEvent, working, judging
  <1>4. ASSUME NEW c \in Configs, ReplaceConfig(c) PROVE FallbackInvariant'
    BY <1>1, <1>4 DEF ReplaceConfig, working, judging
  <1>5. CASE RequestStop
    BY <1>1, <1>5 DEF RequestStop, working, judging
  <1>6. CASE StartBatch \/ ScanNext
    BY <1>1, <1>6 DEF StartBatch, ScanNext, working, judging
  <1>7. CASE ScanRaises \/ StageRaises \/ Publish
    BY <1>2, <1>7 DEF ScanRaises, StageRaises, Publish, Fail, DropLocals
  <1>8. CASE CollectWorkers
    BY <1>2, <1>8 DEF CollectWorkers, working
  <1>9. CASE Coordinate
    BY <1>1, <1>9 DEF Coordinate, working
  <1>10. CASE FreezeConfig
    BY <1>2, <1>10 DEF FreezeConfig, working
  <1>11. ASSUME NEW r \in Roads, GateRoad(r) PROVE FallbackInvariant'
    <2>1. PICK t \in Timetables :
              final' = [final EXCEPT ![r] = Gate(r, action[r], fallback[r], t, snapshot)]
      BY <1>11 DEF GateRoad
    <2>2. fallback = selected /\ UNCHANGED <<fallback, selected, snapshot, stage>> /\ stage = "gating"
      BY <1>11 DEF GateRoad, working
    <2>3. Gate(r, action[r], fallback[r], t, snapshot).source \in {"timetable", "no_action"}
            => ~Usable(r, selected[r], snapshot)
      BY <2>2 DEF Gate
    <2>4. DOMAIN final = Roads
      BY DEF TypeOK
    <2>5. \A q \in Roads :
            (final'[q] # Unset /\ final'[q].source \in {"timetable", "no_action"})
                => ~Usable(q, selected[q], snapshot)
      BY <2>1, <2>3, <2>4 DEF SelectionBeforeTimetable
    <2> QED BY <2>2, <2>5 DEF SelectionBeforeTimetable
  <1>12. CASE Report
    BY <1>1, <1>12 DEF Report, working, judging
  <1>13. ASSUME NEW r \in Roads, Worker(r) PROVE FallbackInvariant'
    <2>1. stage = "workers" /\ stage' = "workers" /\ final' = final
      BY <1>13
      DEF Worker, WorkerSelects, WorkerFails, WorkerCannotStore, WorkerReturns, judging
    <2> QED BY <1>2, <2>1
  <1>14. CASE UNCHANGED vars
    BY <1>1, <1>14 DEF vars
  <1> QED BY <1>3, <1>4, <1>5, <1>6, <1>7, <1>8, <1>9, <1>10, <1>11, <1>12,
             <1>13, <1>14 DEF Next, DecisionThread

\* The timetable and the marker replace a selection only when it is unusable.
THEOREM SelectionsComeFirst == Spec => []SelectionBeforeTimetable
  <1>1. Init => FallbackInvariant
    BY DEF Init, FallbackInvariant, AfterWorkers, Blank, SelectionBeforeTimetable
  <1>2. FallbackInvariant => SelectionBeforeTimetable
    BY DEF FallbackInvariant
  <1> QED BY <1>1, <1>2, NextFallback, TypeCorrect, PTL DEF Spec
=============================================================================
