-------------------------- MODULE DecisionPipeline --------------------------
(***************************************************************************)
(* One decision batch after another (runtime/decision_pipeline.py): read   *)
(* the shared event maps, select a plan per road on a pool of workers,     *)
(* coordinate all roads, pass every road through the safety gate, publish. *)
(*                                                                         *)
(* The threads: the decision loop (runtime/application.py), its worker     *)
(* pool, the receivers that write the event maps without a lock            *)
(* (datahub/service.py) and the HTTP handler that replaces the static      *)
(* configuration (phase_check.py).  The selectors and the coordination are *)
(* black boxes that return any plan of a set.                              *)
(***************************************************************************)
EXTENDS SafetyGate, FiniteSets

CONSTANTS Roads,          \* the controlled intersections
          InternetRoads,  \* roads whose plan the coordination may rebuild
          EventMapCount,  \* number of event maps, scanned in order
          Devices,        \* keys a receiver may insert in an event map
          Selections,     \* raw plans a selector may return
          Coordinated,    \* raw plans the coordination may return
          Timetables,     \* raw plans the timetable may hold
          Configs,        \* static configurations the loader admits
          Empty,          \* the result template: a road without a plan
          Unset,          \* a road not processed yet
          Nothing,        \* no batch was published yet
          MaxBatches      \* bound on the number of batches

EventMaps == 1..EventMapCount

ASSUME RoadsAssumption ==
    /\ IsFiniteSet(Roads)
    /\ InternetRoads \subseteq Roads

ASSUME EventsAssumption ==
    /\ EventMapCount \in Nat \ {0}
    /\ IsFiniteSet(Devices)

\* The template is no plan and no selector returns it.
ASSUME TemplateAssumption ==
    /\ Empty \notin Plan \cup Selections \cup Coordinated \cup {Unset}
    /\ Unset \notin Plan \cup Selections \cup Coordinated \cup Configs

ASSUME ConfigsAssumption == \A c \in Configs : Admitted(c)

ASSUME BatchesAssumption == MaxBatches \in Nat

VARIABLES
    running,     \* ~AitcApplication._stop_event.is_set()
    config,      \* phase_check.intersection_result_config
    events,      \* <<map, device>> pairs present in the shared event maps
    batch,       \* number of the current, or of the last, batch
    stage,       \* where run_once stands
    scan,        \* the dict iteration in progress: map, size at its start, items seen
    selected,    \* result_action of each road, as its worker left it
    entry,       \* new_coordinate_set: the batch a road's entry describes, 0 without one
    basis,       \* the last_coordinate_set each worker read
    coord,       \* self.last_coordinate_set
    action,      \* the plans after coordination
    fallback,    \* fallback_action: the deep copy taken before coordination
    snapshot,    \* the configuration ControlSafetyEngine.finalize froze
    final,       \* the gate's verdict per road
    warehouse,   \* ResultWarehouse._results
    races        \* batches lost because an event map grew under the scan

shared == <<running, config, events>>
working == <<selected, entry, basis>>
judging == <<action, fallback, snapshot, final>>
vars == <<running, config, events, batch, stage, scan, selected, entry, basis,
          coord, action, fallback, snapshot, final, warehouse, races>>

Stages == {"idle", "events", "workers", "coordination", "safety", "gating", "publish"}

Blank == [r \in Roads |-> Unset]
NoEntries == [r \in Roads |-> 0]
NoScan == [map |-> 0, size |-> 0, seen |-> 0]

SizeOf(map) == Cardinality({d \in Devices : <<map, d>> \in events})

TypeOK ==
    /\ running \in BOOLEAN
    /\ config \in Configs /\ snapshot \in Configs \cup {Unset}
    /\ events \subseteq EventMaps \X Devices
    /\ batch \in 0..MaxBatches
    /\ stage \in Stages
    /\ scan \in [map : {0} \cup EventMaps, size : Nat, seen : Nat]
    /\ selected \in [Roads -> Selections \cup {Empty, Unset}]
    /\ entry \in [Roads -> 0..MaxBatches]
    /\ basis \in [Roads -> [Roads -> 0..MaxBatches] \cup {Unset}]
    /\ coord \in [Roads -> 0..MaxBatches]
    /\ action \in [Roads -> Selections \cup Coordinated \cup {Empty, Unset}]
    /\ fallback \in [Roads -> Selections \cup {Empty, Unset}]
    /\ DOMAIN final = Roads
    /\ races \in Nat

Init ==
    /\ running = TRUE
    /\ config \in Configs /\ snapshot = Unset
    /\ events = {}
    /\ batch = 0 /\ stage = "idle" /\ scan = NoScan
    /\ selected = Blank /\ entry = NoEntries /\ basis = Blank
    /\ coord = NoEntries
    /\ action = Blank /\ fallback = Blank /\ final = Blank
    /\ warehouse = Nothing
    /\ races = 0

-----------------------------------------------------------------------------
(* The threads the pipeline shares state with.                             *)

\* Mutant: a new device evicts the older keys.
ReceiveEventEvicting(map, d) ==
    /\ <<map, d>> \notin events
    /\ events' = {<<map, d>>}
    /\ UNCHANGED <<running, config, batch, stage, scan, working, coord, judging, warehouse, races>>

\* TrafficDataHub._handle_radar_event and _handle_overflow_warning: a first
\* message of a device inserts a key.  Nothing ever deletes one, and a later
\* message only replaces the value.
ReceiveEvent(map, d) ==
    /\ <<map, d>> \notin events
    /\ events' = events \cup {<<map, d>>}
    /\ UNCHANGED <<running, config, batch, stage, scan, working, coord, judging, warehouse, races>>

\* replace_intersection_result_config: the dictionary is swapped, never edited.
ReplaceConfig(c) ==
    /\ c # config
    /\ config' = c
    /\ UNCHANGED <<running, events, batch, stage, scan, working, coord, judging, warehouse, races>>

\* AitcApplication.stop: the decision loop finishes the batch it is in.
RequestStop ==
    /\ running
    /\ running' = FALSE
    /\ UNCHANGED <<config, events, batch, stage, scan, working, coord, judging, warehouse, races>>

-----------------------------------------------------------------------------
(* run_once, on the decision thread.                                       *)

BeginScan(map) == scan' = [map |-> map, size |-> SizeOf(map), seen |-> 0]

StartBatch ==
    /\ running /\ stage = "idle"
    /\ batch < MaxBatches
    /\ batch' = batch + 1
    /\ stage' = "events"
    /\ BeginScan(1)
    /\ UNCHANGED <<shared, working, coord, judging, warehouse, races>>

\* The locals of run_once are dropped when it returns or raises.
DropLocals ==
    /\ stage' = "idle" /\ scan' = NoScan
    /\ selected' = Blank /\ entry' = NoEntries /\ basis' = Blank
    /\ action' = Blank /\ fallback' = Blank /\ final' = Blank /\ snapshot' = Unset
    /\ UNCHANGED <<shared, batch>>

\* Mutant: a batch that fails clears the warehouse.
FailAndClear ==
    /\ DropLocals
    /\ warehouse' = Nothing
    /\ UNCHANGED coord

\* An exception leaves run_once; the loop logs it and goes on.  What was
\* assigned to self stays assigned.
Fail ==
    /\ DropLocals
    /\ UNCHANGED <<coord, warehouse>>

Grown == SizeOf(scan.map) # scan.size

\* Iterating a dict compares its size with the size at the start before each
\* item, and once more before it ends.
ScanNext ==
    /\ stage = "events" /\ ~Grown
    /\ \/ /\ scan.seen < scan.size
          /\ scan' = [scan EXCEPT !.seen = @ + 1]
          /\ UNCHANGED stage
       \/ /\ scan.seen = scan.size /\ scan.map + 1 \in EventMaps
          /\ BeginScan(scan.map + 1)
          /\ UNCHANGED stage
       \/ /\ scan.seen = scan.size /\ scan.map + 1 \notin EventMaps
          /\ scan' = NoScan
          /\ stage' = "workers"
    /\ UNCHANGED <<shared, batch, working, coord, judging, warehouse, races>>

\* "dictionary changed size during iteration"
ScanRaises ==
    /\ stage = "events" /\ Grown
    /\ races' = races + 1
    /\ Fail

-----------------------------------------------------------------------------
(* _process_single_intersection, on a worker thread.  A worker never lets  *)
(* an exception out: it returns the template.                              *)

WorkerReturns(r, plan, described) ==
    /\ stage = "workers" /\ selected[r] = Unset
    /\ selected' = [selected EXCEPT ![r] = plan]
    /\ entry' = [entry EXCEPT ![r] = described]
    /\ basis' = [basis EXCEPT ![r] = coord]
    /\ UNCHANGED <<shared, batch, stage, scan, judging, warehouse, races>>

\* Mutant: a worker stores its entry in the set the others are still reading.
WorkerSelectsInPlace(r) ==
    /\ \E plan \in Selections : WorkerReturns(r, plan, batch)
    /\ coord' = [coord EXCEPT ![r] = batch]

WorkerSelects(r) ==
    /\ \E plan \in Selections : WorkerReturns(r, plan, batch)
    /\ UNCHANGED coord

\* The selector (or the input) fails: neither plan nor coordinate entry.
WorkerFails(r) ==
    /\ WorkerReturns(r, Empty, 0)
    /\ UNCHANGED coord

\* write_experience fails: the entry is returned, the plan is not.
WorkerCannotStore(r) ==
    /\ WorkerReturns(r, Empty, batch)
    /\ UNCHANGED coord

\* Mutant: a road without a new entry keeps its old one.
CollectWorkersMerging ==
    /\ stage = "workers"
    /\ \A r \in Roads : selected[r] # Unset
    /\ coord' = [r \in Roads |-> IF entry[r] = 0 THEN coord[r] ELSE entry[r]]
    /\ action' = selected /\ fallback' = selected
    /\ stage' = "coordination"
    /\ UNCHANGED <<shared, batch, scan, working, snapshot, final, warehouse, races>>

\* Mutant: the batch waits for a plan of every road.
CollectWorkersWithPlans ==
    /\ stage = "workers"
    /\ \A r \in Roads : selected[r] \notin {Unset, Empty}
    /\ coord' = entry
    /\ action' = selected /\ fallback' = selected
    /\ stage' = "coordination"
    /\ UNCHANGED <<shared, batch, scan, working, snapshot, final, warehouse, races>>

\* The pool is joined, last_coordinate_set is replaced as a whole, and the
\* candidates are copied for the safety gate.
CollectWorkers ==
    /\ stage = "workers"
    /\ \A r \in Roads : selected[r] # Unset
    /\ coord' = entry
    /\ action' = selected /\ fallback' = selected
    /\ stage' = "coordination"
    /\ UNCHANGED <<shared, batch, scan, working, snapshot, final, warehouse, races>>

-----------------------------------------------------------------------------
(* _finalize_batch, on the decision thread.                                *)

Planless == {r \in Roads : action[r] = Empty}

\* Mutant: the fallbacks are the lists the coordination edits in place.
CoordinateSharing ==
    /\ stage = "coordination"
    /\ Planless \subseteq InternetRoads
    /\ \E plans \in [Roads -> Coordinated] : action' = plans /\ fallback' = plans
    /\ stage' = "safety"
    /\ UNCHANGED <<shared, batch, scan, working, coord, snapshot, final, warehouse, races>>

\* The coordination edits the plans in place.  It rebuilds the plan of an
\* internet road from scratch; complete_minimum_cycle indexes every plan, so a
\* template that was not rebuilt makes it raise.
Coordinate ==
    /\ stage = "coordination"
    /\ Planless \subseteq InternetRoads
    /\ action' \in [Roads -> Coordinated]
    /\ stage' = "safety"
    /\ UNCHANGED <<shared, batch, scan, working, coord, fallback, snapshot, final, warehouse, races>>

\* ControlSafetyEngine.finalize: one deep copy of the configuration for the
\* whole batch.
FreezeConfig ==
    /\ stage = "safety"
    /\ snapshot' = config
    /\ stage' = "gating"
    /\ UNCHANGED <<shared, batch, scan, working, coord, action, fallback, final, warehouse, races>>

\* Mutant: each road is judged under the configuration of the moment.
GateRoadLive(r) ==
    /\ stage = "gating" /\ final[r] = Unset
    /\ \E t \in Timetables :
          final' = [final EXCEPT ![r] = Gate(r, action[r], fallback[r], t, config)]
    /\ UNCHANGED <<shared, batch, stage, scan, working, coord, action, fallback, snapshot, warehouse, races>>

GateRoad(r) ==
    /\ stage = "gating" /\ final[r] = Unset
    /\ \E t \in Timetables :
          final' = [final EXCEPT ![r] = Gate(r, action[r], fallback[r], t, snapshot)]
    /\ UNCHANGED <<shared, batch, stage, scan, working, coord, action, fallback, snapshot, warehouse, races>>

\* writer.write_phase_check, then the formatting of each road.
Report ==
    /\ stage = "gating"
    /\ \A r \in Roads : final[r] # Unset
    /\ stage' = "publish"
    /\ UNCHANGED <<shared, batch, scan, working, coord, judging, warehouse, races>>

\* ResultWarehouse.replace, under its lock.
Publish ==
    /\ stage = "publish"
    /\ warehouse' = [batch |-> batch, plans |-> [r \in Roads |-> final[r].plan], config |-> snapshot]
    /\ DropLocals
    /\ UNCHANGED <<coord, races>>

\* Aggregation, the input snapshot file, the coordination, the report file and
\* the formatter may raise (a missing file, a full disk, a malformed record),
\* and so may the timetable loader inside the gate, whose holiday calendar
\* ends with a year.
StageRaises ==
    /\ stage \in {"events", "coordination", "gating", "publish"}
    /\ Fail
    /\ UNCHANGED races

-----------------------------------------------------------------------------

DecisionThread ==
    \/ ScanNext \/ ScanRaises
    \/ CollectWorkers \/ Coordinate \/ FreezeConfig
    \/ \E r \in Roads : GateRoad(r)
    \/ Report \/ Publish \/ StageRaises

Worker(r) == WorkerSelects(r) \/ WorkerFails(r) \/ WorkerCannotStore(r)

Next ==
    \/ \E map \in EventMaps, d \in Devices : ReceiveEvent(map, d)
    \/ \E c \in Configs : ReplaceConfig(c)
    \/ RequestStop \/ StartBatch \/ DecisionThread
    \/ \E r \in Roads : Worker(r)

\* The decision thread is never blocked inside a batch: it holds no lock while
\* it waits, and each worker returns (the model gateway and the file writes
\* have time limits or end).
Fairness == WF_vars(DecisionThread) /\ \A r \in Roads : WF_vars(Worker(r))

Spec == Init /\ [][Next]_vars /\ Fairness

-----------------------------------------------------------------------------
(* Properties.                                                             *)

\* Every plan in the warehouse can be run by its controller under the one
\* configuration its batch was judged by, whatever the workers and the
\* coordination returned and whenever the configuration was replaced.
PublishedIsDeliverable ==
    warehouse # Nothing =>
        \A r \in Roads : Deliverable(r, warehouse.plans[r], warehouse.config)

\* The gate leaves a road's own selection for the timetable, or for the
\* no-action marker, only when the selection itself cannot be used: the
\* coordination cannot spoil the fallback it edits a copy of.
SelectionBeforeTimetable ==
    \A r \in Roads :
        (final[r] # Unset /\ final[r].source \in {"timetable", "no_action"})
            => ~Usable(r, selected[r], snapshot)

\* All workers of a batch read the same coordinate set, although it is
\* replaced while the program runs.
WorkersShareBasis ==
    \A r, q \in Roads : (basis[r] # Unset /\ basis[q] # Unset) => basis[r] = basis[q]

\* The coordinate set describes one batch, never a mix of two, and that batch
\* is not older than the published one.
CoordinateSetIsOfOneBatch ==
    \E b \in 0..batch :
        /\ \A r \in Roads : coord[r] \in {0, b}
        /\ (\E r \in Roads : coord[r] # 0) /\ warehouse # Nothing => b >= warehouse.batch

\* A batch is lost to the unlocked scan only when a device reported for the
\* first time, so the devices bound the batches lost that way.
RacesAreBounded == races <= Cardinality(events)

\* A batch that started ends, published or failed.
BatchEnds == (stage # "idle") ~> (stage = "idle")

\* The warehouse shows its readers whole batches in increasing order.
Board == INSTANCE ResultBoard WITH board <- warehouse
BoardSpec == Board!Spec
=============================================================================
