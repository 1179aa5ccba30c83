---------------------------- MODULE DataHubProofs ----------------------------
(***************************************************************************)
(* For any number of messages, any limits and any order of the threads:    *)
(* the windows of the short term memory stay in the order of their         *)
(* receipts, the answers of the event windows tell the truth about what    *)
(* they have lost, and the two stores account for each other.              *)
(***************************************************************************)
EXTENDS DataHub, SequenceTheorems, FiniteSetTheorems, TLAPS

Items == [at : Nat, message : Nat]

Messages == [kind : Kinds, at : Nat, to : Targets, copied : BOOLEAN]

Pending ==
    [step : {"cached", "copied", "uncopied"}, kind : Kinds, at : Nat, to : Targets, since : Nat]

HubTypes ==
    /\ now \in Nat
    /\ received \in Seq(Messages)
    /\ pending \in Pending \cup {NoMessage}
    /\ lastReceived \in [Kinds -> Nat]
    /\ cache \in [Kinds -> Seq(Items)]

Sorted(items) ==
    \A i, j \in DOMAIN items : i < j => items[i].at <= items[j].at

Window(items, latest) ==
    /\ items \in Seq(Items)
    /\ Sorted(items)
    /\ \A i \in DOMAIN items : items[i].at <= latest

\* A window holds nothing later than the last receipt of its kind, except the
\* message that is cached and not stamped yet.
Unstamped(k) == pending.step = "cached" /\ pending.kind = k

Latest(k) == IF Unstamped(k) THEN now ELSE lastReceived[k]

WindowInvariant ==
    /\ HubTypes
    /\ \A k \in Kinds : lastReceived[k] <= now /\ Window(cache[k], Latest(k))

\* left is items without their first n.
Suffix(left, items, n) ==
    \A i \in DOMAIN left : i \in Nat /\ n + i \in DOMAIN items /\ left[i] = items[n + i]

\* Dropping from the head adds nothing.
LEMMA DropIsSuffix ==
    ASSUME NEW items \in Seq(Items), NEW kind, NEW t
    PROVE  /\ DropOldHead(items, kind, t) \in Seq(Items)
           /\ \E n \in Nat : Suffix(DropOldHead(items, kind, t), items, n)
  <1> DEFINE young(i) == Windowed(kind, items[i].at, t)
             old == {i \in DOMAIN items : \A j \in 1..i : ~young(j)}
             n == Cardinality(old)
             left == SubSeq(items, n + 1, Len(items))
  <1>1. Len(items) \in Nat /\ DOMAIN items = 1..Len(items)
    BY LenProperties
  <1>2. n \in Nat
    <2>1. IsFiniteSet(1..Len(items))
      BY <1>1, FS_Interval
    <2>2. old \subseteq 1..Len(items)
      BY <1>1
    <2>3. IsFiniteSet(old)
      BY <2>1, <2>2, FS_Subset
    <2> QED
      BY <2>3, FS_CardinalityType
  <1> HIDE DEF n
  <1>3. \A i \in (n + 1)..Len(items) : items[i] \in Items
    BY <1>1, <1>2, ElementOfSeq
  <1>4. /\ left \in Seq(Items)
        /\ n + 1 <= Len(items) => Len(left) = Len(items) - n
        /\ ~(n + 1 <= Len(items)) => Len(left) = 0
        /\ \A i \in 1..(Len(items) - n) : left[i] = items[n + i]
    <2>1. n + 1 \in Int /\ Len(items) \in Int
      BY <1>1, <1>2
    <2>2. /\ left \in Seq(Items)
          /\ Len(left) = IF n + 1 <= Len(items) THEN Len(items) - (n + 1) + 1 ELSE 0
          /\ \A i \in 1..(Len(items) - (n + 1) + 1) : left[i] = items[n + 1 + i - 1]
      BY <2>1, <1>3, SubSeqProperties
    <2> HIDE DEF left
    <2>3. Len(items) - (n + 1) + 1 = Len(items) - n
      BY <1>1, <1>2
    <2>4. \A i \in 1..(Len(items) - n) : n + 1 + i - 1 = n + i
      BY <1>1, <1>2
    <2>5. \A i \in 1..(Len(items) - n) : left[i] = items[n + i]
      BY <2>2, <2>3, <2>4
    <2> QED
      BY <2>2, <2>3, <2>5
  <1>9. DropOldHead(items, kind, t) = left
    BY DEF DropOldHead, n
  <1> HIDE DEF left
  <1>5. DOMAIN left = 1..Len(left) /\ Len(left) \in Nat
    BY <1>4, LenProperties
  <1>6. \A i \in DOMAIN left : i \in Nat /\ n + i \in DOMAIN items /\ left[i] = items[n + i]
    <2> TAKE i \in DOMAIN left
    <2>1. i \in 1..Len(left)
      BY <1>5
    <2>2. i \in 1..(Len(items) - n)
      <3>1. n + 1 <= Len(items)
        BY <1>4, <2>1
      <3>2. i \in 1..Len(left) /\ Len(left) = Len(items) - n
        BY <1>4, <2>1, <3>1
      <3> QED
        BY <3>2
    <2>3. n + i \in 1..Len(items)
      BY <1>1, <1>2, <2>2
    <2> QED
      BY <1>1, <1>4, <2>2, <2>3
  <1> QED
    BY <1>2, <1>4, <1>6, <1>9 DEF Suffix

\* It keeps the order, too.
LEMMA DropKeepsOrder ==
    ASSUME NEW items, NEW kind, NEW t, NEW latest \in Nat, Window(items, latest)
    PROVE  Window(DropOldHead(items, kind, t), latest)
  <1> DEFINE left == DropOldHead(items, kind, t)
  <1>1. items \in Seq(Items) /\ Sorted(items) /\ \A i \in DOMAIN items : items[i].at <= latest
    BY DEF Window
  <1>2. left \in Seq(Items)
    BY <1>1, DropIsSuffix
  <1>3. PICK n \in Nat : \A i \in DOMAIN left :
            i \in Nat /\ n + i \in DOMAIN items /\ left[i] = items[n + i]
    BY <1>1, DropIsSuffix DEF Suffix
  <1> HIDE DEF left
  <1>4. Sorted(left)
    <2> SUFFICES ASSUME NEW i \in DOMAIN left, NEW j \in DOMAIN left, i < j
                 PROVE  left[i].at <= left[j].at
      BY DEF Sorted
    <2>1. n + i < n + j
      BY <1>3
    <2> QED
      BY <1>1, <1>3, <2>1 DEF Sorted
  <1> QED
    BY <1>1, <1>2, <1>3, <1>4 DEF Window, left

LEMMA ItemTypes ==
    ASSUME NEW items \in Seq(Items)
    PROVE  \A i \in DOMAIN items : items[i] \in Items /\ items[i].at \in Nat
  <1> TAKE i \in DOMAIN items
  <1>1. items[i] \in Items
    BY LenProperties, ElementOfSeq
  <1> QED
    BY <1>1 DEF Items

\* A receipt no older than the window extends it in order.
LEMMA AppendKeepsOrder ==
    ASSUME NEW items, NEW latest \in Nat, Window(items, latest),
           NEW item \in Items, latest <= item.at
    PROVE  Window(Append(items, item), item.at)
  <1>1. items \in Seq(Items) /\ item.at \in Nat
    BY DEF Window, Items
  <1>2. \A i \in DOMAIN items : items[i].at \in Nat /\ items[i].at <= item.at
    BY <1>1, ItemTypes DEF Window
  <1>3. /\ Append(items, item) \in Seq(Items)
        /\ DOMAIN Append(items, item) = 1..(Len(items) + 1)
        /\ \A i \in 1..Len(items) : Append(items, item)[i] = items[i]
        /\ Append(items, item)[Len(items) + 1] = item
    BY <1>1
  <1>4. DOMAIN items = 1..Len(items) /\ Len(items) \in Nat
    BY <1>1, LenProperties
  <1>5. \A i \in 1..(Len(items) + 1) : i \in 1..Len(items) \/ i = Len(items) + 1
    BY <1>4
  <1>6. \A i \in DOMAIN Append(items, item) : Append(items, item)[i].at <= item.at
    BY <1>1, <1>2, <1>3, <1>4, <1>5
  <1>7. Sorted(Append(items, item))
    <2> SUFFICES ASSUME NEW i \in 1..(Len(items) + 1), NEW j \in 1..(Len(items) + 1), i < j
                 PROVE  Append(items, item)[i].at <= Append(items, item)[j].at
      BY <1>3 DEF Sorted
    <2>1. CASE j = Len(items) + 1
      BY <2>1, <1>3, <1>6
    <2>2. CASE j # Len(items) + 1
      BY <2>2, <1>3, <1>4, <1>5 DEF Window, Sorted
    <2> QED
      BY <2>1, <2>2
  <1> QED
    BY <1>3, <1>6, <1>7 DEF Window

LEMMA LaterBound ==
    ASSUME NEW items, NEW latest \in Nat, NEW later \in Nat,
           Window(items, latest), latest <= later
    PROVE  Window(items, later)
  <1>1. \A i \in DOMAIN items : items[i].at \in Nat
    BY ItemTypes DEF Window
  <1> QED
    BY <1>1 DEF Window

\* What add leaves of a window.
LEMMA AddKeepsOrder ==
    ASSUME HubTypes, NEW k \in Kinds, NEW at \in Nat, NEW latest \in Nat,
           Window(cache[k], latest), latest <= at
    PROVE  /\ Added(k, at) \in [Kinds -> Seq(Items)]
           /\ Window(Added(k, at)[k], at)
           /\ \A other \in Kinds \ {k} : Added(k, at)[other] = cache[other]
  <1> DEFINE item == [at |-> at, message |-> Len(received) + 1]
  <1>1. Len(received) \in Nat
    BY LenProperties DEF HubTypes
  <1>2. item \in Items /\ item.at = at
    BY <1>1 DEF Items
  <1>3. Window(Append(cache[k], item), at)
    BY <1>2, AppendKeepsOrder
  <1>4. Window(DropOldHead(Append(cache[k], item), k, at), at)
    BY <1>3, DropKeepsOrder
  <1>5. Added(k, at) = [cache EXCEPT ![k] = DropOldHead(Append(cache[k], item), k, at)]
    BY DEF Added
  <1>6. DropOldHead(Append(cache[k], item), k, at) \in Seq(Items)
    BY <1>4 DEF Window
  <1> QED
    BY <1>4, <1>5, <1>6 DEF HubTypes

-----------------------------------------------------------------------------

LEMMA PendingTypes ==
    ASSUME HubTypes, pending # NoMessage
    PROVE  pending \in Pending /\ pending.kind \in Kinds /\ pending.at \in Nat
  BY DEF HubTypes, Pending

LEMMA FreeIsStamped ==
    ASSUME pending = NoMessage
    PROVE  \A k : ~Unstamped(k)
  BY DEF NoMessage, Unstamped

LEMMA LatestTypes ==
    ASSUME WindowInvariant
    PROVE  \A k \in Kinds : Latest(k) \in Nat /\ Latest(k) <= now
  BY DEF WindowInvariant, HubTypes, Latest

LEMMA InitWindow == Init => WindowInvariant
  <1> SUFFICES ASSUME Init PROVE WindowInvariant
    OBVIOUS
  <1>1. HubTypes
    BY EmptySeq DEF Init, HubTypes, Never
  <1>2. \A k \in Kinds : Window(cache[k], Latest(k))
    BY EmptySeq DEF Init, Window, Sorted
  <1>3. \A k \in Kinds : lastReceived[k] <= now
    BY DEF Init, Never
  <1> QED
    BY <1>1, <1>2, <1>3 DEF WindowInvariant

LEMMA IngestStep ==
    ASSUME WindowInvariant, NEW k \in Kinds, NEW to \in Targets, NEW at \in 1..now,
           Ingest(k, at, to)
    PROVE  WindowInvariant'
  <1>1. HubTypes /\ now \in Nat /\ at \in Nat /\ pending = NoMessage
    BY DEF WindowInvariant, HubTypes, Ingest, Free
  <1>2. Latest(k) = lastReceived[k] /\ lastReceived[k] \in Nat /\ lastReceived[k] <= at
    BY <1>1, FreeIsStamped DEF Latest, HubTypes, Ingest
  <1>3. /\ cache' \in [Kinds -> Seq(Items)]
        /\ Window(cache'[k], at)
        /\ \A other \in Kinds \ {k} : cache'[other] = cache[other]
    <2>1. Window(cache[k], lastReceived[k])
      BY <1>2 DEF WindowInvariant
    <2>2. CASE to \in Known
      BY <2>1, <2>2, <1>1, <1>2, AddKeepsOrder DEF Ingest
    <2>3. CASE to \notin Known
      BY <2>1, <2>3, <1>1, <1>2, LaterBound DEF Ingest, HubTypes
    <2> QED
      BY <2>2, <2>3
  <1>4. pending' \in Pending /\ pending'.step = "copied"
    BY <1>1 DEF Ingest, Pending
  <1>5. HubTypes'
    BY <1>1, <1>3, <1>4 DEF HubTypes, Ingest
  <1>6. \A other \in Kinds : Latest(other)' = lastReceived'[other]
    BY <1>4 DEF Latest, Unstamped
  <1>7. lastReceived'[k] = at /\ \A other \in Kinds \ {k} : lastReceived'[other] = lastReceived[other]
    BY <1>1 DEF Ingest, HubTypes
  <1>8. ASSUME NEW other \in Kinds
        PROVE  lastReceived'[other] <= now' /\ Window(cache'[other], Latest(other)')
    <2>1. CASE other = k
      BY <2>1, <1>1, <1>3, <1>6, <1>7 DEF Ingest
    <2>2. CASE other # k
      <3>1. Latest(other) = lastReceived[other]
        BY <1>1, FreeIsStamped DEF Latest
      <3> QED
        BY <2>2, <3>1, <1>1, <1>3, <1>6, <1>7 DEF WindowInvariant, Ingest
    <2> QED
      BY <2>1, <2>2
  <1>9. \A other \in Kinds : lastReceived'[other] <= now' /\ Window(cache[other], Latest(other))'
    BY <1>8 DEF Window, Sorted
  <1> QED
    BY <1>5, <1>9 DEF WindowInvariant

LEMMA ClassifiedStep ==
    ASSUME WindowInvariant, NEW k \in Kinds, NEW to \in Targets, Classified(k, to)
    PROVE  WindowInvariant'
  <1>1. HubTypes /\ now \in Nat /\ pending = NoMessage
    BY DEF WindowInvariant, HubTypes, Classified, Free
  <1>2. \A other \in Kinds : Latest(other) = lastReceived[other]
    BY <1>1, FreeIsStamped DEF Latest
  <1>3. /\ cache' \in [Kinds -> Seq(Items)]
        /\ Window(cache'[k], now)
        /\ \A other \in Kinds \ {k} : cache'[other] = cache[other]
    <2>1. Window(cache[k], lastReceived[k]) /\ lastReceived[k] \in Nat /\ lastReceived[k] <= now
      BY <1>1, <1>2 DEF WindowInvariant, HubTypes
    <2>2. CASE to \in Known
      BY <2>1, <2>2, <1>1, AddKeepsOrder DEF Classified
    <2>3. CASE to \notin Known
      BY <2>1, <2>3, <1>1, LaterBound DEF Classified, HubTypes
    <2> QED
      BY <2>2, <2>3
  <1>4. pending' \in Pending /\ pending'.step = "cached" /\ pending'.kind = k
    BY <1>1 DEF Classified, Pending
  <1>5. HubTypes'
    BY <1>1, <1>3, <1>4 DEF HubTypes, Classified
  <1>6. ASSUME NEW other \in Kinds
        PROVE  lastReceived'[other] <= now' /\ Window(cache'[other], Latest(other)')
    <2>1. lastReceived' = lastReceived /\ now' = now
      BY DEF Classified
    <2>2. CASE other = k
      BY <2>1, <2>2, <1>3, <1>4 DEF Latest, Unstamped, WindowInvariant
    <2>3. CASE other # k
      BY <2>1, <2>3, <1>2, <1>3, <1>4 DEF Latest, Unstamped, WindowInvariant
    <2> QED
      BY <2>2, <2>3
  <1> QED
    BY <1>5, <1>6 DEF WindowInvariant, Window, Sorted

LEMMA StampStep ==
    ASSUME WindowInvariant, NEW copied \in BOOLEAN, Stamp(copied)
    PROVE  WindowInvariant'
  <1>1. HubTypes /\ now \in Nat /\ pending # NoMessage
    BY DEF WindowInvariant, HubTypes, Stamp, NoMessage
  <1>2. pending \in Pending /\ pending.kind \in Kinds
    BY <1>1, PendingTypes
  <1> DEFINE k == pending.kind
  <1>3. pending' \in Pending /\ pending'.step # "cached"
    BY <1>1, <1>2 DEF Stamp, Pending
  <1>4. lastReceived[k] \in Nat /\ lastReceived[k] <= now
    BY <1>1, <1>2 DEF WindowInvariant, HubTypes
  <1>5. /\ lastReceived' \in [Kinds -> Nat]
        /\ lastReceived'[k] = now
        /\ \A other \in Kinds \ {k} : lastReceived'[other] = lastReceived[other]
    BY <1>1, <1>2, <1>4 DEF Stamp, HubTypes
  <1>6. HubTypes'
    BY <1>1, <1>3, <1>5 DEF HubTypes, Stamp, cacheVars
  <1>7. ASSUME NEW other \in Kinds
        PROVE  lastReceived'[other] <= now' /\ Window(cache'[other], Latest(other)')
    <2>1. cache' = cache /\ now' = now
      BY DEF Stamp, cacheVars
    <2>2. Latest(other)' = lastReceived'[other]
      BY <1>3 DEF Latest, Unstamped
    <2>3. CASE other = k
      <3>1. Latest(other) = now
        BY <2>3 DEF Latest, Unstamped, Stamp
      <3> QED
        BY <2>1, <2>2, <2>3, <3>1, <1>1, <1>5 DEF WindowInvariant
    <2>4. CASE other # k
      <3>1. Latest(other) = lastReceived[other]
        BY <2>4 DEF Latest, Unstamped
      <3> QED
        BY <2>1, <2>2, <2>4, <3>1, <1>5 DEF WindowInvariant
    <2> QED
      BY <2>3, <2>4
  <1> QED
    BY <1>6, <1>7 DEF WindowInvariant, Window, Sorted

LEMMA TakenStep ==
    ASSUME WindowInvariant, NEW copied \in BOOLEAN, pending # NoMessage,
           pending.step # "cached", Taken(copied), UNCHANGED <<now, lastReceived, cacheVars>>
    PROVE  WindowInvariant'
  <1>1. HubTypes
    BY DEF WindowInvariant
  <1>2. pending \in Pending
    BY <1>1, PendingTypes
  <1>3. [kind |-> pending.kind, at |-> pending.at, to |-> pending.to, copied |-> copied] \in Messages
    BY <1>2 DEF Pending, Messages
  <1>4. received' \in Seq(Messages)
    BY <1>1, <1>3 DEF Taken, HubTypes
  <1>5. HubTypes'
    BY <1>1, <1>4 DEF HubTypes, Taken, cacheVars
  <1>6. \A k \in Kinds : Latest(k) = lastReceived[k] /\ Latest(k)' = lastReceived'[k]
    BY DEF Latest, Unstamped, Taken, NoMessage
  <1>7. \A k \in Kinds : lastReceived'[k] <= now' /\ Window(cache'[k], Latest(k)')
    BY <1>6 DEF WindowInvariant, cacheVars
  <1> QED
    BY <1>5, <1>7 DEF WindowInvariant, Window, Sorted

\* The clearings, of one kind or of all.
LEMMA ClearingStep ==
    ASSUME WindowInvariant, NEW cleared, cleared \subseteq Kinds, NEW t,
           cache' = [k \in Kinds |-> IF k \in cleared THEN DropOldHead(cache[k], k, t) ELSE cache[k]],
           UNCHANGED <<now, ingestVars>>
    PROVE  WindowInvariant'
  <1>1. HubTypes
    BY DEF WindowInvariant
  <1>2. \A k \in Kinds : Latest(k)' = Latest(k) /\ lastReceived' = lastReceived /\ now' = now
    BY DEF Latest, Unstamped, ingestVars
  <1>3. \A k \in Kinds : Window(cache'[k], Latest(k))
    BY LatestTypes, DropKeepsOrder DEF WindowInvariant
  <1>4. cache' \in [Kinds -> Seq(Items)]
    BY <1>3 DEF Window
  <1>5. HubTypes'
    BY <1>1, <1>4 DEF HubTypes, ingestVars
  <1>6. \A k \in Kinds : lastReceived'[k] <= now' /\ Window(cache'[k], Latest(k)')
    BY <1>2, <1>3 DEF WindowInvariant
  <1> QED
    BY <1>5, <1>6 DEF WindowInvariant, Window, Sorted

LEMMA QuietStep ==
    ASSUME WindowInvariant, UNCHANGED <<ingestVars, cache>>, now' \in Nat, now <= now'
    PROVE  WindowInvariant'
  <1>1. HubTypes
    BY DEF WindowInvariant
  <1>2. HubTypes'
    BY <1>1 DEF HubTypes, ingestVars
  <1>3. ASSUME NEW k \in Kinds
        PROVE  lastReceived'[k] <= now' /\ Window(cache'[k], Latest(k)')
    <2>1. lastReceived[k] \in Nat /\ lastReceived[k] <= now /\ now \in Nat
      BY <1>1 DEF WindowInvariant, HubTypes
    <2>2. Latest(k) \in Nat /\ Latest(k)' \in Nat /\ Latest(k) <= Latest(k)'
      BY <2>1 DEF Latest, Unstamped, ingestVars
    <2>3. Window(cache[k], Latest(k)')
      BY <2>2, LaterBound DEF WindowInvariant
    <2> QED
      BY <2>1, <2>3 DEF ingestVars
  <1> QED
    BY <1>2, <1>3 DEF WindowInvariant, Window, Sorted

LEMMA NextWindow == WindowInvariant /\ [Next]_vars => WindowInvariant'
  <1> SUFFICES ASSUME WindowInvariant, [Next]_vars PROVE WindowInvariant'
    OBVIOUS
  <1>a. now \in Nat
    BY DEF WindowInvariant, HubTypes
  <1>1. ASSUME NEW k \in Kinds, NEW to \in Targets,
               Classified(k, to) \/ \E at \in 1..now : Ingest(k, at, to)
        PROVE  WindowInvariant'
    BY <1>1, ClassifiedStep, IngestStep
  <1>2. ASSUME NEW copied \in BOOLEAN, Stamp(copied) PROVE WindowInvariant'
    BY <1>2, StampStep
  <1>3. CASE Uncopied
    <2>1. pending # NoMessage /\ pending.step # "cached"
      BY <1>3 DEF Uncopied, NoMessage
    <2>2. Taken(FALSE) /\ UNCHANGED <<now, lastReceived, cacheVars>>
      BY <1>3 DEF Uncopied
    <2> QED
      BY <2>1, <2>2, TakenStep
  <1>4. ASSUME NEW t, Record(t) PROVE WindowInvariant'
    <2>1. pending # NoMessage /\ pending.step # "cached"
      BY <1>4 DEF Record, NoMessage
    <2>2. Taken(TRUE) /\ UNCHANGED <<now, lastReceived, cacheVars>>
      BY <1>4 DEF Record
    <2> QED
      BY <2>1, <2>2, TakenStep
  <1>5. ASSUME NEW t, NEW k \in Kinds, RecentData(k, t) PROVE WindowInvariant'
    <2>1. cache' = [kind \in Kinds |->
                      IF kind \in {k} THEN DropOldHead(cache[kind], kind, t) ELSE cache[kind]]
      BY <1>5 DEF RecentData, WindowInvariant, HubTypes
    <2>2. UNCHANGED <<now, ingestVars>>
      BY <1>5 DEF RecentData
    <2> QED
      BY <2>1, <2>2, ClearingStep
  <1>6. ASSUME NEW t, ClearCache(t) PROVE WindowInvariant'
    <2>1. cache' = [kind \in Kinds |->
                      IF kind \in Kinds THEN DropOldHead(cache[kind], kind, t) ELSE cache[kind]]
      BY <1>6 DEF ClearCache
    <2>2. UNCHANGED <<now, ingestVars>>
      BY <1>6 DEF ClearCache
    <2> QED
      BY <2>1, <2>2, ClearingStep
  <1>b. now <= now
    BY <1>a
  <1>7. ASSUME NEW t, ClearEvents(t) \/ \E p \in Partitions : Query(p, t) PROVE WindowInvariant'
    <2>1. UNCHANGED <<ingestVars, cache>> /\ now' = now
      BY <1>7 DEF ClearEvents, Query, cacheVars
    <2> QED
      BY <2>1, <1>a, <1>b, QuietStep
  <1>8. CASE Tick
    BY <1>8, <1>a, QuietStep DEF Tick, cacheVars
  <1>9. CASE UNCHANGED vars
    BY <1>9, <1>a, QuietStep DEF vars, cacheVars
  <1> QED
    BY <1>1, <1>2, <1>3, <1>4, <1>5, <1>6, <1>7, <1>8, <1>9 DEF Next

-----------------------------------------------------------------------------

\* Every window is in the order of its receipts, so that clearing from the head
\* (short_term.py) removes all that has expired, whatever mixture of classified
\* and strict messages filled it.
THEOREM HeadIsOldestHolds == Spec => []HeadIsOldest
  <1>1. WindowInvariant => HeadIsOldest
    BY DEF WindowInvariant, Window, Sorted, HeadIsOldest
  <1> QED
    BY <1>1, InitWindow, NextWindow, PTL DEF Spec

-----------------------------------------------------------------------------
(* The marks of a partition.                                               *)

\* The times until which the events a partition lost would have been young,
\* given the events it still has, and those of the messages not copied.
LostTimes(p, window) ==
    {Expiry(m) : m \in {n \in DOMAIN received :
        p \in received[n].to /\ received[n].copied /\ n \notin window}}

UncopiedTimes(p) ==
    {Expiry(m) : m \in {n \in DOMAIN received : p \in received[n].to /\ ~received[n].copied}}

\* A mark reaches as far as any loss that is not over, and is that of a loss.
Marks(until, times, t) ==
    /\ \A e \in times : t <= e => e <= until
    /\ until # Never => until \in times

EventTypes ==
    /\ events \in [Partitions -> SUBSET (DOMAIN received)]
    /\ truncatedUntil \in [Partitions -> Nat] /\ issueUntil \in [Partitions -> Nat]
    /\ pending # NoMessage => pending.at <= now

MarkInvariant ==
    /\ EventTypes
    /\ \A p \in Partitions :
          /\ \A m \in events[p] : p \in received[m].to /\ received[m].copied
          /\ Marks(truncatedUntil[p], LostTimes(p, events[p]), now)
          /\ Marks(issueUntil[p], UncopiedTimes(p), now)

\* An item of the short term memory is a message that was taken, or the one
\* that is being taken, and no younger than its event.
Placed(k, item) ==
    \/ /\ item.message \in DOMAIN received
       /\ received[item.message].kind = k /\ item.at <= received[item.message].at
    \/ /\ item.message = Len(received) + 1 /\ pending # NoMessage
       /\ pending.kind = k /\ item.at <= pending.at

CacheInvariant == \A k \in Kinds : \A i \in DOMAIN cache[k] : Placed(k, cache[k][i])

\* A set of naturals that is not empty has a least element: of its initial
\* segments one is minimal.
LEMMA MinOfNaturals ==
    ASSUME NEW S \in SUBSET Nat, S # {}
    PROVE  Min(S) \in S /\ \A y \in S : Min(S) <= y
  <1> DEFINE starts == {0..n : n \in S}
  <1>1. starts \subseteq FiniteSubsetsOf(Nat) /\ starts # {}
    <2>1. ASSUME NEW n \in S PROVE 0..n \in FiniteSubsetsOf(Nat)
      <3>1. IsFiniteSet(0..n)
        BY FS_Interval
      <3>2. 0..n \subseteq Nat
        OBVIOUS
      <3> QED BY <3>1, <3>2 DEF FiniteSubsetsOf
    <2> QED BY <2>1
  <1>2. PICK T \in starts : \A U \in starts : ~(<<U, T>> \in StrictSubsetOrdering(Nat))
    <2> HIDE DEF starts
    <2> QED BY <1>1, FS_StrictSubsetOrderingWellFounded, WFMin
  <1>3. PICK x \in S : T = 0..x
    OBVIOUS
  <1>4. ASSUME NEW y \in S, y < x PROVE FALSE
    <2>1. 0..y \subseteq 0..x /\ 0..y # 0..x
      <3>1. x \in 0..x /\ x \notin 0..y
        BY <1>4
      <3>2. 0..y \subseteq 0..x
        BY <1>4
      <3> QED BY <3>1, <3>2
    <2>2. 0..x \subseteq Nat /\ 0..y \subseteq Nat
      OBVIOUS
    <2>3. <<0..y, 0..x>> \in StrictSubsetOrdering(Nat)
      BY <2>1, <2>2 DEF StrictSubsetOrdering
    <2> QED BY <1>2, <1>3, <2>3
  <1>5. \A y \in S : x <= y
    BY <1>4
  <1> QED BY <1>5 DEF Min

\* What was received has its times.
LEMMA MessageTypes ==
    ASSUME HubTypes, NEW m \in DOMAIN received
    PROVE  /\ received[m] \in Messages /\ m \in Nat /\ m <= Len(received)
           /\ received[m].kind \in Nat /\ received[m].at \in Nat /\ Expiry(m) \in Nat
  <1>1. received[m] \in Messages /\ m \in 1..Len(received) /\ Len(received) \in Nat
    BY LenProperties, ElementOfSeq DEF HubTypes
  <1>2. received[m].kind \in Nat /\ received[m].at \in Nat
    BY <1>1, HubAssumption DEF Messages
  <1> QED BY <1>1, <1>2 DEF Expiry

LEMMA TimeTypes ==
    ASSUME HubTypes, NEW p, NEW window
    PROVE  LostTimes(p, window) \subseteq Nat /\ UncopiedTimes(p) \subseteq Nat
  BY MessageTypes DEF LostTimes, UncopiedTimes

\* A message is taken after all others, which stay as they are.
LEMMA TakenMessages ==
    ASSUME HubTypes, pending # NoMessage, NEW copied \in BOOLEAN, Taken(copied)
    PROVE  /\ DOMAIN received' = DOMAIN received \cup {Len(received) + 1}
           /\ Len(received) + 1 \notin DOMAIN received /\ Len(received) + 1 \in Nat
           /\ \A m \in DOMAIN received : received'[m] = received[m] /\ Expiry(m)' = Expiry(m)
           /\ received'[Len(received) + 1] =
                 [kind |-> pending.kind, at |-> pending.at, to |-> pending.to, copied |-> copied]
  <1> DEFINE message == [kind |-> pending.kind, at |-> pending.at, to |-> pending.to, copied |-> copied]
  <1>1. message \in Messages
    BY PendingTypes DEF Pending, Messages
  <1>2. received \in Seq(Messages) /\ Len(received) \in Nat /\ DOMAIN received = 1..Len(received)
    BY LenProperties DEF HubTypes
  <1>3. /\ DOMAIN received' = 1..(Len(received) + 1)
        /\ \A m \in 1..Len(received) : received'[m] = received[m]
        /\ received'[Len(received) + 1] = message
    <2>1. received' = Append(received, message)
      BY DEF Taken
    <2> HIDE DEF message
    <2> QED BY <1>1, <1>2, <2>1, AppendProperties
  <1>4. 1..(Len(received) + 1) = 1..Len(received) \cup {Len(received) + 1}
    BY <1>2
  <1>5. \A m \in DOMAIN received : received'[m] = received[m]
    BY <1>2, <1>3
  <1>6. \A m \in DOMAIN received : Expiry(m)' = Expiry(m)
    BY <1>5 DEF Expiry
  <1>7. Len(received) + 1 \notin DOMAIN received /\ Len(received) + 1 \in Nat
    BY <1>2
  <1> QED BY <1>2, <1>3, <1>4, <1>5, <1>6, <1>7

\* A mark that is not lifted before its time is over stays exact when what
\* was lost meanwhile was over ...
LEMMA MarkLifted ==
    ASSUME NEW until \in Nat, NEW times \in SUBSET Nat, NEW more \in SUBSET Nat, times \subseteq more,
           NEW t \in Nat, NEW u \in Nat, t <= u,
           \A e \in more \ times : e < t, Marks(until, times, u)
    PROVE  Unless(until, t) \in Nat /\ Marks(Unless(until, t), more, u)
  BY DEF Marks, Unless, Never

\* ... when time passes ...
LEMMA MarkAged ==
    ASSUME NEW until \in Nat, NEW times \in SUBSET Nat, NEW t \in Nat, NEW u \in Nat, t <= u,
           Marks(until, times, t)
    PROVE  Marks(until, times, u)
  BY DEF Marks

\* ... and when it is set for one more loss.
LEMMA MarkSet ==
    ASSUME NEW until \in Nat, NEW times \in SUBSET Nat, NEW e \in Nat, NEW t \in Nat, Marks(until, times, t)
    PROVE  Later(e, until) \in Nat /\ Marks(Later(e, until), times \cup {e}, t)
  BY DEF Marks, Later, Never

\* Pruning some partitions keeps every mark exact.
LEMMA SweptIsMarked ==
    ASSUME HubTypes, MarkInvariant, NEW parts, NEW t \in 1..now, NEW p \in Partitions
    PROVE  /\ SweptEvents(parts, t)[p] \subseteq events[p]
           /\ SweptMarks(truncatedUntil, parts, t)[p] \in Nat /\ SweptMarks(issueUntil, parts, t)[p] \in Nat
           /\ Marks(SweptMarks(truncatedUntil, parts, t)[p], LostTimes(p, SweptEvents(parts, t)[p]), now)
           /\ Marks(SweptMarks(issueUntil, parts, t)[p], UncopiedTimes(p), now)
  <1>1. /\ now \in Nat /\ t \in Nat /\ t <= now
        /\ truncatedUntil[p] \in Nat /\ issueUntil[p] \in Nat /\ events[p] \subseteq DOMAIN received
        /\ Marks(truncatedUntil[p], LostTimes(p, events[p]), now) /\ Marks(issueUntil[p], UncopiedTimes(p), now)
    BY DEF HubTypes, MarkInvariant, EventTypes
  <1>2. CASE p \notin parts
    BY <1>1, <1>2 DEF SweptEvents, SweptMarks
  <1>3. CASE p \in parts
    <2> DEFINE young == Active(events[p], t)
    <2>1. /\ SweptEvents(parts, t)[p] = young
          /\ SweptMarks(truncatedUntil, parts, t)[p] = Unless(truncatedUntil[p], t)
          /\ SweptMarks(issueUntil, parts, t)[p] = Unless(issueUntil[p], t)
      BY <1>3 DEF SweptEvents, SweptMarks
    <2>2. young \subseteq events[p] /\ \A m \in events[p] \ young : Expiry(m) < t
      <3>1. ASSUME NEW m \in events[p], m \notin young PROVE Expiry(m) < t
        <4>1. received[m].kind \in Nat /\ received[m].at \in Nat
          BY <1>1, <3>1, MessageTypes
        <4>2. ~(t - received[m].at <= received[m].kind)
          BY <3>1 DEF Active, Windowed
        <4> QED BY <1>1, <4>1, <4>2 DEF Expiry
      <3> QED BY <3>1 DEF Active
    <2> HIDE DEF young
    <2>3. LostTimes(p, events[p]) \subseteq LostTimes(p, young)
      BY <2>2 DEF LostTimes
    <2>4. \A e \in LostTimes(p, young) \ LostTimes(p, events[p]) : e < t
      BY <2>2 DEF LostTimes
    <2>5. /\ Unless(truncatedUntil[p], t) \in Nat
          /\ Marks(Unless(truncatedUntil[p], t), LostTimes(p, young), now)
      BY <1>1, <2>3, <2>4, TimeTypes, MarkLifted
    <2>6. Unless(issueUntil[p], t) \in Nat /\ Marks(Unless(issueUntil[p], t), UncopiedTimes(p), now)
      BY <1>1, TimeTypes, MarkLifted
    <2> QED BY <2>1, <2>2, <2>5, <2>6
  <1> QED BY <1>2, <1>3

LEMMA PruneStep ==
    ASSUME HubTypes, MarkInvariant, NEW parts, NEW t \in 1..now, PruneEvents(parts, t),
           UNCHANGED <<now, ingestVars>>
    PROVE  MarkInvariant'
  <1>1. received' = received /\ now' = now /\ pending' = pending
    BY DEF ingestVars
  <1>2. ASSUME NEW p \in Partitions
        PROVE  /\ events'[p] \subseteq events[p] /\ truncatedUntil'[p] \in Nat /\ issueUntil'[p] \in Nat
               /\ Marks(truncatedUntil'[p], LostTimes(p, events'[p]), now)
               /\ Marks(issueUntil'[p], UncopiedTimes(p), now)
    BY SweptIsMarked DEF PruneEvents
  <1>3. /\ events' = [p \in Partitions |-> events'[p]]
        /\ truncatedUntil' = [p \in Partitions |-> truncatedUntil'[p]]
        /\ issueUntil' = [p \in Partitions |-> issueUntil'[p]]
    BY DEF PruneEvents, SweptEvents, SweptMarks
  <1>4. EventTypes'
    <2>1. \A p \in Partitions : events'[p] \in SUBSET (DOMAIN received')
      BY <1>1, <1>2 DEF MarkInvariant, EventTypes
    <2> QED BY <1>1, <1>2, <1>3, <2>1 DEF MarkInvariant, EventTypes
  <1>5. ASSUME NEW p \in Partitions
        PROVE  /\ LostTimes(p, events[p])' = LostTimes(p, events'[p])
               /\ UncopiedTimes(p)' = UncopiedTimes(p)
    BY <1>1 DEF LostTimes, UncopiedTimes, Expiry
  <1>6. ASSUME NEW p \in Partitions
        PROVE  /\ \A m \in events'[p] : p \in received'[m].to /\ received'[m].copied
               /\ Marks(truncatedUntil[p], LostTimes(p, events[p]), now)'
               /\ Marks(issueUntil[p], UncopiedTimes(p), now)'
    <2>1. \A m \in events'[p] : p \in received'[m].to /\ received'[m].copied
      BY <1>1, <1>2 DEF MarkInvariant
    <2> QED BY <1>1, <1>2, <1>5, <2>1 DEF Marks
  <1> QED BY <1>4, <1>6 DEF MarkInvariant

\* The other steps of the ingest lock and of the clock.
LEMMA QuietMarks ==
    ASSUME HubTypes, MarkInvariant, UNCHANGED <<received, eventVars>>, now' \in Nat, now <= now',
           pending' # NoMessage => pending'.at <= now'
    PROVE  MarkInvariant'
  <1>1. UNCHANGED <<received, events, truncatedUntil, issueUntil>>
    BY DEF eventVars
  <1>2. EventTypes'
    BY <1>1 DEF MarkInvariant, EventTypes
  <1>3. ASSUME NEW p \in Partitions
        PROVE  /\ \A m \in events'[p] : p \in received'[m].to /\ received'[m].copied
               /\ Marks(truncatedUntil[p], LostTimes(p, events[p]), now)'
               /\ Marks(issueUntil[p], UncopiedTimes(p), now)'
    <2>1. LostTimes(p, events[p])' = LostTimes(p, events[p]) /\ UncopiedTimes(p)' = UncopiedTimes(p)
      BY <1>1 DEF LostTimes, UncopiedTimes, Expiry
    <2>2. /\ Marks(truncatedUntil[p], LostTimes(p, events[p]), now')
          /\ Marks(issueUntil[p], UncopiedTimes(p), now')
      BY TimeTypes, MarkAged DEF MarkInvariant, EventTypes, HubTypes
    <2> QED BY <1>1, <2>1, <2>2 DEF MarkInvariant, Marks
  <1> QED BY <1>2, <1>3 DEF MarkInvariant

\* The lost times of a window once a message is taken.
LostAfter(p, window) ==
    {received'[m].at + received'[m].kind : m \in {n \in DOMAIN received' :
        p \in received'[n].to /\ received'[n].copied /\ n \notin window}}

\* A message that is copied is in the windows of its partitions; one that is
\* not adds its own time to theirs.
LEMMA TakenTimes ==
    ASSUME HubTypes, pending # NoMessage, NEW copied \in BOOLEAN, Taken(copied), NEW p, NEW window
    PROVE  /\ ~copied \/ p \notin pending.to => LostAfter(p, window) = LostTimes(p, window)
           /\ LostAfter(p, window \cup {Len(received) + 1}) = LostTimes(p, window)
           /\ UncopiedTimes(p)' = UncopiedTimes(p) \cup
                 IF copied \/ p \notin pending.to THEN {} ELSE {pending.at + pending.kind}
  <1> DEFINE new == Len(received) + 1
  <1>1. /\ DOMAIN received' = DOMAIN received \cup {new} /\ new \notin DOMAIN received
        /\ \A m \in DOMAIN received : received'[m] = received[m]
        /\ received'[new].kind = pending.kind /\ received'[new].at = pending.at
        /\ received'[new].to = pending.to /\ received'[new].copied = copied
    <2>1. /\ DOMAIN received' = DOMAIN received \cup {new} /\ new \notin DOMAIN received
          /\ \A m \in DOMAIN received : received'[m] = received[m]
          /\ received'[new] = [kind |-> pending.kind, at |-> pending.at, to |-> pending.to, copied |-> copied]
      BY TakenMessages
    <2> HIDE DEF new
    <2> QED BY <2>1
  <1> HIDE DEF new
  <1>2. ASSUME ~copied \/ p \notin pending.to
        PROVE  LostAfter(p, window) = LostTimes(p, window)
    BY <1>1, <1>2 DEF LostAfter, LostTimes, Expiry
  <1>3. LostAfter(p, window \cup {new}) = LostTimes(p, window)
    BY <1>1 DEF LostAfter, LostTimes, Expiry
  <1>4. UncopiedTimes(p)' = {received'[m].at + received'[m].kind : m \in
            {n \in DOMAIN received' : p \in received'[n].to /\ ~received'[n].copied}}
    BY DEF UncopiedTimes, Expiry
  <1>5. UncopiedTimes(p)' = UncopiedTimes(p) \cup
            IF copied \/ p \notin pending.to THEN {} ELSE {pending.at + pending.kind}
    BY <1>1, <1>4 DEF UncopiedTimes, Expiry
  <1> QED BY <1>2, <1>3, <1>5 DEF new

\* The message that leaves the lock, whether it was copied or not.
LEMMA TakenStepMarks ==
    ASSUME HubTypes, MarkInvariant, pending # NoMessage, NEW copied \in BOOLEAN, Taken(copied),
           now' = now, events' \in [Partitions -> SUBSET (DOMAIN received')],
           truncatedUntil' \in [Partitions -> Nat], issueUntil' \in [Partitions -> Nat],
           \A p \in Partitions :
              /\ \A m \in events'[p] : p \in received'[m].to /\ received'[m].copied
              /\ Marks(truncatedUntil'[p], LostAfter(p, events'[p]), now)
              /\ Marks(issueUntil'[p], UncopiedTimes(p)', now)
    PROVE  MarkInvariant'
  <1>1. EventTypes'
    BY DEF EventTypes, Taken
  <1>2. ASSUME NEW p \in Partitions
        PROVE  LostTimes(p, events[p])' = LostAfter(p, events'[p])
    BY DEF LostTimes, LostAfter, Expiry
  <1>3. \A p \in Partitions :
              /\ \A m \in events'[p] : p \in received'[m].to /\ received'[m].copied
              /\ Marks(truncatedUntil[p], LostTimes(p, events[p]), now)'
              /\ Marks(issueUntil[p], UncopiedTimes(p), now)'
    BY <1>2 DEF Marks
  <1> QED BY <1>1, <1>3 DEF MarkInvariant

LEMMA UncopiedMarks ==
    ASSUME HubTypes, MarkInvariant, Uncopied
    PROVE  MarkInvariant'
  <1>1. pending # NoMessage /\ pending \in Pending /\ now \in Nat
    BY PendingTypes DEF Uncopied, NoMessage, HubTypes
  <1>2. pending.at + pending.kind \in Nat
    <2>1. pending.kind \in Kinds /\ pending.at \in Nat
      BY <1>1, PendingTypes
    <2>2. pending.kind \in Nat
      BY <2>1, HubAssumption
    <2> QED BY <2>1, <2>2
  <1>3. Taken(FALSE) /\ UNCHANGED <<now, events, truncatedUntil>>
    BY DEF Uncopied
  <1>4. ASSUME NEW p \in Partitions
        PROVE  /\ \A m \in events[p] : m \in DOMAIN received' /\ p \in received'[m].to /\ received'[m].copied
               /\ Marks(truncatedUntil'[p], LostAfter(p, events'[p]), now)
               /\ issueUntil'[p] \in Nat /\ Marks(issueUntil'[p], UncopiedTimes(p)', now)
    <2>1. \A m \in events[p] : m \in DOMAIN received' /\ p \in received'[m].to /\ received'[m].copied
      BY <1>1, <1>3, TakenMessages DEF MarkInvariant, EventTypes
    <2>2. Marks(truncatedUntil'[p], LostAfter(p, events'[p]), now)
      BY <1>1, <1>3, TakenTimes DEF MarkInvariant
    <2>3. /\ issueUntil[p] \in Nat /\ UncopiedTimes(p) \in SUBSET Nat
          /\ Marks(issueUntil[p], UncopiedTimes(p), now)
      BY TimeTypes DEF MarkInvariant, EventTypes
    <2>4. CASE p \in pending.to
      <3>1. issueUntil'[p] = Later(pending.at + pending.kind, issueUntil[p])
        BY <2>4 DEF Uncopied
      <3>2. UncopiedTimes(p)' = UncopiedTimes(p) \cup {pending.at + pending.kind}
        <4>1. UncopiedTimes(p)' = UncopiedTimes(p) \cup
                 IF FALSE \/ p \notin pending.to THEN {} ELSE {pending.at + pending.kind}
          BY <1>1, <1>3, TakenTimes
        <4> QED BY <2>4, <4>1
      <3>3. /\ Later(pending.at + pending.kind, issueUntil[p]) \in Nat
            /\ Marks(Later(pending.at + pending.kind, issueUntil[p]),
                     UncopiedTimes(p) \cup {pending.at + pending.kind}, now)
        BY <1>1, <1>2, <2>3, MarkSet
      <3> QED BY <2>1, <2>2, <3>1, <3>2, <3>3
    <2>5. CASE p \notin pending.to
      <3>1. issueUntil'[p] = issueUntil[p]
        BY <2>5 DEF Uncopied
      <3>2. UncopiedTimes(p)' = UncopiedTimes(p)
        BY <1>1, <1>3, <2>5, TakenTimes
      <3> QED BY <2>1, <2>2, <2>3, <3>1, <3>2
    <2> QED BY <2>4, <2>5
  <1>5. events' \in [Partitions -> SUBSET (DOMAIN received')]
    BY <1>3, <1>4 DEF MarkInvariant, EventTypes
  <1>6. truncatedUntil' \in [Partitions -> Nat]
    BY <1>3 DEF MarkInvariant, EventTypes
  <1>7. issueUntil' \in [Partitions -> Nat]
    <2>1. issueUntil' = [p \in Partitions |-> issueUntil'[p]]
      BY DEF Uncopied
    <2> QED BY <1>4, <2>1
  <1> QED BY <1>1, <1>3, <1>4, <1>5, <1>6, <1>7, TakenStepMarks

\* Losing the oldest event of a window marks it.
LEMMA OldestIsMarked ==
    ASSUME HubTypes, NEW p \in Partitions, NEW window \in SUBSET (DOMAIN received), window # {},
           \A m \in window : p \in received[m].to /\ received[m].copied,
           NEW until \in Nat, Marks(until, LostTimes(p, window), now)
    PROVE  /\ LostUntil(until, Min(window)) \in Nat
           /\ Marks(LostUntil(until, Min(window)), LostTimes(p, window \ {Min(window)}), now)
  <1> DEFINE oldest == Min(window)
  <1>1. window \subseteq Nat
    BY MessageTypes
  <1>2. oldest \in window
    BY <1>1, MinOfNaturals
  <1> HIDE DEF oldest
  <1>3. Expiry(oldest) \in Nat
    BY <1>2, MessageTypes
  <1>4. LostTimes(p, window \ {oldest}) = LostTimes(p, window) \cup {Expiry(oldest)}
    BY <1>2 DEF LostTimes
  <1>5. now \in Nat /\ LostTimes(p, window) \in SUBSET Nat
    BY TimeTypes DEF HubTypes
  <1>6. /\ Later(Expiry(oldest), until) \in Nat
        /\ Marks(Later(Expiry(oldest), until), LostTimes(p, window) \cup {Expiry(oldest)}, now)
    BY <1>3, <1>5, MarkSet
  <1> QED BY <1>4, <1>6 DEF LostUntil, oldest

LEMMA RecordMarks ==
    ASSUME HubTypes, MarkInvariant, NEW t \in 1..now, Record(t)
    PROVE  MarkInvariant'
  <1> DEFINE swept == IF CleanupDue(t) THEN Partitions
                      ELSE {p \in pending.to : Cardinality(events[p]) = EventLimit}
             young == SweptEvents(swept, t)
             marks == SweptMarks(truncatedUntil, swept, t)
             full == {p \in pending.to : Cardinality(young[p]) = EventLimit}
             room(p) == IF p \in full THEN young[p] \ {Min(young[p])} ELSE young[p]
             new == Len(received) + 1
  <1>1. /\ events' = [p \in Partitions |-> IF p \in pending.to THEN room(p) \cup {new} ELSE young[p]]
        /\ truncatedUntil' = [p \in Partitions |->
               IF p \in full THEN LostUntil(marks[p], Min(young[p])) ELSE marks[p]]
        /\ issueUntil' = SweptMarks(issueUntil, swept, t)
        /\ Taken(TRUE) /\ now' = now /\ pending # NoMessage
    <2>1. events' = [p \in Partitions |-> IF p \in pending.to THEN room(p) \cup {new} ELSE young[p]]
      BY Zenon DEF Record
    <2>2. truncatedUntil' = [p \in Partitions |->
             IF p \in full THEN LostUntil(marks[p], Min(young[p])) ELSE marks[p]]
      BY Zenon DEF Record
    <2>3. issueUntil' = SweptMarks(issueUntil, swept, t)
      BY Zenon DEF Record
    <2>4. Taken(TRUE) /\ now' = now /\ pending.step = "copied"
      BY Zenon DEF Record
    <2>5. pending # NoMessage
      BY <2>4 DEF NoMessage
    <2> QED BY <2>1, <2>2, <2>3, <2>4, <2>5
  <1>2. pending \in Pending
    BY <1>1, PendingTypes
  <1>3. ASSUME NEW p \in Partitions
        PROVE  /\ young[p] \in SUBSET (DOMAIN received)
               /\ \A m \in young[p] : p \in received[m].to /\ received[m].copied
               /\ marks[p] \in Nat /\ Marks(marks[p], LostTimes(p, young[p]), now)
               /\ SweptMarks(issueUntil, swept, t)[p] \in Nat
               /\ Marks(SweptMarks(issueUntil, swept, t)[p], UncopiedTimes(p), now)
    <2> HIDE DEF swept
    <2> QED BY SweptIsMarked DEF MarkInvariant, EventTypes
  <1>4. new \in DOMAIN received' /\ DOMAIN received \subseteq DOMAIN received'
        /\ received'[new].to = pending.to /\ received'[new].copied = TRUE
        /\ \A m \in DOMAIN received : received'[m] = received[m]
    <2>1. /\ DOMAIN received' = DOMAIN received \cup {new} /\ new \notin DOMAIN received
          /\ \A m \in DOMAIN received : received'[m] = received[m]
          /\ received'[new] = [kind |-> pending.kind, at |-> pending.at, to |-> pending.to, copied |-> TRUE]
      BY <1>1, TakenMessages
    <2> HIDE DEF new
    <2> QED BY <2>1
  <1>5. ASSUME NEW p \in Partitions, p \in full
        PROVE  young[p] # {}
    <2>1. Cardinality(young[p]) = EventLimit /\ EventLimit \in Nat \ {0}
      BY <1>5, HubAssumption
    <2> HIDE DEF young
    <2> QED BY <2>1, FS_EmptySet
  <1> HIDE DEF swept, young, marks, new
  <1>6. ASSUME NEW p \in Partitions
        PROVE  /\ room(p) \subseteq young[p]
               /\ truncatedUntil'[p] \in Nat /\ Marks(truncatedUntil'[p], LostTimes(p, room(p)), now)
    <2>1. CASE p \in full
      <3>1. truncatedUntil'[p] = LostUntil(marks[p], Min(young[p])) /\ room(p) = young[p] \ {Min(young[p])}
        BY <1>1, <2>1
      <3> QED BY <1>3, <1>5, <2>1, <3>1, OldestIsMarked
    <2>2. CASE p \notin full
      <3>1. truncatedUntil'[p] = marks[p] /\ room(p) = young[p]
        BY <1>1, <2>2
      <3> QED BY <1>3, <3>1
    <2> QED BY <2>1, <2>2
  <1>7. ASSUME NEW p \in Partitions
        PROVE  /\ events'[p] \in SUBSET (DOMAIN received')
               /\ \A m \in events'[p] : p \in received'[m].to /\ received'[m].copied
               /\ LostAfter(p, events'[p]) = LostTimes(p, room(p))
               /\ UncopiedTimes(p)' = UncopiedTimes(p)
    <2>1. CASE p \in pending.to
      <3>1. events'[p] = room(p) \cup {new}
        BY <1>1, <2>1
      <3> HIDE DEF room
      <3>2. LostAfter(p, room(p) \cup {new}) = LostTimes(p, room(p)) /\ UncopiedTimes(p)' = UncopiedTimes(p)
        BY <1>1, TakenTimes DEF new
      <3> QED BY <1>3, <1>4, <1>6, <2>1, <3>1, <3>2
    <2>2. CASE p \notin pending.to
      <3>1. events'[p] = young[p] /\ room(p) = young[p]
        BY <1>1, <2>2
      <3>2. LostAfter(p, young[p]) = LostTimes(p, young[p]) /\ UncopiedTimes(p)' = UncopiedTimes(p)
        BY <1>1, <2>2, TakenTimes
      <3> QED BY <1>3, <1>4, <3>1, <3>2
    <2> QED BY <2>1, <2>2
  <1> HIDE DEF room, full
  <1>8. /\ events' \in [Partitions -> SUBSET (DOMAIN received')]
        /\ truncatedUntil' \in [Partitions -> Nat] /\ issueUntil' \in [Partitions -> Nat]
    <2>1. /\ events' = [p \in Partitions |-> events'[p]]
          /\ truncatedUntil' = [p \in Partitions |-> truncatedUntil'[p]]
          /\ issueUntil' = [p \in Partitions |-> issueUntil'[p]]
      BY <1>1 DEF SweptMarks
    <2>2. \A p \in Partitions : /\ events'[p] \in SUBSET (DOMAIN received')
                                /\ truncatedUntil'[p] \in Nat /\ issueUntil'[p] \in Nat
      BY <1>1, <1>3, <1>6, <1>7
    <2> QED BY <2>1, <2>2
  <1>9. \A p \in Partitions :
              /\ \A m \in events'[p] : p \in received'[m].to /\ received'[m].copied
              /\ Marks(truncatedUntil'[p], LostAfter(p, events'[p]), now)
              /\ Marks(issueUntil'[p], UncopiedTimes(p)', now)
    BY <1>1, <1>3, <1>6, <1>7
  <1> QED BY <1>1, <1>8, <1>9, TakenStepMarks

LEMMA InitMarks == Init => MarkInvariant
  <1> SUFFICES ASSUME Init PROVE MarkInvariant
    OBVIOUS
  <1>1. DOMAIN received = {}
    BY EmptySeq DEF Init
  <1>2. EventTypes
    BY <1>1 DEF Init, EventTypes, Never
  <1>3. ASSUME NEW p \in Partitions
        PROVE  /\ events[p] = {} /\ truncatedUntil[p] = Never /\ issueUntil[p] = Never
               /\ LostTimes(p, events[p]) = {} /\ UncopiedTimes(p) = {}
    BY <1>1 DEF Init, LostTimes, UncopiedTimes
  <1> QED BY <1>2, <1>3 DEF MarkInvariant, Marks

LEMMA NextMarks == HubTypes /\ MarkInvariant /\ [Next]_vars => MarkInvariant'
  <1> SUFFICES ASSUME HubTypes, MarkInvariant, [Next]_vars PROVE MarkInvariant'
    OBVIOUS
  <1>a. now \in Nat /\ now <= now
    BY DEF HubTypes
  <1>b. pending # NoMessage => pending.at <= now
    BY DEF MarkInvariant, EventTypes
  <1>1. ASSUME NEW k \in Kinds, NEW to \in Targets, Classified(k, to)
        PROVE  MarkInvariant'
    <2>1. UNCHANGED <<received, eventVars>> /\ now' = now /\ pending'.at = now
      BY <1>1 DEF Classified
    <2> QED BY <1>a, <2>1, QuietMarks
  <1>2. ASSUME NEW k \in Kinds, NEW to \in Targets, NEW at \in 1..now, Ingest(k, at, to)
        PROVE  MarkInvariant'
    <2>1. UNCHANGED <<received, eventVars>> /\ now' = now /\ pending'.at = at /\ at <= now
      BY <1>2 DEF Ingest
    <2> QED BY <1>a, <2>1, QuietMarks
  <1>3. ASSUME NEW copied \in BOOLEAN, Stamp(copied) PROVE MarkInvariant'
    <2>1. UNCHANGED <<received, eventVars>> /\ now' = now /\ pending # NoMessage
      BY <1>3 DEF Stamp, NoMessage
    <2>2. pending'.at = now
      BY <1>3, <2>1, PendingTypes DEF Stamp, Pending
    <2> QED BY <1>a, <2>1, <2>2, QuietMarks
  <1>4. CASE Uncopied
    BY <1>4, UncopiedMarks
  <1>5. ASSUME NEW t \in 1..now, Record(t) PROVE MarkInvariant'
    BY <1>5, RecordMarks
  <1>6. ASSUME NEW t, ClearCache(t) \/ \E k \in Kinds : RecentData(k, t) PROVE MarkInvariant'
    <2>1. UNCHANGED <<received, eventVars>> /\ now' = now /\ pending' = pending
      BY <1>6 DEF ClearCache, RecentData, ingestVars
    <2> QED BY <1>a, <1>b, <2>1, QuietMarks
  <1>7. ASSUME NEW t \in 1..now, NEW p \in Partitions, Query(p, t) PROVE MarkInvariant'
    <2> DEFINE parts == IF CleanupDue(t) THEN Partitions ELSE {p}
    <2>1. PruneEvents(parts, t) /\ UNCHANGED <<now, ingestVars>>
      BY <1>7 DEF Query
    <2> HIDE DEF parts
    <2> QED BY <2>1, PruneStep
  <1>8. ASSUME NEW t \in 1..now, ClearEvents(t) PROVE MarkInvariant'
    <2>1. PruneEvents(Partitions, t) /\ UNCHANGED <<now, ingestVars>>
      BY <1>8 DEF ClearEvents
    <2> QED BY <2>1, PruneStep
  <1>9. CASE Tick
    <2>1. UNCHANGED <<received, eventVars>> /\ now' = now + 1 /\ pending' = pending
      BY <1>9 DEF Tick, ingestVars
    <2>2. now' \in Nat /\ now <= now'
      BY <1>a, <2>1
    <2>3. pending' # NoMessage => pending'.at <= now'
      <3>1. pending # NoMessage => pending.at \in Nat
        BY PendingTypes
      <3> QED BY <1>a, <1>b, <2>1, <3>1
    <2> QED BY <2>1, <2>2, <2>3, QuietMarks
  <1>10. CASE UNCHANGED vars
    <2>1. UNCHANGED <<received, eventVars>> /\ now' = now /\ pending' = pending
      BY <1>10 DEF vars, ingestVars
    <2> QED BY <1>a, <1>b, <2>1, QuietMarks
  <1> QED
    BY <1>1, <1>2, <1>3, <1>4, <1>5, <1>6, <1>7, <1>8, <1>9, <1>10 DEF Next

-----------------------------------------------------------------------------

\* What the marks say at a time a query may have read, and what they say at
\* the time it answers.
LEMMA ViewIsExact ==
    ASSUME HubTypes, MarkInvariant, NEW p \in Partitions, NEW t \in 1..now
    PROVE  LET v == View(p, t)
           IN  /\ v.events \subseteq Due(p, t)
               /\ Missing(p, now, v) # {} => v.truncated
               /\ v.truncated => Missing(p, t, v) # {}
               /\ (\E m \in Due(p, now) : ~received[m].copied) => v.uncopied
               /\ v.uncopied => \E m \in Due(p, t) : ~received[m].copied
  <1> DEFINE v == View(p, t)
  <1>1. /\ now \in Nat /\ t \in Nat /\ t <= now /\ t # Never
        /\ events[p] \subseteq DOMAIN received
        /\ \A m \in events[p] : p \in received[m].to /\ received[m].copied
        /\ truncatedUntil[p] \in Nat /\ issueUntil[p] \in Nat
        /\ Marks(truncatedUntil[p], LostTimes(p, events[p]), now)
        /\ Marks(issueUntil[p], UncopiedTimes(p), now)
    BY DEF HubTypes, MarkInvariant, EventTypes, Never
  <1>2. ASSUME NEW m \in DOMAIN received, NEW u \in Nat
        PROVE  Windowed(received[m].kind, received[m].at, u) <=> u <= Expiry(m)
    <2>1. received[m].kind \in Nat /\ received[m].at \in Nat
      BY MessageTypes
    <2> QED BY <2>1 DEF Windowed, Expiry
  <1>3. /\ v.events = Active(events[p], t)
        /\ v.truncated <=> t <= truncatedUntil[p]
        /\ v.uncopied <=> t <= issueUntil[p]
    BY DEF View
  <1> HIDE DEF v
  <1>4. v.events \subseteq Due(p, t)
    BY <1>1, <1>3 DEF Active, Due
  <1>5. ASSUME NEW m \in Missing(p, now, v) PROVE v.truncated
    <2>1. /\ m \in DOMAIN received /\ p \in received[m].to /\ received[m].copied
          /\ now <= Expiry(m) /\ m \notin v.events /\ Expiry(m) \in Nat
      BY <1>1, <1>2, MessageTypes DEF Missing, Due
    <2>2. m \notin events[p]
      BY <1>1, <1>2, <1>3, <2>1 DEF Active
    <2>3. Expiry(m) \in LostTimes(p, events[p])
      BY <2>1, <2>2 DEF LostTimes
    <2>4. Expiry(m) <= truncatedUntil[p]
      BY <1>1, <2>1, <2>3 DEF Marks
    <2> QED BY <1>1, <1>3, <2>1, <2>4
  <1>6. ASSUME v.truncated PROVE Missing(p, t, v) # {}
    <2>1. t <= truncatedUntil[p] /\ truncatedUntil[p] # Never
      BY <1>1, <1>3, <1>6 DEF Never
    <2>2. PICK m \in DOMAIN received :
             /\ p \in received[m].to /\ received[m].copied /\ m \notin events[p]
             /\ Expiry(m) = truncatedUntil[p]
      BY <1>1, <2>1 DEF Marks, LostTimes
    <2>3. m \in Due(p, t) /\ m \notin v.events
      BY <1>1, <1>2, <1>3, <2>1, <2>2 DEF Due, Active
    <2> QED BY <2>2, <2>3 DEF Missing
  <1>7. ASSUME NEW m \in Due(p, now), ~received[m].copied PROVE v.uncopied
    <2>1. m \in DOMAIN received /\ p \in received[m].to /\ now <= Expiry(m) /\ Expiry(m) \in Nat
      BY <1>1, <1>2, MessageTypes DEF Due
    <2>2. Expiry(m) \in UncopiedTimes(p)
      BY <1>7, <2>1 DEF UncopiedTimes
    <2>3. Expiry(m) <= issueUntil[p]
      BY <1>1, <2>1, <2>2 DEF Marks
    <2> QED BY <1>1, <1>3, <2>1, <2>3
  <1>8. ASSUME v.uncopied PROVE \E m \in Due(p, t) : ~received[m].copied
    <2>1. t <= issueUntil[p] /\ issueUntil[p] # Never
      BY <1>1, <1>3, <1>8 DEF Never
    <2>2. PICK m \in DOMAIN received :
             p \in received[m].to /\ ~received[m].copied /\ Expiry(m) = issueUntil[p]
      BY <1>1, <2>1 DEF Marks, UncopiedTimes
    <2> QED BY <1>1, <1>2, <2>1, <2>2 DEF Due
  <1> QED BY <1>4, <1>5, <1>6, <1>7, <1>8 DEF v

\* An answer of the event windows (datahub/service.py) holds no expired event,
\* holds every event that has not expired or says that the window was
\* truncated, mentions a message that was not copied as long as it would have
\* been young, and says neither without a cause: for any number of messages,
\* any limit and any delay between reading the clock and taking the lock.
THEOREM AnswersStayExact == Spec => []AnswersAreExact
  <1>1. WindowInvariant => HubTypes
    BY DEF WindowInvariant
  <1>2. HubTypes /\ MarkInvariant => AnswersAreExact
    BY ViewIsExact DEF AnswersAreExact
  <1> QED
    BY <1>1, <1>2, InitWindow, NextWindow, InitMarks, NextMarks, PTL DEF Spec

-----------------------------------------------------------------------------
(* The items of the short term memory.                                     *)

LEMMA DropAddsNothing ==
    ASSUME NEW items \in Seq(Items), NEW kind, NEW t
    PROVE  \A i \in DOMAIN DropOldHead(items, kind, t) :
              \E j \in DOMAIN items : DropOldHead(items, kind, t)[i] = items[j]
  <1> DEFINE left == DropOldHead(items, kind, t)
  <1>1. PICK n \in Nat : Suffix(left, items, n)
    BY DropIsSuffix
  <1> HIDE DEF left
  <1>2. \A i \in DOMAIN left : \E j \in DOMAIN items : left[i] = items[j]
    BY <1>1 DEF Suffix
  <1> QED BY <1>2 DEF left

NewItem(at) == [at |-> at, message |-> Len(received) + 1]

LEMMA AddedItems ==
    ASSUME HubTypes, NEW k \in Kinds, NEW at \in Nat,
           NEW other \in Kinds, NEW i \in DOMAIN Added(k, at)[other]
    PROVE  \/ \E j \in DOMAIN cache[other] : Added(k, at)[other][i] = cache[other][j]
           \/ other = k /\ Added(k, at)[other][i] = NewItem(at)
  <1> DEFINE items == Append(cache[k], NewItem(at))
             left == DropOldHead(items, k, at)
  <1>1. Added(k, at) = [cache EXCEPT ![k] = left]
    BY DEF Added, NewItem
  <1>2. CASE other # k
    <2> HIDE DEF left
    <2> QED BY <1>1, <1>2 DEF HubTypes
  <1>3. CASE other = k
    <2>1. NewItem(at) \in Items /\ cache[k] \in Seq(Items)
      BY LenProperties DEF HubTypes, Items, NewItem
    <2>2. items \in Seq(Items)
      BY <2>1
    <2>3. /\ DOMAIN cache[k] = 1..Len(cache[k]) /\ DOMAIN items = 1..(Len(cache[k]) + 1)
          /\ Len(cache[k]) \in Nat /\ items[Len(cache[k]) + 1] = NewItem(at)
          /\ \A j \in 1..Len(cache[k]) : items[j] = cache[k][j]
      <3> HIDE DEF NewItem
      <3> QED BY <2>1, LenProperties, AppendProperties
    <2> HIDE DEF items
    <2>4. \A n \in DOMAIN left : \E j \in DOMAIN items : left[n] = items[j]
      BY <2>2, DropAddsNothing
    <2>5. Added(k, at)[other] = left
      <3> HIDE DEF left
      <3> QED BY <1>1, <1>3 DEF HubTypes
    <2>6. PICK j \in DOMAIN items : Added(k, at)[other][i] = items[j]
      <3> HIDE DEF left
      <3> QED BY <2>4, <2>5
    <2>7. j \in 1..Len(cache[k]) \/ j = Len(cache[k]) + 1
      BY <2>3
    <2> QED BY <1>3, <2>3, <2>6, <2>7
  <1> QED BY <1>2, <1>3

\* Where an item is placed after a step.
PlacedAfter(k, item) ==
    \/ /\ item.message \in DOMAIN received'
       /\ received'[item.message].kind = k /\ item.at <= received'[item.message].at
    \/ /\ item.message = Len(received') + 1 /\ pending' # NoMessage
       /\ pending'.kind = k /\ item.at <= pending'.at

LEMMA PlacesStep ==
    ASSUME HubTypes, CacheInvariant,
           \A k \in Kinds, item \in Items : Placed(k, item) => PlacedAfter(k, item),
           \A k \in Kinds : \A i \in DOMAIN cache'[k] :
              \/ \E j \in DOMAIN cache[k] : cache'[k][i] = cache[k][j]
              \/ PlacedAfter(k, cache'[k][i])
    PROVE  CacheInvariant'
  <1>1. ASSUME NEW k \in Kinds, NEW j \in DOMAIN cache[k] PROVE PlacedAfter(k, cache[k][j])
    <2>1. cache[k][j] \in Items
      BY ItemTypes DEF HubTypes
    <2> QED BY <2>1 DEF CacheInvariant
  <1>2. ASSUME NEW k \in Kinds, NEW i \in DOMAIN cache'[k] PROVE PlacedAfter(k, cache'[k][i])
    <2>1. CASE PlacedAfter(k, cache'[k][i])
      BY <2>1
    <2>2. CASE \E j \in DOMAIN cache[k] : cache'[k][i] = cache[k][j]
      <3>1. PICK j \in DOMAIN cache[k] : cache'[k][i] = cache[k][j]
        BY <2>2
      <3>2. PlacedAfter(k, cache[k][j])
        BY <1>1
      <3> QED BY <3>1, <3>2
    <2> QED BY <2>1, <2>2
  <1> QED BY <1>2 DEF CacheInvariant, Placed, PlacedAfter

\* Clearing, and the steps that leave the short term memory alone.
LEMMA KeptPlaces ==
    ASSUME HubTypes, CacheInvariant, received' = received, pending' = pending,
           \A k \in Kinds : cache'[k] = cache[k] \/ \E t : cache'[k] = DropOldHead(cache[k], k, t)
    PROVE  CacheInvariant'
  <1>1. \A k \in Kinds, item \in Items : Placed(k, item) => PlacedAfter(k, item)
    BY DEF Placed, PlacedAfter
  <1>2. ASSUME NEW k \in Kinds, NEW i \in DOMAIN cache'[k]
        PROVE  \E j \in DOMAIN cache[k] : cache'[k][i] = cache[k][j]
    <2>1. CASE cache'[k] = cache[k]
      BY <2>1
    <2>2. CASE \E t : cache'[k] = DropOldHead(cache[k], k, t)
      <3>1. PICK t : cache'[k] = DropOldHead(cache[k], k, t)
        BY <2>2
      <3>2. cache[k] \in Seq(Items)
        BY DEF HubTypes
      <3> QED BY <3>1, <3>2, DropAddsNothing
    <2> QED BY <2>1, <2>2
  <1> QED BY <1>1, <1>2, PlacesStep

\* A message that enters the lock is cached, or not, with its receipt.
LEMMA EnteredPlaces ==
    ASSUME HubTypes, CacheInvariant, NEW k \in Kinds, NEW at \in Nat, pending = NoMessage,
           received' = received, pending' # NoMessage, pending'.kind = k, pending'.at = at,
           cache' = cache \/ cache' = Added(k, at)
    PROVE  CacheInvariant'
  <1>1. \A other \in Kinds, item \in Items : Placed(other, item) => PlacedAfter(other, item)
    BY DEF Placed, PlacedAfter
  <1>2. PlacedAfter(k, NewItem(at))
    BY DEF PlacedAfter, NewItem
  <1>3. ASSUME NEW other \in Kinds, NEW i \in DOMAIN cache'[other]
        PROVE  \/ \E j \in DOMAIN cache[other] : cache'[other][i] = cache[other][j]
               \/ PlacedAfter(other, cache'[other][i])
    <2>1. CASE cache' = cache
      BY <2>1
    <2>2. CASE cache' = Added(k, at)
      <3>1. \/ \E j \in DOMAIN cache[other] : Added(k, at)[other][i] = cache[other][j]
            \/ other = k /\ Added(k, at)[other][i] = NewItem(at)
        BY <2>2, AddedItems
      <3> QED BY <1>2, <2>2, <3>1
    <2> QED BY <2>1, <2>2
  <1> QED BY <1>1, <1>3, PlacesStep

LEMMA StampPlaces ==
    ASSUME HubTypes, EventTypes, CacheInvariant, NEW copied \in BOOLEAN, Stamp(copied)
    PROVE  CacheInvariant'
  <1>1. pending # NoMessage /\ received' = received /\ cache' = cache /\ now \in Nat
    BY DEF Stamp, NoMessage, cacheVars, HubTypes
  <1>2. pending \in Pending /\ pending.at \in Nat /\ pending.at <= now
    BY <1>1, PendingTypes DEF EventTypes
  <1>3. pending' # NoMessage /\ pending'.kind = pending.kind /\ pending'.at = now
    <2>1. pending'.kind = pending.kind /\ pending'.at = now /\ pending'.step \in {"copied", "uncopied"}
      BY <1>2 DEF Stamp, Pending
    <2> QED BY <2>1 DEF NoMessage
  <1>4. ASSUME NEW k \in Kinds, NEW item \in Items, Placed(k, item)
        PROVE  PlacedAfter(k, item)
    <2>1. item.at \in Nat
      BY DEF Items
    <2> QED BY <1>1, <1>2, <1>3, <1>4, <2>1 DEF Placed, PlacedAfter
  <1>5. \A k \in Kinds : \A i \in DOMAIN cache'[k] :
              \E j \in DOMAIN cache[k] : cache'[k][i] = cache[k][j]
    BY <1>1
  <1> QED BY <1>4, <1>5, PlacesStep

LEMMA TakenPlaces ==
    ASSUME HubTypes, CacheInvariant, pending # NoMessage, NEW copied \in BOOLEAN, Taken(copied),
           cache' = cache
    PROVE  CacheInvariant'
  <1> DEFINE new == Len(received) + 1
  <1>1. /\ DOMAIN received' = DOMAIN received \cup {new}
        /\ \A m \in DOMAIN received : received'[m] = received[m]
        /\ received'[new].kind = pending.kind /\ received'[new].at = pending.at
    <2>1. /\ DOMAIN received' = DOMAIN received \cup {new}
          /\ \A m \in DOMAIN received : received'[m] = received[m]
          /\ received'[new] = [kind |-> pending.kind, at |-> pending.at, to |-> pending.to, copied |-> copied]
      BY TakenMessages
    <2> HIDE DEF new
    <2> QED BY <2>1
  <1>2. ASSUME NEW k \in Kinds, NEW item \in Items, Placed(k, item)
        PROVE  PlacedAfter(k, item)
    <2>1. CASE item.message \in DOMAIN received
      BY <1>1, <1>2, <2>1 DEF Placed, PlacedAfter, new
    <2>2. CASE item.message \notin DOMAIN received
      <3>1. item.message = new /\ pending.kind = k /\ item.at <= pending.at
        BY <1>2, <2>2 DEF Placed
      <3> HIDE DEF new
      <3> QED BY <1>1, <3>1 DEF PlacedAfter
    <2> QED BY <2>1, <2>2
  <1>3. \A k \in Kinds : \A i \in DOMAIN cache'[k] :
              \E j \in DOMAIN cache[k] : cache'[k][i] = cache[k][j]
    OBVIOUS
  <1> QED BY <1>2, <1>3, PlacesStep

LEMMA InitPlaces == Init => CacheInvariant
  BY EmptySeq DEF Init, CacheInvariant

LEMMA NextPlaces == HubTypes /\ EventTypes /\ CacheInvariant /\ [Next]_vars => CacheInvariant'
  <1> SUFFICES ASSUME HubTypes, EventTypes, CacheInvariant, [Next]_vars PROVE CacheInvariant'
    OBVIOUS
  <1>1. ASSUME NEW k \in Kinds, NEW to \in Targets, Classified(k, to)
        PROVE  CacheInvariant'
    <2>1. /\ pending = NoMessage /\ received' = received /\ now \in Nat
          /\ cache' = cache \/ cache' = Added(k, now)
      BY <1>1 DEF Classified, Free, HubTypes
    <2>2. pending'.step = "cached" /\ pending'.kind = k /\ pending'.at = now
      BY <1>1 DEF Classified
    <2>3. pending' # NoMessage
      BY <2>2 DEF NoMessage
    <2> QED BY <2>1, <2>2, <2>3, EnteredPlaces
  <1>2. ASSUME NEW k \in Kinds, NEW to \in Targets, NEW at \in 1..now, Ingest(k, at, to)
        PROVE  CacheInvariant'
    <2>1. /\ pending = NoMessage /\ received' = received /\ at \in Nat
          /\ cache' = cache \/ cache' = Added(k, at)
      BY <1>2 DEF Ingest, Free, HubTypes
    <2>2. pending'.step = "copied" /\ pending'.kind = k /\ pending'.at = at
      BY <1>2 DEF Ingest
    <2>3. pending' # NoMessage
      BY <2>2 DEF NoMessage
    <2> QED BY <2>1, <2>2, <2>3, EnteredPlaces
  <1>3. ASSUME NEW copied \in BOOLEAN, Stamp(copied) PROVE CacheInvariant'
    BY <1>3, StampPlaces
  <1>4. CASE Uncopied
    <2>1. Taken(FALSE) /\ UNCHANGED cacheVars /\ pending.step = "uncopied"
      BY <1>4, Zenon DEF Uncopied
    <2>2. cache' = cache /\ pending # NoMessage
      BY <2>1 DEF cacheVars, NoMessage
    <2> QED BY <2>1, <2>2, TakenPlaces
  <1>5. ASSUME NEW t, Record(t) PROVE CacheInvariant'
    <2>1. Taken(TRUE) /\ UNCHANGED cacheVars /\ pending.step = "copied"
      BY <1>5, Zenon DEF Record
    <2>2. cache' = cache /\ pending # NoMessage
      BY <2>1 DEF cacheVars, NoMessage
    <2> QED BY <2>1, <2>2, TakenPlaces
  <1>6. ASSUME NEW t, NEW k \in Kinds, RecentData(k, t) PROVE CacheInvariant'
    <2>1. received' = received /\ pending' = pending
      BY <1>6 DEF RecentData, ingestVars
    <2>2. \A other \in Kinds : cache'[other] = IF other = k THEN DropOldHead(cache[k], k, t) ELSE cache[other]
      BY <1>6 DEF RecentData, HubTypes
    <2> QED BY <2>1, <2>2, KeptPlaces
  <1>7. ASSUME NEW t, ClearCache(t) PROVE CacheInvariant'
    <2>1. received' = received /\ pending' = pending
      BY <1>7 DEF ClearCache, ingestVars
    <2>2. \A other \in Kinds : cache'[other] = DropOldHead(cache[other], other, t)
      BY <1>7 DEF ClearCache
    <2> QED BY <2>1, <2>2, KeptPlaces
  <1>8. ASSUME UNCHANGED <<received, pending, cache>> PROVE CacheInvariant'
    BY <1>8, KeptPlaces
  <1>9. ASSUME NEW t, ClearEvents(t) \/ \E p \in Partitions : Query(p, t) PROVE CacheInvariant'
    <2>1. UNCHANGED <<received, pending, cache>>
      BY <1>9 DEF ClearEvents, Query, ingestVars, cacheVars
    <2> QED BY <1>8, <2>1
  <1>10. CASE Tick \/ UNCHANGED vars
    <2>1. UNCHANGED <<received, pending, cache>>
      BY <1>10 DEF Tick, vars, ingestVars, cacheVars
    <2> QED BY <1>8, <2>1
  <1> QED
    BY <1>1, <1>2, <1>3, <1>4, <1>5, <1>6, <1>7, <1>9, <1>10 DEF Next

\* An item that is still in its window has a message that is, and that message
\* is in its partitions or has left a mark there.
LEMMA PlacedIsAccountedFor ==
    ASSUME HubTypes, MarkInvariant, NEW k \in Kinds, NEW item \in Items, Placed(k, item),
           item.message \in DOMAIN received, Windowed(k, item.at, now),
           NEW p \in received[item.message].to
    PROVE  LET v == View(p, now) IN item.message \in v.events \/ v.truncated \/ v.uncopied
  <1> DEFINE v == View(p, now)
             m == item.message
  <1>1. /\ received[m] \in Messages /\ received[m].at \in Nat /\ Expiry(m) \in Nat /\ m \in Nat
        /\ m <= Len(received) /\ Len(received) \in Nat
    BY MessageTypes, LenProperties DEF HubTypes
  <1>2. received[m].kind = k /\ item.at <= received[m].at
    BY <1>1 DEF Placed
  <1>3. now \in Nat /\ k \in Nat /\ item.at \in Nat /\ m \in DOMAIN received
    BY HubAssumption DEF HubTypes, Items
  <1>4. p \in Partitions
    BY <1>1, HubAssumption DEF Messages
  <1> HIDE DEF m
  <1>5. Windowed(received[m].kind, received[m].at, now) /\ now <= Expiry(m)
    BY <1>1, <1>2, <1>3 DEF Windowed, Expiry
  <1>6. /\ v.events = Active(events[p], now)
        /\ v.truncated <=> now <= truncatedUntil[p]
        /\ v.uncopied <=> now <= issueUntil[p]
    BY DEF View
  <1> HIDE DEF v
  <1>7. CASE m \in events[p]
    BY <1>5, <1>6, <1>7 DEF Active, v, m
  <1>8. CASE m \notin events[p] /\ received[m].copied
    <2>1. Expiry(m) \in LostTimes(p, events[p])
      BY <1>3, <1>8 DEF LostTimes, m
    <2>2. Expiry(m) <= truncatedUntil[p] /\ truncatedUntil[p] \in Nat
      BY <1>4, <1>5, <2>1 DEF MarkInvariant, EventTypes, Marks
    <2> QED BY <1>1, <1>3, <1>5, <1>6, <2>2 DEF v
  <1>9. CASE ~received[m].copied
    <2>1. Expiry(m) \in UncopiedTimes(p)
      BY <1>3, <1>9 DEF UncopiedTimes, m
    <2>2. Expiry(m) <= issueUntil[p] /\ issueUntil[p] \in Nat
      BY <1>4, <1>5, <2>1 DEF MarkInvariant, EventTypes, Marks
    <2> QED BY <1>1, <1>3, <1>5, <1>6, <2>2 DEF v
  <1> QED BY <1>7, <1>8, <1>9

\* What the short term memory still holds in its window (short_term.py) is in
\* the answer of every partition it belongs to, or that answer says that
\* something is missing (datahub/service.py), although each store is emptied
\* under a lock and by a clock of its own.
THEOREM CacheStaysAccountedFor == Spec => []CacheIsAccountedFor
  <1>1. WindowInvariant => HubTypes
    BY DEF WindowInvariant
  <1>2. MarkInvariant => EventTypes
    BY DEF MarkInvariant
  <1>3. HubTypes /\ MarkInvariant /\ CacheInvariant => CacheIsAccountedFor
    <2> SUFFICES ASSUME HubTypes, MarkInvariant, CacheInvariant, NEW k \in Kinds, NEW i \in DOMAIN cache[k],
                        cache[k][i].message \in DOMAIN received, Windowed(k, cache[k][i].at, now),
                        NEW p \in received[cache[k][i].message].to
                 PROVE  LET v == View(p, now)
                        IN  cache[k][i].message \in v.events \/ v.truncated \/ v.uncopied
      BY DEF CacheIsAccountedFor
    <2>1. cache[k][i] \in Items /\ Placed(k, cache[k][i])
      BY ItemTypes DEF HubTypes, CacheInvariant
    <2> QED BY <2>1, PlacedIsAccountedFor
  <1> QED
    BY <1>1, <1>2, <1>3, InitWindow, NextWindow, InitMarks, NextMarks, InitPlaces, NextPlaces, PTL DEF Spec

=============================================================================
