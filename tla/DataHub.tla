------------------------------ MODULE DataHub ------------------------------
(***************************************************************************)
(* The traffic data hub (datahub/service.py) over the short term memory    *)
(* (datahub/memory/short_term.py).                                         *)
(*                                                                         *)
(* Every message goes into two stores: the windows of the short term       *)
(* memory, which the selectors read, and the bounded event windows by      *)
(* road, which the experts and the agents query.  The stores have a lock   *)
(* each; the ingest lock only keeps two messages apart.  The decision      *)
(* thread empties them one after the other, the selectors and queries of   *)
(* the worker threads run between any two of those steps, and each of them *)
(* reads the clock before it takes its lock.                               *)
(*                                                                         *)
(* A kind of data is named by the length of its window.                    *)
(***************************************************************************)
EXTENDS Integers, SequencesExt

CONSTANTS
    Partitions,      \* the roads, and None for what belongs to no road
    Targets,         \* the sets of partitions a message may belong to
    Known,           \* those whose device or road the selectors' maps know
    Kinds,           \* the kinds of data, each its window in seconds
    EventLimit,      \* event_limit
    CleanupPeriod,   \* the 30 seconds between two complete cleanups
    MaxTime,         \* bound: the clock
    MaxWait,         \* bound: from reading the clock to taking the lock
    MaxMessages      \* bound: messages

ASSUME HubAssumption ==
    /\ Known \subseteq Targets /\ Targets \subseteq (SUBSET Partitions) \ {{}}
    /\ Kinds \subseteq Nat \ {0}
    /\ {EventLimit, CleanupPeriod, MaxTime, MaxMessages} \subseteq Nat \ {0}
    /\ MaxWait \in Nat

VARIABLES
    now,             \* the clock
    received,        \* history: the messages taken in; an event is a place in it
    pending,         \* the message under the ingest lock
    lastReceived,    \* _last_received_at
    cache,           \* _items of the short term memory
    clearing,        \* the decision thread is between its two clearings
    events,          \* _events: the places in received, smallest first
    truncatedUntil,  \* _truncated_until
    issueUntil,      \* _event_issues
    nextCleanup      \* _next_event_cleanup

ingestVars == <<received, pending, lastReceived>>
cacheVars == <<cache, clearing>>
eventVars == <<events, truncatedUntil, issueUntil, nextCleanup>>
vars == <<now, ingestVars, cacheVars, eventVars>>

\* No such time: the clock is always later.
Never == 0

\* Nobody holds the ingest lock.
NoMessage == [step |-> "none"]

Windowed(kind, at, t) == t - at <= kind

Init ==
    /\ now = 1
    /\ received = <<>> /\ pending = NoMessage
    /\ lastReceived = [k \in Kinds |-> Never]
    /\ cache = [k \in Kinds |-> <<>>] /\ clearing = FALSE
    /\ events = [p \in Partitions |-> {}]
    /\ truncatedUntil = [p \in Partitions |-> Never]
    /\ issueUntil = [p \in Partitions |-> Never]
    /\ nextCleanup = Never

-----------------------------------------------------------------------------
(* The short term memory.                                                  *)

\* _clear_expired_locked: from the head, up to the first that is still young.
DropOldHead(items, kind, t) ==
    LET young(i) == Windowed(kind, items[i].at, t)
        old == {i \in DOMAIN items : \A j \in 1..i : ~young(j)}
    IN  SubSeq(items, Cardinality(old) + 1, Len(items))

Added(kind, at) ==
    [cache EXCEPT ![kind] =
        DropOldHead(Append(@, [at |-> at, message |-> Len(received) + 1]),
                    kind, at)]

\* recent_data clears the window of its kind before it returns it.
RecentData(kind, t) ==
    /\ cache' = [cache EXCEPT ![kind] = DropOldHead(@, kind, t)]
    /\ UNCHANGED <<now, ingestVars, clearing, eventVars>>

-----------------------------------------------------------------------------
(* The event windows.                                                      *)

\* An event is appended when it is received and leaves from the head or from
\* between the others, so a window is in the order of its places.
Active(window, t) == {m \in window : Windowed(received[m].kind, received[m].at, t)}

\* _prune_events, for every partition of a set.
SweptEvents(parts, t) ==
    [p \in Partitions |-> IF p \in parts THEN Active(events[p], t) ELSE events[p]]

\* A mark is lifted when its time is over.
Unless(until, t) == IF t > until THEN Never ELSE until

SweptMarks(marks, parts, t) ==
    [p \in Partitions |-> IF p \in parts THEN Unless(marks[p], t) ELSE marks[p]]

PruneEvents(parts, t) ==
    /\ events' = SweptEvents(parts, t)
    /\ truncatedUntil' = SweptMarks(truncatedUntil, parts, t)
    /\ issueUntil' = SweptMarks(issueUntil, parts, t)

\* _clear_expired_events prunes every partition once in a period.
CleanupDue(t) == t >= nextCleanup

AfterCleanup(t) ==
    nextCleanup' = IF CleanupDue(t) THEN t + CleanupPeriod ELSE nextCleanup

\* What query returns: the events, and whether some are known to be missing.
View(p, t) ==
    [events    |-> Active(events[p], t),
     truncated |-> t <= truncatedUntil[p],
     uncopied  |-> t <= issueUntil[p]]

\* query keeps what it pruned.
Query(p, t) ==
    /\ PruneEvents(IF CleanupDue(t) THEN Partitions ELSE {p}, t)
    /\ AfterCleanup(t)
    /\ UNCHANGED <<now, ingestVars, cacheVars>>

-----------------------------------------------------------------------------
(* Ingest, under the ingest lock.                                          *)

Free == pending = NoMessage /\ Len(received) < MaxMessages

\* ingest refuses what is in the future or older than the last of its kind;
\* its event was validated and copied before the lock.
Ingest(kind, at, to) ==
    /\ Free
    /\ at <= now
    /\ at >= lastReceived[kind]
    /\ cache' = IF to \in Known THEN Added(kind, at) ELSE cache
    /\ lastReceived' = [lastReceived EXCEPT ![kind] = at]
    /\ pending' = [step |-> "copied", kind |-> kind, at |-> at, to |-> to,
                   since |-> now]
    /\ UNCHANGED <<now, received, clearing, eventVars>>

\* ingest_classified fills the short term memory with a clock of its own ...
Classified(kind, to) ==
    /\ Free
    /\ cache' = IF to \in Known THEN Added(kind, now) ELSE cache
    /\ pending' = [step |-> "cached", kind |-> kind, at |-> now, to |-> to,
                   since |-> now]
    /\ UNCHANGED <<now, received, lastReceived, clearing, eventVars>>

\* A variant: the order of the receipts is only kept among strict messages.
StampForgetting(copied) ==
    /\ pending.step = "cached"
    /\ pending' = [pending EXCEPT
            !.step = IF copied THEN "copied" ELSE "uncopied",
            !.at = now, !.since = now]
    /\ UNCHANGED <<now, received, lastReceived, cacheVars, eventVars>>

\* ... then reads it again for the event, and copies the message.
Stamp(copied) ==
    /\ pending.step = "cached"
    /\ lastReceived' = [lastReceived EXCEPT ![pending.kind] =
                            IF now > @ THEN now ELSE @]
    /\ pending' = [pending EXCEPT
            !.step = IF copied THEN "copied" ELSE "uncopied",
            !.at = now, !.since = now]
    /\ UNCHANGED <<now, received, cacheVars, eventVars>>

Taken(copied) ==
    /\ received' = Append(received,
            [kind |-> pending.kind, at |-> pending.at, to |-> pending.to,
             copied |-> copied])
    /\ pending' = NoMessage

Expiry(m) == received[m].at + received[m].kind

Later(a, b) == IF a > b THEN a ELSE b

\* A variant: the last message decides how long the mark stays.
UncopiedOverwriting ==
    /\ pending.step = "uncopied"
    /\ issueUntil' = [p \in Partitions |->
            IF p \in pending.to THEN pending.at + pending.kind
                               ELSE issueUntil[p]]
    /\ Taken(FALSE)
    /\ UNCHANGED <<now, lastReceived, cacheVars, events, truncatedUntil,
                   nextCleanup>>

\* A message too deep to copy only leaves a mark in its partitions.
Uncopied ==
    /\ pending.step = "uncopied"
    /\ issueUntil' = [p \in Partitions |->
            IF p \in pending.to
            THEN Later(pending.at + pending.kind, issueUntil[p])
            ELSE issueUntil[p]]
    /\ Taken(FALSE)
    /\ UNCHANGED <<now, lastReceived, cacheVars, events, truncatedUntil,
                   nextCleanup>>

\* A variant: the last loss decides how long it shows.
LostUntilOverwriting(until, m) == Expiry(m)

\* Until when the loss of an event shows.
LostUntil(until, m) == Later(Expiry(m), until)

\* _record_events; t is the clock it read before the lock.  A full partition
\* is pruned, and loses its oldest event when none of them has expired.
Record(t) ==
    /\ pending.step = "copied" /\ t >= pending.since
    /\ LET swept == IF CleanupDue(t) THEN Partitions
                    ELSE {p \in pending.to : Cardinality(events[p]) = EventLimit}
           young == SweptEvents(swept, t)
           marks == SweptMarks(truncatedUntil, swept, t)
           full == {p \in pending.to : Cardinality(young[p]) = EventLimit}
           oldest(p) == Min(young[p])
           room(p) == IF p \in full THEN young[p] \ {oldest(p)} ELSE young[p]
       IN  /\ events' = [p \in Partitions |->
                  IF p \in pending.to THEN room(p) \cup {Len(received) + 1}
                                      ELSE young[p]]
           /\ truncatedUntil' = [p \in Partitions |->
                  IF p \in full THEN LostUntil(marks[p], oldest(p))
                                ELSE marks[p]]
           /\ issueUntil' = SweptMarks(issueUntil, swept, t)
    /\ AfterCleanup(t)
    /\ Taken(TRUE)
    /\ UNCHANGED <<now, lastReceived, cacheVars>>

-----------------------------------------------------------------------------
(* The decision thread, and time.                                          *)

\* clear_expired empties the short term memory first ...
ClearCache(t) ==
    /\ ~clearing
    /\ cache' = [k \in Kinds |-> DropOldHead(cache[k], k, t)]
    /\ clearing' = TRUE
    /\ UNCHANGED <<now, ingestVars, eventVars>>

\* ... and then, whether it is due or not, every partition.
ClearEvents(t) ==
    /\ clearing
    /\ PruneEvents(Partitions, t)
    /\ nextCleanup' = t + CleanupPeriod
    /\ clearing' = FALSE
    /\ UNCHANGED <<now, ingestVars, cache>>

Tick ==
    /\ now < MaxTime
    /\ now' = now + 1
    /\ UNCHANGED <<ingestVars, cacheVars, eventVars>>

Next ==
    \/ \E k \in Kinds, to \in Targets :
          \/ Classified(k, to)
          \/ \E at \in 1..now : Ingest(k, at, to)
    \/ \E copied \in BOOLEAN : Stamp(copied)
    \/ Uncopied
    \* Each of these read the clock some time before it took the lock.
    \/ \E t \in {u \in 1..now : now - u <= MaxWait} :
          \/ Record(t)
          \/ \E k \in Kinds : RecentData(k, t)
          \/ \E p \in Partitions : Query(p, t)
          \/ ClearCache(t)
          \/ ClearEvents(t)
    \/ Tick

Spec == Init /\ [][Next]_vars

-----------------------------------------------------------------------------
(* Properties.                                                             *)

\* Clearing only looks at the head of a window, so a window must be in the
\* order of its receipts, whoever fills it: the classified messages, which
\* stamp it with the clock, and the strict ones, which bring their own.
HeadIsOldest ==
    \A k \in Kinds : \A i, j \in DOMAIN cache[k] :
        i < j => cache[k][i].at <= cache[k][j].at

\* The messages of a partition that are still in their window at a time.
Due(p, t) ==
    {m \in DOMAIN received :
        p \in received[m].to /\ Windowed(received[m].kind, received[m].at, t)}

Missing(p, t, v) == {m \in Due(p, t) : received[m].copied} \ v.events

\* A query tells the truth about its window, whatever other threads did since
\* it read the clock: it returns no expired event; an event that has not
\* expired when it answers is in the answer, or the answer says that the
\* window was truncated; a message that could not be copied is mentioned as
\* long as its window lasts; and neither is said when it is not the case.
AnswersAreExact ==
    \A p \in Partitions, t \in 1..now :
        LET v == View(p, t)
        IN  /\ v.events \subseteq Due(p, t)
            /\ Missing(p, now, v) # {} => v.truncated
            /\ v.truncated => Missing(p, t, v) # {}
            /\ (\E m \in Due(p, now) : ~received[m].copied) => v.uncopied
            /\ v.uncopied => \E m \in Due(p, t) : ~received[m].copied

\* The selectors and the queries see the same traffic: what the short term
\* memory still holds in its window is in the answer of every partition it
\* belongs to, or that answer says that something is missing.
CacheIsAccountedFor ==
    \A k \in Kinds : \A i \in DOMAIN cache[k] :
        LET m == cache[k][i].message
        IN  m \in DOMAIN received /\ Windowed(k, cache[k][i].at, now) =>
                \A p \in received[m].to :
                    LET v == View(p, now)
                    IN  m \in v.events \/ v.truncated \/ v.uncopied
=============================================================================
