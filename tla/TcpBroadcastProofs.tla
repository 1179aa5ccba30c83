------------------------- MODULE TcpBroadcastProofs -------------------------
(***************************************************************************)
(* The TCP server, for any number of connections and of lines of a batch.  *)
(* The list of sockets is sound: whatever the handlers, the broadcast      *)
(* thread and stop do to it, in any order, it holds open sockets only and  *)
(* forgets those whose handler has ended.  And what is sent arrives whole. *)
(***************************************************************************)
EXTENDS TcpBroadcast, TLAPS

\* The part of the type invariant the argument needs.
ListTypes ==
    /\ sock \in [Clients -> {"none", "open", "closed"}]
    /\ handler \in [Clients -> {"none", "starting", "loop", "blocked", "leaving", "closing", "done"}]
    /\ clients \subseteq Clients /\ todo \subseteq Clients
    /\ closing \subseteq Clients /\ disconnected \subseteq Clients
    /\ target \in Clients \cup {None}

\* A handler registers once, before it does anything else; until then its
\* socket is open and no other thread knows it.
Unregistered(c) == handler[c] \in {"none", "starting"}

KnownAreRegistered ==
    \A c \in Clients :
        Unregistered(c) => /\ c \notin clients \cup todo \cup closing \cup disconnected
                           /\ c # target

\* Whoever closes a socket has taken it off the list before.
TakenOffFirst ==
    /\ closing \cap clients = {}
    /\ broadcaster = "closing" => target \in Clients /\ target \notin clients
    /\ \A c \in Clients : handler[c] \in {"closing", "done"} => c \notin clients

SocketStates ==
    \A c \in Clients :
        /\ handler[c] = "starting" => sock[c] = "open"
        /\ handler[c] = "done" => sock[c] = "closed"

ListInvariant ==
    /\ ListTypes /\ KnownAreRegistered /\ TakenOffFirst /\ SocketStates
    /\ ListedIsOpen

LEMMA InitList == Init => ListInvariant
  BY ClientsAssumption
  DEF Init, ListInvariant, ListTypes, KnownAreRegistered, TakenOffFirst, SocketStates,
      ListedIsOpen, Unregistered

\* Steps of the environment and of the broadcast thread that close no socket
\* and neither add to nor take from the list.
LEMMA ListUntouched ==
    ASSUME ListInvariant, UNCHANGED <<sock, handler, clients, closing>>,
           broadcaster' # "closing",
           todo' \subseteq todo \cup clients,
           disconnected' \subseteq disconnected \cup {target},
           None \notin disconnected',
           target' \in todo \cup {target, None}
    PROVE  ListInvariant'
  BY ClientsAssumption
  DEF ListInvariant, ListTypes, KnownAreRegistered, TakenOffFirst, SocketStates,
      ListedIsOpen, Unregistered

LEMMA NextList == ListInvariant /\ [Next]_vars => ListInvariant'
  <1> SUFFICES ASSUME ListInvariant, [Next]_vars PROVE ListInvariant'
    OBVIOUS
  <1> USE ClientsAssumption
  <1>a. ListTypes
    BY DEF ListInvariant
  <1>1. CASE Publish
    BY <1>1
    DEF Publish, server, round, ListInvariant, ListTypes, KnownAreRegistered,
        TakenOffFirst, SocketStates, ListedIsOpen, Unregistered
  <1>2. ASSUME NEW c \in Clients, PeerCloses(c) \/ PeerStalls(c) \/ PeerResumes(c)
        PROVE  ListInvariant'
    BY <1>2
    DEF PeerCloses, PeerStalls, PeerResumes, PeerBecomes, server, round, ListInvariant,
        ListTypes, KnownAreRegistered, TakenOffFirst, SocketStates, ListedIsOpen, Unregistered
  <1>3. ASSUME NEW c \in Clients, Accept(c) PROVE ListInvariant'
    BY <1>3
    DEF Accept, round, ListInvariant, ListTypes, KnownAreRegistered, TakenOffFirst,
        SocketStates, ListedIsOpen, Unregistered
  <1>4. ASSUME NEW c \in Clients, ReceiveBytes(c) \/ Loop(c) \/ ReceiveEnd(c)
        PROVE  ListInvariant'
    BY <1>4
    DEF ReceiveBytes, Loop, ReceiveEnd, HandlerMoves, server, round, ListInvariant,
        ListTypes, KnownAreRegistered, TakenOffFirst, SocketStates, ListedIsOpen, Unregistered
  <1>5. ASSUME NEW c \in Clients, Register(c) PROVE ListInvariant'
    BY <1>5
    DEF Register, HandlerMoves, server, round, ListInvariant, ListTypes,
        KnownAreRegistered, TakenOffFirst, SocketStates, ListedIsOpen, Unregistered
  <1>6. ASSUME NEW c \in Clients, Leave(c) PROVE ListInvariant'
    BY <1>6
    DEF Leave, HandlerMoves, server, round, ListInvariant, ListTypes,
        KnownAreRegistered, TakenOffFirst, SocketStates, ListedIsOpen, Unregistered
  <1>7. ASSUME NEW c \in Clients, CloseSocket(c) PROVE ListInvariant'
    BY <1>7
    DEF CloseSocket, HandlerMoves, server, round, ListInvariant, ListTypes,
        KnownAreRegistered, TakenOffFirst, SocketStates, ListedIsOpen, Unregistered
  <1>8. CASE SetStopFlag \/ ListenerEnds
    BY <1>8
    DEF SetStopFlag, ListenerEnds, round, ListInvariant, ListTypes,
        KnownAreRegistered, TakenOffFirst, SocketStates, ListedIsOpen, Unregistered
  <1>9. CASE TakeClients
    BY <1>9
    DEF TakeClients, round, ListInvariant, ListTypes, KnownAreRegistered,
        TakenOffFirst, SocketStates, ListedIsOpen, Unregistered
  <1>10. CASE CloseClients
    BY <1>10
    DEF CloseClients, round, ListInvariant, ListTypes, KnownAreRegistered,
        TakenOffFirst, SocketStates, ListedIsOpen, Unregistered
  <1>11. CASE BroadcastEnds \/ StartRound \/ NextClient \/ AllSent \/ RoundDone
    BY <1>11, <1>a, ListUntouched
    DEF BroadcastEnds, StartRound, NextClient, AllSent, RoundDone, BroadcasterMoves,
        server, round, ListTypes
  <1>12. CASE SendLine
    BY <1>12, <1>a, ListUntouched
    DEF SendLine, LineDone, BroadcasterMoves, server, ListTypes
  <1>13. CASE SendRaises \/ LogRaises
    BY <1>13, <1>a, ListUntouched
    DEF SendRaises, LogRaises, Drop, BroadcasterMoves, server, ListTypes
  <1>14. CASE RemoveDisconnected
    BY <1>14
    DEF RemoveDisconnected, BroadcasterMoves, server, ListInvariant, ListTypes,
        KnownAreRegistered, TakenOffFirst, SocketStates, ListedIsOpen, Unregistered
  <1>15. CASE CloseDisconnected
    BY <1>15
    DEF CloseDisconnected, BroadcasterMoves, server, ListInvariant, ListTypes,
        KnownAreRegistered, TakenOffFirst, SocketStates, ListedIsOpen, Unregistered
  <1>16. CASE UNCHANGED vars
    BY <1>16
    DEF vars, server, round, ListInvariant, ListTypes, KnownAreRegistered,
        TakenOffFirst, SocketStates, ListedIsOpen, Unregistered
  <1> QED
    BY <1>1, <1>2, <1>3, <1>4, <1>5, <1>6, <1>7, <1>8, <1>9, <1>10, <1>11, <1>12,
       <1>13, <1>14, <1>15, <1>16
    DEF Next, Platforms, Stopping, Broadcast, Handler

LEMMA ListHolds == Spec => []ListInvariant
  BY InitList, NextList, PTL DEF Spec

\* The list never holds a socket the server has closed.
THEOREM ListedSocketsAreOpen == Spec => []ListedIsOpen
  <1>1. ListInvariant => ListedIsOpen
    BY DEF ListInvariant
  <1> QED BY <1>1, ListHolds, PTL

\* A connection whose handler has ended leaves nothing behind.
THEOREM EndedConnectionsAreForgotten == Spec => []EndedIsForgotten
  <1>1. ListInvariant => EndedIsForgotten
    BY DEF ListInvariant, TakenOffFirst, SocketStates, EndedIsForgotten
  <1> QED BY <1>1, ListHolds, PTL

-----------------------------------------------------------------------------
(* Types, of everything the server and the platforms hold.                 *)

LEMMA InitTypes == Init => TypeOK
  BY LinesAssumption, ClientsAssumption DEF Init, TypeOK

\* A line is sent or the client dropped: what the broadcast thread keeps of
\* its round stays a position in the batch.
LEMMA SendingTypes ==
    ASSUME TypeOK, target # None, UNCHANGED <<newest, peer, sock, handler, clients, server, broadcaster, todo, version>>,
           got' \in [Clients -> [1..Lines -> 0..MaxBatch]],
           (LineDone /\ UNCHANGED disconnected) \/ Drop(target)
    PROVE  TypeOK'
  <1>1. line' \in 1..Lines /\ target' \in Clients \cup {None}
    BY LinesAssumption DEF TypeOK, LineDone, Drop
  <1>2. disconnected' \subseteq Clients
    BY DEF TypeOK, LineDone, Drop
  <1> QED BY <1>1, <1>2 DEF TypeOK, server

LEMMA NextTypes == TypeOK /\ [Next]_vars => TypeOK'
  <1> SUFFICES ASSUME TypeOK, [Next]_vars PROVE TypeOK'
    OBVIOUS
  <1> USE LinesAssumption, ClientsAssumption
  <1>1. CASE Publish
    BY <1>1 DEF Publish, server, round, TypeOK
  <1>2. ASSUME NEW c \in Clients, PeerStalls(c) \/ PeerResumes(c) PROVE TypeOK'
    BY <1>2 DEF PeerStalls, PeerResumes, PeerBecomes, server, round, TypeOK
  <1>3. ASSUME NEW c \in Clients, PeerCloses(c) PROVE TypeOK'
    BY <1>3 DEF PeerCloses, server, round, TypeOK
  <1>4. ASSUME NEW c \in Clients, Accept(c) PROVE TypeOK'
    BY <1>4 DEF Accept, round, TypeOK
  <1>5. ASSUME NEW c \in Clients,
               ReceiveBytes(c) \/ Register(c) \/ Loop(c) \/ ReceiveEnd(c) \/ Leave(c) \/ CloseSocket(c)
        PROVE  TypeOK'
    BY <1>5
    DEF ReceiveBytes, Register, Loop, ReceiveEnd, Leave, CloseSocket, HandlerMoves,
        server, round, TypeOK
  <1>6. CASE SetStopFlag \/ ListenerEnds \/ TakeClients
    BY <1>6 DEF SetStopFlag, ListenerEnds, TakeClients, round, TypeOK
  <1>7. CASE CloseClients
    BY <1>7 DEF CloseClients, round, TypeOK
  <1>8. CASE BroadcastEnds \/ StartRound \/ NextClient \/ AllSent \/ RoundDone
    BY <1>8
    DEF BroadcastEnds, StartRound, NextClient, AllSent, RoundDone, BroadcasterMoves,
        server, round, TypeOK
  <1>9. CASE SendLine \/ SendRaises \/ LogRaises
    <2>1. got' = got \/ got' = [got EXCEPT ![target] = [@ EXCEPT ![line] = version]]
      BY <1>9 DEF SendLine, SendRaises, LogRaises
    <2>2. target \in Clients /\ line \in 1..Lines /\ version \in 0..MaxBatch
      BY <1>9 DEF SendLine, SendRaises, LogRaises, TypeOK
    <2>3. got \in [Clients -> [1..Lines -> 0..MaxBatch]]
      BY DEF TypeOK
    <2>4. [got[target] EXCEPT ![line] = version] \in [1..Lines -> 0..MaxBatch]
      BY <2>2, <2>3
    <2>5. got' \in [Clients -> [1..Lines -> 0..MaxBatch]]
      BY <2>1, <2>2, <2>3, <2>4
    <2> QED
      BY <1>9, <2>2, <2>5, SendingTypes
      DEF SendLine, SendRaises, LogRaises, BroadcasterMoves
  <1>10. CASE RemoveDisconnected \/ CloseDisconnected
    BY <1>10 DEF RemoveDisconnected, CloseDisconnected, BroadcasterMoves, server, TypeOK
  <1>11. CASE UNCHANGED vars
    BY <1>11 DEF vars, server, round, TypeOK
  <1> QED
    BY <1>1, <1>2, <1>3, <1>4, <1>5, <1>6, <1>7, <1>8, <1>9, <1>10, <1>11
    DEF Next, Platforms, Stopping, Broadcast, Handler

\* Every variable of the server keeps its type, for any number of connections
\* and of lines; a client is only sent a batch that was published.
THEOREM ServerTypesAreCorrect == Spec => []TypeOK
  BY InitTypes, NextTypes, PTL DEF Spec

-----------------------------------------------------------------------------
(* Batches arrive whole.                                                   *)

Whole(c) == \A j, k \in 1..Lines : got[c][j] = got[c][k]

\* A platform the broadcast thread is not about to send to, nor about to
\* remove.  One that is not on the list yet has been sent nothing.
LeftInPeace(c) ==
    /\ c \in clients \/ Unregistered(c)
    /\ peer[c] # "closed" /\ c # target /\ c \notin disconnected

\* The lines of the batch sent so far to the client in hand.
SentSoFar ==
    broadcaster = "sending" /\ target # None /\ peer[target] # "closed" =>
        \A k \in 1..(line - 1) : got[target][k] = version

\* A round starts every client at the first line, and has a client in hand
\* only while it sends and while it closes.
AtFirstLine ==
    /\ target = None \/ broadcaster = "closing" => line = 1
    /\ target # None => broadcaster \in {"sending", "closing"}

NotAcceptedYet == \A c \in Clients : handler[c] = "none" => peer[c] = "absent"

RoundInvariant ==
    /\ SentSoFar /\ AtFirstLine /\ NotAcceptedYet
    /\ \A c \in Clients : LeftInPeace(c) => Whole(c)

LEMMA InitRound == Init => RoundInvariant
  BY LinesAssumption
  DEF Init, RoundInvariant, SentSoFar, AtFirstLine, NotAcceptedYet, LeftInPeace, Whole, Unregistered

\* What a platform holds does not change, and whoever is left in peace now
\* was before: batches that were whole are whole.
LEMMA StayWhole ==
    ASSUME RoundInvariant, got' = got, \A c \in Clients : LeftInPeace(c)' => LeftInPeace(c)
    PROVE  \A c \in Clients : (LeftInPeace(c) => Whole(c))'
  BY DEF RoundInvariant, Whole

\* Steps that do not touch the round.
LEMMA RoundUntouched ==
    ASSUME RoundInvariant, UNCHANGED <<broadcaster, round, got>>,
           peer' = peer, \A c \in Clients : handler'[c] = "none" => handler[c] = "none",
           \A c \in Clients : (c \in clients \/ Unregistered(c))' => c \in clients \/ Unregistered(c)
    PROVE  RoundInvariant'
  <1>1. \A c \in Clients : LeftInPeace(c)' => LeftInPeace(c)
    BY DEF LeftInPeace, round
  <1>2. SentSoFar' /\ AtFirstLine' /\ NotAcceptedYet'
    BY DEF RoundInvariant, SentSoFar, AtFirstLine, NotAcceptedYet, round
  <1> QED BY <1>1, <1>2, StayWhole DEF RoundInvariant

\* The row of the client in hand after a line was sent to it.
LEMMA RowAfterLine ==
    ASSUME TypeOK, target # None, got' = [got EXCEPT ![target][line] = version]
    PROVE  /\ got'[target][line] = version
           /\ \A k \in (1..Lines) \ {line} : got'[target][k] = got[target][k]
           /\ \A c \in Clients \ {target} : got'[c] = got[c]
  <1>1. /\ target \in Clients /\ line \in 1..Lines
        /\ got \in [Clients -> [1..Lines -> 0..MaxBatch]]
    BY DEF TypeOK
  <1>2. got' = [got EXCEPT ![target] = [got[target] EXCEPT ![line] = version]]
    OBVIOUS
  <1>3. got'[target] = [got[target] EXCEPT ![line] = version]
    BY <1>1, <1>2
  <1>4. got[target] \in [1..Lines -> 0..MaxBatch]
    BY <1>1
  <1>5. /\ got'[target][line] = version
        /\ \A k \in (1..Lines) \ {line} : got'[target][k] = got[target][k]
    BY <1>1, <1>3, <1>4
  <1> QED BY <1>1, <1>2, <1>5

LEMMA SendLineRound ==
    ASSUME TypeOK, ListInvariant, RoundInvariant, SendLine
    PROVE  RoundInvariant'
  <1> USE LinesAssumption, ClientsAssumption
  <1>1. /\ target # None /\ target \in Clients /\ line \in 1..Lines
        /\ peer[target] \in {"connected", "closed"}
        /\ broadcaster = "sending" /\ broadcaster' = "sending"
        /\ UNCHANGED <<peer, handler, clients, version, disconnected>>
    BY DEF SendLine, BroadcasterMoves, TypeOK
  <1>2. \A c \in Clients \ {target} : got'[c] = got[c]
    BY RowAfterLine DEF SendLine
  <1>3. ASSUME peer[target] # "closed"
        PROVE  \A k \in 1..line : got'[target][k] = version
    <2>1. got' = [got EXCEPT ![target][line] = version]
      BY <1>1, <1>3 DEF SendLine
    <2>2. \A k \in 1..(line - 1) : got[target][k] = version
      BY <1>1, <1>3 DEF RoundInvariant, SentSoFar
    <2>3. \A k \in 1..line : k = line \/ (k \in 1..(line - 1) /\ k \in (1..Lines) \ {line})
      BY <1>1
    <2> QED BY <1>1, <2>1, <2>2, <2>3, RowAfterLine
  <1>4. NotAcceptedYet'
    BY <1>1 DEF RoundInvariant, NotAcceptedYet
  <1>5. \A c \in Clients \ {target} : (LeftInPeace(c) => Whole(c))'
    BY <1>1, <1>2 DEF RoundInvariant, LeftInPeace, Whole, Unregistered
  <1>6. CASE line < Lines
    <2>1. line' = line + 1 /\ target' = target
      BY <1>6 DEF SendLine, LineDone
    <2>2. SentSoFar' /\ AtFirstLine'
      BY <1>1, <1>3, <2>1 DEF SentSoFar, AtFirstLine
    <2>3. \A c \in Clients : c = target => ~LeftInPeace(c)'
      BY <2>1 DEF LeftInPeace
    <2> QED BY <1>4, <1>5, <2>2, <2>3 DEF RoundInvariant
  <1>7. CASE ~(line < Lines)
    <2>1. line' = 1 /\ target' = None /\ line = Lines
      BY <1>1, <1>7 DEF SendLine, LineDone
    <2>2. SentSoFar' /\ AtFirstLine'
      BY <1>1, <2>1 DEF SentSoFar, AtFirstLine
    <2>3. ASSUME NEW c \in Clients, c = target, LeftInPeace(c)' PROVE Whole(c)'
      <3>1. peer[target] # "closed"
        BY <1>1, <2>3 DEF LeftInPeace
      <3>2. \A k \in 1..Lines : got'[target][k] = version
        BY <1>3, <2>1, <3>1
      <3> QED BY <2>3, <3>2 DEF Whole
    <2> QED BY <1>4, <1>5, <2>2, <2>3 DEF RoundInvariant
  <1> QED BY <1>6, <1>7

LEMMA DropRound ==
    ASSUME TypeOK, ListInvariant, RoundInvariant, SendRaises \/ LogRaises
    PROVE  RoundInvariant'
  <1>1. /\ target \in Clients
        /\ target' = None /\ line' = 1 /\ disconnected' = disconnected \cup {target}
        /\ UNCHANGED <<peer, handler, clients, version>>
    BY DEF SendRaises, LogRaises, Drop, BroadcasterMoves, TypeOK
  <1>2. \A c \in Clients \ {target} : got'[c] = got[c]
    BY RowAfterLine DEF SendRaises, LogRaises
  <1>3. SentSoFar' /\ AtFirstLine' /\ NotAcceptedYet'
    BY <1>1 DEF RoundInvariant, SentSoFar, AtFirstLine, NotAcceptedYet
  <1>4. \A c \in Clients : LeftInPeace(c)' => c # target /\ LeftInPeace(c)
    BY <1>1 DEF LeftInPeace, Unregistered
  <1> QED BY <1>2, <1>3, <1>4 DEF RoundInvariant, Whole

\* Steps of the broadcast thread that send nothing and remove nobody.
LEMMA BetweenClientsRound ==
    ASSUME ListInvariant, RoundInvariant,
           BroadcastEnds \/ StartRound \/ NextClient \/ AllSent \/ RoundDone
    PROVE  RoundInvariant'
  <1>1. /\ target = None /\ line = 1
        /\ UNCHANGED <<peer, handler, clients, disconnected, line, got>>
        /\ target' # None => broadcaster' = "sending"
    BY DEF BroadcastEnds, StartRound, NextClient, AllSent, RoundDone, BroadcasterMoves,
           round, RoundInvariant, AtFirstLine
  <1>2. SentSoFar' /\ AtFirstLine' /\ NotAcceptedYet'
    BY <1>1 DEF RoundInvariant, SentSoFar, AtFirstLine, NotAcceptedYet
  <1>3. \A c \in Clients : LeftInPeace(c)' => LeftInPeace(c)
    BY <1>1, ClientsAssumption DEF LeftInPeace, Unregistered
  <1> QED BY <1>1, <1>2, <1>3, StayWhole DEF RoundInvariant

LEMMA RemovalRound ==
    ASSUME ListInvariant, RoundInvariant, RemoveDisconnected \/ CloseDisconnected
    PROVE  RoundInvariant'
  <1>1. CASE RemoveDisconnected
    <2>1. /\ target = None /\ line = 1 /\ line' = line
          /\ broadcaster' = "closing"
          /\ UNCHANGED <<peer, handler, got>>
      BY <1>1
      DEF RemoveDisconnected, BroadcasterMoves, RoundInvariant, AtFirstLine
    <2>2. \A c \in Clients : LeftInPeace(c)' => LeftInPeace(c)
      BY <1>1, <2>1, ClientsAssumption
      DEF RemoveDisconnected, BroadcasterMoves, LeftInPeace, Unregistered
    <2>3. SentSoFar' /\ AtFirstLine' /\ NotAcceptedYet'
      BY <2>1 DEF RoundInvariant, SentSoFar, AtFirstLine, NotAcceptedYet
    <2> QED BY <2>1, <2>2, <2>3, StayWhole DEF RoundInvariant
  <1>2. CASE CloseDisconnected
    <2>1. /\ broadcaster = "closing" /\ target' = None /\ line' = line /\ line = 1
          /\ UNCHANGED <<peer, handler, clients, disconnected, got>>
      BY <1>2
      DEF CloseDisconnected, BroadcasterMoves, RoundInvariant, AtFirstLine
    \* Who is closed was taken off the list and has registered long ago.
    <2>2. target \notin clients /\ \A c \in Clients : c = target => ~Unregistered(c)
      BY <2>1 DEF ListInvariant, TakenOffFirst, KnownAreRegistered
    <2>3. \A c \in Clients : LeftInPeace(c)' => LeftInPeace(c)
      BY <2>1, <2>2 DEF LeftInPeace, Unregistered
    <2>4. SentSoFar' /\ AtFirstLine' /\ NotAcceptedYet'
      BY <2>1 DEF RoundInvariant, SentSoFar, AtFirstLine, NotAcceptedYet
    <2> QED BY <2>1, <2>3, <2>4, StayWhole DEF RoundInvariant
  <1> QED BY <1>1, <1>2

LEMMA NextRound ==
    ASSUME TypeOK, ListInvariant, RoundInvariant, [Next]_vars
    PROVE  RoundInvariant'
  <1>1. CASE Publish \/ SetStopFlag \/ ListenerEnds
    BY <1>1, RoundUntouched
    DEF Publish, SetStopFlag, ListenerEnds, round, Unregistered
  <1>2. CASE TakeClients \/ CloseClients
    BY <1>2, RoundUntouched DEF TakeClients, CloseClients, round, Unregistered
  \* A platform that stalls or reads on holds what it held.
  <1>3. ASSUME NEW c \in Clients, PeerStalls(c) \/ PeerResumes(c) PROVE RoundInvariant'
    <2>1. /\ peer' \in [Clients -> {"absent", "connected", "stalled", "closed"}]
          /\ \A d \in Clients : /\ peer'[d] = "closed" <=> peer[d] = "closed"
                                /\ peer[d] = "absent" => peer'[d] = "absent"
      BY <1>3 DEF PeerStalls, PeerResumes, PeerBecomes, TypeOK
    <2>2. UNCHANGED <<handler, clients, broadcaster, round, got>>
      BY <1>3 DEF PeerStalls, PeerResumes, PeerBecomes
    <2>3. \A d \in Clients : LeftInPeace(d)' => LeftInPeace(d)
      BY <2>1, <2>2 DEF LeftInPeace, Unregistered, round
    <2>4. SentSoFar'
      BY <2>1, <2>2 DEF RoundInvariant, SentSoFar, round, TypeOK
    <2>5. AtFirstLine' /\ NotAcceptedYet'
      BY <2>1, <2>2 DEF RoundInvariant, AtFirstLine, NotAcceptedYet, round
    <2> QED BY <2>2, <2>3, <2>4, <2>5, StayWhole DEF RoundInvariant
  <1>4. ASSUME NEW c \in Clients, PeerCloses(c) PROVE RoundInvariant'
    <2>1. /\ UNCHANGED <<handler, clients, broadcaster, round>>
          /\ peer[c] \in {"connected", "stalled"} /\ peer'[c] = "closed"
          /\ \A d \in Clients \ {c} : peer'[d] = peer[d] /\ got'[d] = got[d]
      BY <1>4 DEF PeerCloses, TypeOK
    <2>2. \A d \in Clients : (LeftInPeace(d) => Whole(d))'
      BY <2>1 DEF RoundInvariant, LeftInPeace, Whole, Unregistered, round
    <2>3. SentSoFar'
      BY <2>1 DEF RoundInvariant, SentSoFar, round, TypeOK
    <2>4. AtFirstLine' /\ NotAcceptedYet'
      BY <2>1 DEF RoundInvariant, AtFirstLine, NotAcceptedYet, round
    <2> QED BY <2>2, <2>3, <2>4 DEF RoundInvariant
  \* A connection that is accepted has been sent nothing.
  <1>5. ASSUME NEW c \in Clients, Accept(c) PROVE RoundInvariant'
    <2>1. /\ UNCHANGED <<clients, broadcaster, round, got>>
          /\ handler[c] = "none" /\ peer[c] = "absent" /\ handler'[c] = "starting"
          /\ \A d \in Clients \ {c} : peer'[d] = peer[d] /\ handler'[d] = handler[d]
      BY <1>5 DEF Accept, RoundInvariant, NotAcceptedYet, TypeOK
    <2>2. c # target
      BY <2>1 DEF ListInvariant, KnownAreRegistered, Unregistered
    <2>3. \A d \in Clients : LeftInPeace(d)' => LeftInPeace(d)
      BY <2>1 DEF LeftInPeace, Unregistered, round
    <2>4. SentSoFar'
      BY <2>1, <2>2 DEF RoundInvariant, SentSoFar, round, TypeOK
    <2>5. AtFirstLine' /\ NotAcceptedYet'
      BY <2>1 DEF RoundInvariant, AtFirstLine, NotAcceptedYet, round
    <2> QED BY <2>1, <2>3, <2>4, <2>5, StayWhole DEF RoundInvariant
  <1>6. ASSUME NEW c \in Clients, ReceiveBytes(c) \/ Handler(c) PROVE RoundInvariant'
    <2>1. /\ UNCHANGED <<peer, broadcaster, round, got>>
          /\ handler[c] # "none" /\ handler'[c] \notin {"none", "starting"}
          /\ \A d \in Clients \ {c} : handler'[d] = handler[d]
          /\ clients' \subseteq clients \cup (IF handler[c] = "starting" THEN {c} ELSE {})
      BY <1>6
      DEF ReceiveBytes, Handler, Register, Loop, ReceiveEnd, Leave, CloseSocket,
          HandlerMoves, TypeOK
    <2> QED BY <2>1, RoundUntouched DEF Unregistered
  <1>7. CASE BroadcastEnds \/ StartRound \/ NextClient \/ AllSent \/ RoundDone
    BY <1>7, BetweenClientsRound
  <1>8. CASE SendLine
    BY <1>8, SendLineRound
  <1>9. CASE SendRaises \/ LogRaises
    BY <1>9, DropRound
  <1>10. CASE RemoveDisconnected \/ CloseDisconnected
    BY <1>10, RemovalRound
  <1>11. CASE UNCHANGED vars
    BY <1>11, RoundUntouched DEF vars, round, Unregistered
  <1> QED
    BY <1>1, <1>2, <1>3, <1>4, <1>5, <1>6, <1>7, <1>8, <1>9, <1>10, <1>11, ClientsAssumption
    DEF Next, Platforms, Stopping, Broadcast

\* A client on the list holds the lines of one batch, for any number of clients
\* and lines: no publication, no neighbour that fails and no connection that
\* comes or goes in mid-round tears what it was sent.
THEOREM BatchesAreWhole == Spec => []WholeBatches
  <1>1. RoundInvariant /\ TypeOK => WholeBatches
    BY DEF RoundInvariant, LeftInPeace, WholeBatches, Settled, Whole
  <1>2. TypeOK /\ ListInvariant /\ RoundInvariant /\ [Next]_vars => RoundInvariant'
    BY NextRound
  <1> QED BY <1>1, <1>2, InitRound, ServerTypesAreCorrect, ListHolds, PTL DEF Spec

-----------------------------------------------------------------------------
(* What stop leaves behind.                                                *)

\* The broadcast thread has taken it off the list and is about to close it.
Removed(c) == broadcaster = "closing" /\ target = c

\* A handler that serves an open socket is known to whoever could close it,
\* and once stop took the list, one that is blocked is about to be closed.
StopInvariant ==
    /\ stopper # "closing" => closing = {}
    /\ \A c \in Clients : sock[c] = "open" =>
          /\ handler[c] \in {"loop", "blocked"} => c \in clients \cup closing \/ Removed(c)
          /\ handler[c] = "blocked" /\ stopper \in {"closing", "done"} => c \in closing \/ Removed(c)

LEMMA InitStop == Init => StopInvariant
  BY DEF Init, StopInvariant

\* Steps that neither stop the server nor change what is known of a socket.
LEMMA StopUntouched ==
    ASSUME StopInvariant, UNCHANGED <<sock, handler, clients, closing>>,
           broadcaster # "closing",
           stopper' = stopper \/ (stopper = "idle" /\ stopper' = "flagged")
    PROVE  StopInvariant'
  BY DEF StopInvariant, Removed

LEMMA NextStop == ListInvariant /\ StopInvariant /\ [Next]_vars => StopInvariant'
  <1> SUFFICES ASSUME ListInvariant, StopInvariant, [Next]_vars PROVE StopInvariant'
    OBVIOUS
  <1>a. ListTypes
    BY DEF ListInvariant
  <1>1. ASSUME UNCHANGED <<sock, handler, clients, closing, broadcaster, target>>,
               stopper' = stopper \/ (stopper = "idle" /\ stopper' = "flagged")
        PROVE  StopInvariant'
    BY <1>1 DEF StopInvariant, Removed
  <1>2. CASE Publish \/ SetStopFlag \/ ListenerEnds \/ UNCHANGED vars
    BY <1>1, <1>2 DEF Publish, SetStopFlag, ListenerEnds, vars, server, round
  <1>3. ASSUME NEW c \in Clients, PeerCloses(c) \/ PeerStalls(c) \/ PeerResumes(c)
        PROVE  StopInvariant'
    BY <1>1, <1>3 DEF PeerCloses, PeerStalls, PeerResumes, PeerBecomes, server, round
  <1>4. ASSUME NEW c \in Clients, Accept(c) PROVE StopInvariant'
    BY <1>a, <1>4 DEF Accept, round, ListTypes, StopInvariant, Removed
  <1>5. ASSUME NEW c \in Clients, ReceiveBytes(c) \/ ReceiveEnd(c) PROVE StopInvariant'
    BY <1>a, <1>5 DEF ReceiveBytes, ReceiveEnd, HandlerMoves, server, round, ListTypes, StopInvariant, Removed
  <1>6. ASSUME NEW c \in Clients, Loop(c) PROVE StopInvariant'
    BY <1>a, <1>6 DEF Loop, HandlerMoves, server, round, ListTypes, StopInvariant, Removed, stopped
  <1>7. ASSUME NEW c \in Clients, Register(c) PROVE StopInvariant'
    BY <1>a, <1>7 DEF Register, HandlerMoves, server, round, ListTypes, StopInvariant, Removed
  <1>8. ASSUME NEW c \in Clients, Leave(c) \/ CloseSocket(c) PROVE StopInvariant'
    BY <1>a, <1>8 DEF Leave, CloseSocket, HandlerMoves, server, round, ListTypes, StopInvariant, Removed
  <1>9. CASE TakeClients
    BY <1>9 DEF TakeClients, round, StopInvariant, Removed
  <1>10. CASE CloseClients
    BY <1>a, <1>10 DEF CloseClients, round, ListTypes, StopInvariant, Removed
  <1>11. CASE BroadcastEnds \/ StartRound \/ NextClient \/ AllSent \/ RoundDone
    BY <1>11, StopUntouched
    DEF BroadcastEnds, StartRound, NextClient, AllSent, RoundDone, BroadcasterMoves, server
  <1>12. CASE SendLine \/ SendRaises \/ LogRaises
    BY <1>12, StopUntouched DEF SendLine, SendRaises, LogRaises, BroadcasterMoves, server
  <1>13. CASE RemoveDisconnected
    BY <1>13 DEF RemoveDisconnected, BroadcasterMoves, server, StopInvariant, Removed
  <1>14. CASE CloseDisconnected
    BY <1>a, <1>14 DEF CloseDisconnected, BroadcasterMoves, server, ListTypes, StopInvariant, Removed
  <1> QED
    BY <1>2, <1>3, <1>4, <1>5, <1>6, <1>7, <1>8, <1>9, <1>10, <1>11, <1>12, <1>13, <1>14,
       ClientsAssumption
    DEF Next, Platforms, Stopping, Broadcast, Handler

\* Once stop has closed the sockets it took, no handler stays blocked in recv
\* on an open one, except one the broadcast thread is closing at that moment:
\* a connection that joined the list behind stop's back finds the flag set
\* before it reads.
NobodyIsLeftWaiting ==
    stopper = "done" =>
        \A c \in Clients : sock[c] = "open" /\ handler[c] = "blocked" => Removed(c)

\* stop (tcp_server.py) closes every socket a handler could wait on for ever,
\* whatever registers, fails or is sent to meanwhile: the part of
\* StopClosesSockets that does not depend on the scheduler.
THEOREM StopLeavesNobodyWaiting == Spec => []NobodyIsLeftWaiting
  <1>1. StopInvariant => NobodyIsLeftWaiting
    BY DEF StopInvariant, NobodyIsLeftWaiting
  <1> QED BY <1>1, InitStop, NextStop, ListHolds, PTL DEF Spec
=============================================================================
