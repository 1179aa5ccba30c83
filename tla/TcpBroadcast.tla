---------------------------- MODULE TcpBroadcast ----------------------------
(***************************************************************************)
(* The TCP server that sends every connected platform the newest results   *)
(* (runtime/tcp_server.py, datahub/result_sender.py): the listener, one    *)
(* handler thread per connection, the broadcast thread and the thread that *)
(* calls stop, all sharing the list of client sockets.                     *)
(*                                                                         *)
(* A batch is sent as one line per road.  The warehouse is reduced to the  *)
(* number of its newest batch, what a client holds to the batch each of    *)
(* its lines came from.                                                    *)
(***************************************************************************)
EXTENDS Naturals

CONSTANTS Clients,      \* connections over the life of the server
          SlowReaders,  \* those whose platform may stop reading
          Lines,        \* number of lines of a batch
          MaxBatch,     \* bound on the batches published
          None          \* no client is being sent to

ASSUME LinesAssumption == Lines \in Nat \ {0} /\ MaxBatch \in Nat
ASSUME ClientsAssumption == SlowReaders \subseteq Clients /\ None \notin Clients

VARIABLES
    newest,        \* the batch in the warehouse, 0 while it is empty
    peer,          \* the platform at the other end of each connection
    sock,          \* the server's socket of each connection
    handler,       \* where handle_client stands, per connection
    clients,       \* TcpRuntimeServer._clients
    listener,      \* is serve_forever accepting?
    stopper,       \* where stop stands
    closing,       \* the sockets stop has taken out of the list
    broadcaster,   \* where broadcast_forever stands
    todo,          \* clients of this round not sent to yet
    target, line,  \* the client being sent to, and the line
    version,       \* the results snapshot of this round
    disconnected,  \* what send_batch returns
    got            \* the batch of each line a platform holds

server == <<listener, stopper, closing>>
round == <<todo, target, line, version, disconnected>>
vars == <<newest, peer, sock, handler, clients, listener, stopper, closing,
          broadcaster, todo, target, line, version, disconnected, got>>

stopped == stopper # "idle"

TypeOK ==
    /\ newest \in 0..MaxBatch /\ version \in 0..MaxBatch
    /\ peer \in [Clients -> {"absent", "connected", "stalled", "closed"}]
    /\ sock \in [Clients -> {"none", "open", "closed"}]
    /\ handler \in [Clients -> {"none", "starting", "loop", "blocked", "leaving", "closing", "done"}]
    /\ clients \subseteq Clients /\ todo \subseteq Clients
    /\ closing \subseteq Clients /\ disconnected \subseteq Clients
    /\ listener \in {"accepting", "ended"}
    /\ stopper \in {"idle", "flagged", "closing", "done"}
    /\ broadcaster \in {"waiting", "sending", "removing", "closing", "ended"}
    /\ target \in Clients \cup {None} /\ line \in 1..Lines
    /\ got \in [Clients -> [1..Lines -> 0..MaxBatch]]

Init ==
    /\ newest = 0 /\ version = 0
    /\ peer = [c \in Clients |-> "absent"]
    /\ sock = [c \in Clients |-> "none"]
    /\ handler = [c \in Clients |-> "none"]
    /\ clients = {} /\ todo = {} /\ closing = {} /\ disconnected = {}
    /\ listener = "accepting" /\ stopper = "idle" /\ broadcaster = "waiting"
    /\ target = None /\ line = 1
    /\ got = [c \in Clients |-> [k \in 1..Lines |-> 0]]

-----------------------------------------------------------------------------
(* The environment: the pipeline that publishes, the platforms.            *)

Publish ==
    /\ newest < MaxBatch
    /\ newest' = newest + 1
    /\ UNCHANGED <<peer, sock, handler, clients, server, broadcaster, round, got>>

\* A slow reader stops reading, or reads again.
PeerBecomes(c, from, to) ==
    /\ peer[c] = from
    /\ peer' = [peer EXCEPT ![c] = to]
    /\ UNCHANGED <<newest, sock, handler, clients, server, broadcaster, round, got>>

PeerStalls(c) == PeerBecomes(c, "connected", "stalled")
PeerResumes(c) == PeerBecomes(c, "stalled", "connected")

\* A platform closes its end, and with it what it held is out of the picture.
PeerCloses(c) ==
    /\ peer[c] \in {"connected", "stalled"}
    /\ peer' = [peer EXCEPT ![c] = "closed"]
    /\ got' = [got EXCEPT ![c] = [k \in 1..Lines |-> 0]]
    /\ UNCHANGED <<newest, sock, handler, clients, server, broadcaster, round>>

-----------------------------------------------------------------------------
(* serve_forever.  The flag is checked before accept, so one connection    *)
(* may still be accepted after stop has set it.                            *)

Accept(c) ==
    /\ listener = "accepting" /\ handler[c] = "none"
    /\ peer' = [peer EXCEPT ![c] = "connected"]
    /\ sock' = [sock EXCEPT ![c] = "open"]
    /\ handler' = [handler EXCEPT ![c] = "starting"]
    /\ listener' = IF stopped THEN "ended" ELSE "accepting"
    /\ UNCHANGED <<newest, clients, stopper, closing, broadcaster, round, got>>

\* The accept times out, or its socket is closed under it.
ListenerEnds ==
    /\ listener = "accepting" /\ stopped
    /\ listener' = "ended"
    /\ UNCHANGED <<newest, peer, sock, handler, clients, stopper, closing, broadcaster, round, got>>

-----------------------------------------------------------------------------
(* handle_client, one thread per connection.                               *)

HandlerMoves(c, from, to) ==
    /\ handler[c] = from
    /\ handler' = [handler EXCEPT ![c] = to]
    /\ UNCHANGED <<newest, peer, server, broadcaster, round, got>>

\* The connection joins the list before anything is read.
Register(c) ==
    /\ HandlerMoves(c, "starting", "loop")
    /\ clients' = clients \cup {c}
    /\ UNCHANGED sock

\* Mutant: the loop does not look at the flag.
LoopForever(c) ==
    /\ HandlerMoves(c, "loop", IF sock[c] = "closed" THEN "leaving" ELSE "blocked")
    /\ UNCHANGED <<sock, clients>>

\* The flag is checked, then recv: on a socket closed by another thread it
\* raises, otherwise it blocks.
Loop(c) ==
    /\ HandlerMoves(c, "loop", IF stopped \/ sock[c] = "closed" THEN "leaving" ELSE "blocked")
    /\ UNCHANGED <<sock, clients>>

\* Bytes arrive: complete lines are ingested, and an ingestion that fails
\* keeps the connection.  A close by another thread does not wake a recv that
\* is already blocked.
ReceiveBytes(c) ==
    /\ peer[c] \in {"connected", "stalled"}
    /\ HandlerMoves(c, "blocked", "loop")
    /\ UNCHANGED <<sock, clients>>

ReceiveEnd(c) ==
    /\ peer[c] = "closed"
    /\ HandlerMoves(c, "blocked", "leaving")
    /\ UNCHANGED <<sock, clients>>

\* Mutant: the thread ends without taking its socket off the list.
LeaveListed(c) ==
    /\ HandlerMoves(c, "leaving", "closing")
    /\ UNCHANGED <<sock, clients>>

\* The finally block: off the list, then closed.
Leave(c) ==
    /\ HandlerMoves(c, "leaving", "closing")
    /\ clients' = clients \ {c}
    /\ UNCHANGED sock

CloseSocket(c) ==
    /\ HandlerMoves(c, "closing", "done")
    /\ sock' = [sock EXCEPT ![c] = "closed"]
    /\ UNCHANGED clients

-----------------------------------------------------------------------------
(* stop, on the thread that ends the application.                          *)

SetStopFlag ==
    /\ stopper = "idle"
    /\ stopper' = "flagged"
    /\ UNCHANGED <<newest, peer, sock, handler, clients, listener, closing, broadcaster, round, got>>

TakeClients ==
    /\ stopper = "flagged"
    /\ stopper' = "closing"
    /\ closing' = clients /\ clients' = {}
    /\ UNCHANGED <<newest, peer, sock, handler, listener, broadcaster, round, got>>

CloseClients ==
    /\ stopper = "closing"
    /\ IF closing = {}
       THEN stopper' = "done" /\ UNCHANGED <<sock, closing>>
       ELSE \E c \in closing :
              /\ sock' = [sock EXCEPT ![c] = "closed"]
              /\ closing' = closing \ {c}
              /\ UNCHANGED stopper
    /\ UNCHANGED <<newest, peer, handler, clients, listener, broadcaster, round, got>>

-----------------------------------------------------------------------------
(* broadcast_forever: the list is copied, then the results; each client is *)
(* sent every line in turn; those that failed are removed.                 *)

BroadcasterMoves(from, to) ==
    /\ broadcaster = from
    /\ broadcaster' = to
    /\ UNCHANGED <<newest, peer, handler, server>>

BroadcastEnds ==
    /\ stopped
    /\ BroadcasterMoves("waiting", "ended")
    /\ UNCHANGED <<sock, clients, round, got>>

\* The copies of the list and of the results are two steps of the code; what
\* another thread does between them could as well come before or after both.
StartRound ==
    /\ ~stopped /\ newest > 0
    /\ BroadcasterMoves("waiting", "sending")
    /\ todo' = clients /\ version' = newest
    /\ UNCHANGED <<sock, clients, target, line, disconnected, got>>

NextClient ==
    /\ target = None
    /\ \E c \in todo : target' = c /\ todo' = todo \ {c}
    /\ BroadcasterMoves("sending", "sending")
    /\ UNCHANGED <<sock, clients, line, version, disconnected, got>>

\* Mutant: the line is not reset for the next client.
LineDoneNoReset ==
    /\ line' = line + 1
    /\ IF line < Lines THEN UNCHANGED target ELSE target' = None

LineDone ==
    IF line < Lines THEN line' = line + 1 /\ UNCHANGED target
                    ELSE line' = 1 /\ target' = None

\* Mutant: each line is taken from the warehouse of the moment.
SendLineLive ==
    /\ target # None
    /\ sock[target] = "open" /\ peer[target] \in {"connected", "closed"}
    /\ BroadcasterMoves("sending", "sending")
    /\ got' = IF peer[target] = "connected"
              THEN [got EXCEPT ![target][line] = newest] ELSE got
    /\ LineDone
    /\ UNCHANGED <<sock, clients, todo, version, disconnected>>

\* sendall returns and the line is logged.  The kernel may still accept bytes
\* for a peer that has closed; they reach nobody.  A peer that does not read
\* blocks the thread.
SendLine ==
    /\ target # None
    /\ sock[target] = "open" /\ peer[target] \in {"connected", "closed"}
    /\ BroadcasterMoves("sending", "sending")
    /\ got' = IF peer[target] = "connected"
              THEN [got EXCEPT ![target][line] = version] ELSE got
    /\ LineDone
    /\ UNCHANGED <<sock, clients, todo, version, disconnected>>

Drop(c) == disconnected' = disconnected \cup {c} /\ target' = None /\ line' = 1

\* Mutant: the exception is not caught and ends the thread.
SendRaisesUncaught ==
    /\ target # None
    /\ sock[target] = "closed" \/ peer[target] = "closed"
    /\ BroadcasterMoves("sending", "ended")
    /\ UNCHANGED <<sock, clients, round, got>>

\* sendall raises: the platform is gone, or another thread closed the socket.
SendRaises ==
    /\ target # None
    /\ sock[target] = "closed" \/ peer[target] = "closed"
    /\ BroadcasterMoves("sending", "sending")
    /\ Drop(target)
    /\ UNCHANGED <<sock, clients, todo, version, got>>

\* The line was sent; writing it to the local log raises an OSError, which the
\* handler of socket errors catches.
LogRaises ==
    /\ target # None
    /\ sock[target] = "open" /\ peer[target] = "connected"
    /\ BroadcasterMoves("sending", "sending")
    /\ got' = [got EXCEPT ![target][line] = version]
    /\ Drop(target)
    /\ UNCHANGED <<sock, clients, todo, version>>

AllSent ==
    /\ target = None /\ todo = {}
    /\ BroadcasterMoves("sending", "removing")
    /\ UNCHANGED <<sock, clients, round, got>>

\* Mutant: a failed client is closed and stays on the list.
RemoveNone ==
    /\ \E c \in disconnected : target' = c /\ disconnected' = disconnected \ {c}
    /\ BroadcasterMoves("removing", "closing")
    /\ UNCHANGED <<sock, clients, todo, line, version, got>>

RemoveDisconnected ==
    /\ \E c \in disconnected :
          /\ target' = c /\ disconnected' = disconnected \ {c}
          /\ clients' = clients \ {c}
    /\ BroadcasterMoves("removing", "closing")
    /\ UNCHANGED <<sock, todo, line, version, got>>

CloseDisconnected ==
    /\ BroadcasterMoves("closing", "removing")
    /\ sock' = [sock EXCEPT ![target] = "closed"]
    /\ target' = None
    /\ UNCHANGED <<clients, todo, line, version, disconnected, got>>

RoundDone ==
    /\ disconnected = {}
    /\ BroadcasterMoves("removing", "waiting")
    /\ version' = 0
    /\ UNCHANGED <<sock, clients, todo, target, line, disconnected, got>>

-----------------------------------------------------------------------------

Platforms ==
    \/ Publish
    \/ \E c \in Clients :
          PeerCloses(c) \/ ReceiveBytes(c) \/ Accept(c)
    \/ \E c \in SlowReaders : PeerStalls(c) \/ PeerResumes(c)

Handler(c) == Register(c) \/ Loop(c) \/ ReceiveEnd(c) \/ Leave(c) \/ CloseSocket(c)

Stopping == TakeClients \/ CloseClients

Broadcast ==
    \/ BroadcastEnds \/ StartRound \/ NextClient
    \/ SendLine \/ SendRaises \/ LogRaises \/ AllSent
    \/ RemoveDisconnected \/ CloseDisconnected \/ RoundDone

Next ==
    \/ Platforms \/ SetStopFlag \/ Stopping \/ ListenerEnds \/ Broadcast
    \/ \E c \in Clients : Handler(c)

\* The server's threads run.  Nothing is assumed of the platforms: they may
\* never send, read or close.
Fairness ==
    /\ WF_vars(Broadcast) /\ WF_vars(Stopping) /\ WF_vars(ListenerEnds)
    /\ \A c \in Clients : WF_vars(Handler(c))

Spec == Init /\ [][Next]_vars /\ Fairness

-----------------------------------------------------------------------------
(* Properties.                                                             *)

\* A socket on the list is open: every thread that closes one takes it off the
\* list first, so a round never starts with a socket the server has closed.
ListedIsOpen == \A c \in clients : sock[c] = "open"

\* A connection whose handler has ended is forgotten: off the list, closed.
EndedIsForgotten ==
    \A c \in Clients : handler[c] = "done" => c \notin clients /\ sock[c] = "closed"

\* A connected client on the list holds lines of one batch, except while it is
\* being sent to and when its sending failed in the middle.  The publication
\* of a newer batch during a round does not tear the older one.
Settled(c) ==
    c \in clients /\ peer[c] # "closed" /\ c # target /\ c \notin disconnected

WholeBatches ==
    \A c \in Clients : Settled(c) => \A j, k \in 1..Lines : got[c][j] = got[c][k]

\* A client that stays connected while no platform stalls the broadcast ends
\* up holding the newest batch.
Healthy(c) ==
    /\ c \in clients /\ peer[c] = "connected" /\ ~stopped
    /\ \A d \in Clients : peer[d] # "stalled"

NewestIsDelivered ==
    \A c \in Clients : <>[]Healthy(c) => <>[](\A k \in 1..Lines : got[c][k] = newest)

\* After stop every connection accepted so far is closed, those still
\* registering included, unless a platform that does not read holds the
\* broadcast, and through it the removal, up.
StopClosesSockets ==
    \A c \in Clients :
        (stopped /\ sock[c] = "open")
            ~> (sock[c] = "closed" \/ \E d \in Clients : peer[d] = "stalled")

\* "Send the current results and remove the disconnected clients": a round
\* removes only clients whose connection is gone.
OnlyDisconnectedAreRemoved ==
    \A c \in disconnected : peer[c] # "connected" \/ sock[c] # "open"
=============================================================================
