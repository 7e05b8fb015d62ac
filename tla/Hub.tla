--------------------------------- MODULE Hub ---------------------------------
(***************************************************************************)
(* The WebSocket hub of the backend (internal/websocket/hub.go), the       *)
(* handler that admits a client (api.HandleWebSocket) and the producers    *)
(* that offer messages to it (the Ingest handlers).                        *)
(*                                                                         *)
(* Goroutines: Run, one for the whole hub; per client the handler, then    *)
(* WritePump and ReadPump; any number of producers.  They share Go         *)
(* channels: Broadcast (buffered), Register and Unregister (unbuffered, so *)
(* a send and its receive are one step) and each client's Send (buffered,  *)
(* closed by Run alone).  h.Clients is touched by Run alone, so the mutex  *)
(* around it orders nothing and is left out.                               *)
(*                                                                         *)
(* A message is its index in feed, the history of what Run has taken from  *)
(* Broadcast; its content does not matter here, its origin does.           *)
(***************************************************************************)
EXTENDS Naturals, Sequences, FiniteSets

CONSTANTS Clients,       \* WSClient objects, one per accepted connection
          Servers,       \* ids of monitored servers
          NoFilter,      \* WSClient.ServerID = nil
          BroadcastCap,  \* capacity of WSHub.Broadcast (256 in NewWSHub)
          SendCap,       \* capacity of WSClient.Send (256 in HandleWebSocket)
          MaxFeed        \* bound of the model: messages producers get accepted

ASSUME NoFilterAssumption == NoFilter \notin Servers
ASSUME CapacityAssumption == /\ BroadcastCap \in Nat \ {0}
                             /\ SendCap \in Nat \ {0}
                             /\ MaxFeed \in Nat

VARIABLES
  broadcast,   \* WSHub.Broadcast: origins of the queued messages
  registered,  \* WSHub.Clients
  visiting,    \* clients the fan-out loop of Run has still to serve
  handler,     \* handler[c]: HandleWebSocket, "none" "registering" "registered" "started"
  want,        \* want[c]: WSClient.ServerID
  send,        \* send[c]: WSClient.Send
  closes,      \* closes[c]: how often close(client.Send) was called
  writer,      \* writer[c]: WritePump, "none" "idle" "writing" "done"
  held,        \* held[c]: the message WritePump has received and is writing
  reader,      \* reader[c]: ReadPump, "none" "reading" "unregistering" "closing" "done"
  conn,        \* conn[c]: our end of the connection, "none" "open" "closed"
  peer,        \* peer[c]: the browser's end, "up" "stalled" "gone"
  feed,        \* history: origins of the messages Run has taken, in order
  pos          \* history: pos[c] is the last message written to c's connection

hubVars    == <<broadcast, registered, visiting, feed>>
clientVars == <<handler, want, send, closes, writer, held, reader, conn, peer, pos>>
vars       == <<hubVars, clientVars>>

-----------------------------------------------------------------------------
Wishes == Servers \cup {NoFilter}

\* Mutant of Matches: the server id is not compared.
MatchesAny(c, s) == c \in Clients /\ s \in Servers

\* WSClient.Matches
Matches(c, s) == want[c] \in {NoFilter, s}

\* Our end is closed or the other end has gone: every read and write fails.
Broken(c) == conn[c] = "closed" \/ peer[c] = "gone"

\* Run is in its select, not in the middle of a fan-out.
Idle == visiting = {}

\* Messages received for c that have not reached its connection.
Pending(c) == { send[c][i] : i \in DOMAIN send[c] }
                \cup (IF writer[c] = "writing" THEN {held[c]} ELSE {})

\* The one type invariant; the channels also keep to their capacities.
TypeOK ==
  /\ broadcast \in Seq(Servers)
  /\ Len(broadcast) <= BroadcastCap
  /\ registered \subseteq Clients
  /\ visiting \subseteq Clients
  /\ handler \in [Clients -> {"none", "registering", "registered", "started"}]
  /\ want \in [Clients -> Wishes]
  /\ send \in [Clients -> Seq(Nat)]
  /\ \A c \in Clients : Len(send[c]) <= SendCap
  /\ closes \in [Clients -> Nat]
  /\ writer \in [Clients -> {"none", "idle", "writing", "done"}]
  /\ held \in [Clients -> Nat]
  /\ reader \in [Clients -> {"none", "reading", "unregistering", "closing", "done"}]
  /\ conn \in [Clients -> {"none", "open", "closed"}]
  /\ peer \in [Clients -> {"up", "stalled", "gone"}]
  /\ feed \in Seq(Servers)
  /\ pos \in [Clients -> Nat]

\* NewWSHub, before any request.
Init ==
  /\ broadcast = <<>>
  /\ registered = {}
  /\ visiting = {}
  /\ feed = <<>>
  /\ handler = [c \in Clients |-> "none"]
  /\ want = [c \in Clients |-> NoFilter]
  /\ send = [c \in Clients |-> <<>>]
  /\ closes = [c \in Clients |-> 0]
  /\ writer = [c \in Clients |-> "none"]
  /\ held = [c \in Clients |-> 0]
  /\ reader = [c \in Clients |-> "none"]
  /\ conn = [c \in Clients |-> "none"]
  /\ peer = [c \in Clients |-> "up"]
  /\ pos = [c \in Clients |-> 0]

-----------------------------------------------------------------------------
(* Producers: the select with a default in the three Ingest handlers.  A   *)
(* producer never waits for the hub: when the channel is full the message  *)
(* is dropped, a step that changes nothing here.                           *)

\* Mutant of HasRoom: an unbounded channel.
AlwaysRoom == Len(broadcast) < MaxFeed

HasRoom == Len(broadcast) < BroadcastCap

Publish(s) ==
  /\ Len(feed) + Len(broadcast) < MaxFeed
  /\ HasRoom
  /\ broadcast' = Append(broadcast, s)
  /\ UNCHANGED <<registered, visiting, feed, clientVars>>

-----------------------------------------------------------------------------
(* HandleWebSocket                                                         *)

\* The connection is upgraded and the WSClient built.  A server_id that is
\* absent, or that is not a UUID, leaves ServerID nil.
HandleWebSocket(c, w) ==
  /\ handler[c] = "none"
  /\ handler' = [handler EXCEPT ![c] = "registering"]
  /\ want' = [want EXCEPT ![c] = w]
  /\ conn' = [conn EXCEPT ![c] = "open"]
  /\ UNCHANGED <<hubVars, send, closes, writer, held, reader, peer, pos>>

\* The two go statements that follow the send on Register.
StartPumps(c) ==
  /\ handler[c] = "registered"
  /\ handler' = [handler EXCEPT ![c] = "started"]
  /\ writer' = [writer EXCEPT ![c] = "idle"]
  /\ reader' = [reader EXCEPT ![c] = "reading"]
  /\ UNCHANGED <<hubVars, want, send, closes, held, conn, peer, pos>>

-----------------------------------------------------------------------------
(* WSHub.Run                                                               *)

\* case client := <-h.Register, together with the handler's send.
HubRegister(c) ==
  /\ Idle
  /\ handler[c] = "registering"
  /\ handler' = [handler EXCEPT ![c] = "registered"]
  /\ registered' = registered \cup {c}
  /\ pos' = [pos EXCEPT ![c] = Len(feed)]
  /\ UNCHANGED <<broadcast, visiting, feed, want, send, closes, writer, held,
                 reader, conn, peer>>

\* delete(h.Clients, client) and close(client.Send).
Remove(c) ==
  /\ registered' = registered \ {c}
  /\ closes' = [closes EXCEPT ![c] = @ + 1]

\* Mutant of Drop: no look-up in h.Clients before the close.
DropBlindly(c) == Remove(c)

\* if _, ok := h.Clients[client]; ok
Drop(c) == IF c \in registered THEN Remove(c) ELSE UNCHANGED <<registered, closes>>

\* case client := <-h.Unregister, together with ReadPump's deferred send.
HubUnregister(c) ==
  /\ Idle
  /\ reader[c] = "unregistering"
  /\ reader' = [reader EXCEPT ![c] = "closing"]
  /\ Drop(c)
  /\ UNCHANGED <<broadcast, visiting, feed, handler, want, send, writer, held,
                 conn, peer, pos>>

\* Mutant of Audience: the message is taken and shown to nobody.
NoAudience(s) == {c \in registered : want[c] = s /\ want[c] = NoFilter}

\* The registered clients whose filter lets the message through.
Audience(s) == {c \in registered : Matches(c, s)}

\* case msg := <-h.Broadcast: the fan-out begins.
HubTake ==
  /\ Idle
  /\ broadcast # <<>>
  /\ broadcast' = Tail(broadcast)
  /\ feed' = Append(feed, Head(broadcast))
  /\ visiting' = Audience(Head(broadcast))
  /\ UNCHANGED <<registered, clientVars>>

\* Mutants of Evict: the message is skipped and the client kept; the client
\* is deleted and its channel left open; Run waits for room in the channel.
SkipMessage(c) == UNCHANGED <<registered, closes>>
DeleteOnly(c) == registered' = registered \ {c} /\ UNCHANGED closes
WaitForRoom(c) == Len(send[c]) < SendCap /\ UNCHANGED <<registered, closes>>

\* default: close(client.Send); delete(h.Clients, client)
Evict(c) == Remove(c)

\* One turn of the loop over h.Clients: a non-blocking send, or eviction.
HubSend(c) ==
  /\ c \in visiting
  /\ visiting' = visiting \ {c}
  /\ IF Len(send[c]) < SendCap
     THEN /\ send' = [send EXCEPT ![c] = Append(@, Len(feed))]
          /\ UNCHANGED <<registered, closes>>
     ELSE Evict(c) /\ UNCHANGED send
  /\ UNCHANGED <<broadcast, feed, handler, want, writer, held, reader, conn,
                 peer, pos>>

-----------------------------------------------------------------------------
(* WritePump                                                               *)

\* msg, ok := <-c.Send with a message; a closed channel is drained first.
WriteTake(c) ==
  /\ writer[c] = "idle"
  /\ send[c] # <<>>
  /\ writer' = [writer EXCEPT ![c] = "writing"]
  /\ held' = [held EXCEPT ![c] = Head(send[c])]
  /\ send' = [send EXCEPT ![c] = Tail(@)]
  /\ UNCHANGED <<hubVars, handler, want, closes, reader, conn, peer, pos>>

\* c.Conn.WriteJSON(msg) returns.  Its error is ignored: the message is lost
\* and the loop goes on.  There is no write deadline, so the write waits as
\* long as the peer is stalled.
WriteJSON(c) ==
  /\ writer[c] = "writing"
  /\ Broken(c) \/ peer[c] = "up"
  /\ writer' = [writer EXCEPT ![c] = "idle"]
  /\ held' = [held EXCEPT ![c] = 0]
  /\ pos' = IF Broken(c) THEN pos ELSE [pos EXCEPT ![c] = held[c]]
  /\ UNCHANGED <<hubVars, handler, want, send, closes, reader, conn, peer>>

\* The deferred Close, after which WritePump is gone.
WriterLeaves(c) ==
  /\ writer' = [writer EXCEPT ![c] = "done"]
  /\ conn' = [conn EXCEPT ![c] = "closed"]
  /\ UNCHANGED <<hubVars, handler, want, send, closes, held, reader, peer, pos>>

\* msg, ok := <-c.Send with !ok: a close message is written, then Close.
WriteClose(c) ==
  /\ writer[c] = "idle"
  /\ send[c] = <<>>
  /\ closes[c] > 0
  /\ Broken(c) \/ peer[c] = "up"
  /\ WriterLeaves(c)

\* case <-ticker.C with a ping that fails.  A ping that succeeds changes
\* nothing.
PingFails(c) ==
  /\ writer[c] = "idle"
  /\ Broken(c)
  /\ WriterLeaves(c)

-----------------------------------------------------------------------------
(* ReadPump                                                                *)

\* Mutant of AfterReadError: ReadPump closes the connection and forgets
\* Unregister.
AfterReadErrorClose == "closing"

\* The first deferred statement is the send on Unregister.
AfterReadError == "unregistering"

\* ReadMessage returns an error and the loop is left.
ReadFails(c) ==
  /\ reader[c] = "reading"
  /\ Broken(c)
  /\ reader' = [reader EXCEPT ![c] = AfterReadError]
  /\ UNCHANGED <<hubVars, handler, want, send, closes, writer, held, conn, peer, pos>>

\* Unregister has been received; c.Conn.Close() follows.
ReaderClose(c) ==
  /\ reader[c] = "closing"
  /\ reader' = [reader EXCEPT ![c] = "done"]
  /\ conn' = [conn EXCEPT ![c] = "closed"]
  /\ UNCHANGED <<hubVars, handler, want, send, closes, writer, held, peer, pos>>

-----------------------------------------------------------------------------
(* The browser and the network.                                            *)

\* The peer stops or resumes reading, closes, resets, or is given up by TCP.
PeerChanges(c, p) ==
  /\ conn[c] # "none"
  /\ peer[c] \notin {"gone", p}
  /\ peer' = [peer EXCEPT ![c] = p]
  /\ UNCHANGED <<hubVars, handler, want, send, closes, writer, held, reader, conn, pos>>

-----------------------------------------------------------------------------
Next ==
  \/ \E s \in Servers : Publish(s)
  \/ \E c \in Clients, w \in Wishes : HandleWebSocket(c, w)
  \/ \E c \in Clients, p \in {"up", "stalled", "gone"} : PeerChanges(c, p)
  \/ HubTake
  \/ \E c \in Clients :
       \/ StartPumps(c)
       \/ HubRegister(c)
       \/ HubUnregister(c)
       \/ HubSend(c)
       \/ WriteTake(c)
       \/ WriteJSON(c)
       \/ WriteClose(c)
       \/ PingFails(c)
       \/ ReadFails(c)
       \/ ReaderClose(c)

Spec == Init /\ [][Next]_vars

(***************************************************************************)
(* The Go scheduler runs every goroutine that can run (weak fairness).     *)
(* Run's select, and WritePump's, choose at random among the cases that    *)
(* are ready, so a case that is ready again and again is taken (strong     *)
(* fairness).  Nothing is assumed of producers, clients and peers.         *)
(***************************************************************************)
Fairness ==
  /\ SF_vars(HubTake)
  /\ \A c \in Clients :
       /\ SF_vars(HubRegister(c)) /\ SF_vars(HubUnregister(c))
       /\ SF_vars(PingFails(c)) /\ SF_vars(WriteTake(c)) /\ SF_vars(WriteClose(c))
       /\ WF_vars(HubSend(c)) /\ WF_vars(StartPumps(c)) /\ WF_vars(WriteJSON(c))
       /\ WF_vars(ReadFails(c)) /\ WF_vars(ReaderClose(c))

FairSpec == Spec /\ Fairness

-----------------------------------------------------------------------------
(* Safety                                                                  *)

\* Run never closes a channel twice and never sends on a closed one, either
\* of which would panic and take the whole backend down: a client evicted in
\* the middle of a fan-out is still to be unregistered by its ReadPump.
PanicFree ==
  \A c \in Clients :
    /\ closes[c] <= 1
    /\ c \in registered \cup visiting => closes[c] = 0

\* Once ReadPump has left its Unregister behind, the client is not in
\* h.Clients and cannot come back: nothing else would ever remove it.
NoZombie ==
  \A c \in Clients :
    /\ reader[c] \in {"closing", "done"} => c \notin registered
    /\ reader[c] \in {"unregistering", "closing", "done"} => handler[c] # "registering"

\* The messages on their way to a client leave no gap: between the last one
\* written to its connection and any one in its pipeline, every message that
\* it asked for is in the pipeline too; and while it is registered the
\* pipeline reaches to the end of the feed.
NoGap ==
  \A c \in Clients : ~ Broken(c) =>
    /\ \A k \in Pending(c) : \A j \in DOMAIN feed :
         pos[c] < j /\ j < k /\ Matches(c, feed[j]) => j \in Pending(c)
    /\ c \in registered => \A j \in DOMAIN feed :
         pos[c] < j /\ Matches(c, feed[j])
           => j \in Pending(c) \/ (j = Len(feed) /\ c \in visiting)

-----------------------------------------------------------------------------
(* The hub implements the stream.                                          *)

Joined == {c \in Clients : handler[c] \in {"registered", "started"}}

StreamWant == [c \in Clients |-> IF c \in Joined THEN want[c] ELSE NoFilter]

S == INSTANCE Stream WITH subscribed <- Joined, want <- StreamWant

\* What reaches a connection is, from the moment of registration on, every
\* matching message in the order Run took them, without gap or repetition.
StreamSpec == S!Spec

-----------------------------------------------------------------------------
(* Liveness, under FairSpec                                                *)

\* No client can hold up the others: every fan-out ends even if a peer stalls
\* and its pump never empties a channel (a full one gets its client evicted).
HubNeverBlocks == ~ Idle ~> Idle

\* A client whose peer is gone is forgotten by the hub and both of its
\* goroutines end.
Released ==
  \A c \in Clients :
    peer[c] = "gone" ~> /\ c \notin registered
                        /\ writer[c] = "done"
                        /\ reader[c] = "done"

\* A client the hub has dropped does not stay connected and silent: its
\* connection is closed, which makes the dashboard reconnect, unless its
\* peer stalls and WritePump waits in a write.
DroppedIsClosed ==
  \A c \in Clients :
    (c \in Joined /\ c \notin registered) ~> (Broken(c) \/ peer[c] = "stalled")

\* A message reaches every registered client that asked for its server,
\* unless the client is dropped, breaks or stalls.
Delivered ==
  \A c \in Clients, k \in 1 .. MaxFeed :
    (c \in registered /\ k \in DOMAIN feed /\ pos[c] < k /\ Matches(c, feed[k]))
      ~> (pos[c] >= k \/ c \notin registered \/ Broken(c) \/ peer[c] = "stalled")
=============================================================================
