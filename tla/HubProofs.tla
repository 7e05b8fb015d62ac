------------------------------ MODULE HubProofs ------------------------------
(***************************************************************************)
(* Proofs about module Hub, for any number of clients and servers, any     *)
(* channel capacities and a feed of any length.                            *)
(***************************************************************************)
EXTENDS Hub, TLAPS

-----------------------------------------------------------------------------
(* The inductive invariant                                                 *)

\* Who may be where: what the goroutines of a client can be doing while it
\* is in h.Clients, before that and after.
Control ==
  /\ visiting \subseteq registered
  /\ registered \subseteq Joined
  /\ visiting # {} => feed # <<>>
  /\ \A c \in Clients :
       /\ closes[c] \in {0, 1}
       /\ c \in registered => closes[c] = 0
       /\ c \notin Joined => closes[c] = 0
       /\ handler[c] # "started" => reader[c] = "none" /\ writer[c] = "none"
       /\ reader[c] \in {"closing", "done"} => c \notin registered

\* What is in a client's pipeline: messages it asked for, in feed order, none
\* of them written yet; and none of them the one now being fanned out, if the
\* client is still to be served.
PipelineOf(c) ==
  /\ pos[c] <= Len(feed)
  /\ c \in visiting => pos[c] < Len(feed) /\ Matches(c, feed[Len(feed)])
  /\ c \notin Joined => send[c] = <<>>
  /\ \A i \in DOMAIN send[c] :
       /\ send[c][i] \in DOMAIN feed
       /\ Matches(c, feed[send[c][i]])
       /\ pos[c] < send[c][i]
       /\ c \in visiting => send[c][i] < Len(feed)
  /\ \A i, j \in DOMAIN send[c] : i < j => send[c][i] < send[c][j]
  /\ writer[c] = "writing" =>
       /\ held[c] \in DOMAIN feed
       /\ Matches(c, feed[held[c]])
       /\ pos[c] < held[c]
       /\ c \in visiting => held[c] < Len(feed)
       /\ \A i \in DOMAIN send[c] : held[c] < send[c][i]

Pipeline == \A c \in Clients : PipelineOf(c)

IInv == TypeOK /\ Control /\ Pipeline /\ NoGap

-----------------------------------------------------------------------------
(* Type correctness                                                        *)

LEMMA TypeInit == Init => TypeOK
  BY CapacityAssumption DEF Init, TypeOK, Wishes

LEMMA RemoveType ==
  ASSUME NEW c \in Clients, closes \in [Clients -> Nat], registered \subseteq Clients,
         Remove(c)
  PROVE  closes' \in [Clients -> Nat] /\ registered' \subseteq Clients
  BY DEF Remove

\* A receive that fits leaves every channel well typed and within capacity.
LEMMA EnqueueType ==
  ASSUME NEW c \in Clients, NEW m \in Nat,
         send \in [Clients -> Seq(Nat)],
         \A d \in Clients : Len(send[d]) <= SendCap,
         Len(send[c]) < SendCap,
         send' = [send EXCEPT ![c] = Append(@, m)]
  PROVE  /\ send' \in [Clients -> Seq(Nat)]
         /\ \A d \in Clients : Len(send'[d]) <= SendCap
<1>1. /\ Append(send[c], m) \in Seq(Nat)
      /\ Len(Append(send[c], m)) = Len(send[c]) + 1
  OBVIOUS
<1>2. send' \in [Clients -> Seq(Nat)]
  BY <1>1
<1>3. ASSUME NEW d \in Clients PROVE Len(send'[d]) <= SendCap
  BY <1>1, CapacityAssumption
<1> QED
  BY <1>2, <1>3

LEMMA TypeStep == TypeOK /\ [Next]_vars => TypeOK'
<1> SUFFICES ASSUME TypeOK, [Next]_vars PROVE TypeOK'
  OBVIOUS
<1> USE CapacityAssumption DEF TypeOK, hubVars, clientVars
<1>1. ASSUME NEW s \in Servers, Publish(s) PROVE TypeOK'
  BY <1>1 DEF Publish, HasRoom
<1>2. ASSUME NEW c \in Clients, NEW w \in Wishes, HandleWebSocket(c, w)
      PROVE TypeOK'
  BY <1>2 DEF HandleWebSocket
<1>3. ASSUME NEW c \in Clients, NEW p \in {"up", "stalled", "gone"},
             PeerChanges(c, p)
      PROVE TypeOK'
  BY <1>3 DEF PeerChanges
<1>4. CASE HubTake
  BY <1>4 DEF HubTake, Audience
<1>5. ASSUME NEW c \in Clients, StartPumps(c) PROVE TypeOK'
  BY <1>5 DEF StartPumps
<1>6. ASSUME NEW c \in Clients, HubRegister(c) PROVE TypeOK'
  BY <1>6 DEF HubRegister
<1>7. ASSUME NEW c \in Clients, HubUnregister(c) PROVE TypeOK'
  <2>1. closes' \in [Clients -> Nat] /\ registered' \subseteq Clients
    BY <1>7, RemoveType DEF HubUnregister, Drop
  <2> QED
    BY <2>1, <1>7 DEF HubUnregister
<1>8. ASSUME NEW c \in Clients, HubSend(c) PROVE TypeOK'
  <2>1. CASE Len(send[c]) < SendCap
    <3>1. /\ send' \in [Clients -> Seq(Nat)]
          /\ \A d \in Clients : Len(send'[d]) <= SendCap
      <4>1. send' = [send EXCEPT ![c] = Append(@, Len(feed))] /\ Len(feed) \in Nat
        BY <1>8, <2>1 DEF HubSend
      <4> QED
        BY <2>1, <4>1, EnqueueType
    <3> QED
      BY <1>8, <2>1, <3>1 DEF HubSend
  <2>2. CASE ~ (Len(send[c]) < SendCap)
    <3>1. Remove(c) /\ UNCHANGED send
      BY <1>8, <2>2 DEF HubSend, Evict
    <3>2. closes' \in [Clients -> Nat] /\ registered' \subseteq Clients
      BY <3>1, RemoveType
    <3> QED
      BY <1>8, <3>1, <3>2 DEF HubSend
  <2> QED
    BY <2>1, <2>2
<1>9. ASSUME NEW c \in Clients, WriteTake(c) PROVE TypeOK'
  BY <1>9 DEF WriteTake
<1>10. ASSUME NEW c \in Clients, WriteJSON(c) PROVE TypeOK'
  BY <1>10 DEF WriteJSON
<1>11. ASSUME NEW c \in Clients, WriteClose(c) \/ PingFails(c) PROVE TypeOK'
  BY <1>11 DEF WriteClose, PingFails, WriterLeaves
<1>12. ASSUME NEW c \in Clients, ReadFails(c) PROVE TypeOK'
  BY <1>12 DEF ReadFails, AfterReadError
<1>13. ASSUME NEW c \in Clients, ReaderClose(c) PROVE TypeOK'
  BY <1>13 DEF ReaderClose
<1>14. CASE UNCHANGED vars
  BY <1>14 DEF vars
<1> QED
  BY <1>1, <1>2, <1>3, <1>4, <1>5, <1>6, <1>7, <1>8, <1>9, <1>10, <1>11,
     <1>12, <1>13, <1>14 DEF Next

\* Every variable keeps its type and no channel exceeds its capacity.
THEOREM TypeCorrect == Spec => []TypeOK
  BY TypeInit, TypeStep, PTL DEF Spec

-----------------------------------------------------------------------------
(* Control                                                                 *)

LEMMA ControlInit == Init => Control
  BY DEF Init, Control, Joined

LEMMA ControlStep == TypeOK /\ Control /\ [Next]_vars => Control'
<1> SUFFICES ASSUME TypeOK, Control, [Next]_vars PROVE Control'
  OBVIOUS
<1> USE DEF TypeOK, Control, Joined, hubVars, clientVars
<1>1. ASSUME NEW s \in Servers, Publish(s) PROVE Control'
  BY <1>1 DEF Publish, HasRoom
<1>2. ASSUME NEW c \in Clients, NEW w \in Wishes, HandleWebSocket(c, w)
      PROVE Control'
  BY <1>2 DEF HandleWebSocket
<1>3. ASSUME NEW c \in Clients, NEW p \in {"up", "stalled", "gone"},
             PeerChanges(c, p)
      PROVE Control'
  BY <1>3 DEF PeerChanges
<1>4. CASE HubTake
  BY <1>4 DEF HubTake, Audience
<1>5. ASSUME NEW c \in Clients, StartPumps(c) PROVE Control'
  BY <1>5 DEF StartPumps
<1>6. ASSUME NEW c \in Clients, HubRegister(c) PROVE Control'
  BY <1>6 DEF HubRegister, Idle
<1>7. ASSUME NEW c \in Clients, HubUnregister(c) PROVE Control'
  BY <1>7 DEF HubUnregister, Drop, Remove, Idle
<1>8. ASSUME NEW c \in Clients, HubSend(c) PROVE Control'
  BY <1>8 DEF HubSend, Evict, Remove
<1>9. ASSUME NEW c \in Clients, WriteTake(c) PROVE Control'
  BY <1>9 DEF WriteTake
<1>10. ASSUME NEW c \in Clients, WriteJSON(c) PROVE Control'
  BY <1>10 DEF WriteJSON
<1>11. ASSUME NEW c \in Clients, WriteClose(c) \/ PingFails(c) PROVE Control'
  BY <1>11 DEF WriteClose, PingFails, WriterLeaves
<1>12. ASSUME NEW c \in Clients, ReadFails(c) PROVE Control'
  BY <1>12 DEF ReadFails, AfterReadError
<1>13. ASSUME NEW c \in Clients, ReaderClose(c) PROVE Control'
  BY <1>13 DEF ReaderClose
<1>14. CASE UNCHANGED vars
  BY <1>14 DEF vars
<1> QED
  BY <1>1, <1>2, <1>3, <1>4, <1>5, <1>6, <1>7, <1>8, <1>9, <1>10, <1>11,
     <1>12, <1>13, <1>14 DEF Next

\* The hub never closes a channel twice and never sends on a closed one, for
\* any number of clients and any capacities (WSHub.Run cannot panic).
THEOREM PanicFreeAlways == Spec => []PanicFree
<1>1. TypeOK /\ Control => PanicFree
  BY DEF TypeOK, Control, PanicFree
<1> QED
  BY <1>1, TypeInit, TypeStep, ControlInit, ControlStep, PTL DEF Spec

\* A client whose ReadPump has unregistered is not and will not be in
\* h.Clients.
THEOREM NoZombieAlways == Spec => []NoZombie
<1>1. TypeOK /\ Control => NoZombie
  BY DEF TypeOK, Control, NoZombie, Joined
<1> QED
  BY <1>1, TypeInit, TypeStep, ControlInit, ControlStep, PTL DEF Spec

-----------------------------------------------------------------------------
(* Pipeline                                                                *)

LEMMA PipelineInit == Init => Pipeline
  BY DEF Init, Pipeline, PipelineOf, Joined

\* A step that leaves a client's own state, the feed and the fan-out alone
\* leaves its pipeline alone.
LEMMA PipelineFrame ==
  ASSUME NEW d \in Clients, PipelineOf(d),
         UNCHANGED <<feed, visiting>>,
         handler'[d] = handler[d], want'[d] = want[d], send'[d] = send[d],
         pos'[d] = pos[d], held'[d] = held[d],
         writer'[d] = "writing" => writer[d] = "writing"
  PROVE  PipelineOf(d)'
  BY DEF PipelineOf, Matches, Joined

\* Taking a message from Broadcast.
LEMMA PipelineTake ==
  ASSUME TypeOK, Control, Pipeline, HubTake, NEW d \in Clients
  PROVE  PipelineOf(d)'
<1> DEFINE s == Head(broadcast)
<1>1. /\ s \in Servers
      /\ feed \in Seq(Servers)
      /\ feed' = Append(feed, s)
      /\ visiting' = Audience(s)
      /\ visiting = {}
      /\ UNCHANGED <<registered, clientVars>>
  BY DEF TypeOK, HubTake, Idle
<1> HIDE DEF s
<1>2. /\ Len(feed') = Len(feed) + 1
      /\ feed'[Len(feed')] = s
      /\ DOMAIN feed \subseteq DOMAIN feed'
      /\ \A k \in DOMAIN feed : feed'[k] = feed[k] /\ k \in Nat /\ k <= Len(feed)
      /\ Len(feed) \in Nat
  BY <1>1
<1>3. d \in visiting' => Matches(d, s)
  BY <1>1 DEF Audience
<1>4. pos[d] \in Nat /\ send[d] \in Seq(Nat) /\ held[d] \in Nat
  BY DEF TypeOK
<1> QED
  BY <1>1, <1>2, <1>3, <1>4 DEF Pipeline, PipelineOf, Matches, Joined, clientVars

\* The non-blocking send to a client that is still to be served.
LEMMA PipelineSend ==
  ASSUME TypeOK, Control, Pipeline, NEW c \in Clients, HubSend(c)
  PROVE  PipelineOf(c)'
<1>1. /\ c \in visiting /\ c \notin visiting'
      /\ UNCHANGED <<feed, handler, want, writer, held, pos>>
      /\ \/ send' = [send EXCEPT ![c] = Append(@, Len(feed))]
         \/ UNCHANGED send
  BY DEF HubSend
<1>2. /\ c \in Joined
      /\ feed # <<>> /\ feed \in Seq(Servers)
      /\ send \in [Clients -> Seq(Nat)]
      /\ pos[c] \in Nat /\ held[c] \in Nat
  BY <1>1 DEF TypeOK, Control
<1>3. Len(feed) \in DOMAIN feed
  BY <1>2
<1>4. PipelineOf(c)
  BY DEF Pipeline
<1>5. CASE UNCHANGED send
  BY <1>1, <1>4, <1>5 DEF PipelineOf, Matches, Joined
<1>6. CASE send' = [send EXCEPT ![c] = Append(@, Len(feed))]
  <2>1. /\ send'[c] = Append(send[c], Len(feed))
        /\ send[c] \in Seq(Nat)
    BY <1>2, <1>6
  <2>2. /\ Len(send'[c]) = Len(send[c]) + 1
        /\ send'[c][Len(send[c]) + 1] = Len(feed)
        /\ \A i \in DOMAIN send[c] : send'[c][i] = send[c][i]
        /\ DOMAIN send'[c] = DOMAIN send[c] \cup {Len(send[c]) + 1}
        /\ \A i \in DOMAIN send[c] : i \in Nat /\ i < Len(send[c]) + 1
        /\ Len(send[c]) \in Nat
    BY <2>1
  <2> QED
    BY <1>1, <1>2, <1>3, <1>4, <2>2 DEF PipelineOf, Matches, Joined
<1> QED
  BY <1>1, <1>5, <1>6

\* WritePump receives the head of its channel.
LEMMA PipelineWriteTake ==
  ASSUME TypeOK, Control, Pipeline, NEW c \in Clients, WriteTake(c)
  PROVE  PipelineOf(c)'
<1>1. /\ send[c] \in Seq(Nat) /\ send[c] # <<>>
      /\ send'[c] = Tail(send[c])
      /\ held'[c] = Head(send[c])
      /\ writer[c] = "idle"
      /\ UNCHANGED <<feed, visiting, handler, want, pos>>
  BY DEF TypeOK, WriteTake, hubVars
<1>2. /\ 1 \in DOMAIN send[c] /\ held'[c] = send[c][1]
      /\ \A i \in DOMAIN send'[c] :
           /\ i \in Nat /\ i + 1 \in DOMAIN send[c] /\ 1 < i + 1
           /\ send'[c][i] = send[c][i + 1]
  BY <1>1
<1>3. PipelineOf(c) /\ (c \notin Joined => send[c] = <<>>)
  BY DEF Pipeline, PipelineOf
<1>4. c \in Joined
  BY <1>1, <1>3
<1>5. \A i \in DOMAIN send[c] :
        /\ send[c][i] \in DOMAIN feed
        /\ Matches(c, feed[send[c][i]])
        /\ pos[c] < send[c][i]
        /\ c \in visiting => send[c][i] < Len(feed)
  BY <1>3 DEF PipelineOf
<1>6. \A i, j \in DOMAIN send[c] : i < j => send[c][i] < send[c][j]
  BY <1>3 DEF PipelineOf
<1>7. \A i \in DOMAIN send'[c] : held'[c] < send'[c][i]
  BY <1>2, <1>6
<1>8. ASSUME NEW i \in DOMAIN send'[c], NEW j \in DOMAIN send'[c], i < j
      PROVE  send'[c][i] < send'[c][j]
  <2>1. i + 1 < j + 1
    BY <1>2, <1>8
  <2> QED
    BY <1>2, <1>6, <2>1
<1>9. \A i \in DOMAIN send'[c] :
        /\ send'[c][i] \in DOMAIN feed
        /\ Matches(c, feed[send'[c][i]])
        /\ pos[c] < send'[c][i]
        /\ c \in visiting => send'[c][i] < Len(feed)
  BY <1>2, <1>5
<1>10. pos[c] <= Len(feed) /\ (c \in visiting => pos[c] < Len(feed) /\ Matches(c, feed[Len(feed)]))
  BY <1>3 DEF PipelineOf
<1> QED
  BY <1>1, <1>2, <1>4, <1>5, <1>7, <1>8, <1>9, <1>10 DEF PipelineOf, Matches, Joined

LEMMA PipelineStep == TypeOK /\ Control /\ Pipeline /\ [Next]_vars => Pipeline'
<1> SUFFICES ASSUME TypeOK, Control, Pipeline, [Next]_vars,
                    NEW d \in Clients
             PROVE  PipelineOf(d)'
  BY DEF Pipeline
<1>0. PipelineOf(d)
  BY DEF Pipeline
<1> USE DEF hubVars, clientVars
<1>1. ASSUME NEW s \in Servers, Publish(s) PROVE PipelineOf(d)'
  BY <1>0, <1>1, PipelineFrame DEF Publish
<1>2. ASSUME NEW c \in Clients, NEW w \in Wishes, HandleWebSocket(c, w)
      PROVE PipelineOf(d)'
  <2>1. CASE d = c
    <3>1. c \notin Joined /\ c \notin Joined' /\ c \notin visiting
      BY <1>2 DEF HandleWebSocket, TypeOK, Control, Joined
    <3>2. send[c] = <<>> /\ writer[c] # "writing"
      BY <1>0, <1>2, <2>1, <3>1 DEF PipelineOf, Control, HandleWebSocket
    <3> QED
      BY <1>0, <1>2, <2>1, <3>1, <3>2 DEF HandleWebSocket, PipelineOf
  <2>2. CASE d # c
    BY <1>0, <1>2, <2>2, PipelineFrame DEF HandleWebSocket, TypeOK
  <2> QED
    BY <2>1, <2>2
<1>3. ASSUME NEW c \in Clients, NEW p \in {"up", "stalled", "gone"},
             PeerChanges(c, p)
      PROVE PipelineOf(d)'
  BY <1>0, <1>3, PipelineFrame DEF PeerChanges
<1>4. CASE HubTake
  BY <1>4, PipelineTake
<1>5. ASSUME NEW c \in Clients, StartPumps(c) PROVE PipelineOf(d)'
  <2>1. /\ UNCHANGED <<feed, visiting, want, send, held, pos>>
        /\ d \in Joined' <=> d \in Joined
        /\ writer'[d] = "writing" => writer[d] = "writing"
    BY <1>5 DEF StartPumps, TypeOK, Joined
  <2> QED
    BY <1>0, <2>1 DEF PipelineOf, Matches
<1>6. ASSUME NEW c \in Clients, HubRegister(c) PROVE PipelineOf(d)'
  <2>1. CASE d = c
    <3>1. c \notin Joined /\ visiting' = {} /\ writer'[c] # "writing"
      BY <1>6 DEF HubRegister, Idle, Joined, Control
    <3>2. send'[c] = <<>> /\ pos'[c] = Len(feed') /\ Len(feed') \in Nat
      BY <1>0, <1>6, <2>1, <3>1 DEF HubRegister, PipelineOf, TypeOK
    <3> QED
      BY <2>1, <3>1, <3>2 DEF PipelineOf
  <2>2. CASE d # c
    BY <1>0, <1>6, <2>2, PipelineFrame DEF HubRegister, TypeOK
  <2> QED
    BY <2>1, <2>2
<1>7. ASSUME NEW c \in Clients, HubUnregister(c) PROVE PipelineOf(d)'
  BY <1>0, <1>7, PipelineFrame DEF HubUnregister
<1>8. ASSUME NEW c \in Clients, HubSend(c) PROVE PipelineOf(d)'
  <2>1. CASE d = c
    BY <1>8, <2>1, PipelineSend
  <2>2. CASE d # c
    <3>1. /\ send'[d] = send[d]
          /\ d \in visiting' <=> d \in visiting
          /\ UNCHANGED <<feed, handler, want, writer, held, pos>>
      BY <1>8, <2>2 DEF HubSend, TypeOK
    <3> QED
      BY <1>0, <3>1 DEF PipelineOf, Matches, Joined
  <2> QED
    BY <2>1, <2>2
<1>9. ASSUME NEW c \in Clients, WriteTake(c) PROVE PipelineOf(d)'
  <2>1. CASE d = c
    BY <1>9, <2>1, PipelineWriteTake
  <2>2. CASE d # c
    BY <1>0, <1>9, <2>2, PipelineFrame DEF WriteTake, TypeOK
  <2> QED
    BY <2>1, <2>2
<1>10. ASSUME NEW c \in Clients, WriteJSON(c) PROVE PipelineOf(d)'
  <2>1. CASE d = c
    <3>1. /\ writer[c] = "writing" /\ writer'[c] = "idle"
          /\ pos'[c] \in {pos[c], held[c]}
          /\ UNCHANGED <<feed, visiting, handler, want, send>>
      BY <1>10 DEF WriteJSON, TypeOK
    <3>2. feed \in Seq(Servers) /\ held[c] \in Nat /\ pos[c] \in Nat /\ send[c] \in Seq(Nat)
      BY DEF TypeOK
    <3> QED
      BY <1>0, <2>1, <3>1, <3>2 DEF PipelineOf, Matches, Joined
  <2>2. CASE d # c
    BY <1>0, <1>10, <2>2, PipelineFrame DEF WriteJSON, TypeOK
  <2> QED
    BY <2>1, <2>2
<1>11. ASSUME NEW c \in Clients, WriteClose(c) \/ PingFails(c) PROVE PipelineOf(d)'
  BY <1>0, <1>11, PipelineFrame DEF WriteClose, PingFails, WriterLeaves, TypeOK
<1>12. ASSUME NEW c \in Clients, ReadFails(c) PROVE PipelineOf(d)'
  BY <1>0, <1>12, PipelineFrame DEF ReadFails
<1>13. ASSUME NEW c \in Clients, ReaderClose(c) PROVE PipelineOf(d)'
  BY <1>0, <1>13, PipelineFrame DEF ReaderClose
<1>14. CASE UNCHANGED vars
  BY <1>0, <1>14, PipelineFrame DEF vars
<1> QED
  BY <1>1, <1>2, <1>3, <1>4, <1>5, <1>6, <1>7, <1>8, <1>9, <1>10, <1>11,
     <1>12, <1>13, <1>14 DEF Next
-----------------------------------------------------------------------------
(* NoGap                                                                   *)

NoGapOf(c) ==
  ~ Broken(c) =>
    /\ \A k \in Pending(c) : \A j \in DOMAIN feed :
         pos[c] < j /\ j < k /\ Matches(c, feed[j]) => j \in Pending(c)
    /\ c \in registered => \A j \in DOMAIN feed :
         pos[c] < j /\ Matches(c, feed[j])
           => j \in Pending(c) \/ (j = Len(feed) /\ c \in visiting)

LEMMA NoGapInit == Init => NoGap
  BY DEF Init, NoGap, Pending

\* A step that takes nothing from a client's pipeline, and adds nothing to
\* it, opens no gap in it; a client may break or be dropped.
LEMMA NoGapFrame ==
  ASSUME NEW d \in Clients, NoGapOf(d),
         feed' = feed, d \in visiting' <=> d \in visiting,
         want'[d] = want[d], pos'[d] = pos[d], Pending(d)' = Pending(d),
         Broken(d) => Broken(d)',
         d \in registered' => d \in registered
  PROVE  NoGapOf(d)'
  BY DEF NoGapOf, Matches

LEMMA PendingFrame ==
  ASSUME NEW d \in Clients, send'[d] = send[d], held'[d] = held[d],
         writer'[d] = "writing" <=> writer[d] = "writing"
  PROVE  Pending(d)' = Pending(d)
  BY DEF Pending

\* What WritePump takes out of the channel it holds.
LEMMA PendingWriteTake ==
  ASSUME TypeOK, NEW c \in Clients, WriteTake(c)
  PROVE  Pending(c)' = Pending(c)
<1>1. /\ send[c] \in Seq(Nat) /\ send[c] # <<>>
      /\ send'[c] = Tail(send[c])
      /\ held'[c] = Head(send[c])
      /\ writer[c] = "idle" /\ writer'[c] = "writing"
  BY DEF TypeOK, WriteTake
<1>2. /\ 1 \in DOMAIN send[c] /\ held'[c] = send[c][1]
      /\ \A i \in DOMAIN send'[c] :
           i + 1 \in DOMAIN send[c] /\ send'[c][i] = send[c][i + 1]
  BY <1>1
<1>3. \A i \in DOMAIN send[c] :
        i = 1 \/ (i - 1 \in DOMAIN send'[c] /\ send[c][i] = send'[c][i - 1])
  BY <1>1
<1>4. Pending(c) = {send[c][i] : i \in DOMAIN send[c]}
  BY <1>1 DEF Pending
<1>5. Pending(c)' = {send'[c][i] : i \in DOMAIN send'[c]} \cup {held'[c]}
  BY <1>1 DEF Pending
<1> QED
  BY <1>2, <1>3, <1>4, <1>5

\* Everything in a client's pipeline is a message of the feed.
LEMMA PendingInFeed ==
  ASSUME TypeOK, Pipeline, NEW c \in Clients
  PROVE  Pending(c) \subseteq DOMAIN feed
  BY DEF Pipeline, PipelineOf, Pending

LEMMA NoGapTake ==
  ASSUME TypeOK, Control, Pipeline, NEW d \in Clients, NoGapOf(d), HubTake
  PROVE  NoGapOf(d)'
<1> DEFINE s == Head(broadcast)
<1>1. /\ s \in Servers /\ feed \in Seq(Servers)
      /\ feed' = Append(feed, s)
      /\ visiting' = Audience(s) /\ visiting = {}
      /\ UNCHANGED <<registered, clientVars>>
  BY DEF TypeOK, HubTake, Idle
<1> HIDE DEF s
<1>2. /\ Len(feed') = Len(feed) + 1 /\ feed'[Len(feed')] = s
      /\ \A j \in DOMAIN feed' : j = Len(feed') \/ (j \in DOMAIN feed /\ feed'[j] = feed[j])
      /\ \A j \in DOMAIN feed : j \in Nat /\ j <= Len(feed)
      /\ Len(feed) \in Nat
  BY <1>1
<1>3. /\ Pending(d)' = Pending(d) /\ Pending(d) \subseteq DOMAIN feed
      /\ (Broken(d)' <=> Broken(d)) /\ UNCHANGED <<pos, want>>
  BY <1>1, PendingInFeed DEF clientVars, Pending, Broken
<1>4. ASSUME NEW j \in DOMAIN feed', NEW k \in Pending(d), j < k PROVE j \in DOMAIN feed /\ feed'[j] = feed[j]
  BY <1>2, <1>3, <1>4
<1>5. d \in registered /\ Matches(d, s) => d \in visiting'
  BY <1>1 DEF Audience
<1>6. ASSUME ~ Broken(d)', NEW k \in Pending(d)', NEW j \in DOMAIN feed',
             pos'[d] < j, j < k, Matches(d, feed[j])'
      PROVE  j \in Pending(d)'
  <2>1. j \in DOMAIN feed /\ feed'[j] = feed[j]
    BY <1>3, <1>4, <1>6
  <2> QED
    BY <1>3, <1>6, <2>1 DEF NoGapOf, Matches
<1>7. ASSUME ~ Broken(d)', d \in registered', NEW j \in DOMAIN feed',
             pos'[d] < j, Matches(d, feed[j])'
      PROVE  j \in Pending(d)' \/ (j = Len(feed') /\ d \in visiting')
  <2>1. CASE j = Len(feed')
    BY <1>1, <1>2, <1>3, <1>5, <1>7, <2>1 DEF Matches
  <2>2. CASE j \in DOMAIN feed /\ feed'[j] = feed[j]
    BY <1>1, <1>3, <1>7, <2>2 DEF NoGapOf, Matches
  <2> QED
    BY <1>2, <2>1, <2>2
<1> QED
  BY <1>6, <1>7 DEF NoGapOf, Matches

LEMMA NoGapSend ==
  ASSUME TypeOK, Control, NEW c \in Clients, NoGapOf(c), HubSend(c)
  PROVE  NoGapOf(c)'
<1>1. /\ c \in registered
      /\ UNCHANGED <<feed, want, writer, held, pos, conn, peer>>
      /\ \A j \in DOMAIN feed : j \in Nat
      /\ Len(feed) \in Nat
  BY DEF HubSend, Control, TypeOK
<1>2. CASE Len(send[c]) < SendCap
  <2>1. send'[c] = Append(send[c], Len(feed)) /\ send[c] \in Seq(Nat)
    BY <1>2 DEF HubSend, TypeOK
  <2>2. /\ DOMAIN send'[c] = DOMAIN send[c] \cup {Len(send[c]) + 1}
        /\ send'[c][Len(send[c]) + 1] = Len(feed)
        /\ \A i \in DOMAIN send[c] : send'[c][i] = send[c][i]
    BY <1>1, <2>1
  <2>3. Pending(c)' = Pending(c) \cup {Len(feed)}
    BY <1>1, <2>2 DEF Pending
  <2> QED
    BY <1>1, <2>3 DEF NoGapOf, Matches, Broken
<1>3. CASE ~ (Len(send[c]) < SendCap)
  <2>1. c \notin registered' /\ UNCHANGED send
    BY <1>3 DEF HubSend, Evict, Remove
  <2>2. Pending(c)' = Pending(c)
    BY <1>1, <2>1 DEF Pending
  <2> QED
    BY <1>1, <2>1, <2>2 DEF NoGapOf, Matches, Broken
<1> QED
  BY <1>2, <1>3

LEMMA NoGapWriteJSON ==
  ASSUME TypeOK, Pipeline, NEW c \in Clients, NoGapOf(c), WriteJSON(c)
  PROVE  NoGapOf(c)'
<1>1. /\ writer[c] = "writing" /\ writer'[c] = "idle"
      /\ UNCHANGED <<feed, visiting, registered, want, send, conn, peer>>
  BY DEF WriteJSON, hubVars, TypeOK
<1>2. CASE Broken(c)
  BY <1>1, <1>2 DEF NoGapOf, Broken
<1>3. CASE ~ Broken(c)
  <2>1. pos'[c] = held[c]
    BY <1>3 DEF WriteJSON, TypeOK
  <2>2. /\ pos[c] < held[c] /\ pos[c] \in Nat /\ held[c] \in Nat
        /\ \A i \in DOMAIN send[c] : held[c] < send[c][i]
        /\ \A j \in DOMAIN feed : j \in Nat
    BY <1>1 DEF Pipeline, PipelineOf, TypeOK
  <2>3. /\ Pending(c)' = {send[c][i] : i \in DOMAIN send[c]}
        /\ Pending(c) = Pending(c)' \cup {held[c]}
    BY <1>1 DEF Pending
  <2>4. \A j \in DOMAIN feed : held[c] < j => pos[c] < j /\ j # held[c]
    BY <2>2
  <2> QED
    BY <1>1, <1>3, <2>1, <2>3, <2>4 DEF NoGapOf, Matches, Broken
<1> QED
  BY <1>2, <1>3

LEMMA NoGapStep == IInv /\ [Next]_vars => NoGap'
<1> SUFFICES ASSUME IInv, [Next]_vars, NEW d \in Clients PROVE NoGapOf(d)'
  BY DEF NoGap, NoGapOf
<1>0. TypeOK /\ Control /\ Pipeline /\ NoGapOf(d)
  BY DEF IInv, NoGap, NoGapOf
<1> USE DEF hubVars, clientVars
<1>1. ASSUME NEW s \in Servers, Publish(s) PROVE NoGapOf(d)'
  BY <1>0, <1>1, PendingFrame, NoGapFrame DEF Publish, Broken
<1>2. ASSUME NEW c \in Clients, NEW w \in Wishes, HandleWebSocket(c, w)
      PROVE NoGapOf(d)'
  <2>1. CASE d = c
    <3>1. c \notin registered /\ send[c] = <<>> /\ writer[c] = "none"
      BY <1>0, <1>2 DEF HandleWebSocket, Control, Joined, Pipeline, PipelineOf
    <3>2. c \notin registered' /\ Pending(c)' = {}
      BY <1>2, <3>1 DEF HandleWebSocket, Pending
    <3> QED
      BY <2>1, <3>2 DEF NoGapOf
  <2>2. CASE d # c
    BY <1>0, <1>2, <2>2, PendingFrame, NoGapFrame DEF HandleWebSocket, Broken, TypeOK
  <2> QED
    BY <2>1, <2>2
<1>3. ASSUME NEW c \in Clients, NEW p \in {"up", "stalled", "gone"},
             PeerChanges(c, p)
      PROVE NoGapOf(d)'
  <2>1. Broken(d) => Broken(d)'
    BY <1>0, <1>3 DEF PeerChanges, Broken, TypeOK
  <2> QED
    BY <1>0, <1>3, <2>1, PendingFrame, NoGapFrame DEF PeerChanges
<1>4. CASE HubTake
  BY <1>0, <1>4, NoGapTake
<1>5. ASSUME NEW c \in Clients, StartPumps(c) PROVE NoGapOf(d)'
  <2>1. writer'[d] = "writing" <=> writer[d] = "writing"
    BY <1>0, <1>5 DEF StartPumps, TypeOK, Control
  <2> QED
    BY <1>0, <1>5, <2>1, PendingFrame, NoGapFrame DEF StartPumps, Broken
<1>6. ASSUME NEW c \in Clients, HubRegister(c) PROVE NoGapOf(d)'
  <2>1. CASE d = c
    <3>1. send[c] = <<>> /\ writer[c] = "none"
      BY <1>0, <1>6 DEF HubRegister, Control, Joined, Pipeline, PipelineOf
    <3>2. Pending(c)' = {} /\ pos'[c] = Len(feed') /\ feed' \in Seq(Servers)
      BY <1>0, <1>6, <3>1 DEF HubRegister, Pending, TypeOK
    <3>3. \A j \in DOMAIN feed' : ~ (pos'[c] < j)
      BY <3>2
    <3> QED
      BY <2>1, <3>2, <3>3 DEF NoGapOf
  <2>2. CASE d # c
    BY <1>0, <1>6, <2>2, PendingFrame, NoGapFrame DEF HubRegister, Broken, TypeOK
  <2> QED
    BY <2>1, <2>2
<1>7. ASSUME NEW c \in Clients, HubUnregister(c) PROVE NoGapOf(d)'
  BY <1>0, <1>7, PendingFrame, NoGapFrame DEF HubUnregister, Drop, Remove, Broken
<1>8. ASSUME NEW c \in Clients, HubSend(c) PROVE NoGapOf(d)'
  <2>1. CASE d = c
    BY <1>0, <1>8, <2>1, NoGapSend
  <2>2. CASE d # c
    <3>1. /\ send'[d] = send[d]
          /\ d \in visiting' <=> d \in visiting
          /\ registered' \subseteq registered
          /\ UNCHANGED <<feed, want, writer, held, pos, conn, peer>>
      BY <1>0, <1>8, <2>2 DEF HubSend, Evict, Remove, TypeOK
    <3> QED
      BY <1>0, <3>1, PendingFrame, NoGapFrame DEF Broken
  <2> QED
    BY <2>1, <2>2
<1>9. ASSUME NEW c \in Clients, WriteTake(c) PROVE NoGapOf(d)'
  <2>1. Pending(d)' = Pending(d)
    <3>1. CASE d = c
      BY <1>0, <1>9, <3>1, PendingWriteTake
    <3>2. CASE d # c
      BY <1>0, <1>9, <3>2, PendingFrame DEF WriteTake, TypeOK
    <3> QED
      BY <3>1, <3>2
  <2> QED
    BY <1>0, <1>9, <2>1, NoGapFrame DEF WriteTake, Broken
<1>10. ASSUME NEW c \in Clients, WriteJSON(c) PROVE NoGapOf(d)'
  <2>1. CASE d = c
    BY <1>0, <1>10, <2>1, NoGapWriteJSON
  <2>2. CASE d # c
    BY <1>0, <1>10, <2>2, PendingFrame, NoGapFrame DEF WriteJSON, Broken, TypeOK
  <2> QED
    BY <2>1, <2>2
<1>11. ASSUME NEW c \in Clients, WriteClose(c) \/ PingFails(c) PROVE NoGapOf(d)'
  BY <1>0, <1>11, PendingFrame, NoGapFrame
     DEF WriteClose, PingFails, WriterLeaves, Broken, TypeOK
<1>12. ASSUME NEW c \in Clients, ReadFails(c) PROVE NoGapOf(d)'
  BY <1>0, <1>12, PendingFrame, NoGapFrame DEF ReadFails, Broken
<1>13. ASSUME NEW c \in Clients, ReaderClose(c) PROVE NoGapOf(d)'
  BY <1>0, <1>13, PendingFrame, NoGapFrame DEF ReaderClose, Broken, TypeOK
<1>14. CASE UNCHANGED vars
  BY <1>0, <1>14, PendingFrame, NoGapFrame DEF vars, Broken
<1> QED
  BY <1>1, <1>2, <1>3, <1>4, <1>5, <1>6, <1>7, <1>8, <1>9, <1>10, <1>11,
     <1>12, <1>13, <1>14 DEF Next

LEMMA Invariance == Spec => []IInv
<1>1. Init => IInv
  BY TypeInit, ControlInit, PipelineInit, NoGapInit DEF IInv
<1>2. IInv /\ [Next]_vars => IInv'
  BY TypeStep, ControlStep, PipelineStep, NoGapStep DEF IInv
<1> QED
  BY <1>1, <1>2, PTL DEF Spec

\* What is on its way to a client has no gap, and while it is registered
\* reaches to the end of the feed, for any number of clients and any channel
\* capacities.
THEOREM NoGapAlways == Spec => []NoGap
  BY Invariance, PTL DEF IInv

-----------------------------------------------------------------------------
(* Refinement: registration, HubTake and a write to an unbroken connection *)
(* are steps of the stream, every other step stutters.                     *)

LEMMA StreamInit == Init => S!Init
  BY DEF Init, S!Init, Joined, StreamWant

LEMMA StreamStutter ==
  ASSUME feed' = feed, handler' = handler, want' = want, pos' = pos
  PROVE  UNCHANGED S!vars
  BY DEF S!vars, Joined, StreamWant

\* The message WritePump writes is the next one its client asked for.
LEMMA HeldIsNext ==
  ASSUME IInv, NEW c \in Clients, writer[c] = "writing", ~ Broken(c)
  PROVE  c \in Joined /\ S!IsNext(c, held[c])
<1>1. c \in Joined
  BY DEF IInv, Control, Joined
<1>2. /\ held[c] \in DOMAIN feed /\ pos[c] < held[c] /\ Matches(c, feed[held[c]])
      /\ \A i \in DOMAIN send[c] : held[c] < send[c][i] /\ send[c][i] \in Nat
      /\ held[c] \in Nat /\ pos[c] \in Nat
      /\ \A j \in DOMAIN feed : j \in Nat
  BY DEF IInv, TypeOK, Pipeline, PipelineOf
<1>3. Pending(c) = {send[c][i] : i \in DOMAIN send[c]} \cup {held[c]}
  BY DEF Pending
<1>4. ASSUME NEW j \in DOMAIN feed, pos[c] < j, j < held[c]
      PROVE  ~ Matches(c, feed[j])
  <2>1. j \notin Pending(c)
    BY <1>2, <1>3, <1>4
  <2> QED
    BY <1>3, <1>4, <2>1 DEF IInv, NoGap
<1>5. \A j : S!Matches(c, j) <=> Matches(c, j)
  BY <1>1 DEF S!Matches, Matches, StreamWant
<1> QED
  BY <1>1, <1>2, <1>4, <1>5 DEF S!IsNext

LEMMA StreamStep == IInv /\ [Next]_vars => [S!Next]_(S!vars)
<1> SUFFICES ASSUME IInv, [Next]_vars PROVE S!Next \/ UNCHANGED S!vars
  OBVIOUS
<1>0. TypeOK /\ Control
  BY DEF IInv
<1> USE DEF hubVars, clientVars
<1>1. ASSUME NEW s \in Servers, Publish(s) PROVE UNCHANGED S!vars
  BY <1>1, StreamStutter DEF Publish
<1>2. ASSUME NEW c \in Clients, NEW w \in Wishes, HandleWebSocket(c, w)
      PROVE UNCHANGED S!vars
  <2>1. Joined' = Joined /\ StreamWant' = StreamWant
    BY <1>0, <1>2 DEF HandleWebSocket, Joined, StreamWant, TypeOK
  <2> QED
    BY <1>2, <2>1 DEF HandleWebSocket, S!vars
<1>3. ASSUME NEW c \in Clients, NEW p \in {"up", "stalled", "gone"},
             PeerChanges(c, p)
      PROVE UNCHANGED S!vars
  BY <1>3, StreamStutter DEF PeerChanges
<1>4. CASE HubTake
  <2>1. Head(broadcast) \in Servers
    BY <1>0, <1>4 DEF HubTake, TypeOK
  <2>2. S!Accept(Head(broadcast))
    BY <1>4 DEF HubTake, S!Accept, Joined, StreamWant
  <2> QED
    BY <2>1, <2>2 DEF S!Next
<1>5. ASSUME NEW c \in Clients, StartPumps(c) PROVE UNCHANGED S!vars
  <2>1. Joined' = Joined /\ StreamWant' = StreamWant
    BY <1>0, <1>5 DEF StartPumps, Joined, StreamWant, TypeOK
  <2> QED
    BY <1>5, <2>1 DEF StartPumps, S!vars
<1>6. ASSUME NEW c \in Clients, HubRegister(c) PROVE S!Next
  <2>1. c \notin Joined /\ Joined' = Joined \cup {c}
    BY <1>0, <1>6 DEF HubRegister, Joined, TypeOK
  <2>2. StreamWant' = [StreamWant EXCEPT ![c] = want[c]]
    BY <1>6, <2>1 DEF HubRegister, StreamWant
  <2>3. S!Subscribe(c, want[c])
    BY <1>6, <2>1, <2>2 DEF HubRegister, S!Subscribe
  <2>4. want[c] \in Servers \cup {NoFilter}
    BY <1>0 DEF TypeOK, Wishes
  <2> QED
    BY <2>3, <2>4 DEF S!Next
<1>7. ASSUME NEW c \in Clients, HubUnregister(c) PROVE UNCHANGED S!vars
  BY <1>7, StreamStutter DEF HubUnregister
<1>8. ASSUME NEW c \in Clients, HubSend(c) PROVE UNCHANGED S!vars
  BY <1>8, StreamStutter DEF HubSend
<1>9. ASSUME NEW c \in Clients, WriteTake(c) PROVE UNCHANGED S!vars
  BY <1>9, StreamStutter DEF WriteTake
<1>10. ASSUME NEW c \in Clients, WriteJSON(c) PROVE S!Next \/ UNCHANGED S!vars
  <2>1. writer[c] = "writing" /\ UNCHANGED <<feed, handler, want>>
    BY <1>10 DEF WriteJSON
  <2>2. CASE Broken(c)
    BY <1>10, <2>1, <2>2, StreamStutter DEF WriteJSON
  <2>3. CASE ~ Broken(c)
    <3>1. c \in Joined /\ S!IsNext(c, held[c]) /\ held[c] \in DOMAIN feed
      BY <2>1, <2>3, HeldIsNext DEF S!IsNext
    <3>2. pos' = [pos EXCEPT ![c] = held[c]]
      BY <1>10, <2>3 DEF WriteJSON
    <3>3. S!Deliver(c)
      BY <2>1, <3>1, <3>2 DEF S!Deliver, Joined, StreamWant
    <3> QED
      BY <3>3 DEF S!Next
  <2> QED
    BY <2>2, <2>3
<1>11. ASSUME NEW c \in Clients, WriteClose(c) \/ PingFails(c)
       PROVE  UNCHANGED S!vars
  BY <1>11, StreamStutter DEF WriteClose, PingFails, WriterLeaves
<1>12. ASSUME NEW c \in Clients, ReadFails(c) PROVE UNCHANGED S!vars
  BY <1>12, StreamStutter DEF ReadFails
<1>13. ASSUME NEW c \in Clients, ReaderClose(c) PROVE UNCHANGED S!vars
  BY <1>13, StreamStutter DEF ReaderClose
<1>14. CASE UNCHANGED vars
  BY <1>14, StreamStutter DEF vars
<1> QED
  BY <1>1, <1>2, <1>3, <1>4, <1>5, <1>6, <1>7, <1>8, <1>9, <1>10, <1>11,
     <1>12, <1>13, <1>14 DEF Next

\* The hub implements the stream: what reaches a connection is, from the
\* moment of registration on, every matching message in the order Run took
\* them, without gap or repetition.
THEOREM HubImplementsStream == Spec => StreamSpec
  BY Invariance, StreamInit, StreamStep, PTL DEF Spec, StreamSpec, S!Spec
=============================================================================
