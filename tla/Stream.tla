------------------------------- MODULE Stream -------------------------------
(***************************************************************************)
(* What the live stream promises a subscriber, without channels, pumps or  *)
(* a hub.                                                                  *)
(*                                                                         *)
(* Messages accepted for fan-out form one feed.  A subscriber joins at the *)
(* end of the feed, asks for one server or for all of them, and is given   *)
(* the matching messages that follow, one at a time, in feed order and     *)
(* without a gap.  It may stop being served at any point, so what it has   *)
(* seen is always a prefix of what it asked for.  Module Hub implements    *)
(* this specification.                                                     *)
(***************************************************************************)
EXTENDS Naturals, Sequences

CONSTANTS Clients,    \* subscribers
          Servers,    \* monitored servers, the origins of messages
          NoFilter    \* the wish of a subscriber that wants every server

VARIABLES feed,        \* the origins of the messages accepted so far
          subscribed,  \* subscribers that have joined
          want,        \* want[c]: the server c asked for, or NoFilter
          pos          \* pos[c]: index in feed of the last message c was given

vars == <<feed, subscribed, want, pos>>

Matches(c, s) == want[c] \in {NoFilter, s}

TypeOK ==
  /\ feed \in Seq(Servers)
  /\ subscribed \subseteq Clients
  /\ want \in [Clients -> Servers \cup {NoFilter}]
  /\ pos \in [Clients -> Nat]

Init ==
  /\ feed = <<>>
  /\ subscribed = {}
  /\ want = [c \in Clients |-> NoFilter]
  /\ pos = [c \in Clients |-> 0]

Accept(s) ==
  /\ feed' = Append(feed, s)
  /\ UNCHANGED <<subscribed, want, pos>>

\* A subscriber sees nothing of what was accepted before it joined.
Subscribe(c, w) ==
  /\ c \notin subscribed
  /\ subscribed' = subscribed \cup {c}
  /\ want' = [want EXCEPT ![c] = w]
  /\ pos' = [pos EXCEPT ![c] = Len(feed)]
  /\ UNCHANGED feed

\* k is the first message after pos[c] that c asked for.
IsNext(c, k) ==
  /\ k \in DOMAIN feed
  /\ pos[c] < k
  /\ Matches(c, feed[k])
  /\ \A j \in DOMAIN feed : pos[c] < j /\ j < k => ~ Matches(c, feed[j])

Deliver(c) ==
  /\ c \in subscribed
  /\ \E k \in DOMAIN feed :
       /\ IsNext(c, k)
       /\ pos' = [pos EXCEPT ![c] = k]
  /\ UNCHANGED <<feed, subscribed, want>>

Next ==
  \/ \E s \in Servers : Accept(s)
  \/ \E c \in Clients, w \in Servers \cup {NoFilter} : Subscribe(c, w)
  \/ \E c \in Clients : Deliver(c)

Spec == Init /\ [][Next]_vars
=============================================================================
