---------------------------- MODULE DashboardProofs ----------------------------
(***************************************************************************)
(* Proofs about module Dashboard, for any number of gauges, batches and    *)
(* polls under way, and any limit.                                         *)
(***************************************************************************)
EXTENDS Dashboard, FiniteSetTheorems, TLAPS

-----------------------------------------------------------------------------
(* Type correctness                                                        *)

LEMMA LastAppliedType ==
  ASSUME NEW R, NEW g \in Gauges
  PROVE  /\ LastApplied(R, g) \in 0 .. MaxTime
         /\ LastApplied(R, g) # 0 => <<g, LastApplied(R, g)>> \in R
<1> DEFINE oldest == {t \in Times : <<g, t>> \in R /\ \A r \in R : r[1] = g => t <= r[2]}
<1>1. oldest = {} => LastApplied(R, g) = 0
  BY DEF LastApplied
<1>2. oldest # {} => LastApplied(R, g) \in oldest
  BY DEF LastApplied
<1>3. \A t \in Times : t \in 0 .. MaxTime
  BY LimitAssumption DEF Times
<1> HIDE DEF oldest
<1>4. CASE oldest = {}
  BY <1>1, <1>4, LimitAssumption
<1>5. CASE oldest # {}
  <2>1. LastApplied(R, g) \in Times /\ <<g, LastApplied(R, g)>> \in R
    BY <1>2, <1>5 DEF oldest
  <2> QED
    BY <2>1, <1>3
<1> QED
  BY <1>4, <1>5

LEMMA TypeInit == Init => TypeOK
  BY LimitAssumption DEF Init, TypeOK, Nothing

LEMMA TypeStep == TypeOK /\ [Next]_vars => TypeOK'
<1> SUFFICES ASSUME TypeOK, [Next]_vars PROVE TypeOK'
  OBVIOUS
<1> USE LimitAssumption
<1>0. Nothing \in [Gauges -> 0 .. MaxTime]
  BY DEF Nothing
<1>1. ASSUME NEW t \in Times, NEW batch \in SUBSET Gauges \ {{}}, Insert(t, batch)
      PROVE  TypeOK'
  <2>1. batch \X {t} \subseteq Rows
    BY DEF Rows
  <2> QED
    BY <1>1, <2>1 DEF Insert, pageVars, pollVars, TypeOK
<1>2. ASSUME NEW r \in Rows, Offer(r) PROVE TypeOK'
  <2>1. CASE UNCHANGED <<link, stream>>
    BY <1>2, <2>1 DEF Offer, pageVars, pollVars, TypeOK
  <2>2. CASE HasRoom /\ stream' = Append(stream, r) /\ UNCHANGED link
    <3>1. stream' \in Seq(Rows) /\ Len(stream') = Len(stream) + 1 /\ Len(stream) \in Nat
      BY <2>2 DEF TypeOK
    <3> QED
      BY <1>2, <2>2, <3>1 DEF Offer, HasRoom, pageVars, pollVars, TypeOK
  <2>3. CASE link' = "cut" /\ UNCHANGED stream
    BY <1>2, <2>3 DEF Offer, pageVars, pollVars, TypeOK
  <2> QED
    BY <1>2, <2>1, <2>2, <2>3 DEF Offer
<1>3. CASE Join
  BY <1>3 DEF Join, pageVars, pollVars, tableVars, TypeOK
<1>4. CASE Cut
  BY <1>4 DEF Cut, pageVars, pollVars, tableVars, TypeOK
<1>5. CASE Load
  BY <1>5 DEF Load, Connect, Behind, tableVars, TypeOK
<1>6. CASE LoadNothing
  BY <1>6 DEF LoadNothing, pollVars, tableVars, TypeOK
<1>7. CASE Open
  BY <1>7 DEF Open, pollVars, tableVars, TypeOK
<1>8. CASE Close
  BY <1>8 DEF Close, AfterClose, pollVars, tableVars, TypeOK
<1>9. CASE Reconnect
  BY <1>9 DEF Reconnect, AfterTimeout, Connect, pollVars, tableVars, TypeOK
<1>10. CASE Message
  <2>1. /\ Head(stream) \in Rows
        /\ Tail(stream) \in Seq(Rows) /\ Len(Tail(stream)) <= Len(stream)
        /\ Len(stream) \in Nat /\ Len(Tail(stream)) \in Nat
    BY <1>10 DEF Message, TypeOK
  <2>2. Head(stream)[2] \in 0 .. MaxTime
    BY <2>1 DEF Rows, Times
  <2>3. shown' \in [Gauges -> 0 .. MaxTime]
    BY <1>10, <2>2 DEF Message, HandleDiskUsage, Nothing, TypeOK
  <2>4. stream' \in Seq(Rows) /\ Len(stream') <= StreamCap
    BY <1>10, <2>1 DEF Message, TypeOK
  <2>5. UNCHANGED <<page, ws, timers, behind, link, poll, answer, metrics, fresh>>
    BY <1>10 DEF Message, pollVars, tableVars
  <2> QED
    BY <2>3, <2>4, <2>5 DEF TypeOK
<1>11. ASSUME NEW i \in Polls, Poll(i) PROVE TypeOK'
  BY <1>11 DEF Poll, pageVars, tableVars, TypeOK
<1>12. ASSUME NEW i \in Polls, GetMetrics(i) PROVE TypeOK'
  <2>1. PICK R \in SUBSET metrics :
          answer' = [answer EXCEPT ![i] = [g \in Gauges |-> LastApplied(R, g)]]
    BY <1>12 DEF GetMetrics
  <2>2. [g \in Gauges |-> LastApplied(R, g)] \in [Gauges -> 0 .. MaxTime]
    BY LastAppliedType
  <2> QED
    BY <1>12, <2>1, <2>2 DEF GetMetrics, pageVars, tableVars, TypeOK
<1>13. ASSUME NEW i \in Polls, PollFails(i) PROVE TypeOK'
  BY <1>13, <1>0 DEF PollFails, pageVars, tableVars, TypeOK
<1>14. ASSUME NEW i \in Polls, Apply(i) PROVE TypeOK'
  BY <1>14, <1>0 DEF Apply, HandleDiskUsage, tableVars, TypeOK
<1>15. CASE UNCHANGED vars
  BY <1>15 DEF vars, pageVars, pollVars, tableVars, TypeOK
<1> QED
  BY <1>1, <1>2, <1>3, <1>4, <1>5, <1>6, <1>7, <1>8, <1>9, <1>10, <1>11, <1>12,
     <1>13, <1>14, <1>15 DEF Next, Backend

\* Every variable keeps its type and the stream its capacity.
THEOREM TypeCorrect == Spec => []TypeOK
  BY TypeInit, TypeStep, PTL DEF Spec

-----------------------------------------------------------------------------
(* One source of streams                                                   *)

\* Before it is loaded a page has neither a socket nor a timer.
SocketInv ==
  /\ page # "loaded" => ws = "none" /\ timers = 0
  /\ OneSocket

LEMMA SocketInit == Init => SocketInv
  BY DEF Init, SocketInv, OneSocket

LEMMA SocketStep == TypeOK /\ SocketInv /\ [Next]_vars => SocketInv'
<1> SUFFICES ASSUME TypeOK, SocketInv, [Next]_vars PROVE SocketInv'
  OBVIOUS
<1> USE DEF SocketInv, OneSocket, TypeOK
<1>1. CASE UNCHANGED <<page, ws, timers>>
  BY <1>1
<1>2. CASE Load
  BY <1>2 DEF Load, Connect
<1>3. CASE LoadNothing
  BY <1>3 DEF LoadNothing
<1>4. CASE Open
  BY <1>4 DEF Open
<1>5. CASE Close
  BY <1>5 DEF Close, AfterClose
<1>6. CASE Reconnect
  BY <1>6 DEF Reconnect, AfterTimeout, Connect
<1>7. CASE Backend \/ Message \/ \E i \in Polls : Poll(i) \/ GetMetrics(i) \/ PollFails(i) \/ Apply(i)
  <2>1. UNCHANGED <<page, ws, timers>>
    BY <1>7 DEF Backend, Insert, Offer, Join, Cut, Message, Poll, GetMetrics, PollFails,
                Apply, pageVars
  <2> QED
    BY <2>1, <1>1
<1>8. CASE UNCHANGED vars
  BY <1>8, <1>1 DEF vars, pageVars
<1> QED
  BY <1>2, <1>3, <1>4, <1>5, <1>6, <1>7, <1>8 DEF Next

\* A loaded page has either a WebSocket or a timer that will open one.
THEOREM OneSocketAlways == Spec => []OneSocket
<1>1. Init => TypeOK /\ SocketInv
  BY TypeInit, SocketInit
<1>2. TypeOK /\ SocketInv /\ [Next]_vars => (TypeOK /\ SocketInv)'
  BY TypeStep, SocketStep
<1>3. SocketInv => OneSocket
  BY DEF SocketInv
<1> QED
  BY <1>1, <1>2, <1>3, PTL DEF Spec

-----------------------------------------------------------------------------
(* What is out of the reach of a poll stays there                          *)

Newer(t) == {s \in metrics : s[2] > t}

\* A row that was out of reach at the load is stored and done with, has as
\* many newer ones ever after, and is neither on its way to the page nor in
\* an answer.
HistoryInv ==
  /\ page = "loading" =>
       /\ link = "none" /\ stream = <<>> /\ shown = Nothing
       /\ \A i \in Polls : answer[i] = Nothing
  /\ page # "loaded" =>
       /\ link = "none" /\ ws = "none" /\ timers = 0
       /\ \A i \in Polls : poll[i] = "idle"
  /\ \A r \in behind : r \in metrics \ fresh /\ Cardinality(Newer(r[2])) >= Limit
  /\ \A j \in DOMAIN stream : stream[j] \notin behind
  /\ \A i \in Polls, g \in Gauges : <<g, answer[i][g]>> \notin behind
  /\ NoHistory

LEMMA RowsFinite == IsFiniteSet(Rows)
<1>1. IsFiniteSet(Times)
  BY FS_Interval, LimitAssumption DEF Times
<1> QED
  BY <1>1, FS_Product, GaugesAssumption DEF Rows

LEMMA MetricsFinite ==
  ASSUME TypeOK
  PROVE  \A R \in SUBSET metrics : IsFiniteSet(R) /\ Cardinality(R) \in Nat
<1> SUFFICES ASSUME NEW R \in SUBSET metrics PROVE IsFiniteSet(R) /\ Cardinality(R) \in Nat
  OBVIOUS
<1>1. R \in SUBSET Rows
  BY DEF TypeOK
<1>2. IsFiniteSet(R)
  BY <1>1, RowsFinite, FS_Subset
<1> QED
  BY <1>2, FS_CardinalityType

\* A row with Limit newer ones is in no answer: those would all come before it.
LEMMA OutOfReach ==
  ASSUME TypeOK, NEW R \in SUBSET metrics, IsAnswer(R),
         NEW r \in R, Cardinality(Newer(r[2])) >= Limit
  PROVE  FALSE
<1> DEFINE N == Newer(r[2])
<1>1. N \subseteq R
  <2>1. SUFFICES ASSUME NEW s \in N, s \notin R PROVE FALSE
    OBVIOUS
  <2>2. s \in metrics /\ s[2] > r[2]
    BY DEF Newer
  <2>3. r[2] >= s[2]
    BY <2>1, <2>2 DEF IsAnswer
  <2>4. r[2] \in Nat /\ s[2] \in Nat
    BY <2>2, LimitAssumption DEF TypeOK, Rows, Times
  <2> QED
    BY <2>2, <2>3, <2>4
<1>2. r \notin N
  BY LimitAssumption DEF Newer, TypeOK, Rows, Times
<1>3. IsFiniteSet(N) /\ Cardinality(N) \in Nat /\ IsFiniteSet(R) /\ Cardinality(R) \in Nat
  BY <1>1, MetricsFinite
<1>4. Cardinality(N \cup {r}) = Cardinality(N) + 1
  BY <1>2, <1>3, FS_AddElement
<1>5. Cardinality(N \cup {r}) <= Cardinality(R)
  <2>1. N \cup {r} \in SUBSET R
    BY <1>1
  <2> QED
    BY <2>1, <1>3, FS_Subset
<1>6. Cardinality(R) <= Limit
  BY DEF IsAnswer
<1>7. Cardinality(N) >= Limit
  OBVIOUS
<1> HIDE DEF N
<1> QED
  BY <1>3, <1>4, <1>5, <1>6, <1>7, LimitAssumption

\* Rows that are stored stay, so that no row loses newer ones.
LEMMA NewerGrows ==
  ASSUME TypeOK, TypeOK', metrics \subseteq metrics', NEW t,
         Cardinality(Newer(t)) >= Limit
  PROVE  Cardinality(Newer(t)') >= Limit
<1>1. Newer(t) \in SUBSET Newer(t)'
  BY DEF Newer
<1>2. Newer(t)' \in SUBSET Rows
  BY DEF Newer, TypeOK
<1>3. IsFiniteSet(Newer(t)')
  BY <1>2, RowsFinite, FS_Subset
<1>4. Cardinality(Newer(t)) <= Cardinality(Newer(t)')
  BY <1>1, <1>3, FS_Subset
<1>5. Cardinality(Newer(t)) \in Nat /\ Cardinality(Newer(t)') \in Nat
  BY <1>1, <1>3, FS_Subset, FS_CardinalityType
<1> QED
  BY <1>4, <1>5, LimitAssumption

LEMMA NothingStored == ASSUME NEW g PROVE <<g, 0>> \notin Rows
  BY LimitAssumption DEF Rows, Times

LEMMA HistoryInit == Init => HistoryInv
  BY DEF Init, HistoryInv, NoHistory

LEMMA HistoryStep == TypeOK /\ TypeOK' /\ HistoryInv /\ [Next]_vars => HistoryInv'
<1> SUFFICES ASSUME TypeOK, TypeOK', HistoryInv, [Next]_vars PROVE HistoryInv'
  OBVIOUS
<1> USE DEF HistoryInv, NoHistory
<1>1. ASSUME NEW t \in Times, NEW batch \in SUBSET Gauges \ {{}}, Insert(t, batch)
      PROVE  HistoryInv'
  <2>1. UNCHANGED <<page, ws, timers, shown, behind, link, stream, poll, answer>>
    BY <1>1 DEF Insert, pageVars, pollVars
  <2>2. \A r \in behind : r \in metrics' \ fresh'
    <3>1. \A r \in behind : r \in metrics /\ r[2] # t
      BY <1>1 DEF Insert
    <3> QED
      BY <1>1, <3>1 DEF Insert
  <2>3. \A r \in behind : Cardinality(Newer(r[2])') >= Limit
    BY <1>1, NewerGrows DEF Insert
  <2> QED
    BY <2>1, <2>2, <2>3 DEF Newer, Nothing
<1>2. ASSUME NEW r \in Rows, Offer(r) PROVE HistoryInv'
  <2>1. UNCHANGED <<page, ws, timers, shown, behind, poll, answer, metrics>>
    BY <1>2 DEF Offer, pageVars, pollVars
  <2>2. r \notin behind /\ fresh' \subseteq fresh
    BY <1>2 DEF Offer
  <2>3. page = "loaded" \/ UNCHANGED <<link, stream>>
    BY <1>2 DEF Offer
  <2>4. \A j \in DOMAIN stream' : stream'[j] \notin behind
    <3>1. CASE UNCHANGED stream
      BY <3>1
    <3>2. CASE stream' = Append(stream, r)
      BY <3>2, <2>2 DEF TypeOK
    <3> QED
      BY <1>2, <3>1, <3>2 DEF Offer
  <2>5. \A q \in behind : q \in metrics' \ fresh' /\ Cardinality(Newer(q[2])') >= Limit
    BY <2>1, <2>2 DEF Newer
  <2> QED
    BY <2>1, <2>3, <2>4, <2>5 DEF Nothing
<1>3. CASE Join \/ Cut
  <2>1. UNCHANGED <<page, ws, timers, shown, behind, stream, poll, answer, metrics, fresh>>
    BY <1>3 DEF Join, Cut, pageVars, pollVars, tableVars
  <2>2. page = "loaded"
    BY <1>3 DEF Join, Cut
  <2> QED
    BY <2>1, <2>2 DEF Newer, Nothing
<1>4. CASE Load
  <2>1. UNCHANGED <<timers, link, stream, answer, shown, metrics, fresh>>
    BY <1>4 DEF Load, tableVars
  <2>2. page' = "loaded" /\ behind' = Behind
    BY <1>4 DEF Load
  <2>3. stream = <<>> /\ shown = Nothing /\ \A i \in Polls : answer[i] = Nothing
    BY <1>4 DEF Load
  <2>4. \A r \in behind' : r \in metrics' \ fresh' /\ Cardinality(Newer(r[2])') >= Limit
    BY <2>1, <2>2 DEF Behind, Newer
  <2>5. \A g \in Gauges : <<g, 0>> \notin behind'
    BY <2>2, NothingStored DEF Behind, TypeOK
  <2> QED
    BY <2>1, <2>2, <2>3, <2>4, <2>5 DEF Nothing
<1>5. CASE LoadNothing
  <2>1. UNCHANGED <<ws, timers, link, stream, poll, answer, shown, behind, metrics, fresh>>
    BY <1>5 DEF LoadNothing, pollVars, tableVars
  <2>2. page = "loading" /\ page' = "over"
    BY <1>5 DEF LoadNothing
  <2> QED
    BY <2>1, <2>2 DEF Newer, Nothing
<1>6. CASE Open \/ Close \/ Reconnect
  <2>1. UNCHANGED <<page, shown, behind, poll, answer, metrics, fresh>>
    BY <1>6 DEF Open, Close, Reconnect, pollVars, tableVars
  <2>2. stream' = stream \/ stream' = <<>>
    BY <1>6 DEF Open, Close, Reconnect
  <2>3. page = "loaded"
    BY <1>6 DEF Open, Close, Reconnect, TypeOK
  <2> QED
    BY <2>1, <2>2, <2>3 DEF Newer, Nothing
<1>7. CASE Message
  <2>1. UNCHANGED <<page, ws, timers, behind, link, poll, answer, metrics, fresh>>
    BY <1>7 DEF Message, pollVars, tableVars
  <2>2. Head(stream) = stream[1] /\ 1 \in DOMAIN stream /\ Head(stream) \in Rows
    BY <1>7 DEF Message, TypeOK
  <2>3. Head(stream) = <<Head(stream)[1], Head(stream)[2]>> /\ Head(stream) \notin behind
    BY <2>2 DEF Rows
  <2>4. \A g \in Gauges : <<g, shown'[g]>> \notin behind
    BY <1>7, <2>3 DEF Message, HandleDiskUsage, Nothing, TypeOK
  <2>5. \A j \in DOMAIN stream' : stream'[j] \notin behind
    <3>1. \A j \in DOMAIN Tail(stream) : j + 1 \in DOMAIN stream /\ Tail(stream)[j] = stream[j + 1]
      BY <2>2 DEF TypeOK
    <3> QED
      BY <1>7, <3>1 DEF Message
  <2>6. page = "loaded"
    BY <1>7 DEF Message
  <2> QED
    BY <2>1, <2>4, <2>5, <2>6 DEF Newer
<1>8. ASSUME NEW i \in Polls, Poll(i) PROVE HistoryInv'
  <2>1. page = "loaded"
    BY <1>8 DEF Poll
  <2> QED
    BY <1>8, <2>1 DEF Poll, pageVars, tableVars, Newer
<1>9. ASSUME NEW i \in Polls, GetMetrics(i) PROVE HistoryInv'
  <2>1. PICK R \in SUBSET metrics :
          IsAnswer(R) /\ answer' = [answer EXCEPT ![i] = [g \in Gauges |-> LastApplied(R, g)]]
    BY <1>9 DEF GetMetrics
  <2>2. \A g \in Gauges : <<g, LastApplied(R, g)>> \notin behind
    <3>1. SUFFICES ASSUME NEW g \in Gauges, <<g, LastApplied(R, g)>> \in behind PROVE FALSE
      OBVIOUS
    <3>2. LastApplied(R, g) # 0
      BY <3>1, NothingStored DEF TypeOK
    <3>3. <<g, LastApplied(R, g)>> \in R
      BY <3>2, LastAppliedType
    <3> QED
      BY <2>1, <3>1, <3>3, OutOfReach
  <2>3. \A j \in Polls, g \in Gauges : <<g, answer'[j][g]>> \notin behind
    BY <2>1, <2>2 DEF TypeOK
  <2>4. UNCHANGED <<page, ws, timers, shown, behind, link, stream, metrics, fresh>>
    BY <1>9 DEF GetMetrics, pageVars, tableVars
  <2>5. page = "loaded"
    BY <1>9 DEF GetMetrics
  <2> QED
    BY <2>3, <2>4, <2>5 DEF Newer
<1>10. ASSUME NEW i \in Polls, PollFails(i) PROVE HistoryInv'
  <2>1. UNCHANGED <<page, ws, timers, shown, behind, link, stream, metrics, fresh>>
    BY <1>10 DEF PollFails, pageVars, tableVars
  <2>2. \A g \in Gauges : <<g, 0>> \notin behind
    BY NothingStored DEF TypeOK
  <2>3. \A j \in Polls, g \in Gauges : <<g, answer'[j][g]>> \notin behind
    BY <1>10, <2>2 DEF PollFails, Nothing, TypeOK
  <2>4. page = "loaded"
    BY <1>10 DEF PollFails
  <2> QED
    BY <2>1, <2>3, <2>4 DEF Newer, Nothing
<1>11. ASSUME NEW i \in Polls, Apply(i) PROVE HistoryInv'
  <2>1. UNCHANGED <<page, ws, timers, behind, link, stream, metrics, fresh>>
    BY <1>11 DEF Apply, tableVars
  <2>2. \A g \in Gauges : <<g, 0>> \notin behind
    BY NothingStored DEF TypeOK
  <2>3. \A j \in Polls, g \in Gauges : <<g, answer'[j][g]>> \notin behind
    BY <1>11, <2>2 DEF Apply, Nothing, TypeOK
  <2>4. \A g \in Gauges : shown'[g] \in {shown[g], answer[i][g]}
    BY <1>11 DEF Apply, HandleDiskUsage
  <2>5. \A g \in Gauges : <<g, shown'[g]>> \notin behind
    BY <2>4
  <2>6. page = "loaded"
    BY <1>11 DEF Apply
  <2> QED
    BY <2>1, <2>3, <2>5, <2>6 DEF Newer, Nothing
<1>12. CASE UNCHANGED vars
  BY <1>12 DEF vars, pageVars, pollVars, tableVars, Newer, Nothing
<1> QED
  BY <1>1, <1>2, <1>3, <1>4, <1>5, <1>6, <1>7, <1>8, <1>9, <1>10, <1>11, <1>12
     DEF Next, Backend

\* Polls that are late, fail or overtake each other show no row that was out
\* of the reach of a poll when the page was loaded.
THEOREM NoHistoryAlways == Spec => []NoHistory
<1>1. Init => TypeOK /\ HistoryInv
  BY TypeInit, HistoryInit
<1>2. TypeOK /\ HistoryInv /\ [Next]_vars => (TypeOK /\ HistoryInv)'
  BY TypeStep, HistoryStep
<1>3. HistoryInv => NoHistory
  BY DEF HistoryInv
<1> QED
  BY <1>1, <1>2, <1>3, PTL DEF Spec
================================================================================
