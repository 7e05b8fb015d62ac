---------------------------- MODULE CollectProofs -----------------------------
(* What the computations of the agent return, for every input.             *)
EXTENDS Collect, SequenceTheorems, WellFoundedInduction, TLAPS

-----------------------------------------------------------------------------
(* Induction, from the order of the naturals, and what it says of a        *)
(* function that is defined by recursion.                                  *)

\* Some naturals have a least one among them.
LEMMA Least ==
  ASSUME NEW T, T \subseteq Nat, NEW z \in T
  PROVE  \E x \in T : \A y \in T : x <= y
<1> DEFINE R == OpToRel(<, Nat)
<1>1. PICK x \in T : \A y \in T : ~ (<<y, x>> \in R)
  <2>1. IsWellFoundedOn(R, Nat)
    BY NatLessThanWellFounded
  <2> HIDE DEF R
  <2> QED
    BY <2>1, WFMin
<1>2. ASSUME NEW y \in T PROVE x <= y
  <2>1. x \in Nat /\ y \in Nat
    OBVIOUS
  <2>2. y < x => <<y, x>> \in R
    BY <2>1 DEF OpToRel
  <2> HIDE DEF R
  <2> QED
    BY <1>1, <2>1, <2>2
<1> QED
  BY <1>2

\* A set with zero and the successor of each of its numbers has all naturals.
LEMMA Induction ==
  ASSUME NEW S, 0 \in S, \A n \in Nat : n \in S => n + 1 \in S
  PROVE  Nat \subseteq S
<1> DEFINE T == Nat \ S
<1> SUFFICES ASSUME NEW z \in T PROVE FALSE
  OBVIOUS
<1>1. PICK x \in T : \A y \in T : x <= y
  <2>1. T \subseteq Nat
    OBVIOUS
  <2> HIDE DEF T
  <2> QED
    BY <2>1, Least
<1>2. x # 0 /\ x - 1 \in Nat /\ x - 1 \notin S
  BY <1>1
<1> QED
  BY <1>1, <1>2

\* The same up to n, from each number to the next.
LEMMA UpTo ==
  ASSUME NEW n \in Nat, NEW S, 0 \in S, \A i \in 1 .. n : i - 1 \in S => i \in S
  PROVE  \A i \in 0 .. n : i \in S
<1> DEFINE T == {k \in Nat : k <= n => k \in S}
<1>1. 0 \in T
  OBVIOUS
<1>2. ASSUME NEW k \in Nat, k \in T PROVE k + 1 \in T
  <2> SUFFICES ASSUME k + 1 <= n PROVE k + 1 \in S
    OBVIOUS
  <2>1. k + 1 \in 1 .. n /\ (k + 1) - 1 = k /\ k \in S
    BY <1>2
  <2> QED
    BY <2>1
<1> HIDE DEF T
<1>3. Nat \subseteq T
  BY <1>1, <1>2, Induction
<1> QED
  BY <1>3 DEF T

\* f starts with b, and F[i] computes f[i] from the value before it.
Follows(f, n, b, F) == f[0] = b /\ \A i \in 1 .. n : f[i] = F[i][f[i - 1]]

\* What is defined by recursion from 0 to n exists, with values in X, if X is
\* closed under the steps.
LEMMA Recursion ==
  ASSUME NEW X, NEW n \in Nat, NEW b \in X, NEW F \in [1 .. n -> [X -> X]]
  PROVE  \E f \in [0 .. n -> X] : Follows(f, n, b, F)
<1> DEFINE T == {k \in Nat : k <= n => \E f \in [0 .. k -> X] : Follows(f, k, b, F)}
<1>1. 0 \in T
  <2> DEFINE f == [i \in 0 .. 0 |-> b]
  <2>1. f \in [0 .. 0 -> X] /\ Follows(f, 0, b, F)
    BY DEF Follows
  <2> HIDE DEF f
  <2>2. \E e \in [0 .. 0 -> X] : Follows(e, 0, b, F)
    BY <2>1
  <2> QED
    BY <2>2
<1>2. ASSUME NEW k \in Nat, k \in T PROVE k + 1 \in T
  <2> SUFFICES ASSUME k + 1 <= n
               PROVE  \E f \in [0 .. k + 1 -> X] : Follows(f, k + 1, b, F)
    OBVIOUS
  <2>1. PICK f \in [0 .. k -> X] : Follows(f, k, b, F)
    BY <1>2
  <2> DEFINE g == [i \in 0 .. k + 1 |-> IF i <= k THEN f[i] ELSE F[k + 1][f[k]]]
  <2>2. f[k] \in X /\ k + 1 \in 1 .. n /\ F[k + 1][f[k]] \in X
    OBVIOUS
  <2>3. g \in [0 .. k + 1 -> X]
    BY <2>2
  <2>4. g[0] = b
    BY <2>1 DEF Follows
  <2>5. ASSUME NEW i \in 1 .. k + 1 PROVE g[i] = F[i][g[i - 1]]
    <3>1. g[i - 1] = f[i - 1]
      OBVIOUS
    <3>2. CASE i <= k
      <4>1. i \in 1 .. k /\ g[i] = f[i]
        BY <3>2
      <4> QED
        BY <2>1, <3>1, <4>1 DEF Follows
    <3>3. CASE i = k + 1
      BY <3>1, <3>3
    <3> QED
      BY <3>2, <3>3
  <2>6. Follows(g, k + 1, b, F)
    BY <2>4, <2>5 DEF Follows
  <2> HIDE DEF g
  <2> QED
    BY <2>3, <2>6
<1> HIDE DEF T
<1>3. Nat \subseteq T
  BY <1>1, <1>2, Induction
<1>4. n \in T
  BY <1>3
<1> QED
  BY <1>4 DEF T

-----------------------------------------------------------------------------
(* Lists: what ForEach puts together, and the processes that are listed.   *)

\* s is a list of the elements of S, and of each of them.
Lists(s, S) == s \in Seq(S) /\ Range(s) = S

\* The rows of a list of lists are those of each of them, and no others.
LEMMA Flattened ==
  ASSUME NEW S, NEW seqs \in Seq(Seq(S))
  PROVE  /\ FlattenSeq(seqs) \in Seq(S)
         /\ Range(FlattenSeq(seqs)) = UNION {Range(seqs[i]) : i \in DOMAIN seqs}
<1> DEFINE n == Len(seqs)
           flatten[i \in 1 .. n] == IF i = 1 THEN seqs[i] ELSE flatten[i - 1] \o seqs[i]
           Rec(f) == f = [i \in 1 .. n |-> IF i = 1 THEN seqs[i] ELSE f[i - 1] \o seqs[i]]
<1>1. n \in Nat /\ DOMAIN seqs = 1 .. n /\ \A i \in 1 .. n : seqs[i] \in Seq(S)
  BY LenProperties, ElementOfSeq
<1>2. CASE n = 0
  <2>1. seqs = <<>>
    BY <1>2, EmptySeq
  <2>2. FlattenSeq(seqs) = <<>> /\ DOMAIN seqs = {}
    BY <1>1, <1>2, <2>1 DEF FlattenSeq
  <2>3. <<>> \in Seq(S) /\ Range(<<>>) = {}
    BY DEF Range
  <2> QED
    BY <2>2, <2>3
<1>3. CASE n > 0
  <2>1. FlattenSeq(seqs) = flatten[n]
    BY <1>3 DEF FlattenSeq
  <2>2. \E f : Rec(f)
    <3> DEFINE F == [i \in 1 .. n |-> [s \in Seq(S) |->
                       IF i = 1 THEN seqs[i] ELSE s \o seqs[i]]]
    <3>1. F \in [1 .. n -> [Seq(S) -> Seq(S)]]
      <4>1. ASSUME NEW i \in 1 .. n, NEW s \in Seq(S)
            PROVE  (IF i = 1 THEN seqs[i] ELSE s \o seqs[i]) \in Seq(S)
        BY <1>1, ConcatProperties
      <4> QED
        BY <4>1
    <3>2. ASSUME NEW i \in 1 .. n, NEW s \in Seq(S)
          PROVE  F[i][s] = IF i = 1 THEN seqs[i] ELSE s \o seqs[i]
      OBVIOUS
    <3>3. <<>> \in Seq(S)
      OBVIOUS
    <3> HIDE DEF F, n, Rec
    <3>4. PICK f \in [0 .. n -> Seq(S)] : Follows(f, n, <<>>, F)
      BY <1>1, <3>1, <3>3, Recursion
    <3> DEFINE g == [i \in 1 .. n |-> f[i]]
    <3>5. ASSUME NEW i \in 1 .. n
          PROVE  g[i] = IF i = 1 THEN seqs[i] ELSE g[i - 1] \o seqs[i]
      <4>1. i - 1 \in 0 .. n /\ f[i - 1] \in Seq(S)
        BY <1>1
      <4>2. f[i] = IF i = 1 THEN seqs[i] ELSE f[i - 1] \o seqs[i]
        BY <3>2, <3>4, <4>1 DEF Follows
      <4>3. CASE i = 1
        BY <4>2, <4>3
      <4>4. CASE i # 1
        <5>1. i - 1 \in 1 .. n
          BY <1>1, <4>4
        <5> QED
          BY <4>2, <4>4, <5>1
      <4> QED
        BY <4>3, <4>4
    <3>6. Rec(g)
      BY <3>5 DEF Rec
    <3> QED
      BY <3>6
  <2>3. flatten = CHOOSE f : Rec(f)
    OBVIOUS
  <2>4. Rec(flatten)
    <3> HIDE DEF Rec, flatten
    <3> QED
      BY <2>2, <2>3
  <2>5. \A i \in 1 .. n : flatten[i] = IF i = 1 THEN seqs[i] ELSE flatten[i - 1] \o seqs[i]
    <3> HIDE DEF flatten
    <3> QED
      BY <2>4
  <2> HIDE DEF flatten
  <2> DEFINE U(k) == UNION {Range(seqs[i]) : i \in 1 .. k}
             Sound(k) == flatten[k] \in Seq(S) /\ Range(flatten[k]) = U(k)
             Good == {k \in 0 .. n : k # 0 => Sound(k)}
  <2>6. ASSUME NEW k \in 1 .. n, k # 1 => Sound(k - 1) PROVE Sound(k)
    <3>1. CASE k = 1
      <4>1. flatten[1] = seqs[1] /\ seqs[1] \in Seq(S)
        BY <1>1, <1>3, <2>5
      <4>2. U(1) = Range(seqs[1])
        <5>1. 1 .. 1 = {1}
          OBVIOUS
        <5> QED
          BY <5>1
      <4> QED
        BY <1>1, <3>1, <4>1, <4>2
    <3>2. CASE k # 1
      <4>1. k - 1 # 0 /\ k - 1 \in 1 .. n
        BY <1>1, <3>2
      <4>2. U(k) = U(k - 1) \cup Range(seqs[k])
        <5>1. \A i \in 1 .. k : i \in 1 .. k - 1 \/ i = k
          OBVIOUS
        <5>2. \A i \in 1 .. k - 1 : i \in 1 .. k
          OBVIOUS
        <5>3. k \in 1 .. k
          OBVIOUS
        <5> QED
          BY <5>1, <5>2, <5>3
      <4> HIDE DEF U
      <4>3. flatten[k - 1] \in Seq(S) /\ Range(flatten[k - 1]) = U(k - 1)
        BY <2>6, <3>2
      <4>4. flatten[k] = flatten[k - 1] \o seqs[k] /\ seqs[k] \in Seq(S)
        BY <1>1, <2>5, <3>2
      <4>5. flatten[k] \in Seq(S) /\ Range(flatten[k]) = U(k - 1) \cup Range(seqs[k])
        BY <4>3, <4>4, ConcatProperties, RangeConcatenation
      <4> QED
        BY <1>1, <4>2, <4>5
    <3> QED
      BY <3>1, <3>2
  <2> HIDE DEF Sound, U, n
  <2>7. 0 \in Good
    BY <1>1
  <2>8. \A k \in 1 .. n : k - 1 \in Good => k \in Good
    <3> TAKE k \in 1 .. n
    <3> HAVE k - 1 \in Good
    <3>1. k # 1 => Sound(k - 1)
      BY <1>1
    <3>2. Sound(k)
      BY <2>6, <3>1
    <3> QED
      BY <1>1, <3>2
  <2>9. \A k \in 0 .. n : k \in Good
    <3> HIDE DEF Good
    <3> QED
      BY <1>1, <2>7, <2>8, UpTo
  <2>10. Sound(n)
    BY <1>1, <1>3, <2>9
  <2>11. U(n) = UNION {Range(seqs[i]) : i \in DOMAIN seqs}
    BY <1>1 DEF U
  <2> QED
    BY <2>1, <2>10, <2>11 DEF Sound
<1> QED
  BY <1>1, <1>2, <1>3

LEMMA AppendedRange ==
  ASSUME NEW S, NEW s \in Seq(S), NEW e \in S
  PROVE  Range(Append(s, e)) = Range(s) \cup {e}
<1>1. PICK t : t = <<e>>
  OBVIOUS
<1>2. Append(s, e) = s \o t
  BY <1>1, AppendIsConcat
<1>3. t \in Seq(S) /\ Range(t) = {e}
  BY <1>1 DEF Range
<1> QED
  BY <1>2, <1>3, RangeConcatenation

\* The processes listed (CollectProcesses) are those with a name among the
\* first n, for some n; only a full list leaves out what comes after them.
THEOREM FirstListed ==
  ASSUME NEW host, NEW P, host.processes \in Seq(P)
  PROVE  LET list == CollectProcesses(host)
             Entries(n) == {Listed(host.processes[i]) :
                              i \in {j \in 1 .. n : host.processes[j].named}}
         IN  \E n \in 0 .. Len(host.processes) :
               /\ Lists(list, Entries(n))
               /\ Len(list) <= MaxListed
               /\ n = Len(host.processes) \/ Len(list) = MaxListed
<1> DEFINE N == Len(host.processes)
           Named(i) == host.processes[i].named
           L(i) == Listed(host.processes[i])
           Entries(n) == {L(i) : i \in {j \in 1 .. n : Named(j)}}
           All == {L(i) : i \in 1 .. N}
           processes[i \in 0 .. Len(host.processes)] ==
             IF i = 0 THEN <<>>
             ELSE IF Len(processes[i - 1]) < MaxListed /\ host.processes[i].named
             THEN Append(processes[i - 1], Listed(host.processes[i]))
             ELSE processes[i - 1]
           Rec(f) == f = [i \in 0 .. Len(host.processes) |->
             IF i = 0 THEN <<>>
             ELSE IF Len(f[i - 1]) < MaxListed /\ host.processes[i].named
             THEN Append(f[i - 1], Listed(host.processes[i]))
             ELSE f[i - 1]]
           Step(i, s) == IF Len(s) < MaxListed /\ Named(i) THEN Append(s, L(i)) ELSE s
<1>1. N \in Nat /\ MaxListed \in Nat /\ MaxListed > 0
  BY LenProperties, CollectAssumption
<1>2. CollectProcesses(host) = processes[N]
  BY DEF CollectProcesses
<1>3. \E f : f \in [0 .. N -> Seq(All)] /\ Rec(f)
  <2> HIDE DEF L, Named
  <2> DEFINE F == [i \in 1 .. N |-> [s \in Seq(All) |-> Step(i, s)]]
  <2>1. F \in [1 .. N -> [Seq(All) -> Seq(All)]]
    <3>1. ASSUME NEW i \in 1 .. N, NEW s \in Seq(All) PROVE Step(i, s) \in Seq(All)
      <4>1. L(i) \in All
        OBVIOUS
      <4> HIDE DEF All
      <4> QED
        BY <4>1, AppendProperties
    <3> QED
      BY <3>1
  <2>2. ASSUME NEW i \in 1 .. N, NEW s \in Seq(All) PROVE F[i][s] = Step(i, s)
    OBVIOUS
  <2>3. <<>> \in Seq(All)
    OBVIOUS
  <2> HIDE DEF F, N, Rec, All
  <2>4. PICK f \in [0 .. N -> Seq(All)] : Follows(f, N, <<>>, F)
    BY <1>1, <2>1, <2>3, Recursion
  <2>5. ASSUME NEW i \in 0 .. N PROVE f[i] = IF i = 0 THEN <<>> ELSE Step(i, f[i - 1])
    <3>1. CASE i = 0
      BY <2>4, <3>1 DEF Follows
    <3>2. CASE i # 0
      <4>1. i \in 1 .. N /\ i - 1 \in 0 .. N /\ f[i - 1] \in Seq(All)
        BY <1>1, <3>2
      <4> QED
        BY <2>2, <2>4, <3>2, <4>1 DEF Follows
    <3> QED
      BY <3>1, <3>2
  <2>6. Rec(f)
    BY <2>5 DEF Rec, L, Named, N
  <2> QED
    BY <2>6
<1>4. processes = CHOOSE f : Rec(f)
  OBVIOUS
<1>5. Rec(processes)
  <2> HIDE DEF Rec, processes
  <2> QED
    BY <1>3, <1>4
<1>6. /\ processes[0] = <<>>
      /\ \A i \in 1 .. N : processes[i] = Step(i, processes[i - 1])
  <2> HIDE DEF processes
  <2>1. ASSUME NEW i \in 0 .. N
        PROVE  processes[i] = IF i = 0 THEN <<>> ELSE Step(i, processes[i - 1])
    BY <1>5
  <2> HIDE DEF Step, Rec
  <2>2. 0 \in 0 .. N /\ \A i \in 1 .. N : i \in 0 .. N /\ i # 0
    BY <1>1
  <2> QED
    BY <2>1, <2>2
<1> HIDE DEF processes, Rec
<1> DEFINE Up(k, n) == /\ processes[k] \in Seq(Entries(n)) /\ Range(processes[k]) = Entries(n)
                       /\ Len(processes[k]) <= MaxListed
                       /\ n = k \/ Len(processes[k]) = MaxListed
           Good == {k \in 0 .. N : \E n \in 0 .. k : Up(k, n)}
<1>7. ASSUME NEW n \in Nat PROVE Entries(n + 1) = Entries(n) \cup (IF Named(n + 1) THEN {L(n + 1)} ELSE {})
  <2> HIDE DEF L, Named
  <2>1. \A j : j \in 1 .. n + 1 <=> j \in 1 .. n \/ j = n + 1
    OBVIOUS
  <2> QED
    BY <2>1
<1>8. Entries(0) = {}
  OBVIOUS
<1> HIDE DEF Entries, L, Named
<1>9. 0 \in Good
  <2>1. <<>> \in Seq(Entries(0)) /\ Range(<<>>) = Entries(0) /\ Len(<<>>) = 0
    BY <1>8 DEF Range
  <2>2. Up(0, 0)
    BY <1>1, <1>6, <2>1
  <2> HIDE DEF Up
  <2> QED
    BY <1>1, <2>2
<1>10. ASSUME NEW k \in Nat, k + 1 \in 1 .. N, NEW n \in 0 .. k, Up(k, n)
       PROVE  \E m \in 0 .. k + 1 : Up(k + 1, m)
  <2> DEFINE s == processes[k]
  <2>1. processes[k + 1] = Step(k + 1, s)
    BY <1>6, <1>10
  <2>2. Len(s) \in Nat
    BY <1>10, LenProperties
  <2>3. CASE Len(s) < MaxListed
    <3>1. n = k /\ s \in Seq(Entries(k)) /\ Range(s) = Entries(k)
      BY <1>1, <1>10, <2>2, <2>3
    <3>2. CASE Named(k + 1)
      <4>1. /\ processes[k + 1] = Append(s, L(k + 1))
            /\ Entries(k + 1) = Entries(k) \cup {L(k + 1)}
        BY <1>7, <2>1, <2>3, <3>2
      <4>2. s \in Seq(Entries(k + 1)) /\ L(k + 1) \in Entries(k + 1)
        BY <3>1, <4>1, SeqMonotonic
      <4>3. /\ Append(s, L(k + 1)) \in Seq(Entries(k + 1))
            /\ Range(Append(s, L(k + 1))) = Entries(k + 1)
            /\ Len(Append(s, L(k + 1))) = Len(s) + 1
        <5>1. PICK E, e : E = Entries(k + 1) /\ e = L(k + 1)
          OBVIOUS
        <5>2. s \in Seq(E) /\ e \in E
          BY <4>2, <5>1
        <5>3. /\ Append(s, e) \in Seq(E) /\ Len(Append(s, e)) = Len(s) + 1
              /\ Range(Append(s, e)) = Range(s) \cup {e}
          BY <5>2, AppendProperties, AppendedRange
        <5>4. Range(s) \cup {e} = E
          BY <3>1, <4>1, <5>1
        <5> HIDE DEF s
        <5> QED
          BY <5>1, <5>3, <5>4
      <4>4. Up(k + 1, k + 1)
        <5>1. processes[k + 1] = Append(s, L(k + 1)) /\ Len(s) + 1 <= MaxListed
          BY <1>1, <2>2, <2>3, <4>1
        <5> QED
          BY <4>3, <5>1
      <4> HIDE DEF Up
      <4> QED
        BY <4>4
    <3>3. CASE ~ Named(k + 1)
      <4>1. processes[k + 1] = s /\ Entries(k + 1) = Entries(k)
        BY <1>7, <2>1, <2>3, <3>3
      <4>2. Up(k + 1, k + 1)
        BY <1>1, <2>2, <2>3, <3>1, <4>1
      <4> HIDE DEF Up
      <4> QED
        BY <4>2
    <3> QED
      BY <3>2, <3>3
  <2>4. CASE ~ (Len(s) < MaxListed)
    <3>1. processes[k + 1] = s /\ Len(s) = MaxListed
      BY <1>1, <1>10, <2>1, <2>2, <2>4
    <3>2. Up(k + 1, n)
      BY <1>10, <3>1
    <3> HIDE DEF Up
    <3> QED
      BY <3>2
  <2> QED
    BY <2>3, <2>4
<1> HIDE DEF Up
<1>11. \A k \in 1 .. N : k - 1 \in Good => k \in Good
  <2> TAKE k \in 1 .. N
  <2> HAVE k - 1 \in Good
  <2>1. PICK n \in 0 .. k - 1 : Up(k - 1, n)
    OBVIOUS
  <2>2. k - 1 \in Nat /\ (k - 1) + 1 = k
    BY <1>1
  <2>3. \E m \in 0 .. k : Up(k, m)
    BY <1>10, <2>1, <2>2
  <2> QED
    BY <1>1, <2>3
<1>12. \A k \in 0 .. N : k \in Good
  <2> HIDE DEF Good, N
  <2> QED
    BY <1>1, <1>9, <1>11, UpTo
<1>13. PICK n \in 0 .. N : Up(N, n)
  BY <1>1, <1>12
<1> QED
  BY <1>2, <1>13 DEF Up, Entries, L, Named, Lists

-----------------------------------------------------------------------------
(* The rows of CollectMetrics.                                             *)

LEMMA ListsOne ==
  ASSUME NEW a PROVE Lists(<<a>>, {a})
BY DEF Lists, Range

LEMMA ListsThree ==
  ASSUME NEW a, NEW b, NEW c PROVE Lists(<<a, b, c>>, {a, b, c})
BY DEF Lists, Range

LEMMA ListsFour ==
  ASSUME NEW a, NEW b, NEW c, NEW d PROVE Lists(<<a, b, c, d>>, {a, b, c, d})
BY DEF Lists, Range

LEMMA ListsSix ==
  ASSUME NEW a, NEW b, NEW c, NEW d, NEW e, NEW f
  PROVE  Lists(<<a, b, c, d, e, f>>, {a, b, c, d, e, f})
BY DEF Lists, Range

LEMMA ListsSeven ==
  ASSUME NEW a, NEW b, NEW c, NEW d, NEW e, NEW f, NEW g
  PROVE  Lists(<<a, b, c, d, e, f, g>>, {a, b, c, d, e, f, g})
BY DEF Lists, Range

RowSet(type, N, key) == {Row(type, n, key, Some) : n \in N}

LEMMA ListsRows ==
  ASSUME NEW type, NEW key, NEW names, NEW N, Lists(names, N)
  PROVE  Lists(Rows(type, names, key), RowSet(type, N, key))
<1>1. /\ DOMAIN names = 1 .. Len(names) /\ Len(names) \in Nat
      /\ \A i \in DOMAIN names : names[i] \in N
      /\ \A n \in N : \E i \in DOMAIN names : names[i] = n
  BY LenProperties, ElementOfSeq DEF Lists, Range
<1>2. ASSUME NEW i \in DOMAIN names PROVE Row(type, names[i], key, Some) \in RowSet(type, N, key)
  BY <1>1 DEF RowSet
<1>3. Rows(type, names, key) \in Seq(RowSet(type, N, key))
  BY <1>1, <1>2 DEF Rows
<1>4. Range(Rows(type, names, key)) = {Row(type, names[i], key, Some) : i \in DOMAIN names}
  BY DEF Rows, Range
<1>5. Range(Rows(type, names, key)) = RowSet(type, N, key)
  BY <1>1, <1>4 DEF RowSet
<1> QED
  BY <1>3, <1>5 DEF Lists

LEMMA ListsOf ==
  ASSUME NEW host, NEW source, NEW rows, NEW S, Lists(rows, S)
  PROVE  Lists(Of(host, source, rows), IF source \in host.fails THEN {} ELSE S)
<1>1. CASE source \in host.fails
  <2>1. <<>> \in Seq({}) /\ Range(<<>>) = {}
    BY DEF Range
  <2> QED
    BY <1>1, <2>1 DEF Of, Lists
<1>2. CASE source \notin host.fails
  BY <1>2 DEF Of
<1> QED
  BY <1>1, <1>2

LEMMA ListsJoined ==
  ASSUME NEW s, NEW S, NEW t, NEW T, Lists(s, S), Lists(t, T)
  PROVE  Lists(s \o t, S \cup T)
<1>1. PICK U : U = S \cup T
  OBVIOUS
<1>2. s \in Seq(U) /\ t \in Seq(U)
  BY <1>1, SeqMonotonic DEF Lists
<1>3. s \o t \in Seq(U) /\ Range(s \o t) = Range(s) \cup Range(t)
  BY <1>2, ConcatProperties, RangeConcatenation
<1> QED
  BY <1>1, <1>3 DEF Lists

\* seqs has n lists, of the elements of G[1] to G[n].
AreLists(seqs, G, n) == seqs = [i \in 1 .. n |-> seqs[i]] /\ \A i \in 1 .. n : Lists(seqs[i], G[i])

AllOf(G, n) == UNION {G[i] : i \in 1 .. n}

LEMMA ListsFlat ==
  ASSUME NEW seqs, NEW n \in Nat, NEW G, AreLists(seqs, G, n)
  PROVE  Lists(FlattenSeq(seqs), AllOf(G, n))
<1> USE DEF AreLists, AllOf
<1>1. PICK S : S = UNION {G[i] : i \in 1 .. n}
  OBVIOUS
<1>2. ASSUME NEW i \in 1 .. n PROVE seqs[i] \in Seq(S) /\ Range(seqs[i]) = G[i]
  <2>1. G[i] \subseteq S
    BY <1>1
  <2> QED
    BY <2>1, SeqMonotonic DEF Lists
<1>3. seqs \in Seq(Seq(S))
  BY <1>2
<1>4. FlattenSeq(seqs) \in Seq(S) /\ Range(FlattenSeq(seqs)) = UNION {Range(seqs[i]) : i \in 1 .. n}
  BY <1>3, Flattened
<1>5. UNION {Range(seqs[i]) : i \in 1 .. n} = S
  BY <1>1, <1>2
<1> QED
  BY <1>1, <1>4, <1>5 DEF Lists

\* The lists of a host are lists: all that is needed for its rows to be rows.
Readable(host) ==
  \A list \in {host.vcpus, host.mounts, host.disks, host.interfaces} : Lists(list, Range(list))

Answer(host, source, S) == IF source \in host.fails THEN {} ELSE S

CpuTimes == {"user", "system", "idle", "nice", "iowait", "irq"}
Loads    == {"load1", "load5", "load15"}
Memory   == {"memory_used_percent", "memory_total", "memory_used", "memory_free",
             "memory_shared", "memory_buffers", "memory_cached"}
Disk     == {"disk_used_percent", "disk_total", "disk_used"}
DiskIO   == {"read_bytes", "write_bytes", "read_count", "write_count", "read_time", "write_time"}

\* The rows of a partition and of an interface.
MountSet(host, path) == Answer(host, path, RowSet("disk_usage", Disk, path))

IOSet(io) ==
  { Row("network_interface", "bytes_sent", io.name, io.sent),
    Row("network_interface", "bytes_recv", io.name, io.recv),
    Row("network_interface", "packets_sent", io.name, Some),
    Row("network_interface", "packets_recv", io.name, Some) }

\* The rows of each part of CollectMetrics.
CpuSet(host) ==
  Answer(host, "cpu", RowSet("cpu_usage", {"cpu_total"}, ""))
  \cup Answer(host, "times", RowSet("cpu_times", CpuTimes, ""))
  \cup Answer(host, "vcpus", RowSet("vcpu_usage", Range(host.vcpus), ""))

SwapSet(host) ==
  { Row("swap_usage", "swap_used_percent", "", host.swapUsed),
    Row("swap_usage", "swap_total", "", Some),
    Row("swap_usage", "swap_used", "", host.swapUsed),
    Row("swap_usage", "swap_free", "", Some) }

DiskSet(host) ==
  Answer(host, "partitions", UNION {MountSet(host, path) : path \in Range(host.mounts)})

DiskIOSet(host) ==
  Answer(host, "io", UNION {RowSet("disk_io", DiskIO, device) : device \in Range(host.disks)})

NetworkSet(host) == Answer(host, "network", RowSet("network_usage", {"bytes_sent", "bytes_recv"}, ""))

InterfaceSet(host) ==
  Answer(host, "interfaces", UNION {IOSet(io) : io \in Range(host.interfaces)})

LatencySet(host) == Answer(host, "latency", RowSet("network_latency", {"latency_ms"}, ""))

LEMMA CpuListed ==
  ASSUME NEW host, Readable(host) PROVE Lists(CpuRows(host), CpuSet(host))
<1> DEFINE a == Rows("cpu_usage", <<"cpu_total">>, "")
           b == Rows("cpu_times", <<"user", "system", "idle", "nice", "iowait", "irq">>, "")
           c == Rows("vcpu_usage", host.vcpus, "")
           x == Of(host, "cpu", a)
           y == Of(host, "times", b)
           z == Of(host, "vcpus", c)
<1>1. Lists(a, RowSet("cpu_usage", {"cpu_total"}, ""))
  <2>1. Lists(<<"cpu_total">>, {"cpu_total"})
    BY ListsOne
  <2> QED
    BY <2>1, ListsRows
<1>2. Lists(b, RowSet("cpu_times", CpuTimes, ""))
  <2>1. Lists(<<"user", "system", "idle", "nice", "iowait", "irq">>, CpuTimes)
    BY ListsSix DEF CpuTimes
  <2> QED
    BY <2>1, ListsRows
<1>3. Lists(c, RowSet("vcpu_usage", Range(host.vcpus), ""))
  BY ListsRows DEF Readable
<1> HIDE DEF a, b, c
<1>4. /\ Lists(x, Answer(host, "cpu", RowSet("cpu_usage", {"cpu_total"}, "")))
      /\ Lists(y, Answer(host, "times", RowSet("cpu_times", CpuTimes, "")))
      /\ Lists(z, Answer(host, "vcpus", RowSet("vcpu_usage", Range(host.vcpus), "")))
  BY <1>1, <1>2, <1>3, ListsOf DEF Answer
<1>5. CpuRows(host) = x \o y \o z
  BY DEF CpuRows, a, b, c
<1> HIDE DEF x, y, z
<1> QED
  <2>1. Lists(x \o y, Answer(host, "cpu", RowSet("cpu_usage", {"cpu_total"}, ""))
                      \cup Answer(host, "times", RowSet("cpu_times", CpuTimes, "")))
    BY <1>4, ListsJoined
  <2>2. Lists(x \o y \o z, CpuSet(host))
    BY <1>4, <2>1, ListsJoined, Zenon DEF CpuSet
  <2> QED
    BY <1>5, <2>2

LEMMA FixedListed ==
  ASSUME NEW host
  PROVE  /\ Lists(LoadRows, RowSet("load_average", Loads, ""))
         /\ Lists(MemoryRows, RowSet("memory_usage", Memory, ""))
         /\ Lists(SwapRows(host), SwapSet(host))
         /\ Lists(NetworkRows(host), NetworkSet(host))
         /\ Lists(LatencyRows(host), LatencySet(host))
<1>1. Lists(LoadRows, RowSet("load_average", Loads, ""))
  <2>1. Lists(<<"load1", "load5", "load15">>, Loads)
    BY ListsThree DEF Loads
  <2> QED
    BY <2>1, ListsRows DEF LoadRows
<1>2. Lists(MemoryRows, RowSet("memory_usage", Memory, ""))
  <2>1. Lists(<<"memory_used_percent", "memory_total", "memory_used", "memory_free",
                "memory_shared", "memory_buffers", "memory_cached">>, Memory)
    BY ListsSeven DEF Memory
  <2> QED
    BY <2>1, ListsRows DEF MemoryRows
<1>3. Lists(SwapRows(host), SwapSet(host))
  BY ListsFour DEF SwapRows, SwapSet
<1>4. Lists(NetworkRows(host), NetworkSet(host))
  <2>1. Lists(<<"bytes_sent", "bytes_recv">>, {"bytes_sent", "bytes_recv"})
    BY DEF Lists, Range
  <2>2. Lists(Rows("network_usage", <<"bytes_sent", "bytes_recv">>, ""),
              RowSet("network_usage", {"bytes_sent", "bytes_recv"}, ""))
    BY <2>1, ListsRows
  <2> QED
    BY <2>2, ListsOf DEF NetworkRows, NetworkSet, Answer
<1>5. Lists(LatencyRows(host), LatencySet(host))
  <2>1. Lists(<<"latency_ms">>, {"latency_ms"})
    BY ListsOne
  <2>2. Lists(Rows("network_latency", <<"latency_ms">>, ""),
              RowSet("network_latency", {"latency_ms"}, ""))
    BY <2>1, ListsRows
  <2> QED
    BY <2>2, ListsOf DEF LatencyRows, LatencySet, Answer
<1> QED
  BY <1>1, <1>2, <1>3, <1>4, <1>5

LEMMA DiskListed ==
  ASSUME NEW host, Readable(host) PROVE Lists(DiskRows(host), DiskSet(host))
<1> DEFINE mounts == host.mounts
           G == [i \in DOMAIN mounts |-> MountSet(host, mounts[i])]
           seqs == [i \in DOMAIN mounts |->
             Of(host, mounts[i],
                Rows("disk_usage", <<"disk_used_percent", "disk_total", "disk_used">>, mounts[i]))]
<1>1. /\ DOMAIN mounts = 1 .. Len(mounts) /\ Len(mounts) \in Nat
      /\ \A path : path \in Range(mounts) <=> \E i \in DOMAIN mounts : mounts[i] = path
  BY LenProperties DEF Readable, Lists, Range
<1>2. ASSUME NEW i \in DOMAIN mounts PROVE Lists(seqs[i], MountSet(host, mounts[i]))
  <2>1. Lists(<<"disk_used_percent", "disk_total", "disk_used">>, Disk)
    BY ListsThree DEF Disk
  <2> QED
    BY <2>1, ListsRows, ListsOf DEF MountSet, Answer
<1>3. DOMAIN seqs = DOMAIN mounts /\ seqs = [i \in DOMAIN mounts |-> seqs[i]]
  OBVIOUS
<1> HIDE DEF seqs
<1>4. Lists(FlattenSeq(seqs), UNION {G[i] : i \in DOMAIN mounts})
  <2>1. PICK n \in Nat : DOMAIN mounts = 1 .. n
    BY <1>1
  <2>2. AreLists(seqs, G, n)
    BY <1>2, <1>3, <2>1 DEF AreLists
  <2> HIDE DEF G
  <2>3. Lists(FlattenSeq(seqs), AllOf(G, n))
    BY <2>2, ListsFlat
  <2> QED
    BY <2>1, <2>3 DEF AllOf
<1>5. UNION {G[i] : i \in DOMAIN mounts} = UNION {MountSet(host, path) : path \in Range(mounts)}
  BY <1>1
<1> QED
  BY <1>4, <1>5, ListsOf DEF DiskRows, DiskSet, ForEach, Answer, seqs

LEMMA DiskIOListed ==
  ASSUME NEW host, Readable(host) PROVE Lists(DiskIORows(host), DiskIOSet(host))
<1> DEFINE disks == host.disks
           G == [i \in DOMAIN disks |-> RowSet("disk_io", DiskIO, disks[i])]
           seqs == [i \in DOMAIN disks |->
             Rows("disk_io", <<"read_bytes", "write_bytes", "read_count", "write_count",
                               "read_time", "write_time">>, disks[i])]
<1>1. /\ DOMAIN disks = 1 .. Len(disks) /\ Len(disks) \in Nat
      /\ \A d : d \in Range(disks) <=> \E i \in DOMAIN disks : disks[i] = d
  BY LenProperties DEF Readable, Lists, Range
<1>2. ASSUME NEW i \in DOMAIN disks PROVE Lists(seqs[i], RowSet("disk_io", DiskIO, disks[i]))
  <2>1. Lists(<<"read_bytes", "write_bytes", "read_count", "write_count",
                "read_time", "write_time">>, DiskIO)
    BY ListsSix DEF DiskIO
  <2> QED
    BY <2>1, ListsRows
<1>3. DOMAIN seqs = DOMAIN disks /\ seqs = [i \in DOMAIN disks |-> seqs[i]]
  OBVIOUS
<1> HIDE DEF seqs
<1>4. Lists(FlattenSeq(seqs), UNION {G[i] : i \in DOMAIN disks})
  <2>1. PICK n \in Nat : DOMAIN disks = 1 .. n
    BY <1>1
  <2>2. AreLists(seqs, G, n)
    BY <1>2, <1>3, <2>1 DEF AreLists
  <2> HIDE DEF G
  <2>3. Lists(FlattenSeq(seqs), AllOf(G, n))
    BY <2>2, ListsFlat
  <2> QED
    BY <2>1, <2>3 DEF AllOf
<1>5. UNION {G[i] : i \in DOMAIN disks} = UNION {RowSet("disk_io", DiskIO, d) : d \in Range(disks)}
  BY <1>1
<1> QED
  BY <1>4, <1>5, ListsOf DEF DiskIORows, DiskIOSet, ForEach, Answer, seqs

LEMMA InterfacesListed ==
  ASSUME NEW host, Readable(host) PROVE Lists(InterfaceRows(host), InterfaceSet(host))
<1> DEFINE items == host.interfaces
           G == [i \in DOMAIN items |-> IOSet(items[i])]
           seqs == [i \in DOMAIN items |->
             << Row("network_interface", "bytes_sent", items[i].name, items[i].sent),
                Row("network_interface", "bytes_recv", items[i].name, items[i].recv),
                Row("network_interface", "packets_sent", items[i].name, Some),
                Row("network_interface", "packets_recv", items[i].name, Some) >>]
<1>1. /\ DOMAIN items = 1 .. Len(items) /\ Len(items) \in Nat
      /\ \A x : x \in Range(items) <=> \E i \in DOMAIN items : items[i] = x
  BY LenProperties DEF Readable, Lists, Range
<1>2. ASSUME NEW i \in DOMAIN items PROVE Lists(seqs[i], IOSet(items[i]))
  BY ListsFour DEF IOSet
<1>3. DOMAIN seqs = DOMAIN items /\ seqs = [i \in DOMAIN items |-> seqs[i]]
  OBVIOUS
<1> HIDE DEF seqs
<1>4. Lists(FlattenSeq(seqs), UNION {G[i] : i \in DOMAIN items})
  <2>1. PICK n \in Nat : DOMAIN items = 1 .. n
    BY <1>1
  <2>2. AreLists(seqs, G, n)
    BY <1>2, <1>3, <2>1 DEF AreLists
  <2> HIDE DEF G
  <2>3. Lists(FlattenSeq(seqs), AllOf(G, n))
    BY <2>2, ListsFlat
  <2> QED
    BY <2>1, <2>3 DEF AllOf
<1>5. UNION {G[i] : i \in DOMAIN items} = UNION {IOSet(io) : io \in Range(items)}
  BY <1>1
<1> QED
  BY <1>4, <1>5, ListsOf DEF InterfaceRows, InterfaceSet, ForEach, Answer, seqs

\* The rows that CollectMetrics lists, if load, memory and swap answered.
CollectedSet(host) ==
  CpuSet(host) \cup RowSet("load_average", Loads, "") \cup RowSet("memory_usage", Memory, "")
  \cup SwapSet(host) \cup DiskSet(host) \cup DiskIOSet(host) \cup NetworkSet(host)
  \cup InterfaceSet(host) \cup LatencySet(host)

\* The sequence CollectMetrics lists these rows, whatever the lists of the host.
LEMMA RowsListed ==
  ASSUME NEW host, Readable(host) PROVE Lists(CollectMetrics(host), CollectedSet(host))
<1> DEFINE a == CpuRows(host)        A == CpuSet(host)
           b == LoadRows             B == RowSet("load_average", Loads, "")
           c == MemoryRows           C == RowSet("memory_usage", Memory, "")
           d == SwapRows(host)       D == SwapSet(host)
           e == DiskRows(host)       E == DiskSet(host)
           f == DiskIORows(host)     F == DiskIOSet(host)
           g == NetworkRows(host)    G == NetworkSet(host)
           h == InterfaceRows(host)  H == InterfaceSet(host)
           i == LatencyRows(host)    I == LatencySet(host)
<1>1. /\ Lists(a, A) /\ Lists(b, B) /\ Lists(c, C) /\ Lists(d, D) /\ Lists(e, E)
      /\ Lists(f, F) /\ Lists(g, G) /\ Lists(h, H) /\ Lists(i, I)
  BY CpuListed, FixedListed, DiskListed, DiskIOListed, InterfacesListed
<1>2. CollectMetrics(host) = a \o b \o c \o d \o e \o f \o g \o h \o i
  BY DEF CollectMetrics
<1>3. CollectedSet(host) = A \cup B \cup C \cup D \cup E \cup F \cup G \cup H \cup I
  BY DEF CollectedSet
<1> HIDE DEF a, b, c, d, e, f, g, h, i, A, B, C, D, E, F, G, H, I
<1>4. Lists(a \o b \o c, A \cup B \cup C)
  BY <1>1, ListsJoined, Zenon
<1>5. Lists(a \o b \o c \o d \o e, A \cup B \cup C \cup D \cup E)
  BY <1>1, <1>4, ListsJoined, Zenon
<1>6. Lists(a \o b \o c \o d \o e \o f \o g, A \cup B \cup C \cup D \cup E \cup F \cup G)
  BY <1>1, <1>5, ListsJoined, Zenon
<1>7. Lists(a \o b \o c \o d \o e \o f \o g \o h \o i,
            A \cup B \cup C \cup D \cup E \cup F \cup G \cup H \cup I)
  BY <1>1, <1>6, ListsJoined, Zenon
<1> QED
  BY <1>2, <1>3, <1>7

\* The rows of all sources that answer.
AnsweredSet(host) ==
  CpuSet(host)
  \cup Answer(host, "load", RowSet("load_average", Loads, ""))
  \cup Answer(host, "memory", RowSet("memory_usage", Memory, ""))
  \cup Answer(host, "swap", SwapSet(host))
  \cup DiskSet(host) \cup DiskIOSet(host) \cup NetworkSet(host)
  \cup InterfaceSet(host) \cup LatencySet(host)

\* What a tick collects (CollectMetrics), whatever the lists of the host, if the
\* agent does not panic on the way: the rows of the sources that answer, each of
\* them and no others, so that a source or a partition that fails takes along
\* its own rows only.  If load, memory or swap fails, the agent panics, and the
\* failure costs the whole tick.
THEOREM Collected ==
  ASSUME NEW host, Readable(host), ~ Panics(host)
  PROVE  Lists(CollectMetrics(host), AnsweredSet(host))
<1>1. "load" \notin host.fails /\ "memory" \notin host.fails /\ "swap" \notin host.fails
  BY DEF Panics
<1>2. AnsweredSet(host) = CollectedSet(host)
  BY <1>1, Zenon DEF AnsweredSet, CollectedSet, Answer
<1> QED
  BY <1>2, RowsListed

-----------------------------------------------------------------------------
(* The memory of a container.                                              *)

\* A uint64.
Word == 0 .. Words - 1

\* The memory of a container (CollectContainers) is what it uses without the
\* cache, as long as the cache is part of what it uses.
THEOREM MemUsageExact ==
  ASSUME NEW usage \in Word, NEW cache \in Word, cache <= usage
  PROVE  MemUsage(usage, cache) = usage - cache
<1>1. usage - cache \in 0 .. Words - 1
  BY CollectAssumption DEF Word
<1> QED BY <1>1, CollectAssumption DEF MemUsage

\* If the two were read apart, and the cache has grown beyond the use, the
\* memory of a container is off by the whole range of the type, and so it is
\* shown as more than the container uses, cache included.
THEOREM MemUsageWraps ==
  ASSUME NEW usage \in Word, NEW cache \in Word, usage < cache
  PROVE  /\ MemUsage(usage, cache) = Words - (cache - usage)
         /\ MemUsage(usage, cache) > usage
<1>1. /\ usage - cache + Words \in 0 .. Words - 1
      /\ usage \in Int /\ cache \in Int /\ Words \in Nat \ {0}
  BY CollectAssumption DEF Word
<1>2. \A x \in Int : x + Words \in 0 .. Words - 1 => x % Words = x + Words
  <2> SUFFICES ASSUME NEW x \in Int, x + Words \in 0 .. Words - 1
               PROVE  x % Words = x + Words
    OBVIOUS
  <2> QED BY <1>1
<1>3. usage - cache \in Int
  BY <1>1
<1>4. MemUsage(usage, cache) = Words - (cache - usage)
  BY <1>1, <1>2, <1>3 DEF MemUsage
<1>5. cache < Words /\ cache \in Int
  BY <1>1 DEF Word
<1> QED BY <1>1, <1>4, <1>5
===============================================================================
