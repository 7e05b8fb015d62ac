--------------------------- MODULE PortChecksProofs ----------------------------
(***************************************************************************)
(* Proofs about module PortChecks, for any number of checks and any times. *)
(***************************************************************************)
EXTENDS PortChecks, FiniteSetTheorems, SequenceTheorems, TLAPS

-----------------------------------------------------------------------------
(* Times.                                                                  *)

\* What n checks may cost, and how long n periods are.
Cost(n) == n * (DialTimeout + PostTimeout)
Gap(n) == n * Period

LEMMA Times ==
  /\ MaxChecks \in Nat /\ GetTimeout \in Nat /\ DialTimeout \in Nat /\ PostTimeout \in Nat
  /\ Period \in Nat /\ Period > 0
  BY PortTimesAssumption

LEMMA CostStep ==
  ASSUME NEW n \in Nat
  PROVE  /\ Cost(n) \in Nat
         /\ Cost(n + 1) = Cost(n) + DialTimeout + PostTimeout
<1> DEFINE d == DialTimeout + PostTimeout
<1>1. d \in Nat
  BY Times
<1>2. \A k \in Nat : n * k \in Nat /\ (n + 1) * k = n * k + k
  OBVIOUS
<1>3. n * d \in Nat /\ (n + 1) * d = n * d + d
  BY <1>1, <1>2
<1> QED
  BY <1>1, <1>3, Times DEF Cost

LEMMA CostGrows ==
  ASSUME NEW m \in Nat, NEW n \in Nat, m <= n
  PROVE  Cost(m) \in Nat /\ Cost(n) \in Nat /\ Cost(m) <= Cost(n)
<1> DEFINE d == DialTimeout + PostTimeout
<1>1. d \in Nat
  BY Times
<1>2. \A k \in Nat : m * k \in Nat /\ n * k \in Nat /\ m * k <= n * k
  OBVIOUS
<1>3. m * d \in Nat /\ n * d \in Nat /\ m * d <= n * d
  BY <1>1, <1>2
<1> QED
  BY <1>3 DEF Cost

LEMMA GapStep ==
  ASSUME NEW n \in Nat
  PROVE  Gap(n) \in Nat /\ Gap(n + 1) = Gap(n) + Period /\ Gap(0) = 0
  BY Times DEF Gap

LEMMA ChecksFinite == IsFiniteSet(Checks) /\ Cardinality(Checks) = MaxChecks
<1>1. IsFiniteSet(1 .. MaxChecks)
  BY Times, FS_Interval
<1>2. Cardinality(1 .. MaxChecks) = IF 1 > MaxChecks THEN 0 ELSE MaxChecks - 1 + 1
  BY Times, FS_Interval
<1> QED
  BY <1>1, <1>2, Times DEF Checks

\* What is left to do of a set of checks after one of them costs less.
LEMMA OneLess ==
  ASSUME NEW T \in SUBSET Checks, NEW c \in T
  PROVE  /\ IsFiniteSet(T) /\ Cardinality(T) \in Nat /\ Cardinality(T) <= MaxChecks
         /\ Cardinality(T) - 1 \in Nat
         /\ Cardinality(T \ {c}) = Cardinality(T) - 1
<1>1. IsFiniteSet(Checks) /\ Cardinality(Checks) = MaxChecks
  BY ChecksFinite
<1>2. IsFiniteSet(T) /\ Cardinality(T) <= Cardinality(Checks)
  BY <1>1, FS_Subset
<1>3. IsFiniteSet(T \ {c}) /\ Cardinality(T \ {c}) = Cardinality(T) - 1
  BY <1>2, FS_RemoveElement
<1>4. Cardinality(T) \in Nat /\ Cardinality(T \ {c}) \in Nat
  BY <1>2, <1>3, FS_CardinalityType
<1> QED
  BY <1>1, <1>2, <1>3, <1>4

-----------------------------------------------------------------------------
(* One round.                                                              *)

\* What may still come after the operation of r.
Ahead(r) ==
  CASE r.at = "get" -> Cost(MaxChecks)
    [] r.at = "dial" -> PostTimeout + Cost(Cardinality(r.todo) - 1)
    [] r.at = "post" -> Cost(Cardinality(r.todo) - 1)

\* A round has a check to work on, and stays within its time.
Sound(r) ==
  /\ r \in Round
  /\ r.at # "get" => r.todo # {}
  /\ r.at = "post" => r.left <= PostTimeout
  /\ r.age + r.left + Ahead(r) <= Longest

LEMMA AheadType ==
  ASSUME NEW r \in Round, r.at # "get" => r.todo # {}
  PROVE  Ahead(r) \in Nat /\ r.left \in Nat /\ r.age \in Nat
<1>1. r.left \in Nat /\ r.age \in Nat /\ r.at \in {"get", "dial", "post"} /\ r.todo \in SUBSET Checks
  BY DEF Round
<1>2. CASE r.at = "get"
  BY <1>1, <1>2, Times, CostStep DEF Ahead
<1>3. CASE r.at # "get"
  <2>1. PICK c : c \in r.todo
    BY <1>3
  <2>2. Cardinality(r.todo) - 1 \in Nat
    BY <1>1, <2>1, OneLess
  <2>3. Cost(Cardinality(r.todo) - 1) \in Nat
    BY <2>2, CostStep
  <2> QED
    BY <1>1, <1>3, <2>3, Times DEF Ahead
<1> QED
  BY <1>2, <1>3

LEMMA LongestType ==
  Longest \in Nat /\ Longest - 1 \in Nat /\ Longest = GetTimeout + Cost(MaxChecks)
<1>1. Cost(MaxChecks) \in Nat /\ Longest = GetTimeout + Cost(MaxChecks)
  BY Times, CostStep DEF Longest, Cost
<1>2. GetTimeout \in Nat /\ GetTimeout - 1 \in Nat
  BY PortTimesAssumption
<1> QED
  BY <1>1, <1>2

LEMMA SoundAge ==
  ASSUME NEW r, Sound(r)
  PROVE  r.age \in Nat /\ r.age <= Longest
  BY AheadType, LongestType DEF Sound

\* A round that starts.
LEMMA NewRoundSound ==
  Sound([at |-> "get", todo |-> {}, left |-> GetTimeout, age |-> 0])
<1> DEFINE r == [at |-> "get", todo |-> {}, left |-> GetTimeout, age |-> 0]
<1>1. r \in Round
  BY Times DEF Round
<1>2. Ahead(r) = Cost(MaxChecks)
  BY DEF Ahead
<1>3. r.age + r.left + Ahead(r) <= Longest
  <2>1. Cost(MaxChecks) \in Nat
    BY Times, CostStep
  <2> QED
    BY <1>2, <2>1, LongestType, Times
<1> QED
  BY <1>1, <1>3 DEF Sound

\* The checks in T, some of those that r has been counting on, come before r.
LEMMA ToDialSound ==
  ASSUME NEW r, Sound(r), NEW T \in SUBSET Checks, T # {},
         \/ r.at = "get"
         \/ \E c \in r.todo : r.at = "post" /\ T = r.todo \ {c}
  PROVE  Sound([at |-> "dial", todo |-> T, left |-> DialLimit, age |-> r.age])
<1> DEFINE q == [at |-> "dial", todo |-> T, left |-> DialLimit, age |-> r.age]
<1>1. r \in Round /\ r.age \in Nat /\ r.left \in Nat /\ r.todo \in SUBSET Checks
  BY DEF Sound, Round
<1>2. q \in Round /\ q.todo # {}
  BY <1>1, Times DEF Round, DialLimit
<1>3. PICK c : c \in T
  OBVIOUS
<1>4. Cardinality(T) \in Nat /\ Cardinality(T) - 1 \in Nat /\ Cardinality(T) <= MaxChecks
  BY <1>3, OneLess
<1>5. /\ Cost(Cardinality(T) - 1) \in Nat
      /\ Cost(Cardinality(T)) = Cost(Cardinality(T) - 1) + DialTimeout + PostTimeout
  <2>1. /\ Cost(Cardinality(T) - 1) \in Nat
        /\ Cost((Cardinality(T) - 1) + 1)
             = Cost(Cardinality(T) - 1) + DialTimeout + PostTimeout
    BY <1>4, CostStep
  <2>2. (Cardinality(T) - 1) + 1 = Cardinality(T)
    BY <1>4
  <2> QED
    BY <2>1, <2>2
<1>6. q.left + Ahead(q) = Cost(Cardinality(T))
  <2>1. Ahead(q) = PostTimeout + Cost(Cardinality(T) - 1)
    BY DEF Ahead
  <2> QED
    BY <1>5, <2>1, Times DEF DialLimit
<1>7. Cost(Cardinality(T)) \in Nat /\ Cost(Cardinality(T)) <= Ahead(r) /\ Ahead(r) \in Nat
  <2>1. CASE r.at = "get"
    <3>1. Ahead(r) = Cost(MaxChecks)
      BY <2>1 DEF Ahead
    <3> QED
      BY <1>4, <3>1, Times, CostGrows
  <2>2. ASSUME NEW d \in r.todo, r.at = "post", T = r.todo \ {d}
        PROVE  Cost(Cardinality(T)) \in Nat /\ Ahead(r) = Cost(Cardinality(T))
    <3>1. Cardinality(r.todo) - 1 = Cardinality(T)
      BY <1>1, <2>2, OneLess
    <3>2. Ahead(r) = Cost(Cardinality(r.todo) - 1)
      BY <2>2 DEF Ahead
    <3> QED
      BY <1>4, <3>1, <3>2, CostStep
  <2>3. CASE r.at # "get"
    <3>1. PICK d \in r.todo : r.at = "post" /\ T = r.todo \ {d}
      BY <2>3
    <3>2. Cost(Cardinality(T)) \in Nat /\ Ahead(r) = Cost(Cardinality(T))
      BY <2>2, <3>1
    <3> QED
      BY <3>2
  <2> QED
    BY <2>1, <2>3
<1>8. q.age + q.left + Ahead(q) <= Longest
  <2>1. r.age + r.left + Ahead(r) <= Longest
    BY DEF Sound
  <2>2. q.age = r.age /\ q.left = DialTimeout
    BY DEF DialLimit
  <2>3. Ahead(q) \in Nat
    BY <1>2, AheadType
  <2> QED
    BY <1>1, <1>6, <1>7, <2>1, <2>2, <2>3, LongestType, Times
<1> QED
  BY <1>2, <1>8 DEF Sound

LEMMA ToPostSound ==
  ASSUME NEW r, Sound(r), r.at = "dial"
  PROVE  Sound([at |-> "post", todo |-> r.todo, left |-> PostTimeout, age |-> r.age])
<1> DEFINE q == [at |-> "post", todo |-> r.todo, left |-> PostTimeout, age |-> r.age]
<1>1. r \in Round /\ r.age \in Nat /\ r.left \in Nat /\ r.todo \in SUBSET Checks /\ r.todo # {}
  BY DEF Sound, Round
<1>2. q \in Round /\ q.todo # {}
  BY <1>1, Times DEF Round
<1>3. Ahead(r) = PostTimeout + Ahead(q)
  BY DEF Ahead
<1>4. Ahead(q) \in Nat
  BY <1>2, AheadType
<1>5. r.age + r.left + Ahead(r) <= Longest
  BY DEF Sound
<1>6. q.age + q.left + Ahead(q) <= Longest
  BY <1>1, <1>3, <1>4, <1>5, LongestType, Times
<1>7. q.left <= PostTimeout
  BY Times
<1> QED
  BY <1>2, <1>6, <1>7 DEF Sound

LEMMA LaterSound ==
  ASSUME NEW r, Sound(r), r.left > 0
  PROVE  Sound(Later(r)) /\ Later(r).age = r.age + 1
<1>1. r \in Round /\ r.age \in Nat /\ r.left \in Nat
  BY DEF Sound, Round
<1>2. /\ Later(r) \in Round
      /\ Later(r).age = r.age + 1 /\ Later(r).left = r.left - 1
      /\ Later(r).at = r.at /\ Later(r).todo = r.todo
  <2>1. r.left - 1 \in Nat /\ r.age + 1 \in Nat
    BY <1>1
  <2> QED
    BY <1>1, <2>1 DEF Later, Round
<1>3. Ahead(Later(r)) = Ahead(r)
  BY <1>2 DEF Ahead
<1>4. Ahead(r) \in Nat
  BY AheadType DEF Sound
<1>5. Later(r).age + Later(r).left + Ahead(Later(r)) <= Longest
  BY <1>1, <1>2, <1>3, <1>4, LongestType DEF Sound
<1>6. Later(r).at = "post" => Later(r).left <= PostTimeout
  BY <1>1, <1>2, Times DEF Sound
<1>7. Later(r).at # "get" => Later(r).todo # {}
  BY <1>2 DEF Sound
<1> QED
  BY <1>2, <1>5, <1>6, <1>7 DEF Sound

-----------------------------------------------------------------------------
(* All rounds.                                                             *)

AllSound(s) == s \in Seq(Round) /\ \A i \in DOMAIN s : Sound(s[i])

\* Starts are a period apart, except that a tick may have waited for main: so
\* much older than the latest round and the clock is each other one, and by
\* one more period while a tick waits.
Apart(s, d, e) ==
  \A i \in DOMAIN s :
    /\ d => s[i].age >= Gap(Len(s) - i) + e
    /\ ~ d /\ i < Len(s) => s[i].age >= Gap(Len(s) - i - 1) + e

LEMMA Removal ==
  ASSUME NEW S, NEW s \in Seq(S), NEW i \in DOMAIN s
  PROVE  /\ RemoveAt(s, i) \in Seq(S)
         /\ Len(RemoveAt(s, i)) = Len(s) - 1
         /\ \A j \in DOMAIN RemoveAt(s, i) :
              RemoveAt(s, i)[j] = IF j < i THEN s[j] ELSE s[j + 1]
<1>1. i \in 1 .. Len(s) /\ Len(s) \in Nat
  OBVIOUS
<1>2. /\ SubSeq(s, 1, i - 1) \in Seq(S) /\ Len(SubSeq(s, 1, i - 1)) = i - 1
      /\ \A j \in 1 .. i - 1 : SubSeq(s, 1, i - 1)[j] = s[j]
  BY <1>1
<1>3. /\ SubSeq(s, i + 1, Len(s)) \in Seq(S) /\ Len(SubSeq(s, i + 1, Len(s))) = Len(s) - i
      /\ \A j \in 1 .. Len(s) - i : SubSeq(s, i + 1, Len(s))[j] = s[i + j]
  BY <1>1
<1> DEFINE t == SubSeq(s, 1, i - 1) u == SubSeq(s, i + 1, Len(s))
<1>4. /\ t \o u \in Seq(S) /\ Len(t \o u) = Len(t) + Len(u)
      /\ \A j \in 1 .. Len(t) + Len(u) :
           (t \o u)[j] = IF j <= Len(t) THEN t[j] ELSE u[j - Len(t)]
  BY <1>2, <1>3, ConcatProperties
<1>a. /\ t \in Seq(S) /\ u \in Seq(S) /\ Len(t) = i - 1 /\ Len(u) = Len(s) - i
      /\ \A j \in 1 .. i - 1 : t[j] = s[j]
      /\ \A j \in 1 .. Len(s) - i : u[j] = s[i + j]
  BY <1>2, <1>3
<1>b. RemoveAt(s, i) = t \o u
  BY DEF RemoveAt
<1> HIDE DEF t, u
<1>c. Len(t) + Len(u) = Len(s) - 1
  BY <1>1, <1>a
<1>5. /\ t \o u \in Seq(S) /\ Len(t \o u) = Len(s) - 1
      /\ DOMAIN (t \o u) = 1 .. Len(s) - 1
  <2>1. t \o u \in Seq(S) /\ Len(t \o u) = Len(s) - 1
    BY <1>4, <1>c
  <2> QED
    BY <2>1
<1>6. ASSUME NEW j \in 1 .. Len(s) - 1
      PROVE  (t \o u)[j] = IF j < i THEN s[j] ELSE s[j + 1]
  <2>1. CASE j < i
    <3>1. j \in 1 .. i - 1 /\ j <= Len(t) /\ j \in 1 .. Len(t) + Len(u)
      BY <1>1, <1>a, <1>c, <2>1
    <3> QED
      BY <1>a, <1>4, <2>1, <3>1
  <2>2. CASE ~ (j < i)
    <3>1. /\ j - (i - 1) \in 1 .. Len(s) - i /\ i + (j - (i - 1)) = j + 1
          /\ ~ (j <= Len(t)) /\ j \in 1 .. Len(t) + Len(u) /\ j - Len(t) = j - (i - 1)
      <4>1. i \in Nat /\ j \in Nat /\ Len(s) \in Nat /\ i <= j /\ j <= Len(s) - 1 /\ 1 <= i
        BY <1>1, <2>2
      <4>2. j - (i - 1) \in 1 .. Len(s) - i /\ i + (j - (i - 1)) = j + 1
        BY <4>1
      <4>3. Len(t) = i - 1 /\ 1 .. Len(t) + Len(u) = 1 .. Len(s) - 1
        BY <1>a, <1>c
      <4>4. ~ (j <= Len(t)) /\ j - Len(t) = j - (i - 1)
        BY <4>1, <4>3
      <4>5. j \in 1 .. Len(t) + Len(u)
        BY <4>3
      <4> QED
        BY <4>2, <4>4, <4>5
    <3>2. u[j - (i - 1)] = s[j + 1]
      BY <1>a, <3>1
    <3> QED
      BY <1>4, <2>2, <3>1, <3>2
  <2> QED
    BY <2>1, <2>2
<1> QED
  BY <1>5, <1>6, <1>b

LEMMA LessGap ==
  ASSUME NEW a \in Nat, NEW g \in Nat, NEW p \in Nat, NEW e \in Nat, a >= (g + p) + e
  PROVE  a >= g + e
  OBVIOUS

LEMMA RemovalSound ==
  ASSUME NEW s, AllSound(s), NEW k \in DOMAIN s, NEW d \in BOOLEAN, NEW e \in Nat,
         Apart(s, d, e)
  PROVE  AllSound(RemoveAt(s, k)) /\ Apart(RemoveAt(s, k), d, e)
<1> DEFINE t == RemoveAt(s, k)
<1>1. s \in Seq(Round) /\ k \in 1 .. Len(s) /\ DOMAIN s = 1 .. Len(s) /\ Len(s) \in Nat
  BY DEF AllSound
<1>2. /\ t \in Seq(Round) /\ Len(t) = Len(s) - 1 /\ DOMAIN t = 1 .. Len(s) - 1
      /\ \A j \in DOMAIN t : t[j] = IF j < k THEN s[j] ELSE s[j + 1]
  <2>1. /\ t \in Seq(Round) /\ Len(t) = Len(s) - 1
        /\ \A j \in DOMAIN t : t[j] = IF j < k THEN s[j] ELSE s[j + 1]
    BY <1>1, Removal
  <2> QED
    BY <1>1, <2>1
<1>3. \A j \in DOMAIN t : Sound(t[j])
  <2> TAKE j \in DOMAIN t
  <2>1. j \in DOMAIN s /\ j + 1 \in DOMAIN s
    BY <1>1, <1>2
  <2>2. t[j] = s[j] \/ t[j] = s[j + 1]
    BY <1>2
  <2> QED
    BY <2>1, <2>2 DEF AllSound
<1> HIDE DEF t
<1>4. Apart(t, d, e)
  <2> SUFFICES ASSUME NEW j \in DOMAIN t
               PROVE  /\ d => t[j].age >= Gap(Len(t) - j) + e
                      /\ ~ d /\ j < Len(t) => t[j].age >= Gap(Len(t) - j - 1) + e
    BY DEF Apart
  <2>0. j \in 1 .. Len(s) - 1 /\ Len(t) = Len(s) - 1
    BY <1>1, <1>2
  <2>1. CASE j < k
    <3>1. t[j] = s[j] /\ j \in DOMAIN s /\ s[j].age \in Nat
      BY <1>1, <1>2, <2>0, <2>1, SoundAge DEF AllSound
    <3>2. /\ d => s[j].age >= Gap(Len(s) - j) + e
          /\ ~ d /\ j < Len(s) => s[j].age >= Gap(Len(s) - j - 1) + e
      BY <3>1 DEF Apart
    <3>3. Len(t) - j \in Nat /\ Len(s) - j = (Len(t) - j) + 1
      BY <1>1, <2>0
    <3>4. Gap(Len(s) - j) = Gap(Len(t) - j) + Period /\ Gap(Len(t) - j) \in Nat
      BY <3>3, GapStep
    <3>5. CASE d
      <4>1. s[j].age >= (Gap(Len(t) - j) + Period) + e
        BY <3>2, <3>4, <3>5
      <4>2. s[j].age >= Gap(Len(t) - j) + e
        BY <3>1, <3>4, <4>1, LessGap, Times
      <4> QED
        BY <3>1, <3>5, <4>2
    <3>6. CASE ~ d
      <4> SUFFICES ASSUME j < Len(t) PROVE t[j].age >= Gap(Len(t) - j - 1) + e
        BY <3>6
      <4>1. Len(t) - j - 1 \in Nat /\ Len(s) - j - 1 = (Len(t) - j - 1) + 1 /\ j < Len(s)
        BY <1>1, <2>0
      <4>2. /\ Gap(Len(s) - j - 1) = Gap(Len(t) - j - 1) + Period
            /\ Gap(Len(t) - j - 1) \in Nat
        BY <4>1, GapStep
      <4>3. s[j].age >= Gap(Len(s) - j - 1) + e
        BY <3>2, <3>6, <4>1
      <4>4. s[j].age >= (Gap(Len(t) - j - 1) + Period) + e
        BY <4>2, <4>3
      <4>5. s[j].age >= Gap(Len(t) - j - 1) + e
        BY <3>1, <4>2, <4>4, LessGap, Times
      <4> QED
        BY <3>1, <4>5
    <3> QED
      BY <3>5, <3>6
  <2>2. CASE ~ (j < k)
    <3>1. t[j] = s[j + 1] /\ j + 1 \in DOMAIN s
      BY <1>1, <1>2, <2>0, <2>2
    <3>2. /\ d => s[j + 1].age >= Gap(Len(s) - (j + 1)) + e
          /\ ~ d /\ j + 1 < Len(s) => s[j + 1].age >= Gap(Len(s) - (j + 1) - 1) + e
      BY <3>1 DEF Apart
    <3>3. /\ Len(s) - (j + 1) = Len(t) - j /\ Len(s) - (j + 1) - 1 = Len(t) - j - 1
          /\ j < Len(t) => j + 1 < Len(s)
      BY <1>1, <2>0
    <3> QED
      BY <3>1, <3>2, <3>3
  <2> QED
    BY <2>1, <2>2
<1> QED
  BY <1>2, <1>3, <1>4 DEF AllSound, t

LEMMA UpdateSound ==
  ASSUME NEW s, AllSound(s), NEW k \in DOMAIN s, NEW d \in BOOLEAN, NEW e \in Nat,
         Apart(s, d, e), NEW q, Sound(q), q.age = s[k].age
  PROVE  AllSound([s EXCEPT ![k] = q]) /\ Apart([s EXCEPT ![k] = q], d, e)
<1> DEFINE t == [s EXCEPT ![k] = q]
<1>1. s \in Seq(Round) /\ q \in Round
  BY DEF AllSound, Sound
<1>2. t \in Seq(Round) /\ Len(t) = Len(s) /\ DOMAIN t = DOMAIN s
  BY <1>1
<1>3. \A j \in DOMAIN s : t[j] = IF j = k THEN q ELSE s[j]
  BY <1>1
<1>4. \A j \in DOMAIN t : Sound(t[j]) /\ t[j].age = s[j].age
  BY <1>2, <1>3 DEF AllSound
<1> QED
  BY <1>2, <1>4 DEF AllSound, Apart

LEMMA StartSound ==
  ASSUME NEW s, AllSound(s), NEW q, Sound(q), NEW e \in Nat, Apart(s, TRUE, e)
  PROVE  AllSound(Append(s, q)) /\ Apart(Append(s, q), FALSE, e)
<1> DEFINE t == Append(s, q)
<1>1. s \in Seq(Round) /\ q \in Round /\ Len(s) \in Nat /\ DOMAIN s = 1 .. Len(s)
  BY DEF AllSound, Sound
<1>2. t \in Seq(Round) /\ Len(t) = Len(s) + 1 /\ DOMAIN t = 1 .. Len(s) + 1
  BY <1>1
<1>3. \A j \in DOMAIN t : t[j] = IF j = Len(s) + 1 THEN q ELSE s[j]
  BY <1>1
<1>4. \A j \in DOMAIN t : j # Len(s) + 1 => j \in DOMAIN s
  BY <1>1, <1>2
<1>5. \A j \in DOMAIN t : Sound(t[j])
  BY <1>3, <1>4 DEF AllSound
<1>6. ASSUME NEW j \in DOMAIN t, j < Len(t)
      PROVE  t[j].age >= Gap(Len(t) - j - 1) + e
  <2>1. j \in DOMAIN s /\ t[j] = s[j] /\ Len(t) - j - 1 = Len(s) - j
    BY <1>1, <1>2, <1>3, <1>6
  <2> QED
    BY <2>1 DEF Apart
<1> QED
  BY <1>2, <1>5, <1>6 DEF AllSound, Apart

\* Time passes; f tells whether the ticker fires.
LEMMA TimeSound ==
  ASSUME NEW s, AllSound(s), \A i \in DOMAIN s : s[i].left > 0,
         NEW d \in BOOLEAN, NEW e \in 0 .. Period - 1, Apart(s, d, e),
         NEW f \in BOOLEAN, NEW g \in Nat,
         IF f THEN e + 1 = Period /\ g = 0 ELSE g <= e + 1
  PROVE  /\ AllSound([i \in DOMAIN s |-> Later(s[i])])
         /\ Apart([i \in DOMAIN s |-> Later(s[i])], d \/ f, g)
<1> DEFINE t == [i \in DOMAIN s |-> Later(s[i])]
<1>1. s \in Seq(Round) /\ Len(s) \in Nat /\ DOMAIN s = 1 .. Len(s) /\ e \in Nat
  BY Times DEF AllSound
<1>2. \A i \in DOMAIN s : Sound(t[i]) /\ t[i].age = s[i].age + 1 /\ s[i].age \in Nat
  BY LaterSound, SoundAge DEF AllSound
<1>3. t \in Seq(Round) /\ Len(t) = Len(s) /\ DOMAIN t = DOMAIN s
  <2>1. \A i \in DOMAIN s : t[i] \in Round
    BY <1>2 DEF Sound
  <2> QED
    BY <1>1, <2>1
<1>4. Apart(t, d \/ f, g)
  <2> SUFFICES ASSUME NEW i \in DOMAIN s
               PROVE  /\ d \/ f => t[i].age >= Gap(Len(s) - i) + g
                      /\ ~ (d \/ f) /\ i < Len(s) => t[i].age >= Gap(Len(s) - i - 1) + g
    BY <1>3 DEF Apart
  <2>1. /\ d => s[i].age >= Gap(Len(s) - i) + e
        /\ ~ d /\ i < Len(s) => s[i].age >= Gap(Len(s) - i - 1) + e
        /\ t[i].age = s[i].age + 1 /\ s[i].age \in Nat
    BY <1>2 DEF Apart
  <2>2. Len(s) - i \in Nat /\ i \in Nat /\ Gap(Len(s) - i) \in Nat /\ Gap(0) = 0
    <3>1. Len(s) - i \in Nat /\ i \in Nat
      BY <1>1
    <3>2. Gap(Len(s) - i) \in Nat
      BY <3>1, GapStep
    <3>3. Gap(0) = 0
      BY GapStep
    <3> QED
      BY <3>1, <3>2, <3>3
  <2>3. g <= e + 1
    BY <1>1, Times
  <2>4. CASE d
    BY <1>1, <2>1, <2>2, <2>3, <2>4
  <2>5. CASE ~ d /\ f
    <3>1. CASE i = Len(s)
      <4>1. Len(s) - i = 0
        BY <1>1, <3>1
      <4>2. Gap(Len(s) - i) = 0
        BY <2>2, <4>1
      <4> QED
        BY <2>1, <2>5, <3>1, <4>2
    <3>2. CASE i # Len(s)
      <4>1. i < Len(s) /\ Len(s) - i - 1 \in Nat /\ Len(s) - i = (Len(s) - i - 1) + 1
        BY <1>1, <3>2
      <4>2. Gap(Len(s) - i) = Gap(Len(s) - i - 1) + Period /\ Gap(Len(s) - i - 1) \in Nat
        BY <4>1, GapStep
      <4>3. s[i].age >= Gap(Len(s) - i - 1) + e
        BY <2>1, <2>5, <4>1
      <4> QED
        BY <1>1, <2>1, <2>2, <2>5, <4>2, <4>3, Times
    <3> QED
      BY <3>1, <3>2
  <2>6. CASE ~ d /\ ~ f
    <3> SUFFICES ASSUME i < Len(s) PROVE t[i].age >= Gap(Len(s) - i - 1) + g
      BY <2>6
    <3>1. Len(s) - i - 1 \in Nat
      BY <1>1
    <3>2. Gap(Len(s) - i - 1) \in Nat
      BY <3>1, GapStep
    <3> QED
      BY <1>1, <2>1, <2>3, <2>6, <3>2
  <2> QED
    BY <2>4, <2>5, <2>6
<1> QED
  BY <1>2, <1>3, <1>4 DEF AllSound

-----------------------------------------------------------------------------
(* The connections, and the ages of the rounds that made them.  A round    *)
(* that is over is known by nothing but its connections.                   *)

Ages(s, H) == {s[i].age : i \in DOMAIN s} \cup {h.age : h \in H}

\* The ticker, which fired e units ago, has fired between two starts.
Separated(a, b, e) == \E n \in Nat : a <= e + Gap(n) /\ e + Gap(n) < b

\* It has between any two, and since the last one if a tick waits for main.
Spread(A, d, e) ==
  /\ A \subseteq Nat
  /\ \A a, b \in A : a < b => Separated(a, b, e)
  /\ d => \A a \in A : e < a

\* A round leaves no more than one connection for each check it is done with,
\* and those of other rounds are told by their ages.
Owned(s, H) ==
  /\ \A i, j \in DOMAIN s : s[i].age = s[j].age => i = j
  /\ \A h \in H, i \in DOMAIN s :
       h.age = s[i].age => s[i].at # "get" /\ h.check \notin s[i].todo
  /\ \A g, h \in H : g.check = h.check /\ g.age = h.age => g = h
  /\ \A h \in H : h.age + h.left <= Longest

\* Round k goes on or ends, and may leave a connection in D: what is in t was
\* in s, where f tells.
LEMMA OwnedChange ==
  ASSUME NEW s, NEW H, Owned(s, H), NEW k \in DOMAIN s,
         NEW t, NEW f \in [DOMAIN t -> DOMAIN s],
         \A i, j \in DOMAIN t : f[i] = f[j] => i = j,
         \A j \in DOMAIN t : t[j].age = s[f[j]].age,
         \A j \in DOMAIN t : f[j] # k => t[j] = s[f[j]],
         \A j \in DOMAIN t : f[j] = k =>
           /\ t[j].at # "get"
           /\ s[k].at = "get" \/ t[j].todo \subseteq s[k].todo,
         NEW D,
         \A x, y \in D : x = y,
         \A x \in D : /\ x.age = s[k].age /\ x.check \in s[k].todo
                      /\ x.age + x.left <= Longest,
         \A j \in DOMAIN t : f[j] = k => \A x \in D : x.check \notin t[j].todo
  PROVE  Owned(t, H \cup D) /\ Ages(t, H \cup D) \subseteq Ages(s, H)
<1>1. \A i, j \in DOMAIN t : t[i].age = t[j].age => i = j
  BY DEF Owned
<1>2. ASSUME NEW h \in H \cup D, NEW i \in DOMAIN t, h.age = t[i].age
      PROVE  t[i].at # "get" /\ h.check \notin t[i].todo
  <2>1. h.age = s[f[i]].age /\ f[i] \in DOMAIN s
    BY <1>2
  <2>2. CASE h \in D
    <3>1. f[i] = k
      BY <2>1, <2>2 DEF Owned
    <3> QED
      BY <2>2, <3>1
  <2>3. CASE h \in H
    <3>1. s[f[i]].at # "get" /\ h.check \notin s[f[i]].todo
      BY <2>1, <2>3 DEF Owned
    <3>2. CASE f[i] = k
      BY <3>1, <3>2
    <3>3. CASE f[i] # k
      BY <3>1, <3>3
    <3> QED
      BY <3>2, <3>3
  <2> QED
    BY <2>2, <2>3
<1>3. ASSUME NEW g \in H \cup D, NEW h \in H \cup D, g.check = h.check, g.age = h.age
      PROVE  g = h
  <2>1. \A x \in D, y \in H : x.age = y.age => x.check # y.check
    BY DEF Owned
  <2> QED
    BY <1>3, <2>1 DEF Owned
<1>4. \A h \in H \cup D : h.age + h.left <= Longest
  BY DEF Owned
<1>5. Ages(t, H \cup D) \subseteq Ages(s, H)
  <2>1. \A i \in DOMAIN t : t[i].age \in Ages(s, H)
    BY DEF Ages
  <2>2. \A h \in H \cup D : h.age \in Ages(s, H)
    BY DEF Ages
  <2> QED
    BY <2>1, <2>2 DEF Ages
<1> QED
  BY <1>1, <1>2, <1>3, <1>4, <1>5 DEF Owned

LEMMA OwnedStart ==
  ASSUME NEW s, AllSound(s), NEW q \in Round, q.age = 0, NEW H, Owned(s, H),
         NEW e \in Nat, Spread(Ages(s, H), TRUE, e)
  PROVE  Owned(Append(s, q), H) /\ Spread(Ages(Append(s, q), H), FALSE, e)
<1> DEFINE t == Append(s, q)
<1>1. s \in Seq(Round) /\ Len(s) \in Nat /\ DOMAIN s = 1 .. Len(s)
  BY DEF AllSound
<1>2. DOMAIN t = 1 .. Len(s) + 1 /\ \A j \in DOMAIN t : t[j] = IF j = Len(s) + 1 THEN q ELSE s[j]
  BY <1>1
<1>3. \A j \in DOMAIN t : j # Len(s) + 1 => j \in DOMAIN s
  BY <1>1, <1>2
<1>4. \A a \in Ages(s, H) : a \in Nat /\ e < a /\ a # 0
  BY DEF Spread
<1>5. /\ \A j \in DOMAIN s : s[j].age \in Ages(s, H)
      /\ \A h \in H : h.age \in Ages(s, H)
  BY DEF Ages
<1> HIDE DEF t
<1>6. Owned(t, H)
  <2>1. ASSUME NEW i \in DOMAIN t, NEW j \in DOMAIN t, t[i].age = t[j].age PROVE i = j
    BY <1>2, <1>3, <1>4, <1>5, <2>1 DEF Owned
  <2>2. ASSUME NEW h \in H, NEW i \in DOMAIN t, h.age = t[i].age
        PROVE  t[i].at # "get" /\ h.check \notin t[i].todo
    BY <1>2, <1>3, <1>4, <1>5, <2>2 DEF Owned
  <2> QED
    BY <2>1, <2>2 DEF Owned
<1>7. \A a \in Ages(t, H) : a = 0 \/ a \in Ages(s, H)
  BY <1>2, <1>3 DEF Ages
<1>8. Spread(Ages(t, H), FALSE, e)
  <2>1. ASSUME NEW a \in Ages(t, H), NEW b \in Ages(t, H), a < b PROVE Separated(a, b, e)
    <3>1. b \in Ages(s, H)
      BY <1>4, <1>7, <2>1
    <3>2. CASE a \in Ages(s, H)
      BY <2>1, <3>1, <3>2 DEF Spread
    <3>3. CASE a = 0
      BY <1>4, <3>1, <3>3, GapStep DEF Separated
    <3> QED
      BY <1>7, <3>2, <3>3
  <2> QED
    BY <1>4, <1>7, <2>1 DEF Spread
<1> QED
  BY <1>6, <1>8 DEF t

\* Time passes, and f tells whether the ticker fires.
LEMMA SpreadLater ==
  ASSUME NEW A, NEW d, NEW e \in 0 .. Period - 1, Spread(A, d, e),
         NEW f, NEW g, f => e + 1 = Period /\ g = 0, ~ f => g = e + 1,
         NEW B, \A b \in B : \E a \in A : b = a + 1,
         NEW h, h => d \/ f
  PROVE  Spread(B, h, g)
<1>1. e \in Nat /\ g \in Nat /\ A \subseteq Nat
  BY Times DEF Spread
<1>2. B \subseteq Nat
  BY <1>1
<1>3. ASSUME NEW b \in B, h PROVE g < b
  <2>1. PICK a \in A : b = a + 1
    OBVIOUS
  <2>2. CASE f
    BY <1>1, <2>1, <2>2
  <2>3. CASE ~ f
    <3>1. e < a /\ g = e + 1
      BY <1>3, <2>3 DEF Spread
    <3> QED
      BY <1>1, <2>1, <3>1
  <2> QED
    BY <2>2, <2>3
<1>4. ASSUME NEW b \in B, NEW c \in B, b < c PROVE Separated(b, c, g)
  <2>1. PICK x \in A, y \in A : b = x + 1 /\ c = y + 1
    OBVIOUS
  <2>2. x \in Nat /\ y \in Nat /\ x < y
    BY <1>1, <1>4, <2>1
  <2>3. PICK n \in Nat : x <= e + Gap(n) /\ e + Gap(n) < y
    BY <2>2 DEF Spread, Separated
  <2>4. Gap(n) \in Nat /\ Gap(n + 1) = Gap(n) + Period /\ Period \in Nat
    BY GapStep, Times
  <2>5. CASE f
    <3>1. b <= g + Gap(n + 1) /\ g + Gap(n + 1) < c
      BY <1>1, <2>1, <2>2, <2>3, <2>4, <2>5
    <3> QED
      BY <3>1 DEF Separated
  <2>6. CASE ~ f
    <3>1. b <= g + Gap(n) /\ g + Gap(n) < c
      BY <1>1, <2>1, <2>2, <2>3, <2>4, <2>6
    <3> QED
      BY <3>1 DEF Separated
  <2> QED
    BY <2>5, <2>6
<1> QED
  BY <1>2, <1>3, <1>4 DEF Spread

-----------------------------------------------------------------------------
(* The inductive invariant.                                                *)

HeldInv ==
  /\ Owned(rounds, held)
  /\ Spread(Ages(rounds, held), due, elapsed)
  /\ main = "down" => rounds = <<>> /\ held = {}

IInv == TypeOK /\ AllSound(rounds) /\ Apart(rounds, due, elapsed) /\ HeldInv

LEMMA NothingStarted ==
  ASSUME NEW d \in BOOLEAN, NEW e
  PROVE  /\ AllSound(<<>>) /\ Apart(<<>>, d, e)
         /\ Owned(<<>>, {}) /\ Spread(Ages(<<>>, {}), d, e)
         /\ 0 \in 0 .. Period - 1
         /\ <<>> \in Seq(Round) /\ DOMAIN <<>> = {}
<1>1. <<>> \in Seq(Round) /\ DOMAIN <<>> = {} /\ 0 \in 0 .. Period - 1
  BY Times
<1>2. AllSound(<<>>) /\ Apart(<<>>, d, e)
  BY <1>1 DEF AllSound, Apart
<1>3. Owned(<<>>, {})
  BY <1>1 DEF Owned
<1>4. Ages(<<>>, {}) = {}
  BY <1>1 DEF Ages
<1>5. Spread(Ages(<<>>, {}), d, e)
  BY <1>4 DEF Spread
<1> QED
  BY <1>1, <1>2, <1>3, <1>5

LEMMA InductiveInit == Init => IInv
<1> SUFFICES ASSUME Init PROVE IInv
  OBVIOUS
<1>1. rounds = <<>> /\ held = {} /\ due \in BOOLEAN
  BY DEF Init
<1>2. rounds \in Seq(Round) /\ DOMAIN rounds = {} /\ held \subseteq Connection
  BY <1>1, NothingStarted
<1>3. TypeOK
  BY <1>2, NothingStarted DEF Init, TypeOK
<1>4. AllSound(rounds) /\ Apart(rounds, due, elapsed) /\ HeldInv
  BY <1>1, NothingStarted DEF HeldInv
<1> QED
  BY <1>3, <1>4 DEF IInv

LEMMA NoProcessSound == NoProcess /\ IInv /\ main' \in {"select", "busy", "down"}
                          /\ UNCHANGED tables => IInv'
<1> SUFFICES ASSUME NoProcess, IInv, main' \in {"select", "busy", "down"}, UNCHANGED tables
             PROVE  IInv'
  OBVIOUS
<1>0. rounds' = <<>> /\ held' = {} /\ due' = FALSE
  BY DEF NoProcess
<1>1. TypeOK'
  <2>1. rounds' \in Seq(Round) /\ DOMAIN rounds' = {} /\ held' \subseteq Connection
    BY <1>0, NothingStarted
  <2> QED
    BY <2>1, NothingStarted DEF NoProcess, IInv, TypeOK, tables
<1>2. AllSound(rounds') /\ Apart(rounds', due', elapsed')
  BY <1>0, NothingStarted
<1>3. HeldInv'
  BY <1>0, NothingStarted DEF HeldInv
<1> QED
  BY <1>1, <1>2, <1>3 DEF IInv

\* Round i is removed, and may leave a connection in D.
LEMMA RoundRemoved ==
  ASSUME IInv, NEW i \in DOMAIN rounds, rounds' = RemoveAt(rounds, i),
         NEW D, held' = held \cup D,
         \A x, y \in D : x = y,
         \A x \in D : /\ x.age = rounds[i].age /\ x.check \in rounds[i].todo
                      /\ x.age + x.left <= Longest,
         UNCHANGED <<main, due, elapsed>>
  PROVE  AllSound(rounds') /\ Apart(rounds', due', elapsed') /\ HeldInv'
<1>0. /\ AllSound(rounds) /\ Apart(rounds, due, elapsed) /\ HeldInv
      /\ due \in BOOLEAN /\ elapsed \in Nat
      /\ rounds \in Seq(Round) /\ DOMAIN rounds = 1 .. Len(rounds) /\ Len(rounds) \in Nat
  BY Times DEF IInv, TypeOK
<1>1. AllSound(rounds') /\ Apart(rounds', due', elapsed')
  BY <1>0, RemovalSound
<1> DEFINE t == RemoveAt(rounds, i)
           f == [j \in DOMAIN t |-> IF j < i THEN j ELSE j + 1]
<1>2. /\ DOMAIN t = 1 .. Len(rounds) - 1
      /\ \A j \in DOMAIN t : t[j] = IF j < i THEN rounds[j] ELSE rounds[j + 1]
  <2>1. t \in Seq(Round) /\ Len(t) = Len(rounds) - 1
    BY <1>0, Removal
  <2>2. \A j \in DOMAIN t : t[j] = IF j < i THEN rounds[j] ELSE rounds[j + 1]
    BY <1>0, Removal
  <2> QED
    BY <2>1, <2>2
<1> HIDE DEF t
<1>3. /\ f \in [DOMAIN t -> DOMAIN rounds]
      /\ \A j, k \in DOMAIN t : f[j] = f[k] => j = k
      /\ \A j \in DOMAIN t : f[j] # i /\ t[j] = rounds[f[j]]
  BY <1>0, <1>2
<1> HIDE DEF f
<1>4. Owned(t, held \cup D) /\ Ages(t, held \cup D) \subseteq Ages(rounds, held)
  <2>1. /\ \A j \in DOMAIN t : t[j].age = rounds[f[j]].age
        /\ \A j \in DOMAIN t : f[j] # i => t[j] = rounds[f[j]]
        /\ \A j \in DOMAIN t : f[j] = i =>
             /\ t[j].at # "get"
             /\ rounds[i].at = "get" \/ t[j].todo \subseteq rounds[i].todo
        /\ \A j \in DOMAIN t : f[j] = i => \A x \in D : x.check \notin t[j].todo
    BY <1>3
  <2>2. Owned(rounds, held)
    BY <1>0 DEF HeldInv
  <2> QED
    BY <1>3, <2>1, <2>2, OwnedChange
<1>5. Spread(Ages(t, held \cup D), due, elapsed)
  BY <1>0, <1>4 DEF HeldInv, Spread
<1>6. main # "down"
  BY <1>0 DEF HeldInv
<1>7. rounds' = t
  BY DEF t
<1> QED
  BY <1>1, <1>4, <1>5, <1>6, <1>7 DEF HeldInv

\* Round i goes on as q, and may leave a connection in D.
LEMMA RoundGoesOn ==
  ASSUME IInv, NEW i \in DOMAIN rounds,
         NEW q, Sound(q), q.age = rounds[i].age, rounds' = [rounds EXCEPT ![i] = q],
         q.at # "get", rounds[i].at = "get" \/ q.todo \subseteq rounds[i].todo,
         NEW D, held' = held \cup D,
         \A x, y \in D : x = y,
         \A x \in D : /\ x.age = rounds[i].age /\ x.check \in rounds[i].todo
                      /\ x.age + x.left <= Longest
                      /\ x.check \notin q.todo,
         UNCHANGED <<main, due, elapsed>>
  PROVE  AllSound(rounds') /\ Apart(rounds', due', elapsed') /\ HeldInv'
<1>0. /\ AllSound(rounds) /\ Apart(rounds, due, elapsed) /\ HeldInv
      /\ due \in BOOLEAN /\ elapsed \in Nat /\ rounds \in Seq(Round)
  BY Times DEF IInv, TypeOK
<1>1. AllSound(rounds') /\ Apart(rounds', due', elapsed')
  BY <1>0, UpdateSound
<1> DEFINE t == [rounds EXCEPT ![i] = q]
           f == [j \in DOMAIN t |-> j]
<1>2. /\ DOMAIN t = DOMAIN rounds
      /\ \A j \in DOMAIN t : t[j] = IF j = i THEN q ELSE rounds[j]
  BY <1>0
<1> HIDE DEF t
<1>3. /\ f \in [DOMAIN t -> DOMAIN rounds]
      /\ \A j \in DOMAIN t : f[j] = j
  BY <1>2
<1> HIDE DEF f
<1>4. Owned(t, held \cup D) /\ Ages(t, held \cup D) \subseteq Ages(rounds, held)
  <2>1. /\ \A j, k \in DOMAIN t : f[j] = f[k] => j = k
        /\ \A j \in DOMAIN t : t[j].age = rounds[f[j]].age
        /\ \A j \in DOMAIN t : f[j] # i => t[j] = rounds[f[j]]
        /\ \A j \in DOMAIN t : f[j] = i => t[j] = q
    BY <1>2, <1>3
  <2>2. /\ \A j \in DOMAIN t : f[j] = i =>
             /\ t[j].at # "get"
             /\ rounds[i].at = "get" \/ t[j].todo \subseteq rounds[i].todo
        /\ \A j \in DOMAIN t : f[j] = i => \A x \in D : x.check \notin t[j].todo
    BY <2>1
  <2>3. Owned(rounds, held)
    BY <1>0 DEF HeldInv
  <2>4. \A x \in D : /\ x.age = rounds[i].age /\ x.check \in rounds[i].todo
                     /\ x.age + x.left <= Longest
    OBVIOUS
  <2> QED
    BY <1>3, <2>1, <2>2, <2>3, <2>4, OwnedChange
<1>5. Spread(Ages(t, held \cup D), due, elapsed)
  BY <1>0, <1>4 DEF HeldInv, Spread
<1>6. main # "down"
  BY <1>0 DEF HeldInv
<1>7. rounds' = t
  BY DEF t
<1> QED
  BY <1>1, <1>4, <1>5, <1>6, <1>7 DEF HeldInv

LEMMA RangeOverSound ==
  ASSUME IInv, NEW i \in DOMAIN rounds, NEW T \in SUBSET Checks, RangeOver(i, T),
         NEW D, held' = held \cup D,
         \A x, y \in D : x = y,
         \A x \in D : /\ x.age = rounds[i].age /\ x.check \in rounds[i].todo
                      /\ x.age + x.left <= Longest
                      /\ x.check \notin T,
         \/ rounds[i].at = "get"
         \/ \E c \in rounds[i].todo : rounds[i].at = "post" /\ T = rounds[i].todo \ {c},
         UNCHANGED <<main, due, elapsed>>
  PROVE  AllSound(rounds') /\ Apart(rounds', due', elapsed') /\ HeldInv'
<1>1. CASE T = {}
  BY <1>1, RoundRemoved DEF RangeOver, EndRound
<1>2. CASE T # {}
  <2> DEFINE r == rounds[i]
             q == [at |-> "dial", todo |-> T, left |-> DialLimit, age |-> r.age]
  <2>1. Sound(r)
    BY DEF IInv, AllSound
  <2>2. Sound(q)
    BY <1>2, <2>1, ToDialSound
  <2>3. rounds' = [rounds EXCEPT ![i] = q]
    BY <1>2 DEF RangeOver, GoOn
  <2>4. /\ q.age = rounds[i].age /\ q.at # "get" /\ q.todo = T
        /\ rounds[i].at = "get" \/ q.todo \subseteq rounds[i].todo
    OBVIOUS
  <2> HIDE DEF q
  <2> QED
    BY <2>2, <2>3, <2>4, RoundGoesOn
<1> QED
  BY <1>1, <1>2

\* The type invariant, where only rounds, recent and held change.
LEMMA TypeStep ==
  ASSUME IInv, AllSound(rounds'), recent' \subseteq Checks, held' \subseteq Connection,
         UNCHANGED <<checks, main, quit, asked, elapsed, due>>
  PROVE  TypeOK'
  BY DEF IInv, TypeOK, AllSound, Sound

\* The connection that a post may leave.
Left(i, c) == [check |-> c, age |-> rounds[i].age, left |-> rounds[i].left]

LEMMA LeftSound ==
  ASSUME IInv, NEW i \in DOMAIN rounds, NEW c \in rounds[i].todo, rounds[i].at = "post",
         rounds[i].left > 0
  PROVE  /\ Left(i, c) \in Connection /\ Left(i, c) \notin held
         /\ Left(i, c).age + Left(i, c).left <= Longest
<1>1. /\ Sound(rounds[i]) /\ rounds[i] \in Round /\ rounds[i].age \in Nat
      /\ rounds[i].left \in Nat /\ c \in Checks
  BY DEF IInv, AllSound, Sound, Round
<1>2. rounds[i].left \in 1 .. PostTimeout /\ rounds[i].age <= Longest
  BY <1>1, SoundAge, Times DEF Sound
<1>3. Left(i, c) \in Connection
  BY <1>1, <1>2 DEF Left, Connection
<1>4. Left(i, c).age + Left(i, c).left <= Longest
  <2>1. Ahead(rounds[i]) \in Nat
    BY <1>1, AheadType DEF Sound
  <2> QED
    BY <1>1, <2>1, LongestType DEF Sound, Left
<1>5. Left(i, c) \notin held
  BY DEF IInv, HeldInv, Owned, Left
<1> QED
  BY <1>3, <1>4, <1>5

LEMMA EndsStep ==
  ASSUME IInv, NEW i \in DOMAIN rounds, Ends(i)
  PROVE  IInv'
<1>0. /\ TypeOK /\ Sound(rounds[i])
      /\ rounds[i].todo \in SUBSET Checks /\ rounds[i].left \in Nat
  BY DEF IInv, AllSound, Sound, Round
<1>1. CASE Fetched(i)
  <2>1. PICK n \in 0 .. MaxChecks : RangeOver(i, {c \in checks : c <= n})
    BY <1>1 DEF Fetched
  <2>2. {c \in checks : c <= n} \in SUBSET Checks
    BY <1>0 DEF TypeOK
  <2>3. rounds[i].at = "get" /\ UNCHANGED <<tables, main, quit, asked, elapsed, due, held>>
    BY <1>1 DEF Fetched
  <2>4. AllSound(rounds') /\ Apart(rounds', due', elapsed') /\ HeldInv'
    <3>1. PICK D : D = {}
      OBVIOUS
    <3>2. held' = held \cup D /\ \A x \in D : FALSE
      BY <2>3, <3>1
    <3> QED
      BY <2>1, <2>2, <2>3, <3>2, RangeOverSound
  <2> QED
    BY <1>0, <2>3, <2>4, TypeStep DEF IInv, TypeOK, tables
<1>2. CASE FetchFails(i)
  <2>1. AllSound(rounds') /\ Apart(rounds', due', elapsed') /\ HeldInv'
    <3>1. PICK D : D = {}
      OBVIOUS
    <3>2. held' = held \cup D /\ \A x \in D : FALSE
      BY <1>2, <3>1 DEF FetchFails
    <3> QED
      BY <1>2, <3>2, RoundRemoved DEF FetchFails, EndRound
  <2> QED
    BY <1>0, <1>2, <2>1, TypeStep DEF IInv, TypeOK, tables, FetchFails
<1>3. CASE DialEnds(i)
  <2> DEFINE q == [at |-> "post", todo |-> rounds[i].todo, left |-> PostTimeout,
                   age |-> rounds[i].age]
  <2>1. Sound(q)
    BY <1>0, <1>3, ToPostSound DEF DialEnds
  <2>2. /\ rounds' = [rounds EXCEPT ![i] = q] /\ q.age = rounds[i].age
        /\ q.at # "get" /\ q.todo \subseteq rounds[i].todo
    BY <1>3 DEF DialEnds, AfterDial, GoOn
  <2>3. AllSound(rounds') /\ Apart(rounds', due', elapsed') /\ HeldInv'
    <3>1. PICK D : D = {}
      OBVIOUS
    <3>2. held' = held \cup D /\ (\A x \in D : FALSE) /\ UNCHANGED <<main, due, elapsed>>
      BY <1>3, <3>1 DEF DialEnds
    <3>3. rounds[i].at = "get" \/ q.todo \subseteq rounds[i].todo
      BY <2>2
    <3> HIDE DEF q
    <3> QED
      BY <2>1, <2>2, <3>2, <3>3, RoundGoesOn
  <2> QED
    BY <1>0, <1>3, <2>3, TypeStep DEF IInv, TypeOK, tables, DialEnds
<1>4. ASSUME NEW c \in Checks, NEW stored \in BOOLEAN, NEW answered \in BOOLEAN,
             PostEnds(i, c, stored, answered)
      PROVE  IInv'
  <2> DEFINE D == IF answered /\ rounds[i].left > 0 THEN {Left(i, c)} ELSE {}
  <2>1. /\ rounds[i].at = "post" /\ c \in rounds[i].todo
        /\ RangeOver(i, rounds[i].todo \ {c})
        /\ UNCHANGED <<checks, main, quit, asked, elapsed, due>>
        /\ held' = held \cup D
    BY <1>4 DEF PostEnds, CreatePortResult, IsCurrent, Left
  <2>2. /\ \A x, y \in D : x = y
        /\ D \subseteq Connection
        /\ \A x \in D : /\ x.age = rounds[i].age /\ x.check \in rounds[i].todo
                        /\ x.age + x.left <= Longest
                        /\ x.check \notin rounds[i].todo \ {c}
    <3>1. Left(i, c).age = rounds[i].age /\ Left(i, c).check = c
      BY DEF Left
    <3> QED
      BY <2>1, <3>1, LeftSound
  <2> HIDE DEF D
  <2>3. AllSound(rounds') /\ Apart(rounds', due', elapsed') /\ HeldInv'
    BY <1>0, <2>1, <2>2, RangeOverSound
  <2>4. recent' \subseteq Checks
    BY <1>0, <1>4 DEF PostEnds, CreatePortResult, TypeOK
  <2>5. held' \subseteq Connection
    BY <1>0, <2>1, <2>2 DEF TypeOK
  <2> QED
    BY <2>1, <2>3, <2>4, <2>5, TypeStep DEF IInv
<1> QED
  BY <1>1, <1>2, <1>3, <1>4 DEF Ends

LEMMA PassTimeStep ==
  ASSUME IInv, PassTime
  PROVE  IInv'
<1>0. TypeOK /\ AllSound(rounds) /\ Apart(rounds, due, elapsed) /\ HeldInv
  BY DEF IInv
<1>1. elapsed' \in 0 .. Period - 1 /\ due' \in BOOLEAN
  BY <1>0, Times DEF PassTime, TypeOK, Fires
<1> DEFINE f == Fires
<1>f. f \in BOOLEAN /\ due' = (due \/ f)
  BY DEF PassTime, Fires
<1>2. AllSound(rounds') /\ Apart(rounds', due', elapsed')
  <2>1. /\ elapsed' \in Nat
        /\ IF f THEN elapsed + 1 = Period /\ elapsed' = 0 ELSE elapsed' <= elapsed + 1
    BY <1>0, <1>1, Times DEF PassTime, TypeOK, Fires
  <2>2. /\ \A i \in DOMAIN rounds : rounds[i].left > 0
        /\ due \in BOOLEAN /\ elapsed \in 0 .. Period - 1
    BY <1>0 DEF PassTime, TypeOK
  <2>3. /\ AllSound([i \in DOMAIN rounds |-> Later(rounds[i])])
        /\ Apart([i \in DOMAIN rounds |-> Later(rounds[i])], due \/ f, elapsed')
    BY <1>0, <1>f, <2>1, <2>2, TimeSound
  <2> QED
    BY <1>f, <2>3 DEF PassTime
<1>3. held' \subseteq Connection
  <2>1. ASSUME NEW h \in held, h.left > 1
        PROVE  [check |-> h.check, age |-> h.age + 1, left |-> h.left - 1] \in Connection
    <3>1. h.check \in Checks /\ h.age \in Nat /\ h.left \in 1 .. PostTimeout
      BY <1>0 DEF TypeOK, Connection
    <3> QED
      BY <2>1, <3>1, Times DEF Connection
  <2> QED
    BY <2>1 DEF PassTime, Release
<1>4. /\ recent' \subseteq Checks
      /\ UNCHANGED <<checks, main, quit, asked>>
  BY <1>0 DEF PassTime, TypeOK
<1>5. TypeOK'
  BY <1>0, <1>1, <1>2, <1>3, <1>4 DEF TypeOK, AllSound, Sound
<1>6. HeldInv'
  <2>1. /\ DOMAIN rounds' = DOMAIN rounds
        /\ \A i \in DOMAIN rounds : /\ rounds'[i].age = rounds[i].age + 1
                                    /\ rounds'[i].at = rounds[i].at
                                    /\ rounds'[i].todo = rounds[i].todo
    BY DEF PassTime, Later
  <2>2. \A h \in held' : \E g \in held : /\ h.check = g.check /\ h.age = g.age + 1
                                         /\ h.left = g.left - 1
    BY DEF PassTime, Release
  <2>3. /\ \A i \in DOMAIN rounds : rounds[i].age \in Nat
        /\ \A h \in held : h.age \in Nat /\ h.left \in Nat
    <3>1. \A i \in DOMAIN rounds : rounds[i].age \in Nat
      BY <1>0, SoundAge DEF AllSound
    <3>2. \A h \in held : h.age \in Nat /\ h.left \in Nat
      BY <1>0, Times DEF TypeOK, Connection
    <3> QED
      BY <3>1, <3>2
  <2>4. Owned(rounds', held')
    <3>1. \A i, j \in DOMAIN rounds' : rounds'[i].age = rounds'[j].age => i = j
      BY <1>0, <2>1, <2>3 DEF HeldInv, Owned
    <3>2. ASSUME NEW h \in held', NEW i \in DOMAIN rounds', h.age = rounds'[i].age
          PROVE  rounds'[i].at # "get" /\ h.check \notin rounds'[i].todo
      <4>1. PICK g \in held : h.check = g.check /\ h.age = g.age + 1
        BY <2>2
      <4>2. g.age + 1 = rounds[i].age + 1 /\ i \in DOMAIN rounds
        BY <2>1, <3>2, <4>1
      <4>3. g.age = rounds[i].age
        BY <2>3, <4>2
      <4> QED
        BY <1>0, <2>1, <4>1, <4>2, <4>3 DEF HeldInv, Owned
    <3>3. ASSUME NEW x \in held', NEW y \in held', x.check = y.check, x.age = y.age
          PROVE  x = y
      <4>1. PICK g \in held : x = [check |-> g.check, age |-> g.age + 1, left |-> g.left - 1]
        BY DEF PassTime, Release
      <4>2. PICK h \in held : y = [check |-> h.check, age |-> h.age + 1, left |-> h.left - 1]
        BY DEF PassTime, Release
      <4>3. g.check = h.check /\ g.age = h.age
        BY <2>3, <3>3, <4>1, <4>2
      <4>4. g = h
        BY <1>0, <4>3 DEF HeldInv, Owned
      <4> QED
        BY <4>1, <4>2, <4>4
    <3>4. ASSUME NEW h \in held' PROVE h.age + h.left <= Longest
      <4>1. PICK g \in held : h.age = g.age + 1 /\ h.left = g.left - 1
        BY <2>2
      <4>2. h.age + h.left = g.age + g.left
        BY <2>3, <4>1
      <4> QED
        BY <1>0, <4>2 DEF HeldInv, Owned
    <3> QED
      BY <3>1, <3>2, <3>3, <3>4 DEF Owned
  <2>5. CASE main = "down"
    <3>1. rounds = <<>> /\ held = {}
      BY <1>0, <2>5 DEF HeldInv
    <3>2. rounds' = <<>> /\ held' = {}
      BY <2>1, <2>2, <3>1, <1>2 DEF AllSound
    <3> QED
      BY <1>1, <3>2, NothingStarted DEF HeldInv
  <2>6. CASE main # "down"
    <3>1. /\ IF f THEN elapsed + 1 = Period /\ elapsed' = 0 ELSE elapsed' = elapsed + 1
          /\ due \in BOOLEAN /\ elapsed \in 0 .. Period - 1
      BY <1>0, <2>6, Times DEF PassTime, TypeOK, Fires
    <3>2. \A b \in Ages(rounds', held') : \E a \in Ages(rounds, held) : b = a + 1
      BY <2>1, <2>2 DEF Ages
    <3>3. Spread(Ages(rounds', held'), due', elapsed')
      <4>1. PICK A, B : A = Ages(rounds, held) /\ B = Ages(rounds', held')
        OBVIOUS
      <4>2. Spread(A, due, elapsed) /\ \A b \in B : \E a \in A : b = a + 1
        BY <1>0, <3>2, <4>1 DEF HeldInv
      <4>3. due' => due \/ f
        BY <1>f
      <4>4. /\ f => elapsed + 1 = Period /\ elapsed' = 0
            /\ ~ f => elapsed' = elapsed + 1
        BY <3>1
      <4> HIDE DEF f
      <4>5. Spread(B, due', elapsed')
        BY <3>1, <4>2, <4>3, <4>4, SpreadLater
      <4> QED
        BY <4>1, <4>5
    <3> QED
      BY <1>f, <1>4, <2>4, <2>6, <3>3 DEF HeldInv
  <2> QED
    BY <2>5, <2>6
<1> QED
  BY <1>2, <1>5, <1>6 DEF IInv

LEMMA InductiveStep == IInv /\ [Next]_vars => IInv'
<1> SUFFICES ASSUME IInv, [Next]_vars PROVE IInv'
  OBVIOUS
<1>0. TypeOK /\ AllSound(rounds) /\ Apart(rounds, due, elapsed) /\ HeldInv
  BY DEF IInv
<1>1. ASSUME NEW c \in Checks, CreatePortCheck(c) PROVE IInv'
  BY <1>0, <1>1 DEF CreatePortCheck, IInv, TypeOK, HeldInv
<1>2. CASE AgentStarts \/ Work \/ WorkEnds
  BY <1>0, <1>2 DEF AgentStarts, Work, WorkEnds, IInv, TypeOK, tables, HeldInv
<1>3. CASE AgentCrashes \/ Quit
  BY <1>3, NoProcessSound DEF AgentCrashes, Quit
<1>4. CASE Signal
  BY <1>0, <1>4 DEF Signal, Keeps, IInv, TypeOK, tables, HeldInv
<1>5. CASE StartRound
  <2> DEFINE q == [at |-> "get", todo |-> {}, left |-> GetTimeout, age |-> 0]
  <2>1. /\ rounds' = Append(rounds, q) /\ due = TRUE /\ due' = FALSE
        /\ UNCHANGED <<elapsed, main, held>> /\ main # "down"
    BY <1>0, <1>5 DEF StartRound, TypeOK
  <2>2. elapsed \in Nat
    BY <1>0, Times DEF TypeOK
  <2>3. Sound(q) /\ q \in Round /\ q.age = 0
    BY NewRoundSound DEF Sound
  <2>4. AllSound(rounds') /\ Apart(rounds', due', elapsed')
    BY <1>0, <2>1, <2>2, <2>3, StartSound
  <2>5. TypeOK'
    BY <1>0, <1>5, <2>4 DEF StartRound, TypeOK, AllSound, Sound, tables
  <2>6. HeldInv'
    <3> HIDE DEF q
    <3>1. Owned(rounds', held) /\ Spread(Ages(rounds', held), FALSE, elapsed)
      BY <1>0, <2>1, <2>2, <2>3, OwnedStart DEF HeldInv
    <3> QED
      BY <2>1, <3>1 DEF HeldInv
  <2> QED
    BY <2>4, <2>5, <2>6 DEF IInv
<1>6. ASSUME NEW i \in DOMAIN rounds, Ends(i) PROVE IInv'
  BY <1>6, EndsStep
<1>7. CASE PassTime
  BY <1>7, PassTimeStep
<1>8. CASE UNCHANGED vars
  BY <1>0, <1>8 DEF vars, tables, IInv, TypeOK, HeldInv
<1> QED
  BY <1>1, <1>2, <1>3, <1>4, <1>5, <1>6, <1>7, <1>8 DEF Next, Main

LEMMA Inductive == Spec => []IInv
  BY InductiveInit, InductiveStep, PTL DEF Spec

-----------------------------------------------------------------------------
\* Every variable stays in its type; in particular a round that dials or posts
\* has a check to dial or to report, whatever the backend answered.
THEOREM TypeCorrect == Spec => []TypeOK
  BY Inductive, PTL DEF IInv

\* A round is over in time, for any number of checks and any timeouts.
THEOREM RoundEndsAlways == Spec => []RoundEnds
<1>1. IInv => RoundEnds
  BY SoundAge DEF IInv, AllSound, RoundEnds
<1> QED
  BY <1>1, Inductive, PTL

\* There are never more rounds under way than fit into the time of the longest,
\* and two, however late main takes the ticks.
THEOREM RoundsBoundedAlways == Spec => []RoundsBounded
<1>1. IInv => RoundsBounded
  <2> SUFFICES ASSUME IInv, Len(rounds) > 2
               PROVE  (Len(rounds) - 2) * Period <= Longest
    BY DEF RoundsBounded
  <2> DEFINE n == Len(rounds)
  <2>1. rounds \in Seq(Round) /\ n \in Nat /\ 1 \in DOMAIN rounds
    BY DEF IInv, TypeOK
  <2>2. rounds[1].age \in Nat /\ rounds[1].age <= Longest /\ Longest \in Nat
    BY <2>1, SoundAge, LongestType DEF IInv, AllSound
  <2>3. /\ due \in BOOLEAN /\ elapsed \in Nat
        /\ due => rounds[1].age >= Gap(n - 1) + elapsed
        /\ ~ due => rounds[1].age >= Gap(n - 1 - 1) + elapsed
    BY <2>1, Times DEF IInv, TypeOK, Apart
  <2>4. n - 2 \in Nat /\ n - 1 = (n - 2) + 1 /\ n - 1 - 1 = n - 2
    BY <2>1
  <2>5. Gap(n - 2) \in Nat /\ Gap(n - 1) = Gap(n - 2) + Period
    BY <2>4, GapStep
  <2>6. rounds[1].age >= Gap(n - 2)
    <3>1. CASE due
      BY <2>2, <2>3, <2>5, <3>1, Times
    <3>2. CASE ~ due
      <4>1. Gap(n - 1 - 1) = Gap(n - 2)
        BY <2>4
      <4> QED
        BY <2>2, <2>3, <2>5, <3>2, <4>1
    <3> QED
      BY <3>1, <3>2
  <2>7. Gap(n - 2) <= Longest
    BY <2>2, <2>5, <2>6
  <2> QED
    BY <2>7 DEF Gap
<1> QED
  BY <1>1, Inductive, PTL
-----------------------------------------------------------------------------
(* How many connections are held at a time.                                *)

\* How many rounds fit into the time within which connections are held.
Overlap == (Longest - 1) \div Period

LEMMA Quotient ==
  ASSUME NEW x \in Nat, NEW p \in Nat \ {0}
  PROVE  /\ x \div p \in Nat
         /\ (x \div p) * p <= x
         /\ x < ((x \div p) + 1) * p
  OBVIOUS

LEMMA GapGrows ==
  ASSUME NEW m \in Nat, NEW n \in Nat
  PROVE  /\ m <= n => Gap(m) <= Gap(n)
         /\ Gap(m) < Gap(n) => m < n
<1>1. \A p \in Nat : /\ m <= n => m * p <= n * p
                     /\ n <= m => n * p <= m * p
  OBVIOUS
<1>2. /\ m <= n => m * Period <= n * Period
      /\ n <= m => n * Period <= m * Period
  BY <1>1, Times
<1>3. m * Period \in Nat /\ n * Period \in Nat
  BY Times
<1> QED
  BY <1>2, <1>3 DEF Gap

\* The ticker fired n times since the start of a round.
Firings(a, n, e) == a <= e + Gap(n) /\ (n > 0 => e + Gap(n - 1) < a)

\* A round that may hold connections started within the last firings.
LEMMA FiringsExist ==
  ASSUME NEW e \in 0 .. Period - 1, NEW a \in 0 .. Longest - 1
  PROVE  \E n \in 0 .. Overlap + 1 : Firings(a, n, e)
<1>1. /\ e \in Nat /\ e < Period /\ a \in Nat /\ a <= Longest - 1
      /\ Longest - 1 \in Nat
  BY LongestType, Times
<1> DEFINE M == Longest - 1
<1>2. CASE a <= e
  <2>1. Firings(a, 0, e)
    BY <1>1, <1>2, GapStep DEF Firings
  <2>2. 0 \in 0 .. Overlap + 1
    BY <1>1, Quotient, Times DEF Overlap
  <2> QED
    BY <2>1, <2>2
<1>3. CASE e < a
  <2> DEFINE x == a - e - 1
             n == x \div Period
  <2>1. x \in Nat /\ x <= M
    BY <1>1, <1>3
  <2>2. n \in Nat /\ Gap(n) <= x /\ x < Gap(n + 1)
    BY <2>1, Quotient, Times DEF Gap
  <2>3. Overlap \in Nat /\ M < Gap(Overlap + 1)
    BY <1>1, Quotient, Times DEF Overlap, Gap
  <2>4. n <= Overlap
    <3>1. Gap(n) < Gap(Overlap + 1)
      <4>1. Gap(n) \in Nat /\ Gap(Overlap + 1) \in Nat
        BY <2>2, <2>3, GapStep
      <4> HIDE DEF x, n
      <4> QED
        BY <1>1, <2>1, <2>2, <2>3, <4>1
    <3>2. n < Overlap + 1
      BY <2>2, <2>3, <3>1, GapGrows
    <3> QED
      BY <2>2, <2>3, <3>2
  <2>5. Firings(a, n + 1, e)
    <3>1. Gap(n) \in Nat /\ Gap(n + 1) \in Nat /\ n + 1 - 1 = n
      BY <2>2, GapStep
    <3> QED
      BY <1>1, <1>3, <2>2, <3>1 DEF Firings
  <2>6. n + 1 \in 0 .. Overlap + 1
    BY <2>2, <2>3, <2>4
  <2> QED
    BY <2>5, <2>6
<1> QED
  BY <1>1, <1>2, <1>3

\* Between two starts the ticker fired, so that they are told by their firings.
LEMMA FiringsTell ==
  ASSUME NEW e \in Nat, NEW a \in Nat, NEW b \in Nat, a < b, Separated(a, b, e),
         NEW n \in Nat, Firings(a, n, e), Firings(b, n, e)
  PROVE  FALSE
<1>1. PICK k \in Nat : a <= e + Gap(k) /\ e + Gap(k) < b
  BY DEF Separated
<1>2. Gap(k) \in Nat /\ Gap(n) \in Nat
  BY GapStep
<1>3. Gap(k) < Gap(n)
  BY <1>1, <1>2 DEF Firings
<1>4. k < n
  BY <1>3, GapGrows
<1>5. n > 0 /\ n - 1 \in Nat /\ k <= n - 1
  BY <1>4
<1>6. Gap(k) <= Gap(n - 1) /\ Gap(n - 1) \in Nat
  BY <1>5, GapGrows, GapStep
<1>7. e + Gap(n - 1) < a
  BY <1>5 DEF Firings
<1> QED
  BY <1>1, <1>2, <1>6, <1>7

\* There are never more connections held than the checks of the rounds that fit
\* into the time of the longest, and of two more: for any number of checks and
\* any timeouts, however late main takes the ticks.
THEOREM HeldBoundedAlways == Spec => []HeldBounded
<1>1. IInv => HeldBounded
  <2> SUFFICES ASSUME IInv PROVE HeldBounded
    OBVIOUS
  <2>0. /\ TypeOK /\ HeldInv /\ elapsed \in 0 .. Period - 1 /\ elapsed \in Nat
        /\ Longest - 1 \in Nat /\ Overlap \in Nat
    BY LongestType, Times, Quotient DEF IInv, TypeOK, Overlap
  <2>1. ASSUME NEW h \in held
        PROVE  /\ h.check \in Checks /\ h.age \in Nat /\ h.age \in 0 .. Longest - 1
               /\ h.age \in Ages(rounds, held)
    <3>1. h.check \in Checks /\ h.age \in Nat /\ h.left \in Nat /\ h.left > 0
      BY <2>0, Times DEF TypeOK, Connection
    <3>2. h.age + h.left <= Longest
      BY <2>0 DEF HeldInv, Owned
    <3>3. h.age \in Ages(rounds, held)
      BY DEF Ages
    <3> QED
      BY <2>0, <3>1, <3>2, <3>3, LongestType
  <2> DEFINE Firing(a) == CHOOSE n \in 0 .. Overlap + 1 : Firings(a, n, elapsed)
             S == Checks \X (0 .. Overlap + 1)
             f == [h \in held |-> <<h.check, Firing(h.age)>>]
  <2>2. ASSUME NEW h \in held
        PROVE  Firing(h.age) \in 0 .. Overlap + 1 /\ Firings(h.age, Firing(h.age), elapsed)
    <3>1. \E n \in 0 .. Overlap + 1 : Firings(h.age, n, elapsed)
      BY <2>0, <2>1, FiringsExist
    <3> QED
      BY <3>1
  <2> HIDE DEF Firing
  <2>3. f \in [held -> S]
    BY <2>1, <2>2
  <2>4. ASSUME NEW g \in held, NEW h \in held, f[g] = f[h] PROVE g = h
    <3>1. g.check = h.check /\ Firing(g.age) = Firing(h.age)
      BY <2>4
    <3>2. Firing(h.age) \in Nat /\ Firings(g.age, Firing(h.age), elapsed)
            /\ Firings(h.age, Firing(h.age), elapsed)
      BY <2>0, <2>2, <3>1
    <3>3. g.age = h.age
      <4>1. /\ g.age < h.age => Separated(g.age, h.age, elapsed)
            /\ h.age < g.age => Separated(h.age, g.age, elapsed)
        BY <2>0, <2>1 DEF HeldInv, Spread
      <4>2. ~ (g.age < h.age) /\ ~ (h.age < g.age)
        BY <2>0, <2>1, <3>2, <4>1, FiringsTell
      <4> QED
        BY <2>1, <4>2
    <3> QED
      BY <2>0, <3>1, <3>3 DEF HeldInv, Owned
  <2>5. f \in Injection(held, S)
    BY <2>3, <2>4 DEF Injection, IsInjective
  <2>6. IsFiniteSet(S) /\ Cardinality(S) = MaxChecks * (Overlap + 2)
    <3>1. IsFiniteSet(Checks) /\ Cardinality(Checks) = MaxChecks
      BY ChecksFinite
    <3>2. IsFiniteSet(0 .. Overlap + 1) /\ Cardinality(0 .. Overlap + 1) = Overlap + 2
      <4>1. PICK m \in Nat : m = Overlap + 1
        BY <2>0
      <4>2. 0 \in Int /\ m \in Int
        BY <4>1
      <4>3. IsFiniteSet(0 .. m)
        BY <4>2, FS_Interval
      <4>4. Cardinality(0 .. m) = IF 0 > m THEN 0 ELSE m - 0 + 1
        BY <4>2, FS_Interval, Zenon
      <4>5. Cardinality(0 .. m) = m + 1
        BY <4>1, <4>4
      <4> QED
        BY <2>0, <4>1, <4>3, <4>5
    <3> QED
      BY <3>1, <3>2, FS_Product
  <2>7. Cardinality(held) <= Cardinality(S)
    <3> HIDE DEF f, S
    <3> QED
      BY <2>5, <2>6, FS_Injection
  <2> QED
    BY <2>6, <2>7 DEF HeldBounded, Overlap
<1> QED
  BY <1>1, Inductive, PTL

\* A response that is left unread is one connection more: no two of them are
\* taken for one, by their check and the age of their round.
THEOREM EachCounted ==
  Spec => [][\A i \in DOMAIN rounds : \A c \in Checks, stored \in BOOLEAN :
               PostEnds(i, c, stored, TRUE) /\ rounds[i].left > 0 =>
                 \E h \in Connection : h \notin held /\ held' = held \cup {h}]_vars
<1>1. ASSUME IInv, NEW i \in DOMAIN rounds, NEW c \in Checks, NEW stored \in BOOLEAN,
             PostEnds(i, c, stored, TRUE), rounds[i].left > 0
      PROVE  \E h \in Connection : h \notin held /\ held' = held \cup {h}
  <2>1. /\ rounds[i].at = "post" /\ c \in rounds[i].todo
        /\ held' = held \cup {Left(i, c)}
    BY <1>1 DEF PostEnds, IsCurrent, Left
  <2>2. Left(i, c) \in Connection /\ Left(i, c) \notin held
    BY <1>1, <2>1, LeftSound
  <2> QED
    BY <2>1, <2>2
<1>2. IInv => \A i \in DOMAIN rounds : \A c \in Checks, stored \in BOOLEAN :
                PostEnds(i, c, stored, TRUE) /\ rounds[i].left > 0 =>
                  \E h \in Connection : h \notin held /\ held' = held \cup {h}
  BY <1>1
<1> QED
  BY <1>2, Inductive, PTL DEF Spec
=============================================================================
