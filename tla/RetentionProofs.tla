---------------------------- MODULE RetentionProofs ----------------------------
(***************************************************************************)
(* Proofs about module Retention, for any retention time and period.       *)
(***************************************************************************)
EXTENDS Retention, TLAPS

-----------------------------------------------------------------------------
\* How old a row can be, as far as the cleanups seen since the start tell: it
\* was within the thirty days at the last one, and the ticker knows how long
\* ago that was.
Clock ==
  worker = "up" =>
    /\ due => elapsed = 0
    /\ cleaned => \A a \in ages : a <= Retain + (IF due THEN Period ELSE elapsed)

IInv == TypeOK /\ Clock

LEMMA NoTimeElapsed == 0 \in 0 .. Period - 1 /\ 0 \in 0 .. MaxAge
  BY TimesAssumption

LEMMA InductiveInit == Init => IInv
<1> SUFFICES ASSUME Init PROVE IInv
  OBVIOUS
<1>1. TypeOK
  BY NoTimeElapsed DEF Init, TypeOK
<1>2. Clock
  BY DEF Init, Clock
<1> QED
  BY <1>1, <1>2 DEF IInv

LEMMA OlderType ==
  ASSUME NEW a \in 0 .. MaxAge
  PROVE  Older(a) \in 0 .. MaxAge /\ Older(a) <= a + 1
  BY TimesAssumption DEF Older

LEMMA InductiveStep == IInv /\ [Next]_vars => IInv'
<1> SUFFICES ASSUME IInv, [Next]_vars PROVE IInv'
  OBVIOUS
<1>0. TypeOK /\ Clock
  BY DEF IInv
<1> USE TimesAssumption
<1>1. CASE Start
  <2>1. TypeOK'
    BY <1>0, <1>1, NoTimeElapsed DEF Start, TypeOK
  <2>2. Clock'
    BY <1>1 DEF Start, Clock
  <2> QED
    BY <2>1, <2>2 DEF IInv
<1>2. CASE Stop
  BY <1>0, <1>2 DEF Stop, IInv, TypeOK, Clock
<1>3. CASE Insert
  <2>1. ages' \subseteq 0 .. MaxAge /\ \A a \in ages' : a \in ages \/ a = 0
    BY <1>0, <1>3 DEF Insert, TypeOK
  <2>2. Retain \in Nat /\ Period \in Nat /\ elapsed \in Nat
    BY <1>0 DEF TypeOK
  <2> QED
    BY <1>0, <1>3, <2>1, <2>2 DEF Insert, IInv, TypeOK, Clock
<1>4. CASE PassTime
  <2>1. ages' \subseteq 0 .. MaxAge
    BY <1>0, <1>4, OlderType DEF PassTime, TypeOK
  <2>2. elapsed' \in 0 .. Period - 1 /\ due' \in BOOLEAN
    <3>1. Period \in Nat /\ elapsed \in 0 .. Period - 1
      BY <1>0 DEF TypeOK
    <3>2. CASE worker = "up" /\ Fires
      BY <1>4, <3>2, NoTimeElapsed DEF PassTime
    <3>3. CASE worker = "up" /\ ~ Fires
      BY <1>0, <1>4, <3>1, <3>3 DEF PassTime, Fires, TypeOK
    <3>4. CASE worker # "up"
      BY <1>0, <1>4, <3>4 DEF PassTime, TypeOK
    <3> QED
      BY <3>2, <3>3, <3>4
  <2>3. TypeOK'
    BY <1>0, <1>4, <2>1, <2>2 DEF PassTime, TypeOK
  <2>4. ASSUME worker = "up", cleaned, NEW b \in ages'
        PROVE  b <= Retain + (IF due' THEN Period ELSE elapsed')
    <3>1. PICK a \in ages : b = Older(a)
      BY <1>4 DEF PassTime
    <3>2. /\ a \in 0 .. MaxAge /\ b <= a + 1 /\ b \in Nat
          /\ elapsed \in Nat /\ Retain \in Nat /\ Period \in Nat
      BY <1>0, <3>1, OlderType DEF TypeOK
    <3>3. ~ due /\ a <= Retain + elapsed
      BY <1>0, <1>4, <2>4 DEF PassTime, Clock
    <3>4. CASE Fires
      BY <1>4, <2>4, <3>2, <3>3, <3>4 DEF PassTime, Fires
    <3>5. CASE ~ Fires
      BY <1>4, <2>4, <3>2, <3>3, <3>5 DEF PassTime
    <3> QED
      BY <3>4, <3>5
  <2>5. worker' = "up" /\ due' => elapsed' = 0
    BY <1>0, <1>4 DEF PassTime, TypeOK
  <2>6. worker' = worker /\ cleaned' = cleaned
    BY <1>4 DEF PassTime
  <2> QED
    BY <2>3, <2>4, <2>5, <2>6 DEF IInv, Clock
<1>5. CASE Cleanup
  <2>1. /\ ages' \subseteq ages /\ due' = FALSE
        /\ UNCHANGED <<worker, elapsed>>
        /\ cleaned' = TRUE /\ due /\ worker = "up"
    BY <1>5 DEF Cleanup
  <2>2. TypeOK'
    BY <1>0, <2>1 DEF TypeOK
  <2>3. elapsed' = 0
    BY <1>0, <2>1 DEF Clock
  <2>4. \A a \in ages' : a \in Nat /\ a <= Retain
    BY <1>0, <1>5 DEF Cleanup, Expired, TypeOK
  <2>5. \A a \in ages' : a <= Retain + 0
    BY <2>4
  <2> QED
    BY <2>1, <2>2, <2>3, <2>5 DEF IInv, Clock
<1>6. CASE CleanupFails
  BY <1>0, <1>6 DEF CleanupFails, IInv, TypeOK, Clock
<1>7. CASE UNCHANGED vars
  BY <1>0, <1>7 DEF vars, IInv, TypeOK, Clock
<1> QED
  BY <1>1, <1>2, <1>3, <1>4, <1>5, <1>6, <1>7 DEF Next

LEMMA Inductive == Spec => []IInv
  BY InductiveInit, InductiveStep, PTL DEF Spec

\* The ages, the ticker and the worker keep their types, for any retention and
\* period.
THEOREM TypeCorrect == Spec => []TypeOK
  BY Inductive, PTL DEF IInv

\* While the worker is up and its cleanups succeed, no row outlives the thirty
\* days by more than the period of the ticker, for any of the two.
THEOREM AgeBoundAlways == Spec => []AgeBound
<1>1. IInv => AgeBound
  <2> SUFFICES ASSUME IInv, worker = "up", cleaned, NEW a \in ages
               PROVE  a <= Retain + Period
    BY DEF AgeBound
  <2>1. /\ a <= Retain + (IF due THEN Period ELSE elapsed)
        /\ elapsed \in 0 .. Period - 1 /\ a \in Nat
        /\ Retain \in Nat /\ Period \in Nat
    BY TimesAssumption DEF IInv, TypeOK, Clock
  <2> QED
    BY <2>1
<1> QED
  BY <1>1, Inductive, PTL

\* No step of the worker, the clock or the handlers loses a row before its
\* thirty days are over.
THEOREM NothingYoungLostEver == Spec => NothingYoungLost
<1>1. ASSUME TypeOK, [Next]_vars, NEW a \in ages, a <= Retain
      PROVE  a \in ages' \/ Older(a) \in ages'
  <2>1. CASE Cleanup
    BY <1>1, <2>1, TimesAssumption DEF Cleanup, Expired, TypeOK
  <2>2. CASE PassTime
    BY <1>1, <2>2 DEF PassTime
  <2>3. CASE Insert
    BY <1>1, <2>3 DEF Insert
  <2>4. CASE Start \/ Stop \/ CleanupFails \/ UNCHANGED vars
    BY <1>1, <2>4 DEF Start, Stop, CleanupFails, vars
  <2> QED
    BY <1>1, <2>1, <2>2, <2>3, <2>4 DEF Next
<1>2. TypeOK /\ [Next]_vars =>
        [\A a \in ages : a <= Retain => a \in ages' \/ Older(a) \in ages']_vars
  BY <1>1
<1> QED
  BY <1>2, Inductive, PTL DEF IInv, Spec, NothingYoungLost
=============================================================================
