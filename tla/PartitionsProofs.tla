--------------------------- MODULE PartitionsProofs ---------------------------
(***************************************************************************)
(* Proofs about module Partitions, for any years, leap or not, and a clock *)
(* that visits any days.                                                   *)
(***************************************************************************)
EXTENDS Partitions, TLAPS

-----------------------------------------------------------------------------
\* Turn i, on some day of the loop in the month of its start, made a partition.
Made(i) ==
  \E d \in began.day .. latest.day : AddMonths([month |-> began.month, day |-> d], i) \in created

\* What the last run of EnsurePartitions has done so far: every turn that did not
\* fail has made its partition.
Progress ==
  /\ backend = "up" => turn = 3
  /\ began = latest \/ Before(began, latest)
  /\ latest = today \/ Before(latest, today)
  /\ latest.month = began.month => \A i \in (-1 .. 2) \ failed : i < turn => Made(i)

IInv == TypeOK /\ Progress

LEMMA DaysInType == ASSUME NEW m \in Int PROVE DaysIn(m) \in 28 .. 31
  BY DEF DaysIn, IsLeap

LEMMA AddMonthsType ==
  ASSUME NEW t \in Dates(Nat), NEW i \in Int
  PROVE  AddMonths(t, i) \in Int
<1>1. t.month \in Nat
  BY DEF Dates
<1> QED
  BY <1>1 DEF AddMonths

LEMMA DateType == ASSUME NEW t \in Dates(Nat) PROVE t.month \in Nat /\ t.day \in 1 .. 31
  BY DEF Dates

LEMMA InductiveInit == Init => IInv
<1> SUFFICES ASSUME Init PROVE IInv
  OBVIOUS
<1>1. DaysIn(FirstMonth) \in 28 .. 31
  BY DaysInType, MonthAssumption
<1>2. TypeOK
  <2>1. [month |-> FirstMonth, day |-> 1] \in Dates(Nat)
    BY <1>1, MonthAssumption DEF Dates
  <2>2. today \in Dates(Nat) /\ began \in Dates(Nat) /\ latest \in Dates(Nat)
    BY <2>1 DEF Init
  <2>3. turn \in -1 .. 3
    BY DEF Init, FirstTurn
  <2> QED
    BY <2>2, <2>3 DEF Init, TypeOK
<1>3. Progress
  BY DEF Init, Progress, FirstTurn
<1> QED
  BY <1>2, <1>3 DEF IInv

\* A turn that is made today: what the ones before it made is still there.
LEMMA TurnKeeps ==
  ASSUME IInv, created \subseteq created', latest' = today, UNCHANGED began,
         latest'.month = began.month, NEW i \in (-1 .. 2) \ failed, i < turn
  PROVE  Made(i)'
<1>1. began \in Dates(Nat) /\ latest \in Dates(Nat) /\ today \in Dates(Nat) /\ Progress
  BY DEF IInv, TypeOK
<1>2. /\ began.month \in Nat /\ latest.month \in Nat /\ today.month \in Nat
      /\ began.day \in 1 .. 31 /\ latest.day \in 1 .. 31 /\ today.day \in 1 .. 31
  BY <1>1, DateType
<1>3. latest.month = began.month /\ latest.day <= today.day
  BY <1>1, <1>2 DEF Progress, Before
<1>4. Made(i)
  BY <1>1, <1>3 DEF Progress
<1>5. PICK d \in began.day .. latest.day : AddMonths([month |-> began.month, day |-> d], i) \in created
  BY <1>4 DEF Made
<1>6. d \in began'.day .. latest'.day
  BY <1>2, <1>3
<1>7. AddMonths([month |-> began.month, day |-> d], i)' \in created'
  BY <1>5 DEF AddMonths
<1> QED
  BY <1>6, <1>7 DEF Made

LEMMA TurnOrdered ==
  ASSUME IInv
  PROVE  began = today \/ Before(began, today)
<1>1. began \in Dates(Nat) /\ latest \in Dates(Nat) /\ today \in Dates(Nat) /\ Progress
  BY DEF IInv, TypeOK
<1>2. /\ began.month \in Nat /\ latest.month \in Nat /\ today.month \in Nat
      /\ began.day \in 1 .. 31 /\ latest.day \in 1 .. 31 /\ today.day \in 1 .. 31
  BY <1>1, DateType
<1> QED
  BY <1>1, <1>2 DEF Progress, Before

LEMMA InductiveStep == IInv /\ [Next]_vars => IInv'
<1> SUFFICES ASSUME IInv, [Next]_vars PROVE IInv'
  OBVIOUS
<1>0. TypeOK /\ Progress
  BY DEF IInv
<1> USE DEF FirstTurn, LastTurn, AfterError, loop
<1>1. CASE Start
  <2>1. TypeOK'
    BY <1>0, <1>1 DEF Start, TypeOK
  <2>2. Progress'
    BY <1>1 DEF Start, Progress
  <2> QED
    BY <2>1, <2>2 DEF IInv
<1>2. CASE CreatePartition
  <2>1. AddMonths(today, turn) \in Int
    BY <1>0, AddMonthsType DEF TypeOK
  <2>2. TypeOK'
    <3>1. created' \subseteq Int
      BY <1>0, <1>2, <2>1 DEF CreatePartition, TypeOK
    <3>2. turn' \in -1 .. 3
      BY <1>0, <1>2 DEF CreatePartition, TypeOK
    <3> QED
      BY <1>0, <1>2, <3>1, <3>2 DEF CreatePartition, TypeOK, Dates
  <2>3. ASSUME latest'.month = began'.month, NEW i \in (-1 .. 2) \ failed', i < turn'
        PROVE  Made(i)'
    <3>1. /\ turn \in Int /\ turn' = turn + 1 /\ began' = began /\ failed' = failed
          /\ latest' = today /\ created' = created \cup {AddMonths(today, turn)}
      BY <1>0, <1>2 DEF CreatePartition, TypeOK
    <3>2. CASE i < turn
      BY <2>3, <3>1, <3>2, TurnKeeps
    <3>3. CASE i = turn
      <4>1. began.day \in 1 .. 31 /\ today.day \in 1 .. 31 /\ began.month \in Nat
        BY <1>0, DateType DEF TypeOK
      <4>2. today.month = began.month /\ began.day <= today.day
        BY <2>3, <3>1, <4>1, TurnOrdered DEF Before
      <4>3. today.day \in began'.day .. latest'.day
        BY <3>1, <4>1, <4>2
      <4>4. AddMonths([month |-> began'.month, day |-> today.day], i) = AddMonths(today, turn)
        BY <3>1, <3>3, <4>2 DEF AddMonths
      <4>5. AddMonths([month |-> began'.month, day |-> today.day], i) \in created'
        BY <3>1, <4>4
      <4> QED
        BY <4>3, <4>5 DEF Made, AddMonths
    <3> QED
      BY <2>3, <3>1, <3>2, <3>3
  <2>4. Progress'
    <3>1. backend' = "init" /\ latest' = today /\ UNCHANGED <<today, began>>
      BY <1>2 DEF CreatePartition
    <3>2. (began = latest \/ Before(began, latest))'
      BY <3>1, TurnOrdered DEF Before
    <3> QED
      BY <2>3, <3>1, <3>2 DEF Progress
  <2> QED
    BY <2>2, <2>4 DEF IInv
<1>3. CASE CreateError
  <2>1. turn' \in -1 .. 3 /\ failed' \subseteq -1 .. 2
    BY <1>0, <1>3 DEF CreateError, TypeOK
  <2>2. TypeOK'
    BY <1>0, <1>3, <2>1 DEF CreateError, TypeOK, Dates
  <2>3. /\ backend' = "init" /\ latest' = today /\ UNCHANGED <<today, began, created>>
        /\ turn \in Int /\ turn' = turn + 1 /\ failed' = failed \cup {turn}
    BY <1>0, <1>3 DEF CreateError, TypeOK
  <2>4. ASSUME latest'.month = began'.month, NEW i \in (-1 .. 2) \ failed', i < turn'
        PROVE  Made(i)'
    <3>1. i < turn /\ i \notin failed
      BY <2>3, <2>4
    <3> QED
      BY <2>3, <2>4, <3>1, TurnKeeps
  <2>5. (began = latest \/ Before(began, latest))'
    BY <2>3, TurnOrdered DEF Before
  <2>6. Progress'
    BY <2>3, <2>4, <2>5 DEF Progress
  <2> QED
    BY <2>2, <2>6 DEF IInv
<1>4. CASE Serve
  BY <1>0, <1>4 DEF Serve, IInv, TypeOK, Progress, Before, Made, AddMonths
<1>5. CASE Stop
  BY <1>0, <1>5 DEF Stop, IInv, TypeOK, Progress, Before, Made, AddMonths
<1>6. CASE PassTime
  <2>1. PICK t \in Dates({m \in {today.month, today.month + 1} : m <= LastMonth}) :
          /\ Before(today, t)
          /\ today' = t
          /\ UNCHANGED <<created, backend, turn, began, latest, failed>>
    BY <1>6 DEF PassTime
  <2>2. /\ today.month \in Nat /\ latest.month \in Nat /\ today.day \in Nat /\ latest.day \in Nat
    BY <1>0, DateType DEF TypeOK
  <2>3. t \in Dates(Nat)
    BY <2>1, <2>2 DEF Dates
  <2>4. TypeOK'
    BY <1>0, <2>1, <2>3 DEF TypeOK
  <2>5. t.month \in Nat /\ t.day \in Nat
    BY <2>3 DEF Dates
  <2>6. Before(latest, t)
    BY <1>0, <2>1, <2>2, <2>5 DEF Progress, Before
  <2>7. Progress'
    BY <1>0, <2>1, <2>6 DEF Progress, Before, Made, AddMonths
  <2> QED
    BY <2>4, <2>7 DEF IInv
<1>7. CASE UNCHANGED vars
  BY <1>0, <1>7 DEF vars, IInv, TypeOK, Progress, Before, Made, AddMonths
<1> QED
  BY <1>1, <1>2, <1>3, <1>4, <1>5, <1>6, <1>7 DEF Next

LEMMA Inductive == Spec => []IInv
  BY InductiveInit, InductiveStep, PTL DEF Spec

\* The clock stays a date, the loop variable in its range.
THEOREM TypeCorrect == Spec => []TypeOK
  BY Inductive, PTL DEF IInv

\* What is known of the days of a loop that did not outlast its month.
LEMMA LoopDays ==
  ASSUME IInv, InOneMonth
  PROVE  /\ today.month \in Nat /\ today.day \in 1 .. 31
         /\ began.month \in Nat /\ began.day \in 1 .. 31
         /\ latest.day \in 1 .. 31 /\ latest.day <= DaysIn(began.month)
         /\ latest.month = began.month
         /\ \A i \in (-1 .. 2) \ failed :
              \E d \in began.day .. latest.day :
                AddMonths([month |-> began.month, day |-> d], i) \in created
         /\ today.month > began.month \/ (today.month = began.month /\ latest.day <= today.day)
<1>1. /\ today \in Dates(Nat) /\ began \in Dates(Nat) /\ latest \in Dates(Nat)
      /\ Progress /\ turn = 3 /\ latest.month = began.month
  BY DEF IInv, TypeOK, Progress, InOneMonth
<1>2. /\ today.month \in Nat /\ today.day \in 1 .. 31 /\ began.month \in Nat /\ began.day \in 1 .. 31
      /\ latest.day \in 1 .. 31
  BY <1>1, DateType
<1>3. latest.day <= DaysIn(began.month)
  BY <1>1 DEF Dates
<1>4. \A i \in (-1 .. 2) \ failed : i < turn => Made(i)
  BY <1>1 DEF Progress
<1>5. ASSUME NEW i \in (-1 .. 2) \ failed
      PROVE  \E d \in began.day .. latest.day :
               AddMonths([month |-> began.month, day |-> d], i) \in created
  BY <1>1, <1>4 DEF Made
<1>6. today.month > began.month \/ (today.month = began.month /\ latest.day <= today.day)
  BY <1>1, <1>2 DEF Progress, Before
<1> QED
  BY <1>1, <1>2, <1>3, <1>5, <1>6

\* Every batch of the month of the start is accepted (EnsurePartitions), unless
\* its own turn of the loop failed, and so is one stamped on the day before.
THEOREM StartMonthAlways == Spec => []StartMonthAccepted
<1>1. ASSUME IInv, InOneMonth, today.month = began.month, 0 \notin failed
      PROVE  Accepts(today)
  <2>1. PICK d \in began.day .. latest.day :
          AddMonths([month |-> began.month, day |-> d], 0) \in created
    BY <1>1, LoopDays
  <2>2. began.month \in Nat /\ d <= DaysIn(began.month) /\ DaysIn(began.month) \in 28 .. 31
    BY <1>1, <2>1, LoopDays, DaysInType
  <2>3. AddMonths([month |-> began.month, day |-> d], 0) = began.month
    BY <2>2 DEF AddMonths
  <2> QED
    BY <1>1, <2>1, <2>3 DEF Accepts
<1>2. ASSUME IInv, InOneMonth, today.month = began.month, 0 \notin failed, -1 \notin failed
      PROVE  Accepts(Yesterday(today))
  <2>1. /\ today \in Dates(Nat) /\ today.month \in Nat /\ today.day \in 1 .. 31
        /\ began.day \in 1 .. 31 /\ latest.day \in 1 .. 31 /\ latest.day <= today.day
    BY <1>2, LoopDays DEF IInv, TypeOK
  <2>2. CASE today.day > 1
    <3>1. Yesterday(today).month = today.month
      BY <2>1, <2>2 DEF Yesterday, Dates
    <3> QED
      BY <1>1, <1>2, <3>1 DEF Accepts
  <2>3. CASE today.day = 1
    <3>1. PICK d \in began.day .. latest.day :
            AddMonths([month |-> began.month, day |-> d], -1) \in created
      BY <1>2, LoopDays
    <3>2. d = 1
      BY <2>1, <2>3, <3>1
    <3>3. began.month + (-1) \in Int /\ DaysIn(began.month + (-1)) \in 28 .. 31
      BY <1>2, <2>1, DaysInType
    <3>4. AddMonths([month |-> began.month, day |-> 1], -1) = began.month - 1
      BY <3>3, <1>2, <2>1 DEF AddMonths
    <3>5. Yesterday(today).month = today.month - 1
      BY <2>1, <2>3 DEF Yesterday
    <3> QED
      BY <1>2, <3>1, <3>2, <3>4, <3>5 DEF Accepts
  <2> QED
    BY <2>1, <2>2, <2>3
<1>3. IInv => StartMonthAccepted
  BY <1>1, <1>2 DEF StartMonthAccepted
<1> QED
  BY <1>3, Inductive, PTL

\* For two months more a batch whose turn did not fail is refused only if the
\* loop ran on a day of the month that the month of the batch does not have.
THEOREM RefusalAlways == Spec => []RefusalNeedsLateStart
<1>1. ASSUME IInv, InOneMonth, today.month - began.month \in (0 .. 2) \ failed,
             latest.day <= DaysIn(today.month)
      PROVE  Accepts(today)
  <2>1. PICK i : i = today.month - began.month
    OBVIOUS
  <2>2. /\ i \in 0 .. 2 /\ began.month + i = today.month
        /\ began.day \in 1 .. 31 /\ latest.day \in 1 .. 31 /\ today.month \in Nat
    BY <1>1, <2>1, LoopDays
  <2>3. PICK d \in began.day .. latest.day :
          AddMonths([month |-> began.month, day |-> d], i) \in created
    <3>1. i \in (-1 .. 2) \ failed
      BY <1>1, <2>1
    <3> QED
      BY <1>1, <3>1, LoopDays
  <2>4. d <= DaysIn(today.month)
    BY <1>1, <2>2, <2>3, DaysInType
  <2>5. AddMonths([month |-> began.month, day |-> d], i) = today.month
    BY <2>2, <2>4 DEF AddMonths
  <2> QED
    BY <2>3, <2>5 DEF Accepts
<1>2. ASSUME IInv PROVE RefusalNeedsLateStart
  <2>1. latest.day \in Nat /\ today.month \in Int
    BY <1>2 DEF IInv, TypeOK, Dates
  <2>2. DaysIn(today.month) \in 28 .. 31
    BY <2>1, DaysInType
  <2> QED
    BY <1>1, <1>2, <2>1, <2>2 DEF RefusalNeedsLateStart
<1> QED
  BY <1>2, Inductive, PTL
=============================================================================
