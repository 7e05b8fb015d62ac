------------------------------ MODULE Partitions ------------------------------
(***************************************************************************)
(* The monthly partitions of the metrics table                             *)
(* (internal/db/postgres.go, Init and EnsurePartitions).                   *)
(*                                                                         *)
(* They are created when the backend starts and at no other time, by a     *)
(* loop that reads the clock anew in each of its four turns; a turn that   *)
(* fails is logged and forgotten.  The table has no default partition, so  *)
(* rows stamped with a day of a month without one are refused.             *)
(*                                                                         *)
(* A month is its number since year 0, 12 * year + month - 1, in UTC, the  *)
(* time zone of the container.                                             *)
(***************************************************************************)
EXTENDS Integers

CONSTANTS FirstMonth,  \* the clock starts on the first day of this month
          LastMonth,   \* bound of the model: and stops in this one
          Days         \* days of the month on which something may happen

ASSUME MonthAssumption == FirstMonth \in Nat /\ LastMonth \in Nat

ASSUME DaysAssumption == Days \subseteq 1 .. 31

VARIABLES
  today,     \* the clock: [month, day]
  created,   \* months whose partition exists
  backend,   \* "down", "init" (in EnsurePartitions) or "up"
  turn,      \* the loop variable i of EnsurePartitions
  began,     \* history: the day on which EnsurePartitions was last entered
  latest,    \* history: the day of its last turn
  failed     \* history: its turns that met an error

loop == <<turn, began, latest, failed>>
vars == <<today, created, backend, loop>>

-----------------------------------------------------------------------------
(* The calendar: package time.                                             *)

IsLeap(y) == y % 4 = 0 /\ (y % 100 # 0 \/ y % 400 = 0)

DaysIn(m) ==
  CASE m % 12 = 1 -> IF IsLeap(m \div 12) THEN 29 ELSE 28
    [] m % 12 \in {3, 5, 8, 10} -> 30
    [] OTHER -> 31

Dates(months) == {t \in [month : months, day : 1 .. 31] : t.day <= DaysIn(t.month)}

Before(t, u) == t.month < u.month \/ (t.month = u.month /\ t.day < u.day)

Yesterday(t) ==
  IF t.day > 1 THEN [t EXCEPT !.day = @ - 1]
               ELSE [month |-> t.month - 1, day |-> DaysIn(t.month - 1)]

\* The month of t.AddDate(0, i, 0).  A day that its month does not have is
\* normalised: it becomes a day of the month that follows.
AddMonths(t, i) == IF t.day <= DaysIn(t.month + i) THEN t.month + i ELSE t.month + i + 1

-----------------------------------------------------------------------------
FirstTurn == -1

\* Mutants of LastTurn: i < 2, and i < 5.
LastTurnOne == 1
LastTurnFour == 4

LastTurn == 2

TypeOK ==
  /\ today \in Dates(Nat)
  /\ created \subseteq Int
  /\ backend \in {"down", "init", "up"}
  /\ turn \in -1 .. 3
  /\ began \in Dates(Nat)
  /\ latest \in Dates(Nat)
  /\ failed \subseteq -1 .. 2

Init ==
  /\ today = [month |-> FirstMonth, day |-> 1]
  /\ created = {}
  /\ backend = "down"
  /\ turn = FirstTurn
  /\ began = [month |-> FirstMonth, day |-> 1]
  /\ latest = began
  /\ failed = {}

\* The backend starts: the schema is in place, EnsurePartitions is entered.
Start ==
  /\ backend = "down"
  /\ backend' = "init"
  /\ turn' = FirstTurn
  /\ began' = today /\ latest' = today
  /\ failed' = {}
  /\ UNCHANGED <<today, created>>

\* One turn: CREATE TABLE IF NOT EXISTS ... PARTITION OF metrics.
CreatePartition ==
  /\ backend = "init" /\ turn <= LastTurn
  /\ created' = created \cup {AddMonths(today, turn)}
  /\ turn' = turn + 1
  /\ latest' = today
  /\ UNCHANGED <<today, backend, began, failed>>

\* Mutant of AfterError: the loop ends with an error.
AfterErrorReturn == LastTurn + 1

\* The error is logged, and the loop goes on.
AfterError == turn + 1

\* The statement fails, or the ten seconds main gives to Init are over.
CreateError ==
  /\ backend = "init" /\ turn <= LastTurn
  /\ turn' = AfterError
  /\ latest' = today
  /\ failed' = failed \cup {turn}
  /\ UNCHANGED <<today, created, backend, began>>

\* EnsurePartitions returns nil in every case: the backend serves.
Serve ==
  /\ backend = "init" /\ turn > LastTurn
  /\ backend' = "up"
  /\ UNCHANGED <<today, created, loop>>

\* The backend stops, in the middle of the loop too.
Stop ==
  /\ backend # "down"
  /\ backend' = "down"
  /\ UNCHANGED <<today, created, loop>>

\* The clock moves on to the next day of interest, or past some of them.
\* Nothing extends the partitions of a backend that is up.
PassTime ==
  \E t \in Dates({m \in {today.month, today.month + 1} : m <= LastMonth}) :
    /\ t.day \in Days
    /\ Before(today, t)
    /\ today' = t
    /\ UNCHANGED <<created, backend, loop>>

Next == Start \/ CreatePartition \/ CreateError \/ Serve \/ Stop \/ PassTime

Spec == Init /\ [][Next]_vars

-----------------------------------------------------------------------------
\* A row stamped on day t finds its partition.
Accepts(t) == t.month \in created

\* The backend is up, and no turn of its loop was made in a later month than
\* that of its start.
InOneMonth == backend = "up" /\ latest.month = began.month

\* To the end of the month in which the backend was started, whatever the day,
\* no batch is refused, unless its own turn of the loop failed: not if another
\* turn did, nor if a midnight passed in the loop.  And no batch is refused that
\* is stamped just before the midnight that precedes its arrival, on the first
\* day of a month too.
StartMonthAccepted ==
  InOneMonth /\ today.month = began.month =>
    /\ 0 \notin failed => Accepts(today)
    /\ {-1, 0} \cap failed = {} => Accepts(Yesterday(today))

\* In the two months that follow a batch whose turn did not fail is refused only
\* if the loop ran on a day of the month that the month of the batch does not
\* have.
RefusalNeedsLateStart ==
  InOneMonth /\ today.month - began.month \in (0 .. 2) \ failed /\ ~ Accepts(today)
    => latest.day > DaysIn(today.month)

\* What the comment on the call in Init says: partitions for the current and
\* the next two months.  Refuted by a start on one of the last days of a month,
\* though the loop met neither an error nor a midnight.
CurrentAndNextTwo ==
  backend = "up" /\ failed = {} /\ latest = began
    => \A i \in 0 .. 2 : began.month + i \in created
=============================================================================
