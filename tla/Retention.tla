------------------------------- MODULE Retention -------------------------------
(***************************************************************************)
(* The retention worker (internal/service/retention.go): once a day it     *)
(* deletes the rows of metrics that are older than thirty days.            *)
(*                                                                         *)
(* Its ticker lives in memory: it starts with the backend, fires a full    *)
(* period later and knows nothing of an earlier run.  A cleanup that fails *)
(* is logged, and tried again at the next tick.  A cleanup gives up after  *)
(* five minutes, well within a unit of time, so time stands still in it.   *)
(* It is one DELETE: a stop in its middle leaves it done or undone.        *)
(*                                                                         *)
(* Rows of the same age are one.  From MaxAge on ages are not told apart.  *)
(***************************************************************************)
EXTENDS Naturals

CONSTANTS Retain,  \* thirty days, in units of time
          Period,  \* twenty-four hours
          MaxAge   \* abstraction: the age from which rows do not grow older

ASSUME TimesAssumption == /\ Retain \in Nat
                          /\ Period \in Nat \ {0}
                          /\ MaxAge \in Nat /\ MaxAge > Retain + Period

VARIABLES
  worker,   \* "down" or "up": the backend, which runs the worker
  elapsed,  \* time since the ticker was created or last fired
  due,      \* ticker.C holds a tick
  ages,     \* ages of the rows in metrics
  cleaned   \* history: since the backend started a cleanup has succeeded, and
            \* none has failed after it

vars == <<worker, elapsed, due, ages, cleaned>>

-----------------------------------------------------------------------------
TypeOK ==
  /\ worker \in {"down", "up"}
  /\ elapsed \in 0 .. Period - 1
  /\ due \in BOOLEAN
  /\ ages \subseteq 0 .. MaxAge
  /\ cleaned \in BOOLEAN

\* The volume may hold rows of any age.
Init ==
  /\ worker = "down"
  /\ elapsed = 0
  /\ due = FALSE
  /\ ages \in SUBSET (0 .. MaxAge)
  /\ cleaned = FALSE

\* RetentionWorker.Start: no cleanup until a period has passed.
Start ==
  /\ worker = "down"
  /\ worker' = "up"
  /\ elapsed' = 0
  /\ due' = FALSE
  /\ cleaned' = FALSE
  /\ UNCHANGED ages

Stop ==
  /\ worker = "up"
  /\ worker' = "down"
  /\ UNCHANGED <<elapsed, due, ages, cleaned>>

\* A batch of metrics is stored.
Insert ==
  /\ worker = "up"
  /\ ages' = ages \cup {0}
  /\ UNCHANGED <<worker, elapsed, due, cleaned>>

Older(a) == IF a < MaxAge THEN a + 1 ELSE a

\* Mutant of Fires: a period is one unit too long.
FiresLate == elapsed = Period

\* The ticker fires when a period has passed.
Fires == elapsed + 1 = Period

\* A unit of time passes, with the backend up or down.  A tick is taken, and
\* its cleanup over, before the next unit.
PassTime ==
  /\ worker = "up" => ~ due
  /\ ages' = {Older(a) : a \in ages}
  /\ IF worker = "up" /\ Fires THEN due' = TRUE /\ elapsed' = 0
     ELSE /\ elapsed' = (IF worker = "up" THEN elapsed + 1 ELSE elapsed)
          /\ UNCHANGED due
  /\ UNCHANGED <<worker, cleaned>>

\* Mutants of Expired: the comparison is not strict; a unit is given away.
ExpiredEarly(a) == a >= Retain
ExpiredLate(a) == a > Retain + 1

\* timestamp < now - 30 days
Expired(a) == a > Retain

\* case <-ticker.C: Cleanup
Cleanup ==
  /\ worker = "up" /\ due
  /\ due' = FALSE
  /\ ages' = {a \in ages : ~ Expired(a)}
  /\ cleaned' = TRUE
  /\ UNCHANGED <<worker, elapsed>>

CleanupFails ==
  /\ worker = "up" /\ due
  /\ due' = FALSE
  /\ cleaned' = FALSE
  /\ UNCHANGED <<worker, elapsed, ages>>

Next == Start \/ Stop \/ Insert \/ PassTime \/ Cleanup \/ CleanupFails

Spec == Init /\ [][Next]_vars

(***************************************************************************)
(* Time passes, docker starts the backend again, a tick is taken, and a    *)
(* cleanup that is tried again and again succeeds some time.               *)
(***************************************************************************)
Fairness ==
  /\ WF_vars(PassTime) /\ WF_vars(Start)
  /\ WF_vars(Cleanup \/ CleanupFails) /\ SF_vars(Cleanup)

FairSpec == Spec /\ Fairness

-----------------------------------------------------------------------------
\* Once a cleanup has succeeded, and while none fails and the backend stays
\* up, no row outlives the thirty days by more than the day between two ticks.
AgeBound == worker = "up" /\ cleaned => \A a \in ages : a <= Retain + Period

\* No step loses a row before its thirty days are over.
NothingYoungLost ==
  [][\A a \in ages : a <= Retain => a \in ages' \/ Older(a) \in ages']_vars

\* Every row past its thirty days is deleted some time; a backend that is
\* restarted within every period does not manage that.
OldRowsGo == \A a \in Retain + 1 .. MaxAge : a \in ages ~> a \notin ages

\* Under FairSpec: a backend that some time is no longer restarted gets rid of
\* the rows past their thirty days, however many cleanups fail at first.
OldRowsGoIfUp == <>[](worker = "up") => OldRowsGo
=============================================================================
