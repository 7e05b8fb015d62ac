----------------------------- MODULE MCDashboard ------------------------------
(* Instances of Dashboard for TLC.                                         *)
EXTENDS Dashboard

\* An ordinary day: batches are stored in order and answers are whole.
InOrder ==
  /\ \A r \in metrics' \ metrics, s \in metrics : r[2] > s[2]
  /\ \A i \in Polls : poll'[i] # "short"

InOrderSpec == Init /\ [][Next /\ InOrder]_vars
===============================================================================
