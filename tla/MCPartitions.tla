----------------------------- MODULE MCPartitions -----------------------------
(* Instances of Partitions for TLC.                                        *)
EXTENDS Partitions

December2023 == 12 * 2023 + 11
April2024    == 12 * 2024 + 3

\* The last days of these months, February having 29, the first, and one that
\* every month has.
TurnDays == {1, 15, 29, 30, 31}
===============================================================================
