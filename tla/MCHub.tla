-------------------------------- MODULE MCHub --------------------------------
(* Instances of Hub for TLC.                                               *)
EXTENDS Hub, TLC

\* Clients are interchangeable in every safety property.
ClientSymmetry == Permutations(Clients)
=============================================================================
