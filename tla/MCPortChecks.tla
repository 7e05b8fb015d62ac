----------------------------- MODULE MCPortChecks -----------------------------
(* Instances of PortChecks for TLC.                                        *)
EXTENDS PortChecks
===============================================================================
