----------------------------- MODULE MCRetention ------------------------------
(* Instances of Retention for TLC.                                         *)
EXTENDS Retention
===============================================================================
