------------------------------- MODULE MCIngest -------------------------------
(* Instances of Ingest for TLC.                                            *)
EXTENDS Ingest

\* A volume whose servers table has every column the handlers use.
UpgradedVolume == RegisterColumns

\* A new volume, as docker-compose creates it.
FreshVolume == {}
===============================================================================
