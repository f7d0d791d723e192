---------------------------- MODULE MCOutboxRelay ----------------------------
(***************************************************************************)
(* OutboxRelay on small instances: the configurations give the constants.  *)
(* Instances are interchangeable, but no symmetry is declared: the runs    *)
(* check temporal properties.                                              *)
(***************************************************************************)
EXTENDS OutboxRelay
=============================================================================
