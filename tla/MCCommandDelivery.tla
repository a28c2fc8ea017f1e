-------------------------- MODULE MCCommandDelivery --------------------------
(* Small instances of CommandDelivery. *)
EXTENDS CommandDelivery
=============================================================================
