-------------------------- MODULE MCAccountSession --------------------------
(* A small instance of the device's session, client and server together. *)
EXTENDS AccountSession
=============================================================================
