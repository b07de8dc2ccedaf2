----------------------------- MODULE MCImportJob -----------------------------
(* Small instances of ImportJob. *)
EXTENDS ImportJob
=============================================================================
