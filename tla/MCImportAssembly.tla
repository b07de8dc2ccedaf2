-------------------------- MODULE MCImportAssembly --------------------------
(* Small instances of ImportAssembly; requests and parts are interchangeable. *)
EXTENDS ImportAssembly, TLC

Symmetry == Permutations(Request) \cup Permutations(Part)
=============================================================================
