--------------------------- MODULE MCServerControl --------------------------
(***************************************************************************)
(* ServerControl with its windows and process identifiers interchangeable. *)
(***************************************************************************)
EXTENDS ServerControl, TLC

Symmetry == Permutations(Commands) \cup Permutations(Pids)

=============================================================================
