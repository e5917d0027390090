--------------------------- MODULE MCKeyValueStore ---------------------------
(***************************************************************************)
(* KeyValueStore for TLC.  Keys and values are only compared with each     *)
(* other, so that the state space can be reduced by their permutations.    *)
(***************************************************************************)
EXTENDS KeyValueStore

Symmetry == Permutations(Keys) \cup Permutations(Values)

=============================================================================
