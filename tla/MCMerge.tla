------------------------------ MODULE MCMerge ------------------------------
(* The merge stage with every limit at its smallest interesting value. *)
EXTENDS Merge

=============================================================================
