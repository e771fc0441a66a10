----------------------------- MODULE MCLsmEngine -----------------------------
(* Model-checking instances of LsmEngine. *)
EXTENDS LsmEngine, TLC

WriterSymmetry == Permutations(Writers)

=============================================================================
