--------------------------- MODULE MCSizeHintOps ---------------------------
(* Model-checking instance of SizeHintOps: the variables are alike.         *)
EXTENDS SizeHintOps, TLC

RegSymmetry == Permutations(Reg)
=============================================================================
