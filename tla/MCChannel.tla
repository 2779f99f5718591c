----------------------------- MODULE MCChannel -----------------------------
(* Model-checking instance of Channel: frames are interchangeable.         *)
EXTENDS Channel, TLC

FrameSymmetry == Permutations(Frame)
=============================================================================
