----------------------------- MODULE MCRunLoop -----------------------------
(* RunLoop for TLC: one gun, and as many measuring threads as are bounded. *)
EXTENDS RunLoop, TLC

WorkerSymmetry == Permutations(Workers)
=============================================================================
