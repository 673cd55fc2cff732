---------------------------- MODULE MCSupervisor ----------------------------
(* Supervisor for TLC: the supervisor and two guns, which are alike.       *)
EXTENDS Supervisor, TLC

GunSymmetry == Permutations(Guns)
=============================================================================
