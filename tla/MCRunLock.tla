----------------------------- MODULE MCRunLock -----------------------------
(* RunLock for TLC: a few processes, which are alike, and an inode more.   *)
EXTENDS RunLock, TLC

=============================================================================
