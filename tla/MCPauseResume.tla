--------------------------- MODULE MCPauseResume ---------------------------
(* The instance of PauseResume that TLC checks: two forms, two workers and *)
(* one user.                                                               *)
EXTENDS PauseResume

CONSTANTS f1, f2, k1, k2, u1
=============================================================================
