------------------------- MODULE MCOpenShellBinding -------------------------
(* OpenShellBinding for TLC.  A task meets the others only in the guard of *)
(* Create, and the properties speak of one task each: one task is enough.  *)
EXTENDS OpenShellBinding
=============================================================================
