-------------------------- MODULE MCNativeSession --------------------------
(* NativeSession for TLC.  The properties speak of one task each, and a    *)
(* task meets the others only in the guard of Create: one task is enough.  *)
EXTENDS NativeSession
=============================================================================
