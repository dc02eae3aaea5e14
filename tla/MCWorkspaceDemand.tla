-------------------------- MODULE MCWorkspaceDemand --------------------------
(* WorkspaceDemand for TLC.  a has an owner from the start; b is prepared  *)
(* as a spare, kept warm, and taken by a new account, whose owner then     *)
(* stands in the queue with a.                                             *)
EXTENDS WorkspaceDemand

CONSTANTS a, b

MCInitialPool == <<a>>
=============================================================================
