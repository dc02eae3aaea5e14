---------------------------- MODULE MCTaskBroker ----------------------------
(* Two tasks for TLC: a checkpoint record left by an earlier release and a *)
(* task a request creates, so that each can be admitted next to the other. *)
EXTENDS TaskBroker
=============================================================================
