---------------------------- MODULE MCWorkerClient ----------------------------
(* A small instance of the worker client. *)
EXTENDS WorkerClient, TLC
=============================================================================
