--------------------------- MODULE MCRestartThread --------------------------
(***************************************************************************)
(* RestartThread with a bound on the jobs that lets several of them arrive *)
(* in every window of one turn of the worker.                              *)
(***************************************************************************)
EXTENDS RestartThread
=============================================================================
