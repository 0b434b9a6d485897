-------------------------- MODULE MCParallelWorker --------------------------
(* Instances of ParallelWorker: two workers, two or three parse jobs, up   *)
(* to one or two traced threads.  The free phase adds up to five jobs, so  *)
(* that the round robin of add_job() wraps around.                         *)
EXTENDS ParallelWorker
=============================================================================
