---------------------------- MODULE MCSrclineMap ----------------------------
(* An instance of SrclineMap: the main thread and two jobs that meet the    *)
(* same or different code blocks; WRITE is scaled down to the least value   *)
(* that LockAssumption allows.                                              *)
EXTENDS SrclineMap
=============================================================================
