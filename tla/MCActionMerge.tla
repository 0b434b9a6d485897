---------------------------- MODULE MCActionMerge ----------------------------
(* Small scripts for ActionMerge: every file of a few lines. *)
EXTENDS ActionMerge

CONSTANTS t1, t2

Lines(tids, kinds, times) == [tid : tids, ts : times, kind : kinds]
Text(workers, ooo, n, lines) ==
  {in \in [worker_num : {workers}, parallel_script : {FALSE}, out_of_order : {ooo},
           files : [{1} -> [1..n -> lines]]] : ooo \/ InTime(in)}
(* The files of fewer children than there are workers *)
Parallel(workers, ooo, n, lines) ==
  {in \in [worker_num : {workers}, parallel_script : {TRUE}, out_of_order : {ooo},
           files : [1..(workers - 1) -> [1..n -> lines]]] : ooo \/ InTime(in)}

OneThread == Lines({t1}, {"error", "target"}, 1..2)
AllKinds == Lines({t1}, LineKind, {1, 2})
TwoThreads == Lines({t1, t2}, {"error", "mark", "target"}, {1, 2})

Targets == Lines({t1}, {"target"}, {1, 2})

(* Few lines for one job, ranges of lines, an empty last range (four       *)
(* workers, five lines), files per worker                                  *)
AllInputs ==
  UNION {Text(3, FALSE, 5, OneThread), Text(2, TRUE, 4, OneThread), Text(2, FALSE, 2, TwoThreads),
         Text(4, FALSE, 3, OneThread), Text(4, FALSE, 5, Targets), Text(2, FALSE, 3, AllKinds),
         Parallel(3, FALSE, 2, OneThread), Parallel(3, TRUE, 2, OneThread)}
=============================================================================
