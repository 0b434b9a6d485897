-------------------------- MODULE MCParallelScript --------------------------
(* Scenarios of ParallelScript: every sequence of a few small buffers. *)
EXTENDS ParallelScript, SequencesExt

CONSTANTS q1, q2

Whole == {<<"P", "d">>, <<"d">>, <<"d", "P">>}
Mixed == {<<"d", "P">>, <<"d">>}
Uneven == {<<"P">>, <<"d", "P", "d", "d", "d">>}
Split == {<<"d">>, <<"P", "(">>, <<")", "d">>, <<")", "(">>, <<"P">>}

(* The two parts of a split PSB are in consecutive buffers of a queue. *)
NextOf(input, i) == {j \in (i + 1)..Len(input) : input[j].q = input[i].q}
Matches(input) ==
  /\ \A i \in 1..Len(input) : Last(input[i].data) = "(" =>
       \E j \in NextOf(input, i) :
         Head(input[j].data) = ")" /\ \A k \in NextOf(input, i) : j <= k
  /\ \A j \in 1..Len(input) : Head(input[j].data) = ")" =>
       \E i \in 1..(j - 1) : Last(input[i].data) = "(" /\ j \in NextOf(input, i)
                             /\ \A k \in NextOf(input, i) : j <= k

AllInputs(n, queues, buffers) ==
  {input \in [1..n -> [q : queues, data : buffers]] : Matches(input)}

BySize(workers, n, queues, filtered, buffers) ==
  [workers |-> workers, by_events |-> FALSE, queues |-> queues, filtered |-> filtered,
   inputs |-> AllInputs(n, queues, buffers), lookaheads |-> 0]

AllScenarios ==
  "size" :> BySize(3, 4, {q1, q2}, {}, Mixed) @@
  "events" :> [BySize(3, 4, {q1, q2}, {}, Uneven) EXCEPT !.by_events = TRUE] @@
  "filter" :> BySize(3, 4, {q1, q2}, {q2}, Uneven) @@
  "split" :> BySize(3, 5, {q1}, {}, Split) @@
  "look" :> [BySize(2, 4, {q1}, {}, Whole) EXCEPT !.lookaheads = 1]

SplitPsb == "split" :> BySize(3, 4, {q1}, {}, Split)
=============================================================================
