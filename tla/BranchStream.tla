---------------------------- MODULE BranchStream ----------------------------
(***************************************************************************)
(* What the script promises the analysis: the branches that the decoder     *)
(* finds and the analysis needs arrive once each, as they were and in their *)
(* order.  Only when the process that writes them fails may the rest be     *)
(* missing, or nonsense come in its place; what arrived before is right.    *)
(***************************************************************************)
EXTENDS Sequences, Naturals

VARIABLES
  wanted,  \* the needed branches the decoder has found so far
  seen,    \* those the analysis has got
  mode     \* "tracing", "intact" (the writer finished), "broken", "stray" or "done"

streamVars == <<wanted, seen, mode>>

StreamInit == wanted = <<>> /\ seen = <<>> /\ mode = "tracing"

(* The branches found so far are never changed *)
Extended == /\ Len(wanted') = Len(wanted) + 1
            /\ SubSeq(wanted', 1, Len(wanted)) = wanted

Find == /\ mode = "tracing" /\ Extended
        /\ UNCHANGED <<seen, mode>>

Close == /\ mode = "tracing" /\ mode' \in {"intact", "broken"}
         /\ UNCHANGED <<wanted, seen>>

(* The writer gives up on the branch it has just found *)
GiveUp == /\ mode = "tracing" /\ mode' = "broken" /\ Extended
          /\ UNCHANGED seen

Arrive == /\ mode \in {"intact", "broken"}
          /\ Len(seen) < Len(wanted)
          /\ seen' = Append(seen, wanted[Len(seen) + 1])
          /\ UNCHANGED <<wanted, mode>>

(* After a failure the reader may lose its way, for good *)
GoAstray == /\ mode \in {"broken", "stray"} /\ mode' = "stray"
            /\ Len(seen') >= Len(seen) /\ SubSeq(seen', 1, Len(seen)) = seen
            /\ UNCHANGED wanted

Finish == /\ mode \in {"intact", "broken", "stray"}
          /\ mode = "intact" => seen = wanted
          /\ mode' = "done"
          /\ UNCHANGED <<wanted, seen>>

StreamNext == Find \/ Close \/ GiveUp \/ Arrive \/ GoAstray \/ Finish
Stream == StreamInit /\ [][StreamNext]_streamVars
=============================================================================
