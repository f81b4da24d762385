--------------------------- MODULE MCPipelineActions ---------------------------
(* The instances of PipelineActions that TLC checks. *)
EXTENDS PipelineActions, PipelineRequests, TLC

CONSTANTS i1, i2, k1, k2, k3, k4, r1, t1, t2

(* A hidden item of unknown status is the second one after Not Interested. *)
Rows1 == {[status |-> "applied", reminder |-> None], [status |-> "remind_later", reminder |-> r1]}
NoCorrections == {}

Symmetric == Permutations(Key) \cup Permutations(Item) \cup Permutations(Title)
=============================================================================
