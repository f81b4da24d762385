------------------------------ MODULE MCPipeline ------------------------------
(* The instances of PipelineLedger that TLC checks. *)
EXTENDS PipelineRequests, TLC

CONSTANTS i1, i2, k1, k2, k3, k4, k5, r1, r2

At(s, p, v, r) == [status |-> s, provenance |-> p, visibility |-> v, reminder |-> r]

(* A wrong move taken back, moved on, or hidden with it. *)
SomeCorrections == {At("saved", "known", "visible", None), At("waiting", "known", "visible", None),
                    At("applied", "known", "hidden", r1)}

Rows == {[status |-> "saved", reminder |-> None], [status |-> "not_interested", reminder |-> r1]}

Keys == Permutations(Key)
=============================================================================
