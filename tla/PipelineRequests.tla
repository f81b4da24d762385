--------------------------- MODULE PipelineRequests ---------------------------
(* The requests of the pipeline service implement RequestOnce: what a key    *)
(* came to is the transition that carries it.                                *)
EXTENDS PipelineLedger

(* replay_result reads the transition of a key in the histories H. *)
DecidedIn(H, k) ==
  LET Carries(i, n) == H[i][n].key = k
      i == CHOOSE j \in Item : \E n \in 1 .. Len(H[j]) : Carries(j, n)
      n == CHOOSE m \in 1 .. Len(H[i]) : Carries(i, m)
  IN  IF \E j \in Item : \E m \in 1 .. Len(H[j]) : Carries(j, m)
      THEN [item |-> i, after |-> H[i][n].after, version |-> n]
      ELSE None

outcome == [k \in Key |-> DecidedIn(history, k)]

Once == INSTANCE RequestOnce WITH decided <- outcome, told <- answer

(* A key has one effect, and whoever retries it is told of that effect,    *)
(* however the item moved on since (replay_result, the UNIQUE key).        *)
EachRequestOnce == Once!Spec
=============================================================================
