---------------------------- MODULE MCPublication ----------------------------
(***************************************************************************)
(* Small instances of Publication.  Four scenarios:                        *)
(*  - rivals:  a replaces two targets, b one of them;                      *)
(*  - carried: the effect of a planned again by c under another step       *)
(*             signature, and b, which puts back what they publish;        *)
(*  - chain:   b needs a; their targets are disjoint;                      *)
(*  - solo:    one operation, beside the legacy publisher.                 *)
(***************************************************************************)
EXTENDS PublicationRefinement, TLC

CONSTANTS a, b, c, r1, r2, base, va, vb, successor

Rivals == {a, b}
RivalTargets == a :> {r1, r2} @@ b :> {r1}
RivalAfter == a :> va @@ b :> vb
RivalEffects == a :> "ea" @@ b :> "eb"
NoNeeds == [o \in Operation |-> {}]

Carried == {a, b, c}
CarriedTargets == [o \in Operation |-> {r1}]
CarriedBefore == [o \in Operation |-> IF o = b THEN va ELSE base]
CarriedAfter == [o \in Operation |-> IF o = b THEN base ELSE va]
CarriedSignatures == a :> "s1" @@ b :> "s3" @@ c :> "s2"
CarriedEffects == [o \in Operation |-> IF o = b THEN "reverse" ELSE "e"]

ChainTargets == a :> {r1} @@ b :> {r2}
ChainNeeds == a :> {} @@ b :> {a}

Solo == {a}

AllBase == [o \in Operation |-> base]
Versions == {base, va, vb, successor}
OnlyItself == {<<r, r>> : r \in Resource}
=============================================================================
