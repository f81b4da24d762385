------------------------ MODULE PublicationRefinement ------------------------
(***************************************************************************)
(* Publication in bridge mode implements PublicationPromise.  An operation *)
(* is open from its durable apply intent to the row complete() writes; a   *)
(* receipt that only carries another operation's effect opens nothing.     *)
(***************************************************************************)
EXTENDS Publication

phase == [o \in Operation |->
            IF ~Dispatches(o) THEN "none"
            ELSE IF state[o] \in Terminal THEN state[o] ELSE "open"]

Promise == INSTANCE PublicationPromise WITH phase <- phase

(* Every step of the coordinator, the drivers, the workers, the legacy     *)
(* publisher and the crashes is a step of the promise or leaves it alone.  *)
OneAtATime == Promise!Spec
=============================================================================
