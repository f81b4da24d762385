---------------------- MODULE ProfileCorrections_proofs ----------------------
(***************************************************************************)
(* What the runs check of profiles on a few drafts, reviews and requests,  *)
(* for any number of them.  Corrections: an artifact in flight belongs to  *)
(* one request, only that request appends for it, and only on the revision *)
(* its review saw, so what made an artifact stale, or gone without a       *)
(* revision, keeps it from ever being applied.  Creation: an artifact is   *)
(* written down for one draft, a draft is given back as new only when the  *)
(* vault has nothing of it, one request at a time has the lease on a draft *)
(* or the claim on an artifact, and a profile once made stays.             *)
(***************************************************************************)
EXTENDS ProfileCorrections, ProfileCreation, SequenceTheorems, TLAPS

----------------------------------------------------------------------------
(* Corrections *)

ReviewRecord == [stage : {"none", "authorized", "offered", "failed"}, base : Nat]
SlipRecord ==
  [state : {"none", "available", "in_flight", "reconcile", "completed", "stale"},
   deadline : Nat]
ApplyRecord ==
  [step : {"idle", "claiming", "looking", "appending", "corrected", "stale",
           "temporary_contention", "unavailable", "raised", "done"},
   slip : Nat,
   outcome : {"none", "shut", "unavailable", "corrected", "stale", "gone",
              "temporary_contention"}]

CorrectionsTypeOK ==
  /\ time \in Nat
  /\ revisions \in Seq(Nat) /\ Len(revisions) >= 1
  /\ review \in [Reviews -> ReviewRecord]
  /\ slips \in [Reviews -> SlipRecord]
  /\ operations \subseteq Applies
  /\ apply \in [Applies -> ApplyRecord]

\* The steps of a request that holds its artifact in flight.
Holding == {"appending", "corrected", "stale", "temporary_contention", "unavailable", "raised"}

\* No revision was made of this artifact, and none can be: the profile moved on.
Overtaken(k) == ~Applied(k) /\ review[k].base < Len(revisions)

ReviewOK(k) ==
  /\ review[k].base <= Len(revisions)
  /\ review[k].stage = "none" => ~Applied(k)
  /\ slips[k].state # "none" => review[k].stage = "offered"
  /\ slips[k].state = "completed" => Applied(k)
  /\ slips[k].state = "stale" => Overtaken(k)

ApplyOK(c) ==
  /\ apply[c].step # "idle" => apply[c].slip \in Reviews /\ review[apply[c].slip].stage = "offered"
  /\ apply[c].step # "done" => apply[c].outcome = "none"
  /\ apply[c].step \notin {"idle", "done"} => c \in operations
  /\ apply[c].step \in Holding => slips[apply[c].slip].state = "in_flight"
  /\ apply[c].step = "looking" => slips[apply[c].slip].state = "none"
  /\ "corrected" \in {apply[c].step, apply[c].outcome} => Applied(apply[c].slip)
  /\ "stale" \in {apply[c].step, apply[c].outcome} => Overtaken(apply[c].slip)
  /\ apply[c].outcome = "gone" => slips[apply[c].slip].state = "none" /\ ~Applied(apply[c].slip)

\* An artifact in flight is in the hands of one request.
OneHolder ==
  \A c, d \in Applies :
    apply[c].step \in Holding /\ apply[d].step \in Holding /\ apply[c].slip = apply[d].slip => c = d

CorrectionsIInv ==
  /\ CorrectionsTypeOK
  /\ \A k \in Reviews : ReviewOK(k)
  /\ \A c \in Applies : ApplyOK(c)
  /\ OneHolder
  /\ CorrectionsChain
  /\ \A n \in 2..Len(revisions) : revisions[n] \in Reviews
  /\ service = "closed" => operations = {}
----------------------------------------------------------------------------
\* The vault's purge: what is left of an artifact is the artifact, or nothing
\* (ConfirmedProfileCorrectionArtifactVault._purge_expired_locked).
LEMMA PurgeLemma ==
  ASSUME CorrectionsTypeOK
  PROVE  /\ PurgedSlips \in [Reviews -> SlipRecord]
         /\ \A k \in Reviews : /\ PurgedSlips[k] \in {slips[k], NoSlip}
                               /\ slips[k].state \in {"none", "in_flight"} => PurgedSlips[k] = slips[k]
<1>1. NoSlip \in SlipRecord
  BY DEF NoSlip, SlipRecord
<1>2. \A k \in Reviews : PurgedSlips[k] = IF Outlived(k) THEN NoSlip ELSE slips[k]
  BY DEF PurgedSlips
<1>3. PurgedSlips \in [Reviews -> SlipRecord]
  BY <1>1 DEF PurgedSlips, CorrectionsTypeOK
<1>4. \A k \in Reviews : slips[k].state \in {"none", "in_flight"} => ~Outlived(k)
  BY DEF Outlived
<1> QED
  BY <1>2, <1>3, <1>4

\* The service starts with the first revision and nothing under way (InitCorrections).
LEMMA InitCorrectionsLemma == InitCorrections => CorrectionsIInv
<1> SUFFICES ASSUME InitCorrections PROVE CorrectionsIInv
  OBVIOUS
<1>1. Len(revisions) = 1 /\ revisions \in Seq(Nat)
  BY DEF InitCorrections
<1>2. \A k \in Reviews : ~Applied(k)
  BY DEF InitCorrections, Applied, Reviews
<1>3. CorrectionsTypeOK
  BY <1>1, CorrectionAssumption DEF InitCorrections, CorrectionsTypeOK, NoReview, NoSlip, NewApply,
       ReviewRecord, SlipRecord, ApplyRecord
<1>4. (\A k \in Reviews : ReviewOK(k)) /\ (\A c \in Applies : ApplyOK(c)) /\ OneHolder
  BY <1>1, <1>2
     DEF InitCorrections, ReviewOK, ApplyOK, OneHolder, Holding, NoReview, NoSlip, NewApply
<1>5. CorrectionsChain /\ (\A n \in 2..Len(revisions) : revisions[n] \in Reviews)
  BY <1>1 DEF CorrectionsChain
<1> QED
  BY <1>3, <1>4, <1>5 DEF CorrectionsIInv, InitCorrections

\* A review begins: no artifact, request or revision knows it yet (AuthorizeReview).
LEMMA AuthorizeLemma ==
  ASSUME CorrectionsIInv, NEW r \in Reviews, AuthorizeReview(r)
  PROVE  CorrectionsIInv'
<1> USE DEF CorrectionsIInv
<1>1. CorrectionsTypeOK'
  BY DEF CorrectionsTypeOK, AuthorizeReview, ReviewRecord
<1>2. ~Applied(r) /\ slips[r].state = "none"
  BY DEF ReviewOK, AuthorizeReview
<1>3. \A k \in Reviews : Applied(k)' <=> Applied(k)
  BY DEF AuthorizeReview, Applied
<1>4. \A k \in Reviews : k # r => review'[k] = review[k]
  BY DEF CorrectionsTypeOK, AuthorizeReview
<1>5. review'[r] = [stage |-> "authorized", base |-> Len(revisions)]
  BY DEF CorrectionsTypeOK, AuthorizeReview
<1>6. \A k \in Reviews : ReviewOK(k)'
  BY <1>2, <1>3, <1>4, <1>5 DEF CorrectionsTypeOK, ReviewOK, Overtaken, AuthorizeReview
<1>7. \A c \in Applies : ApplyOK(c)'
  BY <1>3, <1>4 DEF ApplyOK, Overtaken, AuthorizeReview, Holding
<1>8. OneHolder'
  BY DEF OneHolder, AuthorizeReview
<1>9. CorrectionsChain'
  BY <1>2, <1>4 DEF CorrectionsChain, Applied, AuthorizeReview, CorrectionsTypeOK
<1> QED
  BY <1>1, <1>6, <1>7, <1>8, <1>9 DEF AuthorizeReview

\* The artifact of a review is its own: no request can hold it yet (IssueSlip).
LEMMA IssueLemma ==
  ASSUME CorrectionsIInv, NEW r \in Reviews, IssueSlip(r)
  PROVE  CorrectionsIInv'
<1> USE DEF CorrectionsIInv
<1> DEFINE offer == [state |-> "available", deadline |-> time + SlipLifetime]
<1>a. /\ review[r].stage = "authorized" /\ revisions' = revisions
      /\ \/ /\ slips' = [PurgedSlips EXCEPT ![r] = offer]
            /\ review' = [review EXCEPT ![r].stage = "offered"]
         \/ slips' \in {PurgedSlips, slips} /\ review' = [review EXCEPT ![r].stage = "failed"]
  BY DEF IssueSlip
<1>b. slips[r].state = "none" /\ PurgedSlips[r] = slips[r] /\ revisions' = revisions
  <2>1. review[r].stage = "authorized"
    BY DEF IssueSlip
  <2>2. slips[r].state = "none"
    BY <2>1 DEF ReviewOK
  <2> QED
    BY <1>a, <2>2, PurgeLemma
<1>c. offer \in SlipRecord
  <2>1. SlipLifetime \in Nat /\ time \in Nat
    BY CorrectionAssumption DEF CorrectionsTypeOK
  <2> QED
    BY <2>1 DEF SlipRecord
<1>1. /\ \A k \in Reviews : Applied(k)' <=> Applied(k)
      /\ \A k \in Reviews : review'[k].base = review[k].base
      /\ \A k \in Reviews \ {r} : review'[k] = review[k]
      /\ review' \in [Reviews -> ReviewRecord]
  <2>1. \A stage \in {"offered", "failed"} :
           LET new == [review EXCEPT ![r].stage = stage]
           IN  /\ new \in [Reviews -> ReviewRecord]
               /\ \A k \in Reviews : new[k].base = review[k].base
               /\ \A k \in Reviews \ {r} : new[k] = review[k]
    BY DEF CorrectionsTypeOK, ReviewRecord
  <2>2. \E stage \in {"offered", "failed"} : review' = [review EXCEPT ![r].stage = stage]
    BY <1>a
  <2>3. \A k \in Reviews : Applied(k)' <=> Applied(k)
    BY <1>a DEF Applied
  <2> QED
    BY <2>1, <2>2, <2>3
<1>2. slips' \in [Reviews -> SlipRecord]
  BY <1>a, <1>c, PurgeLemma DEF CorrectionsTypeOK
<1>3. \A k \in Reviews \ {r} : /\ slips'[k] \in {slips[k], NoSlip}
                               /\ slips[k].state \in {"none", "in_flight"} => slips'[k] = slips[k]
  BY <1>a, PurgeLemma DEF CorrectionsTypeOK
<1>4. \/ slips'[r].state = "none"
      \/ slips'[r].state = "available" /\ review'[r].stage = "offered"
  <2>1. CASE slips' = [PurgedSlips EXCEPT ![r] = offer] /\ review' = [review EXCEPT ![r].stage = "offered"]
    <3>1. slips'[r] = offer
      BY <2>1, PurgeLemma
    <3>2. review'[r].stage = "offered"
      BY <2>1 DEF CorrectionsTypeOK, ReviewRecord
    <3> QED
      BY <3>1, <3>2
  <2>2. CASE slips' \in {PurgedSlips, slips}
    BY <2>2, <1>b
  <2> QED
    BY <1>a, <2>1, <2>2
<1>5. CorrectionsTypeOK'
  BY <1>1, <1>2 DEF CorrectionsTypeOK, IssueSlip
<1>6. \A k \in Reviews : ReviewOK(k)'
  <2> SUFFICES ASSUME NEW k \in Reviews PROVE ReviewOK(k)'
    OBVIOUS
  <2>1. ReviewOK(k) /\ review'[k].base = review[k].base /\ (Applied(k)' <=> Applied(k))
    BY <1>1
  <2>2. CASE k = r
    <3>1. review'[r].stage # "none"
      BY <1>a DEF CorrectionsTypeOK, ReviewRecord
    <3>2. revisions' = revisions
      BY <1>a
    <3>3. slips'[r].state \in {"none", "available"}
      BY <1>4
    <3>4. slips'[r].state # "none" => review'[r].stage = "offered"
      BY <1>4
    <3>5. review'[r].base <= Len(revisions')
      BY <2>1, <2>2, <3>2 DEF ReviewOK
    <3> QED
      BY <2>2, <3>1, <3>3, <3>4, <3>5 DEF ReviewOK
  <2>3. CASE k # r
    <3>1. /\ review'[k] = review[k] /\ slips'[k] \in {slips[k], NoSlip}
          /\ Overtaken(k)' <=> Overtaken(k)
      BY <1>b, <1>1, <1>3, <2>3 DEF Overtaken
    <3> QED
      BY <1>b, <2>1, <3>1 DEF ReviewOK, NoSlip
  <2> QED
    BY <2>2, <2>3
<1>7. \A c \in Applies : ApplyOK(c)'
  <2> TAKE c \in Applies
  <2>1. apply[c].step # "idle" => apply[c].slip \in Reviews \ {r}
    BY <1>a DEF ApplyOK
  <2>2. ApplyOK(c) /\ apply' = apply /\ operations' = operations /\ revisions' = revisions
    BY DEF IssueSlip
  <2>3. CASE apply[c].step = "idle"
    BY <2>2, <2>3 DEF ApplyOK, Holding
  <2>4. CASE apply[c].step # "idle"
    <3> DEFINE k == apply[c].slip
    <3>1. /\ k \in Reviews \ {r} /\ review'[k] = review[k] /\ (Applied(k)' <=> Applied(k))
          /\ slips[k].state \in {"none", "in_flight"} => slips'[k] = slips[k]
      BY <1>1, <1>3, <2>1, <2>2, <2>4 DEF Applied
    <3> QED
      BY <2>2, <2>4, <3>1 DEF ApplyOK, Overtaken, Holding
  <2> QED
    BY <2>3, <2>4
<1>8. OneHolder'
  BY DEF OneHolder, IssueSlip
<1>9. CorrectionsChain'
  BY <1>1 DEF CorrectionsChain, IssueSlip
<1> QED
  BY <1>5, <1>6, <1>7, <1>8, <1>9 DEF IssueSlip

----------------------------------------------------------------------------
(* Steps of requests: the reviews and the revisions stay as they are *)

\* What a step of a request makes of its record (Steps, Responds).
LEMMA StepsLemma ==
  ASSUME CorrectionsTypeOK, NEW c \in Applies, NEW step, Steps(c, step),
         [step |-> step, slip |-> apply[c].slip, outcome |-> apply[c].outcome] \in ApplyRecord
  PROVE  /\ apply' \in [Applies -> ApplyRecord]
         /\ apply'[c] = [step |-> step, slip |-> apply[c].slip, outcome |-> apply[c].outcome]
         /\ \A d \in Applies \ {c} : apply'[d] = apply[d]
<1>1. apply[c] \in ApplyRecord
  BY DEF CorrectionsTypeOK
<1>2. [apply[c] EXCEPT !.step = step]
        = [step |-> step, slip |-> apply[c].slip, outcome |-> apply[c].outcome]
  BY <1>1 DEF ApplyRecord
<1>3. apply' = [apply EXCEPT ![c] = [apply[c] EXCEPT !.step = step]]
  BY DEF Steps
<1> QED
  BY <1>2, <1>3 DEF CorrectionsTypeOK

\* A response ends its own call and no other.
LEMMA RespondsLemma ==
  ASSUME CorrectionsTypeOK, NEW c \in Applies, NEW outcome, Responds(c, outcome),
         [step |-> "done", slip |-> apply[c].slip, outcome |-> outcome] \in ApplyRecord
  PROVE  /\ apply' \in [Applies -> ApplyRecord]
         /\ apply'[c] = [step |-> "done", slip |-> apply[c].slip, outcome |-> outcome]
         /\ \A d \in Applies \ {c} : apply'[d] = apply[d]
         /\ operations' = operations \ {c}
<1> QED
  BY DEF CorrectionsTypeOK, Responds

\* What such a step must respect to keep the other requests and the reviews sound.
LEMMA RequestLemma ==
  ASSUME CorrectionsIInv, NEW c \in Applies,
         review' = review, revisions' = revisions,
         \A d \in Applies \ {c} : apply'[d] = apply[d],
         operations \ {c} \subseteq operations', operations' \subseteq operations \union {c},
         \A d \in Applies \ {c} :
           apply[d].step # "idle" /\ (\/ apply[d].step \in Holding
                                      \/ slips[apply[d].slip].state = "none")
             => slips'[apply[d].slip].state = slips[apply[d].slip].state
  PROVE  /\ \A k \in Reviews : /\ Applied(k)' <=> Applied(k)
                               /\ Overtaken(k)' <=> Overtaken(k)
         /\ \A d \in Applies \ {c} : ApplyOK(d)'
         /\ CorrectionsChain'
         /\ \A n \in 2..Len(revisions') : revisions'[n] \in Reviews
<1>1. \A k \in Reviews : /\ Applied(k)' <=> Applied(k)
                         /\ Overtaken(k)' <=> Overtaken(k)
  BY DEF Applied, Overtaken
<1>2. \A d \in Applies \ {c} : ApplyOK(d)'
  <2> SUFFICES ASSUME NEW d \in Applies \ {c} PROVE ApplyOK(d)'
    OBVIOUS
  <2>1. ApplyOK(d) /\ apply'[d] = apply[d]
    BY DEF CorrectionsIInv
  <2>2. CASE apply[d].step = "idle"
    BY <2>1, <2>2 DEF ApplyOK, Holding
  <2>3. CASE apply[d].step # "idle"
    <3>1. apply[d].slip \in Reviews /\ review'[apply[d].slip] = review[apply[d].slip]
      BY <2>1, <2>3 DEF ApplyOK
    <3>2. /\ Applied(apply[d].slip)' <=> Applied(apply[d].slip)
          /\ Overtaken(apply[d].slip)' <=> Overtaken(apply[d].slip)
      BY <2>1 DEF Applied, Overtaken
    <3>3. apply[d].step \in Holding \/ slips[apply[d].slip].state = "none"
             => slips'[apply[d].slip].state = slips[apply[d].slip].state
      BY <2>3
    <3> QED
      BY <2>1, <2>3, <3>1, <3>2, <3>3 DEF ApplyOK, Holding
  <2> QED
    BY <2>2, <2>3
<1>3. CorrectionsChain'
  BY DEF CorrectionsIInv, CorrectionsChain
<1> QED
  BY <1>1, <1>2, <1>3 DEF CorrectionsIInv

\* A request arrives for an artifact that was offered (BeginConsume).
LEMMA BeginLemma ==
  ASSUME CorrectionsIInv, NEW c \in Applies, NEW r \in Reviews, BeginConsume(c, r)
  PROVE  CorrectionsIInv'
<1> USE DEF CorrectionsIInv
<1>1. /\ review' = review /\ revisions' = revisions /\ slips' = slips /\ service' = service
      /\ time' = time /\ review[r].stage = "offered"
  BY DEF BeginConsume
<1>2. \E step \in {"done", "claiming"}, outcome \in {"none", "shut", "unavailable"} :
         /\ apply' = [apply EXCEPT ![c] = [step |-> step, slip |-> r, outcome |-> outcome]]
         /\ step = "claiming" => outcome = "none" /\ service = "active"
         /\ operations' = IF step = "claiming" THEN operations \union {c} ELSE operations
  BY DEF BeginConsume
<1>3. PICK step \in {"done", "claiming"}, outcome \in {"none", "shut", "unavailable"} :
         /\ apply' = [apply EXCEPT ![c] = [step |-> step, slip |-> r, outcome |-> outcome]]
         /\ step = "claiming" => outcome = "none" /\ service = "active"
         /\ operations' = IF step = "claiming" THEN operations \union {c} ELSE operations
  BY <1>2
<1>4. /\ \A d \in Applies \ {c} : apply'[d] = apply[d]
      /\ apply'[c] = [step |-> step, slip |-> r, outcome |-> outcome]
  BY <1>3 DEF CorrectionsTypeOK
<1>5. operations \ {c} \subseteq operations' /\ operations' \subseteq operations \union {c}
  BY <1>3
<1>6. CorrectionsTypeOK'
  <2>1. [step |-> step, slip |-> r, outcome |-> outcome] \in ApplyRecord
    BY CorrectionAssumption DEF ApplyRecord, Reviews
  <2> QED
    BY <1>1, <1>3, <1>5, <2>1 DEF CorrectionsTypeOK
<1>7. /\ \A k \in Reviews : /\ Applied(k)' <=> Applied(k)
                            /\ Overtaken(k)' <=> Overtaken(k)
      /\ \A d \in Applies \ {c} : ApplyOK(d)'
      /\ CorrectionsChain'
      /\ \A n \in 2..Len(revisions') : revisions'[n] \in Reviews
  BY <1>1, <1>4, <1>5, RequestLemma
<1>8. ApplyOK(c)'
  BY <1>1, <1>3, <1>4 DEF ApplyOK, Holding
<1>9. \A k \in Reviews : ReviewOK(k)'
  BY <1>1, <1>7 DEF ReviewOK
<1>10. OneHolder'
  BY <1>4 DEF OneHolder, Holding
<1> QED
  BY <1>1, <1>3, <1>6, <1>7, <1>8, <1>9, <1>10

\* The records a step of a request can end in, given where it came from.
ClaimEnds(c, step, outcome) ==
  /\ apply' \in [Applies -> ApplyRecord]
  /\ apply'[c] = [step |-> step, slip |-> apply[c].slip, outcome |-> outcome]
  /\ \A d \in Applies \ {c} : apply'[d] = apply[d]
  /\ operations' = IF step = "done" THEN operations \ {c} ELSE operations

\* A request claims its artifact: in flight only if it was not (ClaimSlip).
LEMMA ClaimLemma ==
  ASSUME CorrectionsIInv, NEW c \in Applies, ClaimSlip(c)
  PROVE  CorrectionsIInv'
<1> USE DEF CorrectionsIInv
<1> DEFINE r == apply[c].slip
           state == PurgedSlips[r].state
<1>1. /\ review' = review /\ revisions' = revisions /\ service' = service /\ time' = time
      /\ apply[c].step = "claiming" /\ r \in Reviews /\ review[r].stage = "offered"
      /\ c \in operations /\ r \in Nat
  BY DEF ClaimSlip, ApplyOK, CorrectionsTypeOK, ApplyRecord
<1>2. /\ PurgedSlips \in [Reviews -> SlipRecord]
      /\ \A k \in Reviews : PurgedSlips[k] \in {slips[k], NoSlip}
      /\ \A k \in Reviews : slips[k].state \in {"none", "in_flight"} => PurgedSlips[k] = slips[k]
  BY PurgeLemma
<1>3. /\ apply[c].outcome \in {"none", "shut", "unavailable", "corrected", "stale", "gone",
                               "temporary_contention"}
      /\ \A step \in {"done", "looking", "appending"} :
           [step |-> step, slip |-> r, outcome |-> apply[c].outcome] \in ApplyRecord
      /\ \A outcome \in {"unavailable", "corrected", "stale", "temporary_contention"} :
           [step |-> "done", slip |-> r, outcome |-> outcome] \in ApplyRecord
  BY <1>1 DEF CorrectionsTypeOK, ApplyRecord
<1>4. \/ ClaimEnds(c, "done", "unavailable") /\ slips' \in {slips, PurgedSlips}
      \/ /\ ClaimEnds(c, "looking", apply[c].outcome)
         /\ state = "none" /\ slips' = PurgedSlips
      \/ ClaimEnds(c, "done", "corrected") /\ state = "completed" /\ slips' = PurgedSlips
      \/ ClaimEnds(c, "done", "stale") /\ state = "stale" /\ slips' = PurgedSlips
      \/ ClaimEnds(c, "done", "temporary_contention") /\ slips' = PurgedSlips
      \/ /\ ClaimEnds(c, "appending", apply[c].outcome)
         /\ state \in {"available", "reconcile"}
         /\ slips' = [PurgedSlips EXCEPT ![r].state = "in_flight"]
  <2>1. \A step \in {"looking", "appending"} :
           Steps(c, step) /\ operations' = operations => ClaimEnds(c, step, apply[c].outcome)
    BY <1>3, StepsLemma DEF ClaimEnds
  <2>2. \A outcome \in {"unavailable", "corrected", "stale", "temporary_contention"} :
           Responds(c, outcome) => ClaimEnds(c, "done", outcome)
    BY <1>3, RespondsLemma DEF ClaimEnds
  <2> QED
    BY <1>1, <2>1, <2>2 DEF ClaimSlip
<1>5. slips' \in [Reviews -> SlipRecord]
  <2>1. [PurgedSlips[r] EXCEPT !.state = "in_flight"] \in SlipRecord
    BY <1>1, <1>2 DEF SlipRecord
  <2> QED
    BY <1>2, <1>4, <2>1 DEF CorrectionsTypeOK
<1>6. \A k \in Reviews \ {r} : slips'[k] \in {slips[k], NoSlip}
  BY <1>2, <1>4
<1>7. \A k \in Reviews :
        slips[k].state \in {"none", "in_flight"} => slips'[k].state = slips[k].state
  BY <1>1, <1>2, <1>4
<1>8. /\ \A d \in Applies \ {c} : apply'[d] = apply[d]
      /\ operations \ {c} \subseteq operations' /\ operations' \subseteq operations
      /\ apply' \in [Applies -> ApplyRecord]
  BY <1>4 DEF ClaimEnds
<1>9. CorrectionsTypeOK'
  BY <1>1, <1>5, <1>8 DEF CorrectionsTypeOK
<1>10. /\ \A k \in Reviews : /\ Applied(k)' <=> Applied(k)
                             /\ Overtaken(k)' <=> Overtaken(k)
       /\ \A d \in Applies \ {c} : ApplyOK(d)'
       /\ CorrectionsChain'
       /\ \A n \in 2..Len(revisions') : revisions'[n] \in Reviews
  <2>1. \A d \in Applies \ {c} :
          apply[d].step # "idle" /\ (apply[d].step \in Holding \/ slips[apply[d].slip].state = "none")
            => slips'[apply[d].slip].state = slips[apply[d].slip].state
    BY <1>7 DEF ApplyOK
  <2> QED
    BY <1>1, <1>8, <2>1, RequestLemma
<1>11. \A k \in Reviews : ReviewOK(k)'
  <2> SUFFICES ASSUME NEW k \in Reviews PROVE ReviewOK(k)'
    OBVIOUS
  <2>1. ReviewOK(k) /\ (Applied(k)' <=> Applied(k)) /\ (Overtaken(k)' <=> Overtaken(k))
    BY <1>10
  <2>2. \/ slips'[k] \in {slips[k], NoSlip}
        \/ slips'[k].state = "in_flight" /\ slips[k].state # "none"
    BY <1>1, <1>2, <1>4, <1>6 DEF SlipRecord, NoSlip
  <2> QED
    BY <1>1, <2>1, <2>2 DEF ReviewOK, NoSlip
<1>12. ApplyOK(c)'
  <2>1. apply[c].outcome = "none"
    BY <1>1 DEF ApplyOK
  <2>2. apply'[c].slip = r /\ review'[r].stage = "offered"
    BY <1>1, <1>4 DEF ClaimEnds
  <2>3. (Applied(apply[c].slip)' <=> Applied(r)) /\ (Overtaken(apply[c].slip)' <=> Overtaken(r))
    BY <1>1, <2>2 DEF Applied, Overtaken
  <2>4. state = "completed" => Applied(r)
    BY <1>1, <1>2 DEF ReviewOK, NoSlip
  <2>5. state = "stale" => Overtaken(r)
    BY <1>1, <1>2 DEF ReviewOK, NoSlip
  <2>6. apply'[c].step \notin {"idle", "done"} => c \in operations'
    BY <1>1, <1>4 DEF ClaimEnds
  <2>7. apply'[c].step = "appending" => slips'[r].state = "in_flight"
    <3>1. [PurgedSlips EXCEPT ![r].state = "in_flight"][r].state = "in_flight"
      BY <1>1, <1>2 DEF SlipRecord
    <3>2. apply'[c].step = "appending" => slips' = [PurgedSlips EXCEPT ![r].state = "in_flight"]
      BY <1>4 DEF ClaimEnds
    <3> QED
      BY <3>1, <3>2
  <2>8. apply'[c].step = "looking" => slips'[r].state = "none"
    BY <1>1, <1>2, <1>4 DEF ClaimEnds
  <2>9. /\ apply'[c].step \in {"done", "looking", "appending"}
        /\ apply'[c].step # "done" => apply'[c].outcome = "none"
        /\ apply'[c].outcome \notin {"gone"}
        /\ apply'[c].outcome = "corrected" => state = "completed"
        /\ apply'[c].outcome = "stale" => state = "stale"
    BY <1>4, <2>1 DEF ClaimEnds
  <2> QED
    BY <1>1, <2>2, <2>3, <2>4, <2>5, <2>6, <2>7, <2>8, <2>9 DEF ApplyOK, Holding
<1>13. OneHolder'
  <2> SUFFICES ASSUME NEW d \in Applies \ {c}, apply'[d].step \in Holding, apply'[c].step \in Holding,
                      apply'[d].slip = r
               PROVE  FALSE
    BY <1>4, <1>8 DEF OneHolder, ClaimEnds
  <2>1. slips[r].state = "in_flight"
    BY <1>8 DEF ApplyOK
  <2>2. state \in {"available", "reconcile"}
    BY <1>4 DEF ClaimEnds, Holding
  <2> QED
    BY <1>1, <1>2, <2>1, <2>2
<1> QED
  BY <1>1, <1>8, <1>9, <1>10, <1>11, <1>12, <1>13

\* A request that holds its artifact appends at most the one revision its review saw
\* (AppendRevision).
LEMMA AppendLemma ==
  ASSUME CorrectionsIInv, NEW c \in Applies, AppendRevision(c)
  PROVE  CorrectionsIInv'
<1> USE DEF CorrectionsIInv
<1> DEFINE r == apply[c].slip
<1>1. /\ review' = review /\ slips' = slips /\ service' = service /\ time' = time
      /\ operations' = operations
      /\ apply[c].step = "appending" /\ r \in Reviews /\ review[r].stage = "offered"
      /\ c \in operations /\ apply[c].outcome = "none" /\ slips[r].state = "in_flight"
      /\ r \in Nat
  BY DEF AppendRevision, ApplyOK, Holding, Reviews
<1>2. PICK step \in Holding \ {"appending"} :
        /\ Steps(c, step)
        /\ step = "corrected" => Applied(r) \/ revisions' = Append(revisions, r)
        /\ step = "stale" => /\ revisions' = revisions
                             /\ ~Applied(r) /\ Len(revisions) # review[r].base
  BY DEF AppendRevision, Holding
<1>3. /\ apply' \in [Applies -> ApplyRecord]
      /\ apply'[c] = [step |-> step, slip |-> r, outcome |-> "none"]
      /\ \A d \in Applies \ {c} : apply'[d] = apply[d]
  <2>1. [step |-> step, slip |-> r, outcome |-> apply[c].outcome] \in ApplyRecord
    BY <1>1 DEF ApplyRecord, Holding
  <2> QED
    BY <1>1, <1>2, <2>1, StepsLemma
<1>4. /\ revisions' \in Seq(Nat) /\ Len(revisions') >= Len(revisions)
      /\ \A n \in DOMAIN revisions : revisions'[n] = revisions[n]
      /\ revisions' = revisions \/ /\ Len(revisions) = review[r].base
                                   /\ Len(revisions') = Len(revisions) + 1
                                   /\ revisions'[Len(revisions')] = r
  <2>1. CASE revisions' = revisions
    BY <2>1 DEF CorrectionsTypeOK
  <2>2. CASE revisions' = Append(revisions, r) /\ Len(revisions) = review[r].base
    BY <1>1, <2>2 DEF CorrectionsTypeOK
  <2> QED
    BY <2>1, <2>2 DEF AppendRevision
<1>5. \A k \in Reviews : Applied(k) => Applied(k)'
  BY <1>4 DEF Applied, CorrectionsTypeOK
<1>6. \A k \in Reviews : Applied(k)' => Applied(k) \/ (k = r /\ revisions' # revisions)
  BY <1>4 DEF Applied, CorrectionsTypeOK
<1>7. \A k \in Reviews : Overtaken(k) => Overtaken(k)'
  BY <1>1, <1>4, <1>6 DEF Overtaken, CorrectionsTypeOK, ReviewRecord
<1>8. CorrectionsTypeOK'
  BY <1>1, <1>3, <1>4 DEF CorrectionsTypeOK
<1>9. \A k \in Reviews : ReviewOK(k)'
  <2> SUFFICES ASSUME NEW k \in Reviews PROVE ReviewOK(k)'
    OBVIOUS
  <2>1. ReviewOK(k) /\ (Applied(k) => Applied(k)') /\ (Overtaken(k) => Overtaken(k)')
    BY <1>5, <1>7
  <2>2. review[k].stage = "none" => ~Applied(k)'
    BY <1>1, <1>6, <2>1 DEF ReviewOK
  <2>3. review[k].base <= Len(revisions')
    BY <1>4, <2>1 DEF ReviewOK, CorrectionsTypeOK, ReviewRecord
  <2> QED
    BY <1>1, <2>1, <2>2, <2>3 DEF ReviewOK
<1>10. \A d \in Applies \ {c} : ApplyOK(d)'
  <2> SUFFICES ASSUME NEW d \in Applies \ {c} PROVE ApplyOK(d)'
    OBVIOUS
  <2>1. ApplyOK(d) /\ apply'[d] = apply[d]
    BY <1>3
  <2>2. CASE apply[d].step = "idle"
    BY <2>1, <2>2 DEF ApplyOK, Holding
  <2>3. CASE apply[d].step # "idle"
    <3>1. apply[d].slip \in Reviews
      BY <2>1, <2>3 DEF ApplyOK
    <3>2. /\ Applied(apply[d].slip) => Applied(apply[d].slip)'
          /\ Overtaken(apply[d].slip) => Overtaken(apply[d].slip)'
      BY <1>5, <1>7, <2>1, <3>1 DEF Applied, Overtaken
    <3>3. apply[d].outcome = "gone" => ~Applied(apply[d].slip)'
      BY <1>1, <1>6, <2>1, <3>1 DEF ApplyOK, Applied
    <3> QED
      BY <1>1, <2>1, <2>3, <3>1, <3>2, <3>3 DEF ApplyOK, Holding
  <2> QED
    BY <2>2, <2>3
<1>11. ApplyOK(c)'
  <2>1. step = "corrected" => Applied(r)'
    <3>1. CASE Applied(r)
      BY <1>1, <1>3, <1>5, <3>1 DEF Applied
    <3>2. CASE revisions' = Append(revisions, r)
      <4>1. Len(revisions') \in DOMAIN revisions' /\ revisions'[Len(revisions')] = r
        BY <1>1, <3>2 DEF CorrectionsTypeOK
      <4> QED
        BY <1>3, <4>1 DEF Applied
    <3> QED
      BY <1>2, <3>1, <3>2
  <2>2. step = "stale" => Overtaken(r)'
    <3>1. review[r].base <= Len(revisions) /\ review[r].base \in Nat /\ Len(revisions) \in Nat
      BY <1>1 DEF ReviewOK, CorrectionsTypeOK, ReviewRecord
    <3>2. step = "stale" => Overtaken(r)
      BY <1>2, <3>1 DEF Overtaken
    <3> QED
      BY <1>1, <1>3, <1>7, <3>2 DEF Overtaken, Applied
  <2>3. (Applied(apply[c].slip)' <=> Applied(r)') /\ (Overtaken(apply[c].slip)' <=> Overtaken(r)')
    BY <1>3 DEF Applied, Overtaken
  <2> QED
    BY <1>1, <1>3, <2>1, <2>2, <2>3 DEF ApplyOK, Holding
<1>12. OneHolder'
  BY <1>1, <1>3 DEF OneHolder, Holding
<1>13. CorrectionsChain' /\ \A n \in 2..Len(revisions') : revisions'[n] \in Reviews
  <2> SUFFICES ASSUME NEW n \in 2..Len(revisions')
               PROVE  review[revisions'[n]].base = n - 1 /\ revisions'[n] \in Reviews
    BY <1>1 DEF CorrectionsChain
  <2>1. CASE n \in 2..Len(revisions)
    BY <1>4, <2>1 DEF CorrectionsChain, CorrectionsTypeOK
  <2>2. CASE n \notin 2..Len(revisions)
    BY <1>1, <1>4, <2>2 DEF CorrectionsTypeOK
  <2> QED
    BY <2>1, <2>2
<1> QED
  BY <1>1, <1>3, <1>8, <1>9, <1>10, <1>11, <1>12, <1>13

\* What a request found out is remembered, and answered (SettleSlip).
LEMMA SettleLemma ==
  ASSUME CorrectionsIInv, NEW c \in Applies, SettleSlip(c)
  PROVE  CorrectionsIInv'
<1> USE DEF CorrectionsIInv
<1> DEFINE r == apply[c].slip
           step == apply[c].step
           outcome == IF step = "raised" THEN "unavailable" ELSE step
<1>1. /\ review' = review /\ revisions' = revisions /\ service' = service /\ time' = time
      /\ step \in {"corrected", "stale", "temporary_contention", "unavailable", "raised"}
  BY DEF SettleSlip
<1>2. /\ r \in Reviews /\ review[r].stage = "offered" /\ r \in Nat
      /\ step \in Holding /\ slips[r].state = "in_flight"
      /\ step = "corrected" => Applied(r)
      /\ step = "stale" => Overtaken(r)
  BY <1>1 DEF ApplyOK, Holding, Reviews
<1>3. slips' = [slips EXCEPT ![r].state = Remembers(step)] /\ Responds(c, outcome)
  BY <1>2 DEF SettleSlip
<1>4. /\ apply' \in [Applies -> ApplyRecord]
      /\ apply'[c] = [step |-> "done", slip |-> r, outcome |-> outcome]
      /\ \A d \in Applies \ {c} : apply'[d] = apply[d]
      /\ operations' = operations \ {c}
  <2>1. [step |-> "done", slip |-> r, outcome |-> outcome] \in ApplyRecord
    BY <1>1, <1>2 DEF ApplyRecord
  <2> QED
    BY <1>3, <2>1, RespondsLemma
<1>5. /\ slips' \in [Reviews -> SlipRecord]
      /\ \A k \in Reviews \ {r} : slips'[k] = slips[k]
      /\ slips'[r].state = Remembers(step)
  <2>1. Remembers(step) \in {"completed", "stale", "available", "reconcile"}
    BY DEF Remembers
  <2> QED
    BY <1>2, <1>3, <2>1 DEF CorrectionsTypeOK, SlipRecord
<1>6. CorrectionsTypeOK'
  BY <1>1, <1>4, <1>5 DEF CorrectionsTypeOK
<1>7. /\ \A k \in Reviews : /\ Applied(k)' <=> Applied(k)
                            /\ Overtaken(k)' <=> Overtaken(k)
      /\ \A d \in Applies \ {c} : ApplyOK(d)'
      /\ CorrectionsChain'
      /\ \A n \in 2..Len(revisions') : revisions'[n] \in Reviews
  <2>1. \A d \in Applies \ {c} :
          apply[d].step # "idle" /\ (apply[d].step \in Holding \/ slips[apply[d].slip].state = "none")
            => slips'[apply[d].slip].state = slips[apply[d].slip].state
    BY <1>2, <1>5 DEF ApplyOK, OneHolder
  <2> QED
    BY <1>1, <1>4, <2>1, RequestLemma
<1>8. \A k \in Reviews : ReviewOK(k)'
  <2> SUFFICES ASSUME NEW k \in Reviews PROVE ReviewOK(k)'
    OBVIOUS
  <2>1. ReviewOK(k) /\ (Applied(k)' <=> Applied(k)) /\ (Overtaken(k)' <=> Overtaken(k))
    BY <1>7
  <2>2. CASE k = r
    <3>1. /\ slips'[r].state = "completed" => step = "corrected"
          /\ slips'[r].state = "stale" => step = "stale"
      BY <1>1, <1>5 DEF Remembers
    <3> QED
      BY <1>1, <1>2, <2>1, <2>2, <3>1 DEF ReviewOK
  <2>3. CASE k # r
    BY <1>1, <1>5, <2>1, <2>3 DEF ReviewOK
  <2> QED
    BY <2>2, <2>3
<1>9. ApplyOK(c)'
  <2>1. (Applied(apply[c].slip)' <=> Applied(r)) /\ (Overtaken(apply[c].slip)' <=> Overtaken(r))
    BY <1>1, <1>4 DEF Applied, Overtaken
  <2>2. /\ outcome = "corrected" => Applied(r)
        /\ outcome = "stale" => Overtaken(r)
        /\ outcome # "gone"
    BY <1>1, <1>2
  <2> QED
    BY <1>1, <1>2, <1>4, <2>1, <2>2 DEF ApplyOK, Holding
<1>10. OneHolder'
  BY <1>4 DEF OneHolder, Holding
<1> QED
  BY <1>1, <1>4, <1>6, <1>7, <1>8, <1>9, <1>10

\* An artifact that is gone is judged by the revision its key made, or did not
\* (ReplayCompletedSlip).
LEMMA ReplayLemma ==
  ASSUME CorrectionsIInv, NEW c \in Applies, ReplayCompletedSlip(c)
  PROVE  CorrectionsIInv'
<1> USE DEF CorrectionsIInv
<1> DEFINE r == apply[c].slip
<1>1. /\ review' = review /\ revisions' = revisions /\ service' = service /\ time' = time
      /\ slips' = slips
      /\ r \in Reviews /\ review[r].stage = "offered" /\ slips[r].state = "none" /\ r \in Nat
  BY DEF ReplayCompletedSlip, ApplyOK, Reviews
<1>2. PICK outcome \in {"corrected", "gone", "unavailable"} :
        /\ Responds(c, outcome)
        /\ outcome = "corrected" => Applied(r)
        /\ outcome = "gone" => ~Applied(r)
  BY DEF ReplayCompletedSlip
<1>3. /\ apply' \in [Applies -> ApplyRecord]
      /\ apply'[c] = [step |-> "done", slip |-> r, outcome |-> outcome]
      /\ \A d \in Applies \ {c} : apply'[d] = apply[d]
      /\ operations' = operations \ {c}
  <2>1. [step |-> "done", slip |-> r, outcome |-> outcome] \in ApplyRecord
    BY <1>1 DEF ApplyRecord
  <2> QED
    BY <1>2, <2>1, RespondsLemma
<1>4. CorrectionsTypeOK'
  BY <1>1, <1>3 DEF CorrectionsTypeOK
<1>5. /\ \A k \in Reviews : /\ Applied(k)' <=> Applied(k)
                            /\ Overtaken(k)' <=> Overtaken(k)
      /\ \A d \in Applies \ {c} : ApplyOK(d)'
      /\ CorrectionsChain'
      /\ \A n \in 2..Len(revisions') : revisions'[n] \in Reviews
  BY <1>1, <1>3, RequestLemma
<1>6. \A k \in Reviews : ReviewOK(k)'
  BY <1>1, <1>5 DEF ReviewOK
<1>7. ApplyOK(c)'
  <2>1. Applied(apply[c].slip)' <=> Applied(r)
    BY <1>1, <1>3 DEF Applied
  <2> QED
    BY <1>1, <1>2, <1>3, <2>1 DEF ApplyOK, Holding
<1>8. OneHolder'
  BY <1>3 DEF OneHolder, Holding
<1> QED
  BY <1>1, <1>3, <1>4, <1>5, <1>6, <1>7, <1>8

----------------------------------------------------------------------------
\* A close that ends, or a process that does, leaves no artifact; the requests it cuts
\* off keep what they were told (CloseEnds, RestartService).
LEMMA CloseLemma ==
  ASSUME CorrectionsIInv, CloseEnds
  PROVE  CorrectionsIInv'
<1> USE DEF CorrectionsIInv
<1>1. /\ review' = review /\ revisions' = revisions /\ apply' = apply /\ time' = time
      /\ operations' = operations /\ operations = {} /\ slips' = [k \in Reviews |-> NoSlip]
  BY DEF CloseEnds
<1>2. \A k \in Reviews : slips'[k].state = "none"
  BY <1>1 DEF NoSlip
<1>3. CorrectionsTypeOK'
  BY <1>1 DEF CorrectionsTypeOK, NoSlip, SlipRecord
<1>4. \A c \in Applies : ApplyOK(c)'
  <2> SUFFICES ASSUME NEW c \in Applies PROVE ApplyOK(c)'
    OBVIOUS
  <2>1. ApplyOK(c) /\ apply[c].step \in {"idle", "done"}
    BY <1>1 DEF ApplyOK
  <2>2. /\ Applied(apply[c].slip)' <=> Applied(apply[c].slip)
        /\ Overtaken(apply[c].slip)' <=> Overtaken(apply[c].slip)
    BY <1>1 DEF Applied, Overtaken
  <2> QED
    BY <1>1, <1>2, <2>1, <2>2 DEF ApplyOK, Holding
<1>5. \A k \in Reviews : ReviewOK(k)'
  BY <1>1, <1>2 DEF ReviewOK, Applied
<1>6. OneHolder' /\ CorrectionsChain'
  BY <1>1 DEF OneHolder, CorrectionsChain
<1> QED
  BY <1>1, <1>3, <1>4, <1>5, <1>6

\* A service that starts again keeps the invariant.
LEMMA RestartLemma ==
  ASSUME CorrectionsIInv, RestartService
  PROVE  CorrectionsIInv'
<1> USE DEF CorrectionsIInv
<1>1. /\ revisions' = revisions /\ time' = time /\ service' = "active" /\ operations' = {}
      /\ slips' = [k \in Reviews |-> NoSlip]
  BY DEF RestartService
<1>2. \A k \in Reviews : slips'[k].state = "none"
  BY <1>1 DEF NoSlip
<1>3. /\ review' \in [Reviews -> ReviewRecord]
      /\ \A k \in Reviews : /\ review'[k].base = review[k].base
                            /\ review'[k].stage = "none" <=> review[k].stage = "none"
                            /\ review[k].stage = "offered" => review'[k].stage = "offered"
  <2>1. \A k \in Reviews :
          review'[k] = IF review[k].stage = "authorized" THEN [review[k] EXCEPT !.stage = "failed"]
                       ELSE review[k]
    BY DEF RestartService
  <2>2. \A x \in ReviewRecord : /\ [x EXCEPT !.stage = "failed"] \in ReviewRecord
                                /\ [x EXCEPT !.stage = "failed"].base = x.base
                                /\ [x EXCEPT !.stage = "failed"].stage = "failed"
    BY DEF ReviewRecord
  <2>3. \A k \in Reviews : review[k] \in ReviewRecord
    BY DEF CorrectionsTypeOK
  <2>4. \A k \in Reviews : /\ review'[k] \in ReviewRecord /\ review'[k].base = review[k].base
                           /\ review'[k].stage = "none" <=> review[k].stage = "none"
                           /\ review[k].stage = "offered" => review'[k].stage = "offered"
    BY <2>1, <2>2, <2>3
  <2>5. review' = [k \in Reviews |->
          IF review[k].stage = "authorized" THEN [review[k] EXCEPT !.stage = "failed"] ELSE review[k]]
    BY DEF RestartService
  <2> QED
    BY <2>4, <2>5
<1>4. /\ apply' \in [Applies -> ApplyRecord]
      /\ \A c \in Applies : /\ apply'[c].slip = apply[c].slip /\ apply'[c].outcome = apply[c].outcome
                            /\ apply'[c].step = IF apply[c].step = "idle" THEN "idle" ELSE "done"
  <2>1. \A x \in ApplyRecord : /\ [x EXCEPT !.step = "done"] \in ApplyRecord
                               /\ [x EXCEPT !.step = "done"].slip = x.slip
                               /\ [x EXCEPT !.step = "done"].outcome = x.outcome
                               /\ [x EXCEPT !.step = "done"].step = "done"
    BY DEF ApplyRecord
  <2>2. apply' = [c \in Applies |->
          IF apply[c].step = "idle" THEN apply[c] ELSE [apply[c] EXCEPT !.step = "done"]]
    BY DEF RestartService
  <2>3. \A c \in Applies : apply[c] \in ApplyRecord
    BY DEF CorrectionsTypeOK
  <2> QED
    BY <2>1, <2>2, <2>3
<1>5. CorrectionsTypeOK'
  BY <1>1, <1>3, <1>4 DEF CorrectionsTypeOK, NoSlip, SlipRecord
<1>6. \A k \in Reviews : ReviewOK(k)'
  BY <1>1, <1>2, <1>3 DEF ReviewOK, Applied
<1>7. \A c \in Applies : ApplyOK(c)'
  <2> SUFFICES ASSUME NEW c \in Applies PROVE ApplyOK(c)'
    OBVIOUS
  <2>1. ApplyOK(c)
    OBVIOUS
  <2>2. CASE apply[c].step = "idle"
    BY <1>4, <2>1, <2>2 DEF ApplyOK, Holding
  <2>3. CASE apply[c].step # "idle"
    <3>1. apply[c].slip \in Reviews /\ review'[apply[c].slip].stage = "offered"
      BY <1>3, <2>1, <2>3 DEF ApplyOK
    <3>2. Applied(apply[c].slip)' <=> Applied(apply[c].slip)
      BY <1>1, <1>4 DEF Applied
    <3>3. Overtaken(apply[c].slip)' <=> Overtaken(apply[c].slip)
      BY <1>1, <1>3, <1>4, <3>1 DEF Overtaken, Applied
    <3> QED
      BY <1>2, <1>4, <2>1, <2>3, <3>1, <3>2, <3>3 DEF ApplyOK, Holding
  <2> QED
    BY <2>2, <2>3
<1>8. OneHolder'
  BY <1>4 DEF OneHolder, Holding
<1>9. CorrectionsChain'
  BY <1>1, <1>3 DEF CorrectionsChain
<1> QED
  BY <1>1, <1>5, <1>6, <1>7, <1>8, <1>9

\* Every step keeps the invariant (NextCorrections).
LEMMA NextCorrectionsLemma == CorrectionsIInv /\ [NextCorrections]_correctionVars => CorrectionsIInv'
<1> SUFFICES ASSUME CorrectionsIInv, [NextCorrections]_correctionVars PROVE CorrectionsIInv'
  OBVIOUS
<1>1. CASE UNCHANGED <<revisions, review, slips, operations, apply>> /\ time' \in Nat
           /\ service' \in {service, "closing"}
  <2>1. \A k \in Reviews : ReviewOK(k)'
    BY <1>1 DEF CorrectionsIInv, ReviewOK, Overtaken, Applied
  <2>2. \A c \in Applies : ApplyOK(c)'
    <3> SUFFICES ASSUME NEW c \in Applies PROVE ApplyOK(c)'
      OBVIOUS
    <3>1. /\ Applied(apply[c].slip)' <=> Applied(apply[c].slip)
          /\ Overtaken(apply[c].slip)' <=> Overtaken(apply[c].slip)
      BY <1>1 DEF Applied, Overtaken
    <3> QED
      BY <1>1, <3>1 DEF CorrectionsIInv, ApplyOK
  <2> QED
    BY <1>1, <2>1, <2>2 DEF CorrectionsIInv, CorrectionsTypeOK, OneHolder, CorrectionsChain
<1>2. CASE \E k \in Reviews : AuthorizeReview(k) \/ IssueSlip(k)
  BY <1>2, AuthorizeLemma, IssueLemma
<1>3. CASE \E c \in Applies, k \in Reviews : BeginConsume(c, k)
  BY <1>3, BeginLemma
<1>4. CASE \E c \in Applies : ClaimSlip(c) \/ AppendRevision(c) \/ SettleSlip(c) \/ ReplayCompletedSlip(c)
  BY <1>4, ClaimLemma, AppendLemma, SettleLemma, ReplayLemma
<1>5. CASE CloseEnds \/ RestartService
  BY <1>5, CloseLemma, RestartLemma
<1>6. CASE CloseService \/ TimeGoesOn \/ UNCHANGED correctionVars
  BY <1>1, <1>6 DEF CloseService, TimeGoesOn, correctionVars, CorrectionsIInv, CorrectionsTypeOK
<1> QED
  BY <1>2, <1>3, <1>4, <1>5, <1>6 DEF NextCorrections

\* The invariant holds always.
LEMMA CorrectionsIInvLemma == SpecCorrections => []CorrectionsIInv
  BY InitCorrectionsLemma, NextCorrectionsLemma, PTL DEF SpecCorrections

\* Corrections form one chain, each on the revision its reviewer saw, and what a request
\* was told of its artifact stays so, for any number of reviews and requests.
THEOREM CorrectionsTheorem == SpecCorrections => []CorrectionsSound
<1>1. CorrectionsIInv => CorrectionsSound
  <2> SUFFICES ASSUME CorrectionsIInv PROVE ToldOfCorrection
    BY DEF CorrectionsIInv, CorrectionsSound
  <2> QED
    BY DEF CorrectionsIInv, ApplyOK, ToldOfCorrection, Overtaken
<1> QED
  BY <1>1, CorrectionsIInvLemma, PTL

\* After a close that succeeded nothing is appended (ClosedIsStill): whoever could append
\* is among the operations the close waited for.
THEOREM ClosedTheorem == SpecCorrections => ClosedIsStill
<1>1. CorrectionsIInv /\ [NextCorrections]_correctionVars
        => [service = "closed" => UNCHANGED revisions]_correctionVars
  <2> SUFFICES ASSUME CorrectionsIInv, NextCorrections, service = "closed"
               PROVE  revisions' = revisions
    BY DEF correctionVars
  <2>1. ~\E c \in Applies : AppendRevision(c)
    BY DEF CorrectionsIInv, ApplyOK, AppendRevision
  <2> QED
    BY <2>1 DEF NextCorrections, AuthorizeReview, IssueSlip, BeginConsume, ClaimSlip, SettleSlip,
         ReplayCompletedSlip, CloseService, CloseEnds, RestartService, TimeGoesOn
<1> QED
  BY <1>1, CorrectionsIInvLemma, PTL DEF SpecCorrections, ClosedIsStill

----------------------------------------------------------------------------
(* The creation of a profile *)

DraftRecord == [state : {"new", "draft", "issuing", "maybe_issued", "completed", "gone"}, owner : Nat,
          edit : Edits \cup {NoEdit}, recovery : BOOLEAN, offer : Nat, until : Nat]
ConfirmRecord == [step : {"idle", "waiting", "replaying", "leased", "authorized", "offering", "returning",
                    "settling", "done"},
            draft : Nat, edit : Edits \cup {NoEdit}, recovery : BOOLEAN, mayExist : BOOLEAN, offer : Nat,
            answer : {"none", "refused", "unavailable", "offered"}]
ArtifactRecord == [state : {"none", "available", "in_flight", "reconcile", "created", "conflict", "retired"},
           draft : Nat, edit : Edits \cup {NoEdit}, deadline : Nat, claim : Nat,
           recovery : {"none", "available", "reconcile"}]
PostRecord == [step : {"idle", "claimed", "creating", "committed", "uncertain", "exists", "rolled_back",
                 "refused", "done"},
         artifact : Nat, target : {"none", "reconcile"},
         answer : {"none", "denied", "gone", "temporary_contention", "created", "conflict", "error",
                   "unavailable"}]

CreationTypeOK ==
  /\ clock \in Nat /\ issued \in 0..MaxArtifacts /\ profile \in Nat
  /\ drafts \in [Drafts -> DraftRecord]
  /\ confirm \in [Confirms -> ConfirmRecord]
  /\ records \in [Artifacts -> ArtifactRecord]
  /\ references \in [Drafts -> Nat]
  /\ watched \subseteq Posts
  /\ post \in [Posts -> PostRecord]

\* Where the artifact of a draft is written down.
Names(d, a) ==
  \/ references[d] = a
  \/ drafts[d].offer = a
  \/ \E c \in Confirms : confirm[c].draft = d /\ confirm[c].offer = a
  \/ a \in Artifacts /\ records[a].draft = d

\* An artifact is of one draft, wherever it is written down.
NamesOK ==
  \A a \in Nat \ {0} : \A d \in Drafts :
    Names(d, a) => a \in 1..issued /\ \A e \in Drafts : Names(e, a) => d = e

\* What the vault has of a draft.
RecordOK(a) ==
  LET d == records[a].draft
  IN  IF Live(a)
      THEN /\ d \in Drafts /\ references[d] = a
           /\ drafts[d].state \notin {"new", "draft"}
           /\ drafts[d].state # "gone" => drafts[d].edit = records[a].edit
      ELSE d = 0

\* The lease of a request on its draft.
Owner(d, c) == drafts[d].state = "issuing" /\ drafts[d].owner = c
Leasing == {"leased", "authorized", "offering"}
Working == Leasing \cup {"settling"}

ConfirmOK(c) ==
  LET x == confirm[c]
      d == x.draft
  IN  /\ x.step # "idle" => d \in Drafts
      /\ x.step \in {"idle", "waiting", "leased", "authorized"} => x.offer = 0
      /\ x.step \in {"offering", "returning", "replaying"} \/ x.answer = "offered" => x.offer # 0
      /\ x.answer # "none" => x.step = "done"
      /\ x.step \in Leasing \/ (x.step = "settling" /\ x.offer = 0) =>
           Owner(d, c) /\ drafts[d].edit = x.edit
      /\ x.step \in {"leased", "authorized"} => x.mayExist = x.recovery
      /\ x.step \in {"offering", "returning"} => x.mayExist
      /\ x.step \in {"leased", "authorized", "settling"} /\ ~x.mayExist =>
           x.offer = 0 /\ \A a \in Artifacts : Live(a) => records[a].draft # d
      /\ x.step = "returning" \/ (x.step = "settling" /\ x.offer # 0) =>
           drafts[d].state \in {"completed", "gone"}
      /\ x.offer # 0 /\ Live(x.offer) => records[x.offer].edit = x.edit
      /\ x.step = "returning" \/ x.answer = "offered" =>
           /\ drafts[d].state \in {"completed", "gone"}
           /\ drafts[d].state = "completed" => drafts[d].offer = x.offer

\* Whose offer was accepted.
Said(c) == confirm[c].step = "returning" \/ confirm[c].answer = "offered"

SaidAlike ==
  \A c, k \in Confirms : Said(c) /\ Said(k) /\ confirm[c].draft = confirm[k].draft =>
    confirm[c].offer = confirm[k].offer

DraftOK(d) ==
  /\ drafts[d].state = "issuing" =>
       LET c == drafts[d].owner
       IN  c \in Confirms /\ confirm[c].draft = d /\ confirm[c].step \in Leasing \cup {"settling"}
  /\ drafts[d].state = "completed" => drafts[d].offer # 0
  /\ drafts[d].state # "completed" => drafts[d].offer = 0

\* A draft leads to one offer, whatever failed.
OfferInv ==
  /\ CreationTypeOK /\ NamesOK /\ SaidAlike
  /\ \A a \in Artifacts : RecordOK(a)
  /\ \A c \in Confirms : ConfirmOK(c)
  /\ \A d \in Drafts : DraftOK(d)

HoldOK(a) ==
  LET p == records[a].claim
  IN  IF records[a].state = "in_flight"
      THEN p \in watched /\ post[p].artifact = a /\ records[a].recovery # "none"
      ELSE p = NoOwner

PostOK(p) ==
  /\ post[p].step # "idle" => post[p].artifact \in Artifacts
  /\ post[p].step = "idle" => post[p].artifact = 0
  /\ post[p].step # "done" => post[p].answer = "none"
  /\ post[p].step = "committed" => profile = post[p].artifact
  /\ post[p].step = "exists" => profile \notin {0, post[p].artifact}

\* An artifact is used by the request that holds it.
HoldInv ==
  /\ ClaimIsKept /\ ToldTheTruth
  /\ \A a \in Artifacts : HoldOK(a)
  /\ \A p \in Posts : PostOK(p)

CreationIInv == OfferInv /\ HoldInv

----------------------------------------------------------------------------
\* The records of what is not there yet, or no more.
LEMMA BlankRecords ==
  /\ NewDraft \in DraftRecord /\ NewDraft.state = "new" /\ NewDraft.offer = 0
  /\ Gone \in DraftRecord /\ Gone.state = "gone" /\ Gone.offer = 0
  /\ [NewDraft EXCEPT !.state = "draft"] \in DraftRecord
  /\ [NewDraft EXCEPT !.state = "draft"].state = "draft" /\ [NewDraft EXCEPT !.state = "draft"].offer = 0
  /\ NewConfirm \in ConfirmRecord /\ NewConfirm.step = "idle" /\ NewConfirm.draft = 0 /\ NewConfirm.offer = 0
  /\ NewConfirm.answer = "none" /\ NewConfirm.mayExist = FALSE
  /\ NoRecord \in ArtifactRecord /\ NoRecord.state = "none" /\ NoRecord.draft = 0 /\ NoRecord.claim = 0
  /\ NewPost \in PostRecord /\ NewPost.step = "idle" /\ NewPost.answer = "none"
  /\ NewPost.artifact = 0
BY DEF NewDraft, DraftRecord, Gone, NewConfirm, ConfirmRecord, NoRecord, ArtifactRecord, NewPost, PostRecord, NoOwner

\* The bounds are natural numbers.
LEMMA NatBounds == MaxArtifacts \in Nat /\ MaxPosts \in Nat /\ MaxConfirms \in Nat /\ MaxDrafts \in Nat
BY CreationAssumption

\* An artifact that is written down for a draft was issued.
LEMMA OfIssued ==
  ASSUME OfferInv, NEW d \in Drafts, NEW a \in Nat \ {0}, Names(d, a)
  PROVE  a \in 1..issued /\ a \in Artifacts /\ \A e \in Drafts : Names(e, a) => d = e
<1>1. a \in 1..issued /\ \A e \in Drafts : Names(e, a) => d = e
  BY DEF OfferInv, NamesOK
<1> QED
  BY <1>1, NatBounds DEF OfferInv, CreationTypeOK, Artifacts

\* A step of one request to confirm a draft, in what it changes of the drafts and in what
\* the others may rely on.
LEMMA Turned ==
  ASSUME OfferInv, NEW c \in Confirms, NEW new \in ConfirmRecord, Turns(c, new), CreationTypeOK',
         issued' = issued, references' = references,
         \A a \in Artifacts : records'[a] \in {records[a], NoRecord},
         \A d \in Drafts, k \in Confirms \ {c} : Owner(d, k) => drafts'[d] = drafts[d],
         \A d \in Drafts : drafts[d].state \in {"completed", "gone"} => drafts'[d] \in {drafts[d], Gone},
         \A a \in Artifacts : records'[a].state # "none" =>
           /\ drafts'[records[a].draft].state \notin {"new", "draft"}
           /\ drafts'[records[a].draft].state # "gone" =>
                drafts'[records[a].draft].edit = drafts[records[a].draft].edit
                /\ drafts[records[a].draft].state # "gone",
         ConfirmOK(c)', \A d \in Drafts : DraftOK(d)',
         \A d \in Drafts : drafts'[d].offer # 0 => Names(d, drafts'[d].offer),
         new.offer # 0 => Names(new.draft, new.offer),
         Said(c)' => \A k \in Confirms \ {c} : Said(k) /\ confirm[k].draft = new.draft =>
                        confirm[k].offer = new.offer
  PROVE  OfferInv'
<1>1. /\ confirm'[c] = new /\ \A k \in Confirms \ {c} : confirm'[k] = confirm[k]
  BY DEF Turns, OfferInv, CreationTypeOK
<1>2. NamesOK'
  <2> SUFFICES ASSUME NEW a \in Nat \ {0}, NEW d \in Drafts, Names(d, a)' PROVE Names(d, a)
    BY DEF OfferInv, NamesOK
  <2>1. CASE references'[d] = a
    BY <2>1 DEF Names
  <2>2. CASE drafts'[d].offer = a
    BY <2>2
  <2>3. CASE \E k \in Confirms : confirm'[k].draft = d /\ confirm'[k].offer = a
    BY <1>1, <2>3 DEF Names
  <2>4. CASE a \in Artifacts /\ records'[a].draft = d
    BY <2>4, BlankRecords DEF Names, Drafts
  <2> QED
    BY <2>1, <2>2, <2>3, <2>4 DEF Names
<1>3. SaidAlike'
  BY <1>1 DEF SaidAlike, Said, OfferInv
<1>4. ASSUME NEW a \in Artifacts PROVE RecordOK(a)'
  BY BlankRecords DEF RecordOK, Live, OfferInv
<1>5. ASSUME NEW k \in Confirms PROVE ConfirmOK(k)'
  <2>1. CASE k = c
    BY <2>1
  <2>2. CASE k # c
    <3>1. confirm'[k] = confirm[k] /\ ConfirmOK(k)
      BY <1>1, <2>2 DEF OfferInv
    <3>2. \A a \in Artifacts : Live(a)' => Live(a) /\ records'[a] = records[a]
      BY BlankRecords DEF Live
    <3>3. \A d \in Drafts : Owner(d, k) => Owner(d, k)' /\ drafts'[d] = drafts[d]
      BY <2>2 DEF Owner
    <3>4. confirm[k].offer # 0 => confirm[k].offer \in Artifacts
      <4> SUFFICES ASSUME confirm[k].offer # 0 PROVE confirm[k].offer \in Artifacts
        OBVIOUS
      <4>1. confirm[k].step # "idle" /\ confirm[k].offer \in Nat \ {0}
        BY <3>1 DEF ConfirmOK, OfferInv, CreationTypeOK, ConfirmRecord
      <4>2. Names(confirm[k].draft, confirm[k].offer) /\ confirm[k].draft \in Drafts
        BY <3>1, <4>1 DEF Names, ConfirmOK
      <4> QED
        BY <4>1, <4>2, OfIssued
    <3> QED
      BY <3>1, <3>2, <3>3, <3>4, BlankRecords DEF ConfirmOK, Leasing
  <2> QED
    BY <2>1, <2>2
<1> QED
  BY <1>2, <1>3, <1>4, <1>5 DEF OfferInv

\* A step that leaves the drafts alone, but for those whose time has passed.
LEMMA TurnsAlone ==
  ASSUME OfferInv, NEW c \in Confirms, NEW new \in ConfirmRecord, Turns(c, new),
         UNCHANGED <<clock, issued, references, watched, post, profile, vaultOpen>>,
         drafts' \in {drafts, PurgedDrafts},
         records' \in [Artifacts -> ArtifactRecord], \A a \in Artifacts : records'[a] \in {records[a], NoRecord},
         new.draft = confirm[c].draft \/ \A d \in Drafts : ~Owner(d, c),
         new.step \in Working \/ \A d \in Drafts : ~Owner(d, c),
         ConfirmOK(c)',
         new.offer # 0 => Names(new.draft, new.offer),
         Said(c)' => \A k \in Confirms \ {c} : Said(k) /\ confirm[k].draft = new.draft =>
                        confirm[k].offer = new.offer
  PROVE  OfferInv'
<1>1. /\ confirm'[c] = new /\ \A k \in Confirms \ {c} : confirm'[k] = confirm[k]
      /\ confirm' \in [Confirms -> ConfirmRecord]
  BY DEF Turns, OfferInv, CreationTypeOK
<1>2. /\ drafts' \in [Drafts -> DraftRecord]
      /\ \A d \in Drafts :
           \/ drafts'[d] = drafts[d]
           \/ drafts'[d] = Gone /\ drafts[d].state \in {"maybe_issued", "completed"}
  BY BlankRecords DEF PurgedDrafts, OfferInv, CreationTypeOK
<1>3. CreationTypeOK'
  BY <1>1, <1>2 DEF CreationTypeOK, OfferInv
<1>4. ASSUME NEW d \in Drafts PROVE DraftOK(d)'
  <2>1. DraftOK(d)
    BY DEF OfferInv
  <2>2. CASE drafts'[d] = Gone
    BY <2>2, BlankRecords DEF DraftOK
  <2>3. CASE drafts'[d] = drafts[d]
    BY <1>1, <2>1, <2>3 DEF DraftOK, Owner, Working
  <2> QED
    BY <1>2, <2>2, <2>3
<1>5. \A d \in Drafts : drafts'[d].offer # 0 => Names(d, drafts'[d].offer)
  BY <1>2, BlankRecords DEF Names
<1>6. ASSUME NEW a \in Artifacts, records'[a].state # "none"
      PROVE  /\ drafts'[records[a].draft].state \notin {"new", "draft"}
             /\ drafts'[records[a].draft].state # "gone" =>
                  drafts'[records[a].draft].edit = drafts[records[a].draft].edit
                  /\ drafts[records[a].draft].state # "gone"
  <2>1. records[a].draft \in Drafts /\ drafts[records[a].draft].state \notin {"new", "draft"}
    BY <1>6, BlankRecords DEF OfferInv, RecordOK, Live
  <2> QED
    BY <1>2, <2>1, BlankRecords
<1>7. \A d \in Drafts, k \in Confirms \ {c} : Owner(d, k) => drafts'[d] = drafts[d]
  BY <1>2 DEF Owner
<1>8. \A d \in Drafts : drafts[d].state \in {"completed", "gone"} => drafts'[d] \in {drafts[d], Gone}
  BY <1>2
<1> QED
  BY <1>3, <1>4, <1>5, <1>6, <1>7, <1>8, Turned

\* Nobody owns a draft who is not at work on it.
LEMMA OwnersWork ==
  ASSUME OfferInv, NEW c \in Confirms, confirm[c].step \notin Working
  PROVE  \A d \in Drafts : ~Owner(d, c)
BY DEF OfferInv, DraftOK, Owner, Working

\* What a request says that has not accepted an offer.
LEMMA SaysNo ==
  ASSUME OfferInv, NEW c \in Confirms, confirm[c].step \notin Working \cup {"idle"},
         NEW why \in {"refused", "unavailable"}, Says(c, why),
         drafts' \in {drafts, PurgedDrafts},
         UNCHANGED <<clock, vaultVars, post, profile>>
  PROVE  OfferInv'
<1> DEFINE new == [confirm[c] EXCEPT !.step = "done", !.answer = why]
<1>1. new \in ConfirmRecord /\ new.step = "done" /\ new.answer = why /\ new.draft = confirm[c].draft
      /\ new.offer = confirm[c].offer /\ new.edit = confirm[c].edit
  BY DEF OfferInv, CreationTypeOK, ConfirmRecord
<1>2. Turns(c, new)
  BY DEF Says
<1> HIDE DEF new
<1>3. confirm'[c] = new /\ ConfirmOK(c) /\ records' = records /\ records \in [Artifacts -> ArtifactRecord]
  BY <1>2 DEF Turns, OfferInv, CreationTypeOK, vaultVars
<1>4. ConfirmOK(c)'
  BY <1>1, <1>3 DEF ConfirmOK, Leasing, Live
<1>5. new.offer # 0 => Names(new.draft, new.offer)
  BY <1>1 DEF Names
<1>6. ~Said(c)'
  BY <1>1, <1>3 DEF Said
<1> QED
  BY <1>1, <1>2, <1>3, <1>4, <1>5, <1>6, OwnersWork, TurnsAlone DEF vaultVars

\* A wait ends.
LEMMA WaitStep ==
  ASSUME OfferInv, NEW c \in Confirms, WaitTimesOut(c)
  PROVE  OfferInv'
BY SaysNo DEF WaitTimesOut, Working, Leasing

\* A completed offer is given again, or refused.
LEMMA ReplayStep ==
  ASSUME OfferInv, NEW c \in Confirms, ReplayCompleted(c)
  PROVE  OfferInv'
<1> DEFINE d == confirm[c].draft
           new == [confirm[c] EXCEPT !.step = "done", !.answer = "offered"]
<1>1. CASE Says(c, "refused") /\ drafts' \in {drafts, PurgedDrafts}
  BY <1>1, SaysNo DEF ReplayCompleted, Working, Leasing
<1>2. CASE /\ PurgedDrafts[d].state = "completed" /\ PurgedDrafts[d].offer = confirm[c].offer
           /\ Says(c, "offered") /\ drafts' = PurgedDrafts
  <2>1. new \in ConfirmRecord /\ new.step = "done" /\ new.answer = "offered" /\ new.draft = d
        /\ new.offer = confirm[c].offer /\ new.edit = confirm[c].edit
    BY DEF OfferInv, CreationTypeOK, ConfirmRecord
  <2>2. Turns(c, new) /\ confirm[c].step = "replaying"
    BY <1>2 DEF Says, ReplayCompleted
  <2> HIDE DEF new
  <2>3. confirm'[c] = new /\ ConfirmOK(c) /\ records' = records /\ records \in [Artifacts -> ArtifactRecord] /\ d \in Drafts
    BY <2>2 DEF Turns, OfferInv, CreationTypeOK, vaultVars, ReplayCompleted, ConfirmOK
  <2>4. drafts'[d] = drafts[d] /\ drafts[d].state = "completed" /\ drafts[d].offer = confirm[c].offer
    BY <1>2, <2>3, BlankRecords DEF PurgedDrafts
  <2>5. ConfirmOK(c)'
    BY <2>1, <2>2, <2>3, <2>4 DEF ConfirmOK, Leasing, Live
  <2>6. new.offer # 0 => Names(new.draft, new.offer)
    BY <2>1 DEF Names
  <2>7. \A k \in Confirms \ {c} : Said(k) /\ confirm[k].draft = new.draft => confirm[k].offer = new.offer
    BY <2>1, <2>4 DEF Said, OfferInv, ConfirmOK
  <2>8. \A x \in Drafts : ~Owner(x, c)
    BY <2>2, OwnersWork DEF Working, Leasing
  <2> HIDE DEF d
  <2> QED
    BY <1>2, <2>1, <2>2, <2>3, <2>5, <2>6, <2>7, <2>8, TurnsAlone DEF vaultVars, ReplayCompleted
<1> QED
  BY <1>1, <1>2 DEF ReplayCompleted

\* The request is authorized, or settles.
LEMMA AuthorizeStep ==
  ASSUME OfferInv, NEW c \in Confirms, AuthorizeConfirm(c)
  PROVE  OfferInv'
<1> PICK step \in {"authorized", "settling"} : Turns(c, [confirm[c] EXCEPT !.step = step])
  BY DEF AuthorizeConfirm
<1> DEFINE new == [confirm[c] EXCEPT !.step = step]
<1>1. new \in ConfirmRecord /\ new.step = step /\ new.answer = confirm[c].answer /\ new.draft = confirm[c].draft
      /\ new.offer = confirm[c].offer /\ new.edit = confirm[c].edit /\ new.mayExist = confirm[c].mayExist
      /\ new.recovery = confirm[c].recovery
  BY DEF OfferInv, CreationTypeOK, ConfirmRecord
<1>2. Turns(c, new) /\ confirm[c].step = "leased"
  BY DEF AuthorizeConfirm
<1> HIDE DEF new
<1>3. confirm'[c] = new /\ ConfirmOK(c) /\ records' = records /\ records \in [Artifacts -> ArtifactRecord] /\ drafts' = drafts
  BY <1>2 DEF Turns, OfferInv, CreationTypeOK, vaultVars, AuthorizeConfirm
<1>4. ConfirmOK(c)'
  BY <1>1, <1>2, <1>3 DEF ConfirmOK, Leasing, Live, Owner
<1>5. new.offer # 0 => Names(new.draft, new.offer)
  BY <1>1 DEF Names
<1>6. ~Said(c)'
  BY <1>1, <1>2, <1>3 DEF Said, ConfirmOK
<1> QED
  BY <1>1, <1>2, <1>3, <1>4, <1>5, <1>6, TurnsAlone DEF vaultVars, AuthorizeConfirm, Working, Leasing

\* What the vault keeps when it drops what is past its deadline.
LEMMA PurgeKeeps ==
  ASSUME CreationTypeOK
  PROVE  /\ PurgedRecords \in [Artifacts -> ArtifactRecord]
         /\ \A a \in Artifacts : PurgedRecords[a] \in {records[a], NoRecord}
         /\ \A a \in Artifacts : records[a].state = "in_flight" => PurgedRecords[a] = records[a]
BY BlankRecords DEF PurgedRecords, Purged, CreationTypeOK

\* The caller records the offer again, or settles.
LEMMA ReturnStep ==
  ASSUME OfferInv, NEW c \in Confirms, Returns(c)
  PROVE  OfferInv'
<1> DEFINE d == confirm[c].draft
<1>0. confirm[c].step = "returning" /\ ConfirmOK(c) /\ confirm[c] \in ConfirmRecord /\ confirm[c].answer = "none"
      /\ records \in [Artifacts -> ArtifactRecord] /\ records' = records /\ drafts' = drafts /\ confirm[c].offer # 0
  BY DEF Returns, OfferInv, ConfirmOK, CreationTypeOK, vaultVars
<1>1. PICK new \in ConfirmRecord :
        /\ Turns(c, new) /\ new.draft = d /\ new.offer = confirm[c].offer /\ new.edit = confirm[c].edit
        /\ new.mayExist = confirm[c].mayExist
        /\ \/ new.step = "done" /\ new.answer = "offered" /\ drafts[d].state = "completed"
           \/ new.step = "settling" /\ new.answer = "none"
  <2> DEFINE x == [confirm[c] EXCEPT !.step = "done", !.answer = "offered"]
             y == [confirm[c] EXCEPT !.step = "settling"]
  <2>1. x \in ConfirmRecord /\ x.step = "done" /\ x.answer = "offered" /\ x.draft = d
        /\ x.offer = confirm[c].offer /\ x.edit = confirm[c].edit /\ x.mayExist = confirm[c].mayExist
    BY <1>0 DEF ConfirmRecord
  <2>2. y \in ConfirmRecord /\ y.step = "settling" /\ y.answer = "none" /\ y.draft = d
        /\ y.offer = confirm[c].offer /\ y.edit = confirm[c].edit /\ y.mayExist = confirm[c].mayExist
    BY <1>0 DEF ConfirmRecord
  <2>3. (drafts[d].state = "completed" /\ Turns(c, x)) \/ Turns(c, y)
    BY DEF Returns, Says
  <2> HIDE DEF x, y
  <2> QED
    BY <2>1, <2>2, <2>3
<1>2. confirm'[c] = new
  BY <1>1 DEF Turns, OfferInv, CreationTypeOK
<1>3. ConfirmOK(c)'
  BY <1>0, <1>1, <1>2 DEF ConfirmOK, Leasing, Live, Owner
<1>4. Names(new.draft, new.offer)
  BY <1>1 DEF Names
<1>5. \A k \in Confirms \ {c} : Said(k) /\ confirm[k].draft = new.draft => confirm[k].offer = new.offer
  BY <1>0, <1>1 DEF Said, SaidAlike, OfferInv
<1>6. \A x \in Drafts : ~Owner(x, c)
  BY <1>0, OwnersWork DEF Working, Leasing
<1> QED
  BY <1>0, <1>1, <1>3, <1>4, <1>5, <1>6, TurnsAlone DEF vaultVars, Returns

\* The lookup of an artifact that may have been issued finds it, or the request settles.
LEMMA RecoverConfirmationStep ==
  ASSUME OfferInv, NEW c \in Confirms, RecoverConfirmation(c)
  PROVE  OfferInv'
<1> DEFINE d == confirm[c].draft
<1> PICK a : a = references[d]
  OBVIOUS
<1>0. /\ confirm[c].step = "authorized" /\ confirm[c].recovery /\ ConfirmOK(c) /\ confirm[c] \in ConfirmRecord
      /\ confirm[c].answer = "none" /\ confirm[c].offer = 0 /\ d \in Drafts /\ a \in Nat
      /\ Owner(d, c) /\ drafts[d].edit = confirm[c].edit /\ drafts' = drafts
  BY DEF RecoverConfirmation, OfferInv, ConfirmOK, CreationTypeOK, Leasing
<1>1. records' \in [Artifacts -> ArtifactRecord] /\ \A b \in Artifacts : records'[b] \in {records[b], NoRecord}
  BY PurgeKeeps DEF RecoverConfirmation, OfferInv, CreationTypeOK
<1>2. CASE \E may \in BOOLEAN : /\ ~may => a = 0
                                /\ Turns(c, [confirm[c] EXCEPT !.step = "settling", !.mayExist = may])
  <2> PICK may \in BOOLEAN : /\ ~may => a = 0
                             /\ Turns(c, [confirm[c] EXCEPT !.step = "settling", !.mayExist = may])
    BY <1>2
  <2> DEFINE new == [confirm[c] EXCEPT !.step = "settling", !.mayExist = may]
  <2>1. new \in ConfirmRecord /\ new.step = "settling" /\ new.answer = "none" /\ new.draft = d
        /\ new.offer = 0 /\ new.edit = confirm[c].edit /\ new.mayExist = may
    BY <1>0 DEF ConfirmRecord
  <2>2. Turns(c, new)
    OBVIOUS
  <2> HIDE DEF new
  <2>3. confirm'[c] = new
    BY <2>2 DEF Turns, OfferInv, CreationTypeOK
  <2>4. ~may => \A b \in Artifacts : Live(b)' => records'[b].draft # d
    <3> SUFFICES ASSUME ~may, NEW b \in Artifacts, Live(b)', records'[b].draft = d PROVE FALSE
      OBVIOUS
    <3>1. Live(b) /\ records[b].draft = d
      BY <1>1, BlankRecords DEF Live
    <3>2. references[d] = b
      BY <3>1 DEF OfferInv, RecordOK
    <3> QED
      BY <3>2, NatBounds DEF Artifacts
  <2>5. ConfirmOK(c)'
    BY <1>0, <2>1, <2>3, <2>4 DEF ConfirmOK, Leasing, Live, Owner
  <2>6. ~Said(c)'
    BY <2>1, <2>3 DEF Said
  <2> QED
    BY <1>0, <1>1, <2>1, <2>2, <2>5, <2>6, TurnsAlone DEF RecoverConfirmation, Working
<1>3. CASE /\ a # 0 /\ PurgedRecords[a].state # "none" /\ records' = PurgedRecords
           /\ Turns(c, [confirm[c] EXCEPT !.step = "offering", !.mayExist = TRUE, !.offer = a])
  <2> DEFINE new == [confirm[c] EXCEPT !.step = "offering", !.mayExist = TRUE, !.offer = a]
  <2>1. new \in ConfirmRecord /\ new.step = "offering" /\ new.answer = "none" /\ new.draft = d
        /\ new.offer = a /\ new.edit = confirm[c].edit /\ new.mayExist = TRUE
    BY <1>0 DEF ConfirmRecord
  <2>2. Turns(c, new)
    BY <1>3
  <2>3. Names(d, a)
    BY DEF Names
  <2> HIDE DEF new
  <2>4. confirm'[c] = new
    BY <2>2 DEF Turns, OfferInv, CreationTypeOK
  <2>5. a \in Artifacts /\ \A e \in Drafts : Names(e, a) => d = e
    BY <1>0, <1>3, <2>3, OfIssued
  <2>6. Live(a)' => records'[a].edit = confirm[c].edit
    <3> SUFFICES ASSUME Live(a)' PROVE records'[a].edit = confirm[c].edit
      OBVIOUS
    <3>1. records'[a] = records[a] /\ Live(a) /\ RecordOK(a)
      BY <1>1, <2>5, BlankRecords DEF Live, OfferInv
    <3>2. records[a].draft \in Drafts
      BY <3>1 DEF RecordOK
    <3>3. records[a].draft = d
      BY <2>5, <3>2 DEF Names
    <3> QED
      BY <1>0, <3>1, <3>3 DEF RecordOK, Owner
  <2>7. ConfirmOK(c)'
    BY <1>0, <1>3, <2>1, <2>4, <2>6 DEF ConfirmOK, Leasing, Owner
  <2>8. ~Said(c)'
    BY <2>1, <2>4 DEF Said
  <2> QED
    BY <1>0, <1>1, <2>1, <2>2, <2>3, <2>7, <2>8, TurnsAlone DEF RecoverConfirmation, Working, Leasing
<1> QED
  BY <1>2, <1>3 DEF RecoverConfirmation

\* A draft with other fields is a draft.
DraftWith(x, state, owner, offer, until) ==
  [x EXCEPT !.state = state, !.owner = owner, !.recovery = FALSE, !.offer = offer, !.until = until]

\* A draft given other fields.
LEMMA DraftBecomes ==
  ASSUME NEW x \in DraftRecord, NEW state \in {"issuing", "maybe_issued", "completed"}, NEW owner \in Nat,
         NEW offer \in Nat, NEW until \in Nat
  PROVE  /\ DraftWith(x, state, owner, offer, until) \in DraftRecord
         /\ DraftWith(x, state, owner, offer, until).state = state
         /\ DraftWith(x, state, owner, offer, until).owner = owner
         /\ DraftWith(x, state, owner, offer, until).offer = offer
         /\ DraftWith(x, state, owner, offer, until).edit = x.edit
<1> DEFINE p == [x EXCEPT !.state = state]
           q == [p EXCEPT !.owner = owner]
           r == [q EXCEPT !.recovery = FALSE]
           t == [r EXCEPT !.offer = offer]
           u == [t EXCEPT !.until = until]
<1>1. p \in DraftRecord /\ p.state = state /\ p.edit = x.edit
  BY DEF DraftRecord
<1> HIDE DEF p
<1>2. q \in DraftRecord /\ q.state = state /\ q.edit = x.edit /\ q.owner = owner
  BY <1>1 DEF DraftRecord
<1> HIDE DEF q
<1>3. r \in DraftRecord /\ r.state = state /\ r.edit = x.edit /\ r.owner = owner
  BY <1>2 DEF DraftRecord
<1> HIDE DEF r
<1>4. t \in DraftRecord /\ t.state = state /\ t.edit = x.edit /\ t.owner = owner /\ t.offer = offer
  BY <1>3 DEF DraftRecord
<1> HIDE DEF t
<1>5. u \in DraftRecord /\ u.state = state /\ u.edit = x.edit /\ u.owner = owner /\ u.offer = offer
  BY <1>4 DEF DraftRecord
<1> QED
  BY <1>5 DEF p, q, r, t, DraftWith

\* The offer is recorded with the draft.
LEMMA CompleteStep ==
  ASSUME OfferInv, NEW c \in Confirms, Completes(c)
  PROVE  OfferInv'
<1> DEFINE d == confirm[c].draft
           new == [confirm[c] EXCEPT !.step = "returning"]
<1>0. /\ confirm[c].step = "offering" /\ ConfirmOK(c) /\ confirm[c] \in ConfirmRecord /\ DraftOK(d)
      /\ confirm[c].answer = "none" /\ confirm[c].offer # 0 /\ d \in Drafts /\ drafts[d] \in DraftRecord
      /\ Owner(d, c) /\ drafts[d].edit = confirm[c].edit /\ records' = records /\ confirm[c].mayExist
  BY DEF Completes, OfferInv, ConfirmOK, CreationTypeOK, Leasing, vaultVars
<1>1. new \in ConfirmRecord /\ new.step = "returning" /\ new.answer = "none" /\ new.draft = d
      /\ new.offer = confirm[c].offer /\ new.edit = confirm[c].edit /\ new.mayExist = confirm[c].mayExist
  BY <1>0 DEF ConfirmRecord
<1>2. Turns(c, new)
  BY DEF Completes
<1> HIDE DEF new
<1>3. /\ confirm'[c] = new /\ \A k \in Confirms \ {c} : confirm'[k] = confirm[k]
      /\ confirm' \in [Confirms -> ConfirmRecord]
  BY <1>1, <1>2 DEF Turns, OfferInv, CreationTypeOK
<1> DEFINE term == IF drafts[d].until = 0 THEN clock + Retain ELSE drafts[d].until
           made == DraftWith(drafts[d], "completed", NoOwner, confirm[c].offer, term)
<1>4. /\ made \in DraftRecord /\ made.state = "completed" /\ made.offer = confirm[c].offer
      /\ made.edit = drafts[d].edit /\ CompletedDraft(c) = made
  <2>1. term \in Nat /\ confirm[c].offer \in Nat
    BY <1>0, CreationAssumption DEF DraftRecord, ConfirmRecord, OfferInv, CreationTypeOK
  <2>2. CompletedDraft(c) = made
    BY <1>0 DEF CompletedDraft, Owner, DraftWith
  <2> HIDE DEF term
  <2>3. \A x \in DraftRecord, f \in Nat, u \in Nat :
          LET y == DraftWith(x, "completed", NoOwner, f, u)
          IN  y \in DraftRecord /\ y.state = "completed" /\ y.offer = f /\ y.edit = x.edit
    BY DraftBecomes DEF NoOwner
  <2>4. drafts[d] \in DraftRecord
    BY <1>0
  <2>5. made \in DraftRecord /\ made.state = "completed" /\ made.offer = confirm[c].offer
    BY <2>1, <2>3, <2>4
  <2>6. made.edit = drafts[d].edit
    <3>1. \A x \in DraftRecord, f \in Nat, u \in Nat : DraftWith(x, "completed", NoOwner, f, u).edit = x.edit
      BY DraftBecomes DEF NoOwner
    <3> QED
      BY <2>1, <2>4, <3>1, Zenon
  <2> QED
    BY <2>2, <2>5, <2>6
<1>5. /\ drafts'[d] = made /\ \A x \in Drafts \ {d} : drafts'[x] = drafts[x]
      /\ drafts' \in [Drafts -> DraftRecord]
  BY <1>0, <1>4 DEF Completes, OfferInv, CreationTypeOK
<1> HIDE DEF made
<1>6. CreationTypeOK'
  BY <1>0, <1>3, <1>5 DEF CreationTypeOK, OfferInv, Completes, vaultVars
<1>7. ConfirmOK(c)'
  BY <1>0, <1>1, <1>3, <1>4, <1>5 DEF ConfirmOK, Leasing, Live
<1>8. \A k \in Confirms \ {c} : Said(k) => confirm[k].draft # d
  BY <1>0 DEF OfferInv, Said, ConfirmOK, Owner
<1>9. ASSUME NEW x \in Drafts PROVE DraftOK(x)'
  <2>1. CASE x = d
    BY <1>0, <1>4, <1>5, <2>1 DEF DraftOK
  <2>2. CASE x # d
    BY <1>3, <1>5, <2>2 DEF DraftOK, OfferInv
  <2> QED
    BY <2>1, <2>2
<1>10. /\ Names(new.draft, new.offer)
       /\ \A x \in Drafts : drafts'[x].offer # 0 => Names(x, drafts'[x].offer)
  BY <1>1, <1>4, <1>5 DEF Names
<1>11. ASSUME NEW a \in Artifacts, records'[a].state # "none"
       PROVE  /\ drafts'[records[a].draft].state \notin {"new", "draft"}
              /\ drafts'[records[a].draft].state # "gone" =>
                   drafts'[records[a].draft].edit = drafts[records[a].draft].edit
                   /\ drafts[records[a].draft].state # "gone"
  <2>1. records[a].draft \in Drafts /\ drafts[records[a].draft].state \notin {"new", "draft"}
    BY <1>0, <1>11 DEF OfferInv, RecordOK, Live
  <2> QED
    BY <1>0, <1>4, <1>5, <2>1 DEF Owner
<1>12. \A x \in Drafts, k \in Confirms \ {c} : Owner(x, k) => drafts'[x] = drafts[x]
  BY <1>0, <1>5 DEF Owner
<1>13. \A x \in Drafts : drafts[x].state \in {"completed", "gone"} => drafts'[x] \in {drafts[x], Gone}
  BY <1>0, <1>5 DEF Owner
<1>14. issued' = issued /\ references' = references
  BY DEF Completes, vaultVars
<1> QED
  BY <1>0, <1>1, <1>2, <1>6, <1>7, <1>8, <1>9, <1>10, <1>11, <1>12, <1>13, <1>14, Turned

\* A draft that is kept for a lookup is a draft.
Waits(x, until) == [x EXCEPT !.state = "maybe_issued", !.owner = NoOwner, !.recovery = FALSE, !.until = until]

\* A draft that waits for a lookup keeps its edits.
LEMMA DraftWaits ==
  ASSUME NEW x \in DraftRecord, NEW until \in Nat
  PROVE  /\ Waits(x, until) \in DraftRecord /\ Waits(x, until).state = "maybe_issued"
         /\ Waits(x, until).offer = x.offer /\ Waits(x, until).edit = x.edit
<1> DEFINE p == [x EXCEPT !.state = "maybe_issued"]
           q == [p EXCEPT !.owner = NoOwner]
           r == [q EXCEPT !.recovery = FALSE]
           t == [r EXCEPT !.until = until]
<1>1. p \in DraftRecord /\ p.state = "maybe_issued" /\ p.edit = x.edit /\ p.offer = x.offer
  BY DEF DraftRecord
<1> HIDE DEF p
<1>2. q \in DraftRecord /\ q.state = "maybe_issued" /\ q.edit = x.edit /\ q.offer = x.offer
  BY <1>1 DEF DraftRecord, NoOwner
<1> HIDE DEF q
<1>3. r \in DraftRecord /\ r.state = "maybe_issued" /\ r.edit = x.edit /\ r.offer = x.offer
  BY <1>2 DEF DraftRecord
<1> HIDE DEF r
<1>4. t \in DraftRecord /\ t.state = "maybe_issued" /\ t.edit = x.edit /\ t.offer = x.offer
  BY <1>3 DEF DraftRecord
<1> QED
  BY <1>4 DEF p, q, r, Waits

\* What the finally clause leaves of a draft whose confirmation failed.
LEMMA SettledDraft ==
  ASSUME OfferInv, NEW c \in Confirms, Settle(c)
  PROVE  LET d == confirm[c].draft
         IN  /\ d \in Drafts /\ drafts' \in [Drafts -> DraftRecord] /\ \A x \in Drafts \ {d} : drafts'[x] = drafts[x]
             /\ \/ confirm[c].offer # 0 /\ drafts' = drafts
                \/ /\ confirm[c].offer = 0 /\ Owner(d, c) /\ drafts'[d].offer = 0
                   /\ \/ drafts'[d].state = "maybe_issued" /\ drafts'[d].edit = drafts[d].edit
                      \/ drafts'[d].state = "draft" /\ ~confirm[c].mayExist
<1> DEFINE d == confirm[c].draft
           new == [NewDraft EXCEPT !.state = "draft"]
           term == IF drafts[d].until = 0 THEN clock + Retain ELSE drafts[d].until
<1>1. /\ confirm[c].step = "settling" /\ ConfirmOK(c) /\ d \in Drafts /\ drafts[d] \in DraftRecord /\ DraftOK(d)
      /\ drafts \in [Drafts -> DraftRecord]
  BY DEF Settle, OfferInv, ConfirmOK, CreationTypeOK
<1>2. CASE confirm[c].offer # 0
  <2>1. drafts[d].state \in {"completed", "gone"}
    BY <1>1, <1>2 DEF ConfirmOK
  <2>2. CompletedDraft(c) = drafts[d]
    BY <2>1 DEF CompletedDraft
  <2>3. drafts' = [drafts EXCEPT ![d] = drafts[d]]
    BY <2>1, <2>2 DEF Settle
  <2>4. drafts' = drafts
    BY <1>1, <2>3
  <2> QED
    BY <1>1, <1>2, <2>4
<1>3. CASE confirm[c].offer = 0
  <2>1. Owner(d, c) /\ drafts[d].offer = 0
    BY <1>1, <1>3 DEF ConfirmOK, DraftOK, Owner
  <2>2. CompletedDraft(c) = drafts[d]
    BY <1>3 DEF CompletedDraft
  <2>3. term \in Nat
    BY <1>1, CreationAssumption DEF DraftRecord, OfferInv, CreationTypeOK
  <2>4. drafts' = [drafts EXCEPT ![d] = IF confirm[c].mayExist THEN Waits(drafts[d], term) ELSE new]
    BY <2>1, <2>2 DEF Settle, Waits, Owner
  <2> HIDE DEF term, new
  <2>5. /\ Waits(drafts[d], term) \in DraftRecord /\ Waits(drafts[d], term).state = "maybe_issued"
        /\ Waits(drafts[d], term).offer = drafts[d].offer
    BY <1>1, <2>3, DraftWaits
  <2>6. Waits(drafts[d], term).edit = drafts[d].edit
    <3>1. \A x \in DraftRecord, u \in Nat : Waits(x, u).edit = x.edit
      BY DraftWaits
    <3> QED
      BY <1>1, <2>3, <3>1, Zenon
  <2>7. new \in DraftRecord /\ new.state = "draft" /\ new.offer = 0
    BY BlankRecords DEF new
  <2>8. CASE confirm[c].mayExist
    BY <1>1, <1>3, <2>1, <2>4, <2>5, <2>6, <2>8
  <2>9. CASE ~confirm[c].mayExist
    BY <1>1, <1>3, <2>1, <2>4, <2>7, <2>9
  <2> QED
    BY <2>8, <2>9
<1> QED
  BY <1>2, <1>3

\* The finally clause gives the draft back, or keeps it for a lookup.
LEMMA SettleStep ==
  ASSUME OfferInv, NEW c \in Confirms, Settle(c)
  PROVE  OfferInv'
<1> DEFINE d == confirm[c].draft
           new == [confirm[c] EXCEPT !.step = "done", !.answer = "unavailable"]
<1>1. /\ d \in Drafts /\ drafts' \in [Drafts -> DraftRecord] /\ \A x \in Drafts \ {d} : drafts'[x] = drafts[x]
      /\ \/ confirm[c].offer # 0 /\ drafts' = drafts
         \/ /\ confirm[c].offer = 0 /\ Owner(d, c) /\ drafts'[d].offer = 0
            /\ \/ drafts'[d].state = "maybe_issued" /\ drafts'[d].edit = drafts[d].edit
               \/ drafts'[d].state = "draft" /\ ~confirm[c].mayExist
  BY SettledDraft
<1>2. /\ confirm[c].step = "settling" /\ ConfirmOK(c) /\ DraftOK(d) /\ records' = records
      /\ records \in [Artifacts -> ArtifactRecord] /\ issued' = issued /\ references' = references
  BY <1>1 DEF Settle, OfferInv, CreationTypeOK, vaultVars
<1>3. new \in ConfirmRecord /\ new.step = "done" /\ new.answer = "unavailable" /\ new.draft = d
      /\ new.offer = confirm[c].offer /\ new.edit = confirm[c].edit
  BY DEF OfferInv, CreationTypeOK, ConfirmRecord
<1>4. Turns(c, new)
  BY DEF Says, Settle
<1> HIDE DEF new
<1>5. /\ confirm'[c] = new /\ \A k \in Confirms \ {c} : confirm'[k] = confirm[k]
      /\ confirm' \in [Confirms -> ConfirmRecord]
  BY <1>3, <1>4 DEF Turns, OfferInv, CreationTypeOK
<1>6. CreationTypeOK'
  BY <1>1, <1>5 DEF CreationTypeOK, OfferInv, Settle, vaultVars
<1>7. ConfirmOK(c)'
  BY <1>1, <1>2, <1>3, <1>5 DEF ConfirmOK, Leasing, Live
<1>8. ~Said(c)'
  BY <1>3, <1>5 DEF Said
<1>9. ASSUME NEW x \in Drafts PROVE DraftOK(x)'
  <2>1. CASE x = d /\ confirm[c].offer = 0
    BY <1>1, <2>1 DEF DraftOK
  <2>2. CASE x = d /\ confirm[c].offer # 0
    BY <1>1, <1>2, <1>5, <2>2 DEF DraftOK, ConfirmOK
  <2>3. CASE x # d
    BY <1>1, <1>5, <2>3 DEF DraftOK, OfferInv
  <2> QED
    BY <2>1, <2>2, <2>3
<1>10. new.offer # 0 => Names(new.draft, new.offer)
  BY <1>3 DEF Names
<1>11. \A x \in Drafts : drafts'[x].offer # 0 => Names(x, drafts'[x].offer)
  BY <1>1 DEF Names
<1>12. ASSUME NEW a \in Artifacts, records'[a].state # "none"
       PROVE  /\ drafts'[records[a].draft].state \notin {"new", "draft"}
              /\ drafts'[records[a].draft].state # "gone" =>
                   drafts'[records[a].draft].edit = drafts[records[a].draft].edit
                   /\ drafts[records[a].draft].state # "gone"
  <2>1. records[a].draft \in Drafts /\ drafts[records[a].draft].state \notin {"new", "draft"} /\ Live(a)
    BY <1>2, <1>12 DEF OfferInv, RecordOK, Live
  <2>2. confirm[c].offer = 0 /\ ~confirm[c].mayExist => records[a].draft # d
    BY <1>2, <2>1 DEF ConfirmOK
  <2> QED
    BY <1>1, <2>1, <2>2 DEF Owner
<1>13. \A x \in Drafts, k \in Confirms \ {c} : Owner(x, k) => drafts'[x] = drafts[x]
  BY <1>1 DEF Owner
<1>14. \A x \in Drafts : drafts[x].state \in {"completed", "gone"} => drafts'[x] \in {drafts[x], Gone}
  BY <1>1 DEF Owner
<1> QED
  BY <1>2, <1>3, <1>4, <1>6, <1>7, <1>8, <1>9, <1>10, <1>11, <1>12, <1>13, <1>14, Turned

\* A new run takes the place of a draft that nothing pins, or is refused.
LEMMA CreateRunStep ==
  ASSUME OfferInv, NEW d \in Drafts, CreateRun(d)
  PROVE  OfferInv'
<1>1. /\ UNCHANGED <<clock, issued, confirm, records, references, watched, post, profile>>
      /\ drafts \in [Drafts -> DraftRecord] /\ drafts[d].state = "new"
  BY DEF CreateRun, vaultVars, OfferInv, CreationTypeOK
<1>2. /\ drafts' \in [Drafts -> DraftRecord]
      /\ \A x \in Drafts :
           \/ drafts'[x] = drafts[x]
           \/ drafts[x].state \in {"new", "draft"} /\ drafts'[x].state \in {"draft", "gone"} /\ drafts'[x].offer = 0
  <2> DEFINE made == [NewDraft EXCEPT !.state = "draft"]
             loose == {x \in Drafts : Stored(x) /\ ~Pinned(x)}
  <2>1. made \in DraftRecord /\ made.state = "draft" /\ made.offer = 0
    BY BlankRecords
  <2> HIDE DEF made
  <2>2. CASE drafts' = [drafts EXCEPT ![d] = made]
    BY <1>1, <2>1, <2>2
  <2>3. CASE \E x \in loose : drafts' = [drafts EXCEPT ![d] = made, ![x] = Gone]
    <3> PICK x \in loose : drafts' = [drafts EXCEPT ![d] = made, ![x] = Gone]
      BY <2>3
    <3>1. x \in Drafts /\ drafts[x].state = "draft"
      BY <1>1 DEF Stored, Pinned, DraftRecord
    <3> QED
      BY <1>1, <2>1, <3>1, BlankRecords
  <2>4. CASE drafts' = [drafts EXCEPT ![d] = Gone]
    BY <1>1, <2>4, BlankRecords
  <2> QED
    BY <2>2, <2>3, <2>4 DEF CreateRun, made
<1>3. CreationTypeOK'
  BY <1>1, <1>2 DEF CreationTypeOK, OfferInv
<1>4. NamesOK'
  <2> SUFFICES ASSUME NEW a \in Nat \ {0}, NEW x \in Drafts, Names(x, a)' PROVE Names(x, a)
    BY <1>1 DEF OfferInv, NamesOK
  <2>1. drafts'[x].offer = a => drafts[x].offer = a
    BY <1>2
  <2> QED
    BY <1>1, <2>1 DEF Names
<1>5. SaidAlike'
  BY <1>1 DEF SaidAlike, Said, OfferInv
<1>6. ASSUME NEW a \in Artifacts PROVE RecordOK(a)'
  BY <1>1, <1>2 DEF RecordOK, Live, OfferInv
<1>7. ASSUME NEW c \in Confirms PROVE ConfirmOK(c)'
  <2>1. ConfirmOK(c)
    BY DEF OfferInv
  <2>2. \A x \in Drafts : Owner(x, c) => Owner(x, c)' /\ drafts'[x] = drafts[x]
    BY <1>2 DEF Owner
  <2>3. \A x \in Drafts : drafts[x].state \in {"completed", "gone"} => drafts'[x] = drafts[x]
    BY <1>2
  <2> QED
    BY <1>1, <2>1, <2>2, <2>3 DEF ConfirmOK, Leasing, Live
<1>8. ASSUME NEW x \in Drafts PROVE DraftOK(x)'
  BY <1>1, <1>2 DEF DraftOK, OfferInv
<1> QED
  BY <1>3, <1>4, <1>5, <1>6, <1>7, <1>8 DEF OfferInv

\* A request that has only said what it asks for.
Asks(d, e) == [NewConfirm EXCEPT !.draft = d, !.edit = e]

\* A request that asks has no offer yet.
LEMMA AsksOK ==
  ASSUME NEW d \in Drafts, NEW e \in Edits
  PROVE  /\ Asks(d, e) \in ConfirmRecord /\ Asks(d, e).step = "idle" /\ Asks(d, e).offer = 0
         /\ Asks(d, e).draft = d /\ Asks(d, e).edit = e /\ Asks(d, e).answer = "none"
<1> DEFINE x == [NewConfirm EXCEPT !.draft = d]
<1>1. d \in Nat
  BY NatBounds DEF Drafts
<1>2. x \in ConfirmRecord /\ x.step = "idle" /\ x.offer = 0 /\ x.draft = d /\ x.answer = "none"
  BY <1>1, BlankRecords DEF ConfirmRecord
<1> HIDE DEF x
<1> DEFINE y == [x EXCEPT !.edit = e]
<1>3. /\ y \in ConfirmRecord /\ y.step = "idle" /\ y.offer = 0 /\ y.draft = d /\ y.answer = "none" /\ y.edit = e
  BY <1>2 DEF ConfirmRecord
<1> QED
  BY <1>3 DEF x, Asks

\* What has passed its time goes, whatever is asked for.
LEMMA PurgedKeep ==
  ASSUME OfferInv
  PROVE  /\ PurgedDrafts \in [Drafts -> DraftRecord]
         /\ \A d \in Drafts :
              \/ PurgedDrafts[d] = drafts[d]
              \/ PurgedDrafts[d] = Gone /\ drafts[d].state \in {"maybe_issued", "completed"}
BY BlankRecords DEF PurgedDrafts, OfferInv, CreationTypeOK

\* A request that gets no lease.
LEMMA TurnedAway ==
  ASSUME OfferInv, NEW c \in Confirms, confirm[c].step \in {"idle", "waiting"},
         NEW d \in Drafts, NEW e \in Edits, NEW new \in ConfirmRecord, Turns(c, new), drafts' = PurgedDrafts,
         UNCHANGED <<clock, vaultVars, post, profile>>,
         new.draft = d, new.edit = e, new.answer \in {"none", "refused"},
         \/ new.step = "done" /\ new.offer = 0
         \/ new.step = "waiting" /\ new.offer = 0 /\ new.answer = "none"
         \/ /\ new.step = "replaying" /\ new.offer = PurgedDrafts[d].offer /\ new.answer = "none"
            /\ PurgedDrafts[d].state = "completed" /\ PurgedDrafts[d].edit = e
  PROVE  OfferInv'
<1>1. confirm'[c] = new /\ records' = records /\ records \in [Artifacts -> ArtifactRecord] /\ DraftOK(d)
  BY DEF Turns, OfferInv, CreationTypeOK, vaultVars
<1>2. new.step = "replaying" => /\ new.offer \in Nat \ {0} /\ Names(d, new.offer)
                                /\ drafts[d].edit = e /\ drafts[d].state = "completed"
  <2> SUFFICES ASSUME new.step = "replaying"
               PROVE  /\ new.offer \in Nat \ {0} /\ Names(d, new.offer)
                      /\ drafts[d].edit = e /\ drafts[d].state = "completed"
    OBVIOUS
  <2>1. PurgedDrafts[d] = drafts[d] /\ new.offer = drafts[d].offer /\ drafts[d].state = "completed"
    BY PurgedKeep, BlankRecords
  <2>2. new.offer # 0
    BY <1>1, <2>1 DEF DraftOK
  <2> QED
    BY <2>1, <2>2 DEF Names, ConfirmRecord
<1>3. new.offer # 0 => Names(new.draft, new.offer)
  BY <1>2
<1>4. new.offer # 0 /\ Live(new.offer)' => records'[new.offer].edit = e
  <2> SUFFICES ASSUME new.offer # 0, Live(new.offer)' PROVE records[new.offer].edit = e
    BY <1>1
  <2>1. new.offer \in Artifacts /\ \A x \in Drafts : Names(x, new.offer) => d = x
    BY <1>2, OfIssued
  <2>2. Live(new.offer) /\ RecordOK(new.offer)
    BY <1>1, <2>1 DEF Live, OfferInv
  <2>3. records[new.offer].draft = d
    BY <2>1, <2>2 DEF Names, RecordOK
  <2> QED
    BY <1>2, <2>2, <2>3 DEF RecordOK
<1>5. ConfirmOK(c)'
  BY <1>1, <1>2, <1>4 DEF ConfirmOK, Leasing
<1>6. ~Said(c)'
  BY <1>1 DEF Said
<1>7. \A x \in Drafts : ~Owner(x, c)
  BY OwnersWork DEF Working, Leasing
<1> QED
  BY <1>1, <1>3, <1>5, <1>6, <1>7, TurnsAlone DEF vaultVars

\* The draft and the request of a lease.
Leased(x, c, e, r) == [x EXCEPT !.state = "issuing", !.owner = c, !.edit = e, !.recovery = r]
Holds(x, r) == [x EXCEPT !.step = "leased", !.recovery = r, !.mayExist = r]

\* A draft under a lease.
LEMMA DraftLeased ==
  ASSUME NEW x \in DraftRecord, NEW c \in Nat, NEW e \in Edits, NEW r \in BOOLEAN
  PROVE  /\ Leased(x, c, e, r) \in DraftRecord /\ Leased(x, c, e, r).state = "issuing"
         /\ Leased(x, c, e, r).owner = c /\ Leased(x, c, e, r).edit = e
         /\ Leased(x, c, e, r).offer = x.offer
<1> DEFINE p == [x EXCEPT !.state = "issuing"]
           q == [p EXCEPT !.owner = c]
           t == [q EXCEPT !.edit = e]
           u == [t EXCEPT !.recovery = r]
<1>1. p \in DraftRecord /\ p.state = "issuing" /\ p.offer = x.offer
  BY DEF DraftRecord
<1> HIDE DEF p
<1>2. q \in DraftRecord /\ q.state = "issuing" /\ q.offer = x.offer /\ q.owner = c
  BY <1>1 DEF DraftRecord
<1> HIDE DEF q
<1>3. t \in DraftRecord /\ t.state = "issuing" /\ t.offer = x.offer /\ t.owner = c /\ t.edit = e
  BY <1>2 DEF DraftRecord
<1> HIDE DEF t
<1>4. u \in DraftRecord /\ u.state = "issuing" /\ u.offer = x.offer /\ u.owner = c /\ u.edit = e
  BY <1>3 DEF DraftRecord
<1> QED
  BY <1>4 DEF p, q, t, Leased

\* A request that got a lease.
LEMMA ConfirmHolds ==
  ASSUME NEW x \in ConfirmRecord, NEW r \in BOOLEAN
  PROVE  /\ Holds(x, r) \in ConfirmRecord /\ Holds(x, r).step = "leased" /\ Holds(x, r).draft = x.draft
         /\ Holds(x, r).edit = x.edit /\ Holds(x, r).offer = x.offer /\ Holds(x, r).answer = x.answer
         /\ Holds(x, r).recovery = r /\ Holds(x, r).mayExist = r
BY DEF Holds, ConfirmRecord

\* A request gets the lease of a fresh draft, or of one to look up.
LEMMA LeaseStep ==
  ASSUME OfferInv, NEW c \in Confirms, confirm[c].step \in {"idle", "waiting"},
         NEW d \in Drafts, NEW e \in Edits, NEW r \in BOOLEAN,
         PurgedDrafts[d].state \in {"draft", "maybe_issued"},
         r \/ PurgedDrafts[d].state = "draft", r => PurgedDrafts[d].edit = e,
         PurgedDrafts[d].state = "maybe_issued" => PurgedDrafts[d].edit = e,
         NEW new, new = Holds(Asks(d, e), r), Turns(c, new),
         NEW y, y = Leased(PurgedDrafts[d], c, e, r),
         drafts' = [PurgedDrafts EXCEPT ![d] = y],
         UNCHANGED <<clock, vaultVars, post, profile>>
  PROVE  OfferInv'
<1>1. /\ records' = records /\ records \in [Artifacts -> ArtifactRecord] /\ DraftOK(d) /\ drafts[d] \in DraftRecord
      /\ PurgedDrafts[d] = drafts[d] /\ drafts[d].offer = 0 /\ c \in Nat
      /\ issued' = issued /\ references' = references
  BY PurgedKeep, BlankRecords, NatBounds DEF OfferInv, CreationTypeOK, vaultVars, DraftOK, Confirms
<1>2. /\ new \in ConfirmRecord /\ new.step = "leased" /\ new.draft = d /\ new.edit = e /\ new.offer = 0
      /\ new.answer = "none" /\ new.mayExist = r /\ new.recovery = r
  <2> DEFINE x == Asks(d, e)
  <2>1. x \in ConfirmRecord /\ x.draft = d /\ x.offer = 0 /\ x.answer = "none"
    BY AsksOK
  <2>3. x.edit = e
    BY AsksOK, Zenon
  <2> HIDE DEF x
  <2>4. /\ Holds(x, r) \in ConfirmRecord /\ Holds(x, r).step = "leased" /\ Holds(x, r).draft = d
        /\ Holds(x, r).offer = 0 /\ Holds(x, r).answer = "none" /\ Holds(x, r).recovery = r
        /\ Holds(x, r).mayExist = r
    BY <2>1, ConfirmHolds
  <2>5. \A i \in ConfirmRecord, j \in BOOLEAN : Holds(i, j).edit = i.edit
    BY ConfirmHolds
  <2>6. Holds(x, r).edit = e
    BY <2>1, <2>3, <2>5, Zenon
  <2> QED
    BY <2>4, <2>6 DEF x
<1>3. y \in DraftRecord /\ y.state = "issuing" /\ y.owner = c /\ y.edit = e /\ y.offer = 0
  BY <1>1, DraftLeased
<1>4. /\ confirm'[c] = new /\ \A k \in Confirms \ {c} : confirm'[k] = confirm[k]
      /\ confirm' \in [Confirms -> ConfirmRecord]
  BY <1>2 DEF Turns, OfferInv, CreationTypeOK
<1>5. /\ drafts'[d] = y /\ drafts' \in [Drafts -> DraftRecord]
      /\ \A x \in Drafts \ {d} :
           drafts'[x] = drafts[x] \/ (drafts'[x] = Gone /\ drafts[x].state \in {"maybe_issued", "completed"})
  BY <1>3, PurgedKeep
<1>6. CreationTypeOK'
  BY <1>1, <1>4, <1>5 DEF CreationTypeOK, OfferInv, vaultVars
<1>7. ~r => \A a \in Artifacts : Live(a) => records[a].draft # d
  BY <1>1 DEF OfferInv, RecordOK
<1>8. Owner(d, c)' /\ drafts'[d].edit = e
  BY <1>3, <1>5 DEF Owner
<1>9. ConfirmOK(c)'
  BY <1>1, <1>2, <1>4, <1>7, <1>8 DEF ConfirmOK, Leasing, Live
<1>10. ~Said(c)'
  BY <1>2, <1>4 DEF Said
<1>11. ASSUME NEW x \in Drafts PROVE DraftOK(x)'
  <2>1. CASE x = d
    BY <1>2, <1>3, <1>4, <1>5, <2>1 DEF DraftOK, Leasing
  <2>2. CASE x # d /\ drafts'[x] = drafts[x]
    BY <1>4, <2>2, OwnersWork DEF DraftOK, OfferInv, Owner, Working, Leasing
  <2>3. CASE x # d /\ drafts'[x] = Gone
    BY <2>3, BlankRecords DEF DraftOK
  <2> QED
    BY <1>5, <2>1, <2>2, <2>3
<1>12. \A x \in Drafts : drafts'[x].offer # 0 => Names(x, drafts'[x].offer)
  BY <1>3, <1>5, BlankRecords DEF Names
<1>13. ASSUME NEW a \in Artifacts, records'[a].state # "none"
       PROVE  /\ drafts'[records[a].draft].state \notin {"new", "draft"}
              /\ drafts'[records[a].draft].state # "gone" =>
                   drafts'[records[a].draft].edit = drafts[records[a].draft].edit
                   /\ drafts[records[a].draft].state # "gone"
  <2>1. records[a].draft \in Drafts /\ drafts[records[a].draft].state \notin {"new", "draft"} /\ Live(a)
    BY <1>1, <1>13 DEF OfferInv, RecordOK, Live
  <2>2. CASE records[a].draft = d
    BY <1>1, <1>3, <1>5, <2>1, <2>2
  <2>3. CASE records[a].draft # d
    BY <1>5, <2>1, <2>3, BlankRecords
  <2> QED
    BY <2>2, <2>3
<1>14. \A x \in Drafts, k \in Confirms \ {c} : Owner(x, k) => drafts'[x] = drafts[x]
  BY <1>1, <1>5 DEF Owner
<1>15. \A x \in Drafts : drafts[x].state \in {"completed", "gone"} => drafts'[x] \in {drafts[x], Gone}
  BY <1>1, <1>5
<1> QED
  BY <1>1, <1>2, <1>6, <1>9, <1>10, <1>11, <1>12, <1>13, <1>14, <1>15, Turned

\* A request takes what the draft offers it, waits, or is refused.
LEMMA AcquireStep ==
  ASSUME OfferInv, NEW c \in Confirms, NEW d \in Drafts, NEW e \in Edits, Acquire(c, d, e)
  PROVE  OfferInv'
<1> DEFINE known == PurgedDrafts[d]
           mine == Asks(d, e)
<1>1. confirm[c].step \in {"idle", "waiting"} /\ UNCHANGED <<clock, vaultVars, post, profile>>
  BY DEF Acquire
<1>2. /\ mine \in ConfirmRecord /\ mine.step = "idle" /\ mine.offer = 0 /\ mine.draft = d /\ mine.edit = e
      /\ mine.answer = "none"
  <2>1. mine \in ConfirmRecord /\ mine.draft = d /\ mine.edit = e
    BY AsksOK, Zenon
  <2>2. mine.offer = 0
    BY AsksOK
  <2>3. mine.step = "idle"
    BY AsksOK, Zenon
  <2>4. mine.answer = "none"
    BY AsksOK, Zenon
  <2> QED
    BY <2>1, <2>2, <2>3, <2>4, Zenon
<1>3. known \in DraftRecord
  BY PurgedKeep
<1>4. \/ /\ known.state = "draft" /\ Turns(c, Holds(mine, FALSE))
         /\ drafts' = [PurgedDrafts EXCEPT ![d] = Leased(known, c, e, FALSE)]
      \/ /\ known.state = "maybe_issued" /\ known.edit = e /\ Turns(c, Holds(mine, TRUE))
         /\ drafts' = [PurgedDrafts EXCEPT ![d] = Leased(known, c, e, TRUE)]
      \/ /\ known.state = "completed" /\ known.edit = e /\ drafts' = PurgedDrafts
         /\ Turns(c, [mine EXCEPT !.step = "replaying", !.offer = known.offer])
      \/ Turns(c, [mine EXCEPT !.step = "waiting"]) /\ drafts' = PurgedDrafts
      \/ Turns(c, [mine EXCEPT !.step = "done", !.answer = "refused"]) /\ drafts' = PurgedDrafts
  BY DEF Acquire, Holds, Asks, Leased
<1> HIDE DEF mine, known
<1>5. CASE /\ known.state = "draft" /\ Turns(c, Holds(mine, FALSE))
           /\ drafts' = [PurgedDrafts EXCEPT ![d] = Leased(known, c, e, FALSE)]
  BY <1>1, <1>5, LeaseStep DEF mine, known
<1>6. CASE /\ known.state = "maybe_issued" /\ known.edit = e /\ Turns(c, Holds(mine, TRUE))
           /\ drafts' = [PurgedDrafts EXCEPT ![d] = Leased(known, c, e, TRUE)]
  BY <1>1, <1>6, LeaseStep DEF mine, known
<1>7. CASE /\ known.state = "completed" /\ known.edit = e /\ drafts' = PurgedDrafts
           /\ Turns(c, [mine EXCEPT !.step = "replaying", !.offer = known.offer])
  <2> DEFINE new == [mine EXCEPT !.step = "replaying", !.offer = known.offer]
  <2>1. new \in ConfirmRecord /\ new.step = "replaying" /\ new.draft = d /\ new.edit = e /\ new.answer = "none"
        /\ new.offer = known.offer
    BY <1>2, <1>3 DEF ConfirmRecord, DraftRecord
  <2> HIDE DEF new
  <2> QED
    BY <1>1, <1>7, <2>1, TurnedAway DEF new, known
<1>8. CASE Turns(c, [mine EXCEPT !.step = "waiting"]) /\ drafts' = PurgedDrafts
  <2> DEFINE new == [mine EXCEPT !.step = "waiting"]
  <2>1. new \in ConfirmRecord /\ new.step = "waiting" /\ new.draft = d /\ new.edit = e /\ new.answer = "none"
        /\ new.offer = 0
    BY <1>2 DEF ConfirmRecord
  <2>2. Turns(c, new)
    BY <1>8
  <2> HIDE DEF new
  <2> QED
    BY <1>1, <1>8, <2>1, <2>2, TurnedAway
<1>9. CASE Turns(c, [mine EXCEPT !.step = "done", !.answer = "refused"]) /\ drafts' = PurgedDrafts
  <2> DEFINE new == [mine EXCEPT !.step = "done", !.answer = "refused"]
  <2>1. new \in ConfirmRecord /\ new.step = "done" /\ new.draft = d /\ new.edit = e /\ new.answer = "refused"
        /\ new.offer = 0
    BY <1>2 DEF ConfirmRecord
  <2>2. Turns(c, new)
    BY <1>9
  <2> HIDE DEF new
  <2> QED
    BY <1>1, <1>9, <2>1, <2>2, TurnedAway
<1> QED
  BY <1>4, <1>5, <1>6, <1>7, <1>8, <1>9

\* A record as the vault makes it.
Made(d, e, deadline) == [NoRecord EXCEPT !.state = "available", !.draft = d, !.edit = e, !.deadline = deadline]

\* A record the vault made.
LEMMA RecordMade ==
  ASSUME NEW d \in Nat, NEW e \in Edits \cup {NoEdit}, NEW deadline \in Nat
  PROVE  /\ Made(d, e, deadline) \in ArtifactRecord /\ Made(d, e, deadline).state = "available"
         /\ Made(d, e, deadline).draft = d /\ Made(d, e, deadline).edit = e
         /\ Made(d, e, deadline).claim = 0
<1> DEFINE p == [NoRecord EXCEPT !.state = "available"]
           q == [p EXCEPT !.draft = d]
           r == [q EXCEPT !.edit = e]
           t == [r EXCEPT !.deadline = deadline]
<1>1. p \in ArtifactRecord /\ p.state = "available" /\ p.claim = 0
  BY BlankRecords DEF ArtifactRecord
<1> HIDE DEF p
<1>2. q \in ArtifactRecord /\ q.state = "available" /\ q.claim = 0 /\ q.draft = d
  BY <1>1 DEF ArtifactRecord
<1> HIDE DEF q
<1>3. r \in ArtifactRecord /\ r.state = "available" /\ r.claim = 0 /\ r.draft = d /\ r.edit = e
  BY <1>2 DEF ArtifactRecord
<1> HIDE DEF r
<1>4. t \in ArtifactRecord /\ t.state = "available" /\ t.claim = 0 /\ t.draft = d /\ t.edit = e
  BY <1>3 DEF ArtifactRecord
<1> QED
  BY <1>4 DEF p, q, r, Made

\* The vault issues an artifact, and may forget a draft that has none left.
LEMMA Issues ==
  ASSUME OfferInv, NEW c \in Confirms, confirm[c].step = "authorized", ~confirm[c].recovery,
         references[confirm[c].draft] = 0, issued < MaxArtifacts, issued' = issued + 1,
         NEW new \in ConfirmRecord, Turns(c, new), new.draft = confirm[c].draft, new.edit = confirm[c].edit,
         new.mayExist, new.answer = "none",
         \/ new.step = "offering" /\ new.offer = issued + 1
         \/ new.step = "settling" /\ new.offer = 0,
         NEW made \in ArtifactRecord, made.state = "available", made.draft = confirm[c].draft,
         made.edit = confirm[c].edit,
         records' = [PurgedRecords EXCEPT ![issued + 1] = made],
         references' \in Remembered(confirm[c].draft, issued + 1, records'),
         UNCHANGED <<clock, drafts, vaultOpen, watched, post, profile>>
  PROVE  OfferInv'
<1>0. PICK n : n = issued + 1
  OBVIOUS
<1>1. PICK d \in Drafts : d = confirm[c].draft /\ Owner(d, c) /\ drafts[d].edit = confirm[c].edit
  BY DEF OfferInv, ConfirmOK, Leasing
<1>2. /\ n \in Artifacts /\ n \in Nat \ {0} /\ issued' = n /\ issued \in Nat /\ n \notin 1..issued
      /\ 1..issued \subseteq 1..n
  BY <1>0, NatBounds DEF OfferInv, CreationTypeOK, Artifacts
<1>3. /\ records' \in [Artifacts -> ArtifactRecord] /\ records'[n] = made
      /\ \A a \in Artifacts \ {n} : records'[a] \in {records[a], NoRecord}
  BY <1>0, <1>2, PurgeKeeps DEF OfferInv, CreationTypeOK
<1>4. /\ references' \in [Drafts -> Nat] /\ references'[d] = n
      /\ \A x \in Drafts \ {d} : references'[x] \in {0, references[x]}
      /\ \A x \in Drafts : (\E a \in Artifacts : records'[a].draft = x) => references'[x] # 0
  <2> DEFINE added == [references EXCEPT ![d] = n]
             known == {x \in Drafts : added[x] # 0}
             idle == {x \in known : \A b \in Artifacts : records'[b].draft # x}
  <2>1. added \in [Drafts -> Nat] /\ added[d] = n /\ \A x \in Drafts \ {d} : added[x] = references[x]
    BY <1>2 DEF OfferInv, CreationTypeOK
  <2>2. \A x \in Drafts : (\E a \in Artifacts : records'[a].draft = x) => added[x] # 0
    <3> SUFFICES ASSUME NEW x \in Drafts, NEW a \in Artifacts, records'[a].draft = x PROVE added[x] # 0
      OBVIOUS
    <3>1. CASE a = n
      BY <1>1, <1>2, <1>3, <2>1, <3>1
    <3>2. CASE a # n
      <4>1. records[a].draft = x
        BY <1>3, <3>2, BlankRecords DEF Drafts
      <4>2. references[x] = a /\ a # 0
        BY <4>1, NatBounds DEF OfferInv, RecordOK, Drafts, Artifacts
      <4> QED
        BY <1>2, <2>1, <4>2
    <3> QED
      BY <3>1, <3>2
  <2>3. CASE references' = added
    BY <2>1, <2>2, <2>3
  <2>4. CASE \E x \in idle : references' = [added EXCEPT ![x] = 0]
    <3> PICK x \in idle : references' = [added EXCEPT ![x] = 0]
      BY <2>4
    <3>1. x # d
      BY <1>1, <1>2, <1>3
    <3> QED
      BY <2>1, <2>2, <3>1
  <2> QED
    BY <1>0, <1>1, <2>3, <2>4 DEF Remembered
<1>5. /\ confirm'[c] = new /\ \A k \in Confirms \ {c} : confirm'[k] = confirm[k]
      /\ confirm' \in [Confirms -> ConfirmRecord]
  BY DEF Turns, OfferInv, CreationTypeOK
<1>6. CreationTypeOK'
  BY <1>2, <1>3, <1>4, <1>5, NatBounds DEF CreationTypeOK, OfferInv, Artifacts
<1>7. ASSUME NEW a \in Nat \ {0}, NEW x \in Drafts, Names(x, a)', a # n PROVE Names(x, a)
  <2>1. CASE references'[x] = a
    BY <1>4, <1>7, <2>1 DEF Names
  <2>2. CASE drafts'[x].offer = a
    BY <2>2 DEF Names
  <2>3. CASE \E k \in Confirms : confirm'[k].draft = x /\ confirm'[k].offer = a
    BY <1>0, <1>5, <1>7, <2>3 DEF Names
  <2>4. CASE a \in Artifacts /\ records'[a].draft = x
    BY <1>3, <1>7, <2>4, BlankRecords DEF Names, Drafts
  <2> QED
    BY <1>7, <2>1, <2>2, <2>3, <2>4 DEF Names
<1>8. \A x \in Drafts : ~Names(x, n)
  BY <1>2, OfIssued
<1>9. ASSUME NEW x \in Drafts, Names(x, n)' PROVE x = d
  <2>1. CASE references'[x] = n
    BY <1>2, <1>4, <1>8, <2>1 DEF Names
  <2>2. CASE drafts'[x].offer = n
    BY <1>8, <2>2 DEF Names
  <2>3. CASE \E k \in Confirms : confirm'[k].draft = x /\ confirm'[k].offer = n
    BY <1>1, <1>5, <1>8, <2>3 DEF Names
  <2>4. CASE records'[n].draft = x
    BY <1>1, <1>3, <2>4
  <2> QED
    BY <1>9, <2>1, <2>2, <2>3, <2>4 DEF Names
<1>10. NamesOK'
  <2> SUFFICES ASSUME NEW a \in Nat \ {0}, NEW x \in Drafts, Names(x, a)'
               PROVE  a \in 1..issued' /\ \A y \in Drafts : Names(y, a)' => x = y
    BY DEF NamesOK
  <2>1. CASE a = n
    BY <1>2, <1>9, <2>1
  <2>2. CASE a # n
    <3>1. \A y \in Drafts : Names(y, a)' => Names(y, a)
      BY <1>7, <2>2
    <3> QED
      BY <1>2, <3>1, OfIssued
  <2> QED
    BY <2>1, <2>2
<1>11. SaidAlike'
  BY <1>5 DEF SaidAlike, Said, OfferInv
<1>12. \A a \in Artifacts : Live(a) => records[a].draft # d
  BY <1>1, NatBounds DEF OfferInv, RecordOK, Artifacts
<1>13. ASSUME NEW a \in Artifacts PROVE RecordOK(a)'
  <2>1. CASE a = n
    BY <1>1, <1>2, <1>3, <1>4, <2>1 DEF RecordOK, Live, Owner
  <2>2. CASE a # n /\ records'[a] = NoRecord
    BY <2>2, BlankRecords DEF RecordOK, Live
  <2>3. CASE a # n /\ records'[a] = records[a]
    <3>1. RecordOK(a)
      BY DEF OfferInv
    <3>2. Live(a) => references'[records[a].draft] = a
      BY <1>1, <1>4, <1>12, <2>3, <3>1 DEF RecordOK
    <3> QED
      BY <2>3, <3>1, <3>2 DEF RecordOK, Live
  <2> QED
    BY <1>3, <2>1, <2>2, <2>3
<1>14. ASSUME NEW k \in Confirms PROVE ConfirmOK(k)'
  <2>1. CASE k = c
    BY <1>0, <1>1, <1>2, <1>3, <1>5, <2>1 DEF ConfirmOK, Leasing, Owner
  <2>2. CASE k # c
    <3>1. confirm'[k] = confirm[k] /\ ConfirmOK(k)
      BY <1>5, <2>2 DEF OfferInv
    <3>2. confirm[k].offer # 0 => confirm[k].offer \in Artifacts /\ confirm[k].offer # n
      <4> SUFFICES ASSUME confirm[k].offer # 0 PROVE confirm[k].offer \in Artifacts /\ confirm[k].offer # n
        OBVIOUS
      <4>1. confirm[k].step # "idle" /\ confirm[k].offer \in Nat \ {0}
        BY <3>1 DEF ConfirmOK, OfferInv, CreationTypeOK, ConfirmRecord
      <4>2. Names(confirm[k].draft, confirm[k].offer) /\ confirm[k].draft \in Drafts
        BY <3>1, <4>1 DEF Names, ConfirmOK
      <4> QED
        BY <1>2, <4>1, <4>2, OfIssued
    <3>3. confirm[k].offer # 0 /\ Live(confirm[k].offer)' => records'[confirm[k].offer].edit = confirm[k].edit
      BY <1>3, <3>1, <3>2, BlankRecords DEF ConfirmOK, Live
    <3>4. /\ confirm[k].step \in {"leased", "authorized", "settling"} /\ ~confirm[k].mayExist =>
               \A a \in Artifacts : Live(a)' => records'[a].draft # confirm[k].draft
      <4> SUFFICES ASSUME confirm[k].step \in {"leased", "authorized", "settling"}, ~confirm[k].mayExist,
                          NEW a \in Artifacts, Live(a)'
                   PROVE  records'[a].draft # confirm[k].draft
        OBVIOUS
      <4>1. confirm[k].draft # d
        BY <1>1, <2>2, <3>1 DEF ConfirmOK, Leasing, Owner
      <4>2. CASE a = n
        BY <1>1, <1>3, <4>1, <4>2
      <4>3. CASE a # n
        BY <1>3, <3>1, <4>3, BlankRecords DEF ConfirmOK, Live
      <4> QED
        BY <4>2, <4>3
    <3> QED
      BY <3>1, <3>3, <3>4 DEF ConfirmOK, Leasing, Owner
  <2> QED
    BY <2>1, <2>2
<1>15. ASSUME NEW x \in Drafts PROVE DraftOK(x)'
  <2>1. DraftOK(x)
    BY DEF OfferInv
  <2>2. drafts[x].state = "issuing" /\ drafts[x].owner = c => x = d
    BY <1>1, <2>1 DEF DraftOK
  <2> QED
    BY <1>1, <1>5, <2>1, <2>2 DEF DraftOK, Leasing
<1> QED
  BY <1>6, <1>10, <1>11, <1>13, <1>14, <1>15 DEF OfferInv

\* The request settles, or is offered what the vault issued.
LEMMA IssueStep ==
  ASSUME OfferInv, NEW c \in Confirms, Issue(c)
  PROVE  OfferInv'
<1> DEFINE d == confirm[c].draft
           lost == [confirm[c] EXCEPT !.step = "settling", !.mayExist = TRUE]
           offers == [confirm[c] EXCEPT !.step = "offering", !.mayExist = TRUE]
           new == [offers EXCEPT !.offer = issued + 1]
           none == [confirm[c] EXCEPT !.step = "settling"]
           made == Made(d, confirm[c].edit, clock + Lifetime)
<1>0. /\ confirm[c].step = "authorized" /\ ~confirm[c].recovery
      /\ UNCHANGED <<clock, drafts, vaultOpen, watched, post, profile>>
  BY DEF Issue
<1>a. ConfirmOK(c) /\ confirm[c] \in ConfirmRecord /\ issued \in Nat /\ clock \in Nat
  BY NatBounds DEF OfferInv, CreationTypeOK
<1>b. /\ confirm[c].answer = "none" /\ confirm[c].offer = 0 /\ d \in Drafts
      /\ Owner(d, c)
  BY <1>0, <1>a DEF ConfirmOK, Leasing
<1>c. d \in Nat /\ clock + Lifetime \in Nat
  BY <1>a, <1>b, NatBounds, CreationAssumption DEF Drafts
<1>1. /\ confirm[c].step = "authorized" /\ ~confirm[c].recovery /\ ConfirmOK(c) /\ confirm[c] \in ConfirmRecord
      /\ confirm[c].answer = "none" /\ confirm[c].offer = 0 /\ d \in Drafts /\ d \in Nat /\ issued \in Nat
      /\ Owner(d, c) /\ clock + Lifetime \in Nat /\ UNCHANGED <<clock, drafts, vaultOpen, watched, post, profile>>
  BY <1>0, <1>a, <1>b, <1>c
<1>2. none \in ConfirmRecord /\ none.step = "settling" /\ none.draft = d /\ none.offer = 0 /\ none.answer = "none"
      /\ none.edit = confirm[c].edit /\ none.mayExist = confirm[c].mayExist
  BY <1>1 DEF ConfirmRecord
<1>3. lost \in ConfirmRecord /\ lost.step = "settling" /\ lost.draft = d /\ lost.offer = 0 /\ lost.answer = "none"
      /\ lost.edit = confirm[c].edit /\ lost.mayExist
  BY <1>1 DEF ConfirmRecord
<1>4. offers \in ConfirmRecord /\ offers.step = "offering" /\ offers.draft = d /\ offers.answer = "none"
      /\ offers.edit = confirm[c].edit /\ offers.mayExist
  BY <1>1 DEF ConfirmRecord
<1> HIDE DEF offers
<1>5. new \in ConfirmRecord /\ new.step = "offering" /\ new.draft = d /\ new.answer = "none" /\ new.offer = issued + 1
      /\ new.edit = confirm[c].edit /\ new.mayExist
  BY <1>1, <1>4 DEF ConfirmRecord
<1>6. made \in ArtifactRecord /\ made.state = "available" /\ made.draft = d
  BY <1>1, RecordMade DEF ConfirmRecord
<1>7. made.edit = confirm[c].edit
  <2>1. confirm[c].edit \in Edits \cup {NoEdit}
    BY <1>1 DEF ConfirmRecord
  <2>2. d \in Nat /\ clock + Lifetime \in Nat
    BY <1>1
  <2> PICK e \in Edits \cup {NoEdit} : e = confirm[c].edit
    BY <2>1
  <2> QED
    BY <2>2, RecordMade
<1>8. \/ Turns(c, none) /\ UNCHANGED <<issued, references>> /\ records' \in {records, PurgedRecords}
      \/ /\ references[d] = 0 /\ issued < MaxArtifacts /\ issued' = issued + 1
         /\ records' = [PurgedRecords EXCEPT ![issued + 1] = made]
         /\ references' \in Remembered(d, issued + 1, records')
         /\ Turns(c, new) \/ Turns(c, lost)
  BY DEF Issue, Made, offers
<1> HIDE DEF new, lost, none, made
<1>9. CASE Turns(c, none) /\ UNCHANGED <<issued, references>> /\ records' \in {records, PurgedRecords}
  <2>1. records' \in [Artifacts -> ArtifactRecord] /\ \A b \in Artifacts : records'[b] \in {records[b], NoRecord}
    BY <1>9, PurgeKeeps DEF OfferInv, CreationTypeOK
  <2>2. confirm'[c] = none
    BY <1>9 DEF Turns, OfferInv, CreationTypeOK
  <2>3. ConfirmOK(c)'
    BY <1>1, <1>2, <2>1, <2>2, BlankRecords DEF ConfirmOK, Leasing, Live, Owner
  <2>4. ~Said(c)'
    BY <1>2, <2>2 DEF Said
  <2> QED
    BY <1>1, <1>2, <1>9, <2>1, <2>3, <2>4, TurnsAlone DEF Working
<1>10. CASE /\ references[d] = 0 /\ issued < MaxArtifacts /\ issued' = issued + 1
            /\ records' = [PurgedRecords EXCEPT ![issued + 1] = made]
            /\ references' \in Remembered(d, issued + 1, records')
            /\ Turns(c, new) \/ Turns(c, lost)
  BY <1>1, <1>3, <1>5, <1>6, <1>7, <1>10, Issues
<1> QED
  BY <1>8, <1>9, <1>10

\* What becomes of an artifact once it was issued leaves the offers alone.
LEMMA Used ==
  ASSUME OfferInv, CreationTypeOK',
         UNCHANGED <<drafts, confirm, issued, references>>,
         \A a \in Artifacts :
           \/ records'[a] = NoRecord
           \/ /\ records'[a].draft = records[a].draft /\ records'[a].edit = records[a].edit
              /\ Live(a)' <=> Live(a)
  PROVE  OfferInv'
<1>1. NamesOK'
  <2> SUFFICES ASSUME NEW a \in Nat \ {0}, NEW d \in Drafts, Names(d, a)' PROVE Names(d, a)
    BY DEF OfferInv, NamesOK
  <2> QED
    BY BlankRecords DEF Names, Drafts
<1>2. SaidAlike'
  BY DEF SaidAlike, Said, OfferInv
<1>3. ASSUME NEW a \in Artifacts PROVE RecordOK(a)'
  BY BlankRecords DEF RecordOK, Live, OfferInv
<1>4. ASSUME NEW c \in Confirms PROVE ConfirmOK(c)'
  <2>1. ConfirmOK(c)
    BY DEF OfferInv
  <2>2. \A a \in Artifacts : Live(a)' => Live(a) /\ records'[a].draft = records[a].draft
                                         /\ records'[a].edit = records[a].edit
    BY BlankRecords DEF Live
  <2>3. confirm[c].offer # 0 => confirm[c].offer \in Artifacts
    <3> SUFFICES ASSUME confirm[c].offer # 0 PROVE confirm[c].offer \in Artifacts
      OBVIOUS
    <3>1. confirm[c].step # "idle" /\ confirm[c].offer \in Nat \ {0}
      BY <2>1 DEF ConfirmOK, OfferInv, CreationTypeOK, ConfirmRecord
    <3>2. Names(confirm[c].draft, confirm[c].offer) /\ confirm[c].draft \in Drafts
      BY <2>1, <3>1 DEF Names, ConfirmOK
    <3> QED
      BY <3>1, <3>2, OfIssued
  <2>4. \A a \in Artifacts : Live(a)' => Live(a)
    BY <2>2
  <2> QED
    BY <2>1, <2>2, <2>3, <2>4 DEF ConfirmOK, Leasing, Owner
<1>5. ASSUME NEW d \in Drafts PROVE DraftOK(d)'
  BY DEF DraftOK, OfferInv
<1> QED
  BY <1>1, <1>2, <1>3, <1>4, <1>5 DEF OfferInv

\* Closing the vault drops every artifact.
LEMMA CloseOffers ==
  ASSUME OfferInv, CloseVault
  PROVE  OfferInv'
<1>1. /\ \A a \in Artifacts : records'[a] = NoRecord
      /\ \A d \in Drafts : references'[d] = 0
      /\ UNCHANGED <<clock, drafts, confirm, issued, post, profile>>
  BY DEF CloseVault
<1>2. CreationTypeOK'
  BY <1>1, BlankRecords DEF CloseVault, CreationTypeOK, OfferInv
<1>3. NamesOK'
  <2> SUFFICES ASSUME NEW a \in Nat \ {0}, NEW d \in Drafts, Names(d, a)' PROVE Names(d, a)
    BY <1>1 DEF OfferInv, NamesOK
  <2> QED
    BY <1>1, BlankRecords DEF Names, Drafts
<1>4. SaidAlike'
  BY <1>1 DEF SaidAlike, Said, OfferInv
<1>5. ASSUME NEW a \in Artifacts PROVE RecordOK(a)' /\ ~Live(a)'
  BY <1>1, BlankRecords DEF RecordOK, Live
<1>6. ASSUME NEW c \in Confirms PROVE ConfirmOK(c)'
  <2>1. ConfirmOK(c)
    BY DEF OfferInv
  <2>2. confirm[c].offer # 0 => confirm[c].offer \in Artifacts
    <3> SUFFICES ASSUME confirm[c].offer # 0 PROVE confirm[c].offer \in Artifacts
      OBVIOUS
    <3>1. confirm[c].step # "idle" /\ confirm[c].offer \in Nat \ {0}
      BY <2>1 DEF ConfirmOK, OfferInv, CreationTypeOK, ConfirmRecord
    <3>2. Names(confirm[c].draft, confirm[c].offer) /\ confirm[c].draft \in Drafts
      BY <2>1, <3>1 DEF Names, ConfirmOK
    <3> QED
      BY <3>1, <3>2, OfIssued
  <2> QED
    BY <1>1, <1>5, <2>1, <2>2 DEF ConfirmOK, Leasing, Owner
<1>7. ASSUME NEW d \in Drafts PROVE DraftOK(d)'
  BY <1>1 DEF DraftOK, OfferInv
<1> QED
  BY <1>2, <1>3, <1>4, <1>5, <1>6, <1>7 DEF OfferInv

----------------------------------------------------------------------------
\* Posts and artifacts are numbered from one.
LEMMA Numbered == Posts \subseteq Nat \ {0} /\ Artifacts \subseteq Nat \ {0}
BY NatBounds DEF Posts, Artifacts

\* A step that is no request's to use an artifact: it may drop records that nobody holds.
LEMMA HoldOthers ==
  ASSUME HoldInv, CreationTypeOK, UNCHANGED <<watched, post, profile, vaultOpen>>,
         \A a \in Artifacts :
           \/ records'[a] = records[a]
           \/ /\ records[a].state # "in_flight"
              /\ records'[a].state \notin {"in_flight", "created", "conflict"} /\ records'[a].claim = NoOwner
  PROVE  HoldInv'
<1>1. ClaimIsKept'
  BY DEF HoldInv, ClaimIsKept, PostOK, Mine
<1>2. ToldTheTruth'
  BY DEF HoldInv, ToldTheTruth
<1>3. \A a \in Artifacts : HoldOK(a)'
  BY DEF HoldInv, HoldOK
<1>4. \A p \in Posts : PostOK(p)'
  BY DEF HoldInv, PostOK
<1> QED
  BY <1>1, <1>2, <1>3, <1>4 DEF HoldInv

\* A step of a request to use an artifact, in what the others may rely on.
LEMMA PostMoves ==
  ASSUME HoldInv, CreationTypeOK, NEW p \in Posts, NEW x \in PostRecord, Moves(p, x), UNCHANGED vaultOpen,
         profile # 0 => profile' = profile,
         \A a \in Artifacts : records[a].state = "in_flight" /\ records[a].claim # p => records'[a] = records[a],
         \A a \in Artifacts : records'[a].state # records[a].state =>
           /\ records'[a].state = "created" => profile' = a
           /\ records'[a].state = "conflict" => profile' \notin {0, a},
         \A a \in Artifacts : HoldOK(a)',
         PostOK(p)',
         x.answer = "created" => profile' = x.artifact,
         x.answer = "conflict" => profile' \notin {0, x.artifact},
         vaultOpen /\ x.step \notin {"idle", "done"} =>
           records'[x.artifact].state = "in_flight" /\ records'[x.artifact].claim = p
  PROVE  HoldInv'
<1>1. post'[p] = x /\ \A q \in Posts \ {p} : post'[q] = post[q]
  BY DEF Moves, CreationTypeOK
<1>2. ClaimIsKept'
  <2> SUFFICES ASSUME NEW q \in Posts, vaultOpen, post'[q].step \notin {"idle", "done"}
               PROVE  records'[post'[q].artifact].state = "in_flight" /\ records'[post'[q].artifact].claim = q
    BY DEF ClaimIsKept, Mine
  <2>1. CASE q = p
    BY <1>1, <2>1
  <2>2. CASE q # p
    BY <1>1, <2>2 DEF HoldInv, ClaimIsKept, PostOK, Mine
  <2> QED
    BY <2>1, <2>2
<1>3. ToldTheTruth'
  <2>1. ASSUME NEW q \in Posts
        PROVE  /\ post'[q].answer = "created" => profile' = post'[q].artifact
               /\ post'[q].answer = "conflict" => profile' \notin {0, post'[q].artifact}
    <3>1. CASE q = p
      BY <1>1, <3>1
    <3>2. CASE q # p
      <4>1. post'[q] = post[q] /\ PostOK(q)
        BY <1>1, <3>2 DEF HoldInv
      <4>2. post[q].answer = "created" => post[q].artifact # 0
        BY <4>1, Numbered DEF PostOK
      <4> QED
        BY <4>1, <4>2 DEF HoldInv, ToldTheTruth
    <3> QED
      BY <3>1, <3>2
  <2>2. ASSUME NEW a \in Artifacts
        PROVE  /\ records'[a].state = "created" => profile' = a
               /\ records'[a].state = "conflict" => profile' \notin {0, a}
    <3>1. CASE records'[a].state = records[a].state
      BY <3>1, Numbered DEF HoldInv, ToldTheTruth
    <3>2. CASE records'[a].state # records[a].state
      BY <3>2
    <3> QED
      BY <3>1, <3>2
  <2> QED
    BY <2>1, <2>2 DEF ToldTheTruth
<1>4. \A q \in Posts : PostOK(q)'
  <2> SUFFICES ASSUME NEW q \in Posts, q # p PROVE PostOK(q)'
    OBVIOUS
  <2>1. post'[q] = post[q] /\ PostOK(q)
    BY <1>1 DEF HoldInv
  <2> QED
    BY <2>1, Numbered DEF PostOK
<1> QED
  BY <1>2, <1>3, <1>4 DEF HoldInv

\* What a request holds that it has in work, while the vault is open.
LEMMA InWork ==
  ASSUME HoldInv, NEW p \in Posts, vaultOpen, post[p].step \notin {"idle", "done"}
  PROVE  post[p].artifact \in Artifacts /\ records[post[p].artifact].state = "in_flight" /\ Mine(p)
BY DEF HoldInv, ClaimIsKept, PostOK

\* A record while a claim is on it, with the command begun, and after the claim.
Taken(r, p) == [r EXCEPT !.state = "in_flight", !.claim = p, !.recovery = r.state]
Begun(r) == [r EXCEPT !.recovery = "reconcile"]
Given(r, state) == [r EXCEPT !.claim = NoOwner, !.recovery = "none", !.state = state]

\* A claimed record.
LEMMA RecordTaken ==
  ASSUME NEW r \in ArtifactRecord, NEW p \in Nat, r.state \in {"available", "reconcile"}
  PROVE  /\ Taken(r, p) \in ArtifactRecord /\ Taken(r, p).state = "in_flight" /\ Taken(r, p).claim = p
         /\ Taken(r, p).draft = r.draft /\ Taken(r, p).edit = r.edit /\ Taken(r, p).recovery # "none"
<1> DEFINE s == [r EXCEPT !.state = "in_flight"]
           t == [s EXCEPT !.claim = p]
           u == [t EXCEPT !.recovery = r.state]
<1>1. s \in ArtifactRecord /\ s.state = "in_flight" /\ s.draft = r.draft /\ s.edit = r.edit
  BY DEF ArtifactRecord
<1> HIDE DEF s
<1>2. t \in ArtifactRecord /\ t.state = "in_flight" /\ t.draft = r.draft /\ t.edit = r.edit /\ t.claim = p
  BY <1>1 DEF ArtifactRecord
<1> HIDE DEF t
<1>3. u \in ArtifactRecord /\ u.state = "in_flight" /\ u.draft = r.draft /\ u.edit = r.edit /\ u.claim = p
      /\ u.recovery # "none"
  BY <1>2 DEF ArtifactRecord
<1> QED
  BY <1>3 DEF s, t, u, Taken

\* A record given back, or settled.
LEMMA RecordGiven ==
  ASSUME NEW r \in ArtifactRecord, NEW state \in {"available", "reconcile", "created", "conflict", "retired"}
  PROVE  /\ Given(r, state) \in ArtifactRecord /\ Given(r, state).state = state /\ Given(r, state).claim = NoOwner
         /\ Given(r, state).draft = r.draft /\ Given(r, state).edit = r.edit
<1> DEFINE s == [r EXCEPT !.claim = NoOwner]
           t == [s EXCEPT !.recovery = "none"]
           u == [t EXCEPT !.state = state]
<1>1. s \in ArtifactRecord /\ s.draft = r.draft /\ s.edit = r.edit /\ s.claim = NoOwner
  BY DEF ArtifactRecord, NoOwner
<1> HIDE DEF s
<1>2. t \in ArtifactRecord /\ t.draft = r.draft /\ t.edit = r.edit /\ t.claim = NoOwner
  BY <1>1 DEF ArtifactRecord
<1> HIDE DEF t
<1>3. u \in ArtifactRecord /\ u.draft = r.draft /\ u.edit = r.edit /\ u.claim = NoOwner /\ u.state = state
  BY <1>2 DEF ArtifactRecord
<1> QED
  BY <1>3 DEF s, t, u, Given

\* A record whose command has begun.
LEMMA RecordBegun ==
  ASSUME NEW r \in ArtifactRecord
  PROVE  /\ Begun(r) \in ArtifactRecord /\ Begun(r).state = r.state /\ Begun(r).claim = r.claim
         /\ Begun(r).draft = r.draft /\ Begun(r).edit = r.edit /\ Begun(r).recovery # "none"
BY DEF Begun, ArtifactRecord

\* What is written on a record that stays leaves the offers alone.
LEMMA Rewritten ==
  ASSUME OfferInv, NEW a \in Artifacts, NEW r \in ArtifactRecord, Live(a), r.state # "none",
         r.draft = records[a].draft, r.edit = records[a].edit,
         records' \in {records, [records EXCEPT ![a] = r]}, watched' \subseteq Posts,
         post' \in [Posts -> PostRecord], profile' \in Nat,
         UNCHANGED <<clock, drafts, confirm, issued, references>>
  PROVE  OfferInv'
<1>1. records' \in [Artifacts -> ArtifactRecord]
  BY DEF OfferInv, CreationTypeOK
<1>2. CreationTypeOK'
  BY <1>1 DEF OfferInv, CreationTypeOK
<1>3. ASSUME NEW b \in Artifacts
      PROVE  records'[b].draft = records[b].draft /\ records'[b].edit = records[b].edit /\ (Live(b)' <=> Live(b))
  <2>1. CASE records'[b] = records[b]
    BY <2>1 DEF Live
  <2>2. CASE b = a /\ records'[b] = r
    BY <2>2 DEF Live
  <2> QED
    BY <2>1, <2>2 DEF OfferInv, CreationTypeOK
<1> QED
  BY <1>2, <1>3, Used

\* A claim of its own is on the record of the artifact.
LEMMA MineInFlight ==
  ASSUME CreationIInv, NEW p \in Posts, post[p].artifact \in Artifacts, Mine(p)
  PROVE  records[post[p].artifact].state = "in_flight"
BY Numbered DEF CreationIInv, HoldInv, HoldOK, Mine, NoOwner

\* The request that claims holds nothing yet.
LEMMA IdleHoldsNone ==
  ASSUME CreationIInv, NEW p \in Posts, post[p].step = "idle", NEW a \in Artifacts,
         records[a].state = "in_flight"
  PROVE  records[a].claim # p
BY Numbered DEF CreationIInv, HoldInv, HoldOK, PostOK

\* A request claims an artifact, or is told what became of it.
LEMMA ClaimStep ==
  ASSUME CreationIInv, NEW p \in Posts, NEW a \in Artifacts, Claim(p, a)
  PROVE  CreationIInv'
<1>0. /\ OfferInv /\ HoldInv /\ CreationTypeOK /\ post[p].step = "idle" /\ HoldOK(a)
      /\ UNCHANGED <<clock, drafts, confirm, issued, references, vaultOpen, profile>>
      /\ records[a] \in ArtifactRecord
  BY DEF CreationIInv, OfferInv, HoldInv, CreationTypeOK, Claim
<1>1. CASE \E why \in {"denied", "gone", "temporary_contention", "created", "conflict"} :
             /\ Moves(p, [NewPost EXCEPT !.step = "done", !.artifact = a, !.answer = why])
             /\ why \in {"created", "conflict"} => records[a].state = why
             /\ watched' \in {watched, watched \cup {p}}
             /\ \/ records' \in {records, PurgedRecords}
                \/ records[a].state # "in_flight" /\ records' = [records EXCEPT ![a] = NoRecord]
  <2> PICK why \in {"denied", "gone", "temporary_contention", "created", "conflict"} :
             /\ Moves(p, [NewPost EXCEPT !.step = "done", !.artifact = a, !.answer = why])
             /\ why \in {"created", "conflict"} => records[a].state = why
             /\ watched' \in {watched, watched \cup {p}}
             /\ \/ records' \in {records, PurgedRecords}
                \/ records[a].state # "in_flight" /\ records' = [records EXCEPT ![a] = NoRecord]
    BY <1>1
  <2> DEFINE x == [NewPost EXCEPT !.step = "done", !.artifact = a, !.answer = why]
  <2>1. x \in PostRecord /\ x.step = "done" /\ x.artifact = a /\ x.answer = why
    BY Numbered DEF NewPost, PostRecord
  <2>2. Moves(p, x)
    OBVIOUS
  <2> HIDE DEF x
  <2>3. /\ records' \in [Artifacts -> ArtifactRecord] /\ \A b \in Artifacts : records'[b] \in {records[b], NoRecord}
        /\ \A b \in Artifacts : records[b].state = "in_flight" => records'[b] = records[b]
    BY <1>0, PurgeKeeps, BlankRecords DEF CreationTypeOK
  <2>4. post'[p] = x /\ (\A q \in Posts \ {p} : post'[q] = post[q]) /\ post' \in [Posts -> PostRecord]
    BY <1>0, <2>1, <2>2 DEF Moves, CreationTypeOK
  <2>5. watched' \subseteq Posts /\ watched \subseteq watched'
    BY <1>0 DEF CreationTypeOK
  <2>6. CreationTypeOK'
    BY <1>0, <2>3, <2>4, <2>5 DEF CreationTypeOK
  <2>7. OfferInv'
    BY <1>0, <2>3, <2>6, Used DEF Live
  <2>8. ASSUME NEW b \in Artifacts PROVE HoldOK(b)'
    <3>1. HoldOK(b)
      BY <1>0 DEF HoldInv
    <3>2. CASE records'[b] = NoRecord
      BY <3>2, BlankRecords DEF HoldOK, NoOwner
    <3>3. CASE records'[b] = records[b]
      BY <1>0, <2>4, <2>5, <3>1, <3>3, IdleHoldsNone DEF HoldOK, CreationTypeOK
    <3> QED
      BY <2>3, <3>2, <3>3
  <2>9. PostOK(p)'
    BY <2>1, <2>4 DEF PostOK
  <2>10. \A b \in Artifacts : records'[b].state # records[b].state => records'[b].state = "none"
    BY <2>3, BlankRecords
  <2>11. /\ why = "created" => profile = a
         /\ why = "conflict" => profile \notin {0, a}
    BY <1>0 DEF HoldInv, ToldTheTruth
  <2>12. HoldInv'
    BY <1>0, <2>1, <2>2, <2>3, <2>8, <2>9, <2>10, <2>11, PostMoves
  <2> QED
    BY <2>7, <2>12 DEF CreationIInv
<1>2. CASE /\ records[a].state \in {"available", "reconcile"} /\ vaultOpen
           /\ watched' = watched \cup {p}
           /\ records' = [records EXCEPT ![a] = Taken(records[a], p)]
           /\ Moves(p, [NewPost EXCEPT !.step = "claimed", !.artifact = a])
  <2> DEFINE x == [NewPost EXCEPT !.step = "claimed", !.artifact = a]
             r == Taken(records[a], p)
  <2>1. x \in PostRecord /\ x.step = "claimed" /\ x.artifact = a /\ x.answer = "none"
    BY Numbered DEF NewPost, PostRecord
  <2>2. Moves(p, x) /\ records' = [records EXCEPT ![a] = r]
    BY <1>2
  <2>3. r \in ArtifactRecord /\ r.state = "in_flight" /\ r.claim = p /\ r.draft = records[a].draft
        /\ r.edit = records[a].edit /\ r.recovery # "none"
    BY <1>0, <1>2, RecordTaken, Numbered
  <2> HIDE DEF x, r
  <2>4. post'[p] = x /\ (\A q \in Posts \ {p} : post'[q] = post[q]) /\ post' \in [Posts -> PostRecord]
    BY <1>0, <2>1, <2>2 DEF Moves, CreationTypeOK
  <2>5. records'[a] = r /\ \A b \in Artifacts \ {a} : records'[b] = records[b]
    BY <1>0, <2>2 DEF CreationTypeOK
  <2>6. watched' \subseteq Posts /\ profile' \in Nat
    BY <1>0, <1>2 DEF CreationTypeOK
  <2>7. OfferInv'
    BY <1>0, <1>2, <2>2, <2>3, <2>4, <2>6, Rewritten DEF Live
  <2>8. ASSUME NEW b \in Artifacts PROVE HoldOK(b)'
    <3>1. HoldOK(b)
      BY <1>0 DEF HoldInv
    <3>2. CASE b = a
      BY <1>2, <2>1, <2>3, <2>4, <2>5, <3>2 DEF HoldOK
    <3>3. CASE b # a
      BY <1>0, <1>2, <2>4, <2>5, <3>1, <3>3, IdleHoldsNone DEF HoldOK, CreationTypeOK
    <3> QED
      BY <3>2, <3>3
  <2>9. PostOK(p)'
    BY <2>1, <2>4 DEF PostOK
  <2>10. \A b \in Artifacts : records'[b].state # records[b].state => records'[b].state = "in_flight"
    BY <2>3, <2>5
  <2>11. \A b \in Artifacts : records[b].state = "in_flight" /\ records[b].claim # p => records'[b] = records[b]
    BY <1>2, <2>5
  <2>12. HoldInv'
    BY <1>0, <2>1, <2>2, <2>3, <2>5, <2>8, <2>9, <2>10, <2>11, PostMoves
  <2> QED
    BY <2>7, <2>12 DEF CreationIInv
<1>3. CASE /\ records[a].state \in {"available", "reconcile"} /\ vaultOpen
           /\ watched' = watched \cup {p}
           /\ records' = [records EXCEPT ![a].state = "in_flight", ![a].claim = p,
                                                ![a].recovery = records[a].state]
           /\ Moves(p, [NewPost EXCEPT !.step = "claimed", !.artifact = a])
  <2>1. records' = [records EXCEPT ![a] = Taken(records[a], p)]
    BY <1>0, <1>3 DEF Taken, CreationTypeOK, ArtifactRecord
  <2> QED
    BY <1>2, <1>3, <2>1
<1> QED
  BY <1>0, <1>1, <1>3 DEF Claim, Live

\* A request in work moves on, and leaves its record, begins it or gives it back.
LEMMA PostWorks ==
  ASSUME CreationIInv, NEW p \in Posts, post[p].step \notin {"idle", "done"}, NEW x \in PostRecord, Moves(p, x),
         x.artifact = post[p].artifact, x.step # "idle", x.step # "done" => x.answer = "none",
         UNCHANGED <<clock, drafts, confirm, issued, references, vaultOpen, watched>>,
         profile' \in Nat, profile # 0 => profile' = profile,
         NEW r \in ArtifactRecord, r.state # "none",
         r.draft = records[post[p].artifact].draft, r.edit = records[post[p].artifact].edit,
         \/ records' = records
         \/ Mine(p) /\ records' = [records EXCEPT ![post[p].artifact] = r],
         IF r.state = "in_flight" THEN r.claim = p /\ r.recovery # "none" ELSE r.claim = NoOwner,
         r.state = "created" => profile' = x.artifact,
         r.state = "conflict" => profile' \notin {0, x.artifact},
         x.step # "done" => records' = records \/ r.state = "in_flight",
         x.step = "committed" => profile' = x.artifact,
         x.step = "exists" => profile' \notin {0, x.artifact},
         x.answer = "created" => profile' = x.artifact,
         x.answer = "conflict" => profile' \notin {0, x.artifact}
  PROVE  CreationIInv'
<1> DEFINE a == post[p].artifact
<1>0. /\ OfferInv /\ HoldInv /\ CreationTypeOK /\ a \in Artifacts
      /\ (vaultOpen => records[a].state = "in_flight" /\ Mine(p))
  BY InWork DEF CreationIInv, OfferInv, HoldInv, PostOK
<1>1. post'[p] = x /\ (\A q \in Posts \ {p} : post'[q] = post[q]) /\ post' \in [Posts -> PostRecord]
  BY <1>0 DEF Moves, CreationTypeOK
<1>2. records' = records \/ (records[a].state = "in_flight" /\ records[a].claim = p
                             /\ records' = [records EXCEPT ![a] = r])
  BY <1>0, MineInFlight DEF Mine
<1>3. OfferInv'
  <2>1. CASE records' = records
    <3>1. CreationTypeOK'
      BY <1>0, <1>1, <2>1 DEF CreationTypeOK
    <3> QED
      BY <1>0, <2>1, <3>1, Used DEF Live
  <2>2. CASE records' # records
    <3>1. Live(a) /\ records' = [records EXCEPT ![a] = r] /\ watched' \subseteq Posts
      BY <1>0, <1>2, <2>2 DEF Live, CreationTypeOK
    <3> QED
      BY <1>0, <1>1, <3>1, Rewritten
  <2> QED
    BY <2>1, <2>2
<1>4. \A b \in Artifacts : \/ records'[b] = records[b]
                           \/ b = a /\ records'[b] = r /\ records[a].claim = p
  BY <1>0, <1>2 DEF CreationTypeOK
<1>5. ASSUME NEW b \in Artifacts PROVE HoldOK(b)'
  <2>1. HoldOK(b)
    BY <1>0 DEF HoldInv
  <2>2. CASE records'[b] = records[b]
    BY <1>0, <1>1, <2>1, <2>2 DEF HoldOK, CreationTypeOK
  <2>3. CASE b = a /\ records'[b] = r /\ records' # records
    <3>1. HoldOK(a)
      BY <1>0 DEF HoldInv
    <3> QED
      BY <1>1, <1>2, <2>3, <3>1 DEF HoldOK
  <2> QED
    BY <1>4, <2>2, <2>3
<1>6. PostOK(p)'
  BY <1>0, <1>1 DEF PostOK
<1>7. ASSUME NEW b \in Artifacts, records'[b].state # records[b].state
      PROVE  /\ records'[b].state = "created" => profile' = b
             /\ records'[b].state = "conflict" => profile' \notin {0, b}
  BY <1>4, <1>7
<1>8. \A b \in Artifacts : records[b].state = "in_flight" /\ records[b].claim # p => records'[b] = records[b]
  BY <1>4
<1>9. vaultOpen /\ x.step \notin {"idle", "done"} =>
        records'[x.artifact].state = "in_flight" /\ records'[x.artifact].claim = p
  BY <1>0, <1>4 DEF Mine
<1>10. HoldInv'
  BY <1>0, <1>5, <1>6, <1>7, <1>8, <1>9, PostMoves
<1> QED
  BY <1>3, <1>10 DEF CreationIInv

\* A request moves on and leaves the records alone.
LEMMA PostGoesOn ==
  ASSUME CreationIInv, NEW p \in Posts, post[p].step \notin {"idle", "done"}, NEW x \in PostRecord, Moves(p, x),
         x.artifact = post[p].artifact, x.step # "idle", x.step # "done" => x.answer = "none",
         UNCHANGED <<clock, drafts, confirm, vaultVars>>,
         profile' \in Nat, profile # 0 => profile' = profile,
         x.step = "committed" => profile' = x.artifact,
         x.step = "exists" => profile' \notin {0, x.artifact},
         x.answer = "created" => profile' = x.artifact,
         x.answer = "conflict" => profile' \notin {0, x.artifact}
  PROVE  CreationIInv'
<1>1. post[p].artifact \in Artifacts /\ records[post[p].artifact] \in ArtifactRecord
  BY DEF CreationIInv, HoldInv, PostOK, OfferInv, CreationTypeOK
<1> PICK k \in ArtifactRecord : k = records[post[p].artifact]
  BY <1>1
<1> DEFINE r == Given(k, "available")
<1>2. r \in ArtifactRecord /\ r.state = "available" /\ r.claim = NoOwner /\ r.draft = k.draft /\ r.edit = k.edit
  BY RecordGiven
<1> HIDE DEF r
<1> QED
  BY <1>2, PostWorks DEF vaultVars

\* A request that has not answered said nothing yet.
LEMMA Silent ==
  ASSUME CreationIInv, NEW p \in Posts, post[p].step # "done"
  PROVE  post[p].answer = "none"
BY DEF CreationIInv, HoldInv, PostOK

\* The command is about to run.
LEMMA MarkReconcileStep ==
  ASSUME CreationIInv, NEW p \in Posts, MarkReconcile(p)
  PROVE  CreationIInv'
<1>0. /\ post[p].step = "claimed" /\ post[p].answer = "none" /\ profile \in Nat /\ profile' = profile
      /\ UNCHANGED <<clock, drafts, confirm, issued, references, vaultOpen, watched>>
      /\ post[p].artifact \in Artifacts /\ records[post[p].artifact] \in ArtifactRecord /\ post[p] \in PostRecord
  BY Silent DEF MarkReconcile, CreationIInv, HoldInv, PostOK, OfferInv, CreationTypeOK
<1>1. CASE Leaves(p, "refused") /\ UNCHANGED records
  <2> DEFINE x == [post[p] EXCEPT !.step = "refused"]
  <2>1. x \in PostRecord /\ x.step = "refused" /\ x.artifact = post[p].artifact /\ x.answer = "none"
    BY <1>0 DEF PostRecord
  <2>2. Moves(p, x)
    BY <1>1 DEF Leaves
  <2> HIDE DEF x
  <2> QED
    BY <1>0, <1>1, <2>1, <2>2, PostGoesOn DEF vaultVars
<1>2. CASE \E target \in {"none", "reconcile"} : Raised(p, target) /\ UNCHANGED records
  <2> PICK target \in {"none", "reconcile"} : Raised(p, target) /\ UNCHANGED records
    BY <1>2
  <2> DEFINE x == [post[p] EXCEPT !.step = "done", !.target = target, !.answer = "error"]
  <2>1. x \in PostRecord /\ x.step = "done" /\ x.artifact = post[p].artifact /\ x.answer = "error"
    BY <1>0 DEF PostRecord
  <2>2. Moves(p, x)
    BY DEF Raised
  <2> HIDE DEF x
  <2> QED
    BY <1>0, <2>1, <2>2, PostGoesOn DEF vaultVars
<1>3. CASE /\ Mine(p)
           /\ records' = [records EXCEPT ![post[p].artifact].recovery = "reconcile"]
           /\ Moves(p, [post[p] EXCEPT !.step = "creating", !.target = "reconcile"])
  <2> DEFINE x == [post[p] EXCEPT !.step = "creating", !.target = "reconcile"]
             r == Begun(records[post[p].artifact])
  <2>1. x \in PostRecord /\ x.step = "creating" /\ x.artifact = post[p].artifact /\ x.answer = "none"
    BY <1>0 DEF PostRecord
  <2>2. Moves(p, x) /\ records' = [records EXCEPT ![post[p].artifact] = r]
    BY <1>3 DEF Begun
  <2>3. records[post[p].artifact].state = "in_flight" /\ records[post[p].artifact].claim = p
    BY <1>0, <1>3, MineInFlight DEF Mine
  <2>4. r \in ArtifactRecord /\ r.state = "in_flight" /\ r.claim = p /\ r.recovery # "none"
        /\ r.draft = records[post[p].artifact].draft /\ r.edit = records[post[p].artifact].edit
    BY <1>0, <2>3, RecordBegun
  <2> HIDE DEF x, r
  <2> QED
    BY <1>0, <1>3, <2>1, <2>2, <2>4, PostWorks
<1> QED
  BY <1>1, <1>2, <1>3 DEF MarkReconcile

\* The command runs.
LEMMA CreateProfileStep ==
  ASSUME CreationIInv, NEW p \in Posts, CreateProfile(p)
  PROVE  CreationIInv'
<1>0. /\ post[p].step = "creating" /\ post[p].answer = "none" /\ profile \in Nat
      /\ UNCHANGED <<clock, drafts, confirm, vaultVars>>
      /\ post[p].artifact \in Nat \ {0} /\ post[p] \in PostRecord
  BY Silent, Numbered DEF CreateProfile, CreationIInv, HoldInv, PostOK, OfferInv, CreationTypeOK
<1>1. CASE Raised(p, "reconcile") /\ profile \in {0, post[p].artifact} /\ profile' = post[p].artifact
  <2> DEFINE x == [post[p] EXCEPT !.step = "done", !.target = "reconcile", !.answer = "error"]
  <2>1. x \in PostRecord /\ x.step = "done" /\ x.artifact = post[p].artifact /\ x.answer = "error"
    BY <1>0 DEF PostRecord
  <2>2. Moves(p, x)
    BY <1>1 DEF Raised
  <2> HIDE DEF x
  <2> QED
    BY <1>0, <1>1, <2>1, <2>2, PostGoesOn
<1>2. CASE \E step \in {"committed", "uncertain", "exists", "rolled_back", "refused"} :
             /\ Leaves(p, step)
             /\ \/ profile \in {0, post[p].artifact} /\ profile' \in {post[p].artifact, profile}
                \/ profile' = profile
             /\ step = "committed" => profile' = post[p].artifact
             /\ step = "exists" => profile' \notin {0, post[p].artifact}
  <2> PICK step \in {"committed", "uncertain", "exists", "rolled_back", "refused"} :
             /\ Leaves(p, step)
             /\ \/ profile \in {0, post[p].artifact} /\ profile' \in {post[p].artifact, profile}
                \/ profile' = profile
             /\ step = "committed" => profile' = post[p].artifact
             /\ step = "exists" => profile' \notin {0, post[p].artifact}
    BY <1>2
  <2> DEFINE x == [post[p] EXCEPT !.step = step]
  <2>1. x \in PostRecord /\ x.step = step /\ x.artifact = post[p].artifact /\ x.answer = "none"
    BY <1>0 DEF PostRecord
  <2>2. Moves(p, x)
    BY DEF Leaves
  <2> HIDE DEF x
  <2> QED
    BY <1>0, <2>1, <2>2, PostGoesOn
<1> QED
  BY <1>1, <1>2 DEF CreateProfile

\* The record is given back, or settled with what was found.
LEMMA FinishStep ==
  ASSUME CreationIInv, NEW p \in Posts, Finish(p)
  PROVE  CreationIInv'
<1>0. /\ post[p].step \in {"committed", "exists", "rolled_back", "refused", "uncertain"}
      /\ profile \in Nat /\ profile' = profile
      /\ UNCHANGED <<clock, drafts, confirm, issued, references, vaultOpen, watched>>
      /\ post[p].artifact \in Artifacts /\ records[post[p].artifact] \in ArtifactRecord /\ post[p] \in PostRecord
      /\ PostOK(p) /\ records \in [Artifacts -> ArtifactRecord]
  BY DEF Finish, CreationIInv, HoldInv, PostOK, OfferInv, CreationTypeOK
<1>1. CASE Raised(p, "reconcile") /\ UNCHANGED records
  <2> DEFINE x == [post[p] EXCEPT !.step = "done", !.target = "reconcile", !.answer = "error"]
  <2>1. x \in PostRecord /\ x.step = "done" /\ x.artifact = post[p].artifact /\ x.answer = "error"
    BY <1>0 DEF PostRecord
  <2>2. Moves(p, x)
    BY <1>1 DEF Raised
  <2> HIDE DEF x
  <2> QED
    BY <1>0, <1>1, <2>1, <2>2, PostGoesOn DEF vaultVars
<1>2. CASE \E why \in {"temporary_contention", "unavailable"} : Replies(p, why) /\ UNCHANGED records
  <2> PICK why \in {"temporary_contention", "unavailable"} : Replies(p, why) /\ UNCHANGED records
    BY <1>2
  <2> DEFINE x == [post[p] EXCEPT !.step = "done", !.answer = why]
  <2>1. x \in PostRecord /\ x.step = "done" /\ x.artifact = post[p].artifact /\ x.answer = why
    BY <1>0 DEF PostRecord
  <2>2. Moves(p, x)
    BY DEF Replies
  <2> HIDE DEF x
  <2> QED
    BY <1>0, <2>1, <2>2, PostGoesOn DEF vaultVars
<1>3. CASE /\ Mine(p)
           /\ \E why \in {"created", "conflict", "temporary_contention", "unavailable"},
                 state \in {"available", "reconcile", "created", "conflict", "retired"} :
                /\ Replies(p, why)
                /\ records' = [records EXCEPT ![post[p].artifact] = Given(records[post[p].artifact], state)]
                /\ state = "created" \/ why = "created" => post[p].step = "committed"
                /\ state = "conflict" \/ why = "conflict" => post[p].step = "exists"
  <2> PICK why \in {"created", "conflict", "temporary_contention", "unavailable"},
           state \in {"available", "reconcile", "created", "conflict", "retired"} :
                /\ Replies(p, why)
                /\ records' = [records EXCEPT ![post[p].artifact] = Given(records[post[p].artifact], state)]
                /\ state = "created" \/ why = "created" => post[p].step = "committed"
                /\ state = "conflict" \/ why = "conflict" => post[p].step = "exists"
    BY <1>3
  <2> DEFINE x == [post[p] EXCEPT !.step = "done", !.answer = why]
             r == Given(records[post[p].artifact], state)
  <2>1. x \in PostRecord /\ x.step = "done" /\ x.artifact = post[p].artifact /\ x.answer = why
    BY <1>0 DEF PostRecord
  <2>2. Moves(p, x) /\ records' = [records EXCEPT ![post[p].artifact] = r]
    BY DEF Replies
  <2>3. r \in ArtifactRecord /\ r.state = state /\ r.claim = NoOwner
        /\ r.draft = records[post[p].artifact].draft /\ r.edit = records[post[p].artifact].edit
    BY <1>0, RecordGiven
  <2> HIDE DEF x, r
  <2>4. /\ post[p].step = "committed" => profile = post[p].artifact
        /\ post[p].step = "exists" => profile \notin {0, post[p].artifact}
    BY <1>0 DEF PostOK
  <2> QED
    BY <1>0, <1>3, <2>1, <2>2, <2>3, <2>4, PostWorks
<1>4. ASSUME NEW state \in {"created", "conflict"}, records' = Terminal(p, state)
      PROVE  records' = [records EXCEPT ![post[p].artifact] = Given(records[post[p].artifact], state)]
  BY <1>0, <1>4 DEF Terminal, Given, ArtifactRecord
<1>5. ASSUME NEW target \in {"none", "available", "reconcile", "retired"}, records' = Released(p, target), Mine(p)
      PROVE  \E state \in {"available", "reconcile", "retired"} :
               records' = [records EXCEPT ![post[p].artifact] = Given(records[post[p].artifact], state)]
  <2>1. records[post[p].artifact].recovery \in {"available", "reconcile"}
    BY <1>0, <1>5, MineInFlight DEF CreationIInv, HoldInv, HoldOK, ArtifactRecord
  <2> DEFINE state == IF target # "none" THEN target ELSE records[post[p].artifact].recovery
  <2>2. state \in {"available", "reconcile", "retired"}
    BY <2>1
  <2>3. records' = [records EXCEPT ![post[p].artifact] = Given(records[post[p].artifact], state)]
    BY <1>0, <1>5 DEF Released, Given, ArtifactRecord
  <2> HIDE DEF state
  <2> QED
    BY <2>2, <2>3
<1>6. ASSUME NEW target, records' = Released(p, target), ~Mine(p) PROVE UNCHANGED records
  BY <1>6 DEF Released
<1>7. post[p].target \in {"none", "available", "reconcile", "retired"}
  BY <1>0 DEF PostRecord
<1>8. CASE post[p].step \in {"committed", "exists"}
  BY <1>1, <1>2, <1>3, <1>4, <1>8 DEF Finish
<1>9. CASE post[p].step \in {"rolled_back", "refused", "uncertain"}
  <2> PICK target \in {"none", "available", "reconcile", "retired"},
           why \in {"temporary_contention", "unavailable"} :
             records' = Released(p, target) /\ Replies(p, why)
    BY <1>7, <1>9 DEF Finish
  <2>1. CASE Mine(p)
    BY <1>3, <1>5, <2>1
  <2>2. CASE ~Mine(p)
    BY <1>2, <1>6, <2>2
  <2> QED
    BY <2>1, <2>2
<1> QED
  BY <1>0, <1>8, <1>9

\* The coordinator takes a claim back that its request left.
LEMMA CleanupStep ==
  ASSUME CreationIInv, NEW p \in Posts, CleanupOwner(p)
  PROVE  CreationIInv'
<1> DEFINE a == post[p].artifact
<1>0. /\ OfferInv /\ HoldInv /\ CreationTypeOK /\ a \in Artifacts /\ records[a] \in ArtifactRecord
      /\ post[p].step = "done" /\ post[p].target \in {"none", "reconcile"}
      /\ watched' = watched \ {p} /\ records' = Released(p, post[p].target)
      /\ UNCHANGED <<clock, drafts, confirm, issued, references, vaultOpen, post, profile>>
  BY DEF CleanupOwner, CreationIInv, HoldInv, PostOK, OfferInv, CreationTypeOK, PostRecord
<1>1. watched' \subseteq Posts /\ post' \in [Posts -> PostRecord] /\ profile' \in Nat
  BY <1>0 DEF CreationTypeOK
<1>2. PICK r \in ArtifactRecord :
        /\ r.state \in {"available", "reconcile"} /\ r.claim = NoOwner
        /\ r.draft = records[a].draft /\ r.edit = records[a].edit
        /\ IF Mine(p) THEN records' = [records EXCEPT ![a] = r] ELSE records' = records
  <2>1. CASE ~Mine(p)
    BY <1>0, <2>1, RecordGiven DEF Released
  <2>2. CASE Mine(p)
    <3>1. records[a].recovery \in {"available", "reconcile"}
      BY <1>0, <2>2, MineInFlight DEF HoldInv, HoldOK, ArtifactRecord
    <3> DEFINE state == IF post[p].target # "none" THEN post[p].target ELSE records[a].recovery
    <3>2. state \in {"available", "reconcile"}
      BY <1>0, <3>1
    <3>3. records' = [records EXCEPT ![a] = Given(records[a], state)]
      BY <1>0, <2>2 DEF Released, Given, ArtifactRecord, CreationTypeOK
    <3> HIDE DEF state
    <3> DEFINE g == Given(records[a], state)
    <3>4. /\ g \in ArtifactRecord /\ g.state \in {"available", "reconcile"} /\ g.claim = NoOwner
          /\ g.draft = records[a].draft /\ g.edit = records[a].edit
      BY <1>0, <3>2, RecordGiven
    <3>5. records' = [records EXCEPT ![a] = g]
      BY <3>3
    <3> HIDE DEF g
    <3> QED
      BY <2>2, <3>4, <3>5
  <2> QED
    BY <2>1, <2>2
<1>3. Mine(p) => records[a].state = "in_flight" /\ records[a].claim = p
  BY <1>0, MineInFlight DEF Mine
<1>4. OfferInv'
  <2>1. CASE Mine(p)
    BY <1>0, <1>1, <1>2, <1>3, <2>1, Rewritten DEF Live
  <2>2. CASE ~Mine(p)
    <3>1. records' = records
      BY <1>2, <2>2
    <3>2. CreationTypeOK'
      BY <1>0, <1>1, <3>1 DEF CreationTypeOK
    <3> QED
      BY <1>0, <3>1, <3>2, Used DEF Live
  <2> QED
    BY <2>1, <2>2
<1>5. \A b \in Artifacts : \/ records'[b] = records[b]
                           \/ b = a /\ records'[b] = r /\ records[a].claim = p
  BY <1>0, <1>2, <1>3 DEF CreationTypeOK
<1>6. ASSUME NEW b \in Artifacts PROVE HoldOK(b)'
  <2>1. HoldOK(b)
    BY <1>0 DEF HoldInv
  <2>2. CASE b = a /\ Mine(p)
    <3>1. records'[b] = r
      BY <1>0, <1>2, <2>2 DEF CreationTypeOK
    <3> QED
      BY <1>2, <3>1 DEF HoldOK
  <2>3. CASE ~(b = a /\ Mine(p))
    <3>1. records'[b] = records[b]
      BY <1>0, <1>2, <2>3 DEF CreationTypeOK
    <3>2. records[b].state = "in_flight" => records[b].claim # p
      BY <2>1, <2>3 DEF HoldOK, Mine
    <3> QED
      BY <1>0, <2>1, <3>1, <3>2 DEF HoldOK
  <2> QED
    BY <2>2, <2>3
<1>7. ClaimIsKept'
  <2> SUFFICES ASSUME NEW q \in Posts, vaultOpen, post[q].step \notin {"idle", "done"}
               PROVE  records'[post[q].artifact].state = "in_flight" /\ records'[post[q].artifact].claim = q
    BY <1>0 DEF ClaimIsKept, Mine
  <2> QED
    BY <1>0, <1>5, InWork DEF Mine
<1>8. ToldTheTruth'
  BY <1>0, <1>2, <1>5 DEF HoldInv, ToldTheTruth
<1>9. \A q \in Posts : PostOK(q)'
  BY <1>0 DEF HoldInv, PostOK
<1> QED
  BY <1>4, <1>6, <1>7, <1>8, <1>9 DEF CreationIInv, HoldInv

\* Closing the vault drops the claims with the records.
LEMMA CloseStep ==
  ASSUME CreationIInv, CloseVault
  PROVE  CreationIInv'
<1>1. /\ \A a \in Artifacts : records'[a] = NoRecord
      /\ ~vaultOpen' /\ UNCHANGED <<post, profile>>
  BY DEF CloseVault
<1>2. ClaimIsKept'
  BY <1>1 DEF ClaimIsKept
<1>3. ToldTheTruth'
  BY <1>1, BlankRecords DEF CreationIInv, HoldInv, ToldTheTruth
<1>4. \A a \in Artifacts : HoldOK(a)'
  BY <1>1, BlankRecords DEF HoldOK, NoOwner
<1>5. \A p \in Posts : PostOK(p)'
  BY <1>1 DEF CreationIInv, HoldInv, PostOK
<1> QED
  BY <1>2, <1>3, <1>4, <1>5, CloseOffers DEF CreationIInv, HoldInv

\* A step that keeps the records, and the requests that use an artifact, keeps the holds.
LEMMA RecordsStay ==
  ASSUME CreationIInv, OfferInv', UNCHANGED <<records, watched, post, profile, vaultOpen>>
  PROVE  CreationIInv'
BY HoldOthers DEF CreationIInv, OfferInv

\* A step that drops the records whose time has passed keeps the holds.
LEMMA RecordsPurged ==
  ASSUME CreationIInv, OfferInv', UNCHANGED <<watched, post, profile, vaultOpen>>, records' = PurgedRecords
  PROVE  CreationIInv'
<1>1. CreationTypeOK /\ HoldInv
  BY DEF CreationIInv, OfferInv
<1>2. \A a \in Artifacts : \/ records'[a] = records[a]
                           \/ /\ records[a].state # "in_flight"
                              /\ records'[a].state = "none" /\ records'[a].claim = NoOwner
  BY <1>1, PurgeKeeps, BlankRecords DEF NoOwner
<1> QED
  BY <1>1, <1>2, HoldOthers DEF CreationIInv

\* A new artifact is nobody's yet.
LEMMA IssueHolds ==
  ASSUME CreationIInv, NEW c \in Confirms, Issue(c)
  PROVE  CreationIInv'
<1>1. CreationTypeOK /\ HoldInv /\ OfferInv /\ OfferInv' /\ UNCHANGED <<watched, post, profile, vaultOpen>>
  BY IssueStep DEF CreationIInv, OfferInv, Issue
<1>2. CASE UNCHANGED records
  BY <1>1, <1>2, RecordsStay
<1>3. CASE records' = PurgedRecords
  BY <1>1, <1>3, RecordsPurged
<1>4. CASE /\ issued < MaxArtifacts
           /\ records' = [PurgedRecords EXCEPT ![issued + 1] =
                            Made(confirm[c].draft, confirm[c].edit, clock + Lifetime)]
           /\ confirm[c].step = "authorized"
  <2> DEFINE d == confirm[c].draft
             deadline == clock + Lifetime
  <2>1. d \in Nat /\ deadline \in Nat /\ confirm[c].edit \in Edits \cup {NoEdit} /\ issued \in Nat
    BY <1>1, CreationAssumption DEF CreationTypeOK, ConfirmRecord
  <2> HIDE DEF deadline, d
  <2> PICK e \in Edits \cup {NoEdit} : e = confirm[c].edit
    BY <2>1
  <2> DEFINE made == Made(d, e, deadline)
  <2>2. made \in ArtifactRecord /\ made.state = "available" /\ made.claim = 0
    BY <2>1, RecordMade
  <2>3. records' = [PurgedRecords EXCEPT ![issued + 1] = made]
    BY <1>4 DEF d, deadline
  <2> HIDE DEF made
  <2>4. issued + 1 \in Artifacts /\ ~Live(issued + 1)
    <3>1. issued + 1 \in Artifacts /\ issued + 1 \in Nat \ {0} /\ issued + 1 \notin 1..issued
      BY <1>4, <2>1, NatBounds DEF Artifacts
    <3>2. Live(issued + 1) => Names(records[issued + 1].draft, issued + 1) /\ records[issued + 1].draft \in Drafts
      BY <1>1, <3>1 DEF OfferInv, RecordOK, Names
    <3> QED
      BY <1>1, <3>1, <3>2, OfIssued
  <2>5. \A a \in Artifacts : \/ records'[a] = records[a]
                             \/ /\ records[a].state # "in_flight"
                                /\ records'[a].state \in {"none", "available"} /\ records'[a].claim = NoOwner
    BY <1>1, <2>2, <2>3, <2>4, PurgeKeeps, BlankRecords DEF NoOwner, Live
  <2> QED
    BY <1>1, <2>5, HoldOthers DEF CreationIInv
<1> QED
  BY <1>2, <1>3, <1>4 DEF Issue, Made

\* Time alone changes nothing.
LEMMA TimeOffers ==
  ASSUME OfferInv, TimePasses
  PROVE  OfferInv'
<1>1. UNCHANGED <<drafts, confirm, issued, records, references, watched, vaultOpen, post, profile>>
      /\ clock' \in Nat
  BY DEF TimePasses, OfferInv, CreationTypeOK, vaultVars
<1>2. CreationTypeOK'
  BY <1>1 DEF OfferInv, CreationTypeOK
<1> QED
  BY <1>1, <1>2, Used DEF Live

\* A step of the program, one operation at a time.
LEMMA CreationStep ==
  ASSUME CreationIInv, [NextCreation]_creationVars
  PROVE  CreationIInv'
<1>0. OfferInv
  BY DEF CreationIInv
<1>1. ASSUME NEW d \in Drafts, CreateRun(d) PROVE CreationIInv'
  BY <1>0, <1>1, CreateRunStep, RecordsStay DEF CreateRun, vaultVars
<1>2. ASSUME NEW c \in Confirms, NEW d \in Drafts, NEW e \in Edits, Acquire(c, d, e) PROVE CreationIInv'
  BY <1>0, <1>2, AcquireStep, RecordsStay DEF Acquire, vaultVars
<1>3. ASSUME NEW c \in Confirms, ConfirmStep(c) PROVE CreationIInv'
  <2>1. CASE WaitTimesOut(c)
    BY <1>0, <2>1, WaitStep, RecordsStay DEF WaitTimesOut, vaultVars
  <2>2. CASE ReplayCompleted(c)
    BY <1>0, <2>2, ReplayStep, RecordsStay DEF ReplayCompleted, vaultVars
  <2>3. CASE AuthorizeConfirm(c)
    BY <1>0, <2>3, AuthorizeStep, RecordsStay DEF AuthorizeConfirm, vaultVars
  <2>4. CASE Issue(c)
    BY <2>4, IssueHolds
  <2>5. CASE RecoverConfirmation(c)
    BY <1>0, <2>5, RecoverConfirmationStep, RecordsStay, RecordsPurged DEF RecoverConfirmation
  <2>6. CASE Completes(c)
    BY <1>0, <2>6, CompleteStep, RecordsStay DEF Completes, vaultVars
  <2>7. CASE Returns(c)
    BY <1>0, <2>7, ReturnStep, RecordsStay DEF Returns, vaultVars
  <2>8. CASE Settle(c)
    BY <1>0, <2>8, SettleStep, RecordsStay DEF Settle, vaultVars
  <2> QED
    BY <1>2, <1>3, <2>1, <2>2, <2>3, <2>4, <2>5, <2>6, <2>7, <2>8 DEF ConfirmStep
<1>4. ASSUME NEW p \in Posts, PostStep(p) PROVE CreationIInv'
  BY <1>4, MarkReconcileStep, CreateProfileStep, FinishStep DEF PostStep
<1>5. CASE TimePasses
  BY <1>0, <1>5, TimeOffers, RecordsStay DEF TimePasses, vaultVars
<1>6. CASE UNCHANGED creationVars
  <2>1. CreationTypeOK'
    BY <1>0, <1>6 DEF creationVars, OfferInv, CreationTypeOK
  <2>2. OfferInv'
    BY <1>0, <1>6, <2>1, Used DEF creationVars, Live
  <2> QED
    BY <1>6, <2>2, RecordsStay DEF creationVars
<1> QED
  BY <1>1, <1>2, <1>3, <1>4, <1>5, <1>6, ClaimStep, CleanupStep, CloseStep DEF NextCreation

\* A new process starts with no draft, no artifact and nobody at work.
LEMMA CreationStart ==
  ASSUME InitCreation
  PROVE  CreationIInv
<1>1. CreationTypeOK
  BY BlankRecords, NatBounds DEF InitCreation, CreationTypeOK, Earlier
<1>2. NamesOK
  BY BlankRecords, Numbered DEF InitCreation, NamesOK, Names, Drafts
<1>3. SaidAlike
  BY BlankRecords DEF InitCreation, SaidAlike
<1>4. ASSUME NEW a \in Artifacts PROVE RecordOK(a) /\ HoldOK(a) /\ ~Live(a)
  BY BlankRecords DEF InitCreation, RecordOK, HoldOK, Live, NoOwner
<1>5. ASSUME NEW c \in Confirms PROVE ConfirmOK(c)
  BY <1>4, BlankRecords DEF InitCreation, ConfirmOK, Leasing
<1>6. ASSUME NEW d \in Drafts PROVE DraftOK(d)
  BY BlankRecords DEF InitCreation, DraftOK
<1>7. ASSUME NEW p \in Posts PROVE PostOK(p)
  BY BlankRecords DEF InitCreation, PostOK
<1>8. ClaimIsKept /\ ToldTheTruth
  BY BlankRecords DEF InitCreation, ClaimIsKept, ToldTheTruth
<1> QED
  BY <1>1, <1>2, <1>3, <1>4, <1>5, <1>6, <1>7, <1>8 DEF CreationIInv, OfferInv, HoldInv

\* The inductive invariant of drafts, artifacts and the requests at work on them.
THEOREM CreationInvariant == SpecCreation => []CreationIInv
<1>1. InitCreation => CreationIInv
  BY CreationStart
<1>2. CreationIInv /\ [NextCreation]_creationVars => CreationIInv'
  BY CreationStep
<1> QED
  BY <1>1, <1>2, PTL DEF SpecCreation

\* A reviewed draft leads to one artifact and one offer.
LEMMA OneOffer ==
  ASSUME OfferInv
  PROVE  OneOfferPerDraft
<1>1. ASSUME NEW a \in Artifacts, Live(a)
      PROVE  /\ drafts[records[a].draft].state # "draft" /\ records[a].draft \in Drafts
             /\ references[records[a].draft] = a
  BY <1>1 DEF OfferInv, RecordOK
<1>2. ASSUME NEW c \in Confirms, confirm[c].answer = "offered"
      PROVE  /\ confirm[c].offer \in Artifacts /\ confirm[c].offer \in Nat \ {0} /\ confirm[c].draft \in Drafts
             /\ Names(confirm[c].draft, confirm[c].offer)
             /\ Live(confirm[c].offer) => records[confirm[c].offer].edit = confirm[c].edit
  <2>1. ConfirmOK(c) /\ confirm[c].offer \in Nat
    BY DEF OfferInv, CreationTypeOK, ConfirmRecord
  <2>2. /\ confirm[c].offer \in Nat \ {0} /\ confirm[c].draft \in Drafts
        /\ Live(confirm[c].offer) => records[confirm[c].offer].edit = confirm[c].edit
    BY <1>2, <2>1 DEF ConfirmOK
  <2>3. Names(confirm[c].draft, confirm[c].offer)
    BY DEF Names
  <2> QED
    BY <2>2, <2>3, OfIssued
<1>3. ASSUME NEW c \in Confirms, confirm[c].answer = "offered", Live(confirm[c].offer)
      PROVE  records[confirm[c].offer].draft = confirm[c].draft
  <2>1. records[confirm[c].offer].draft \in Drafts /\ Names(records[confirm[c].offer].draft, confirm[c].offer)
    BY <1>1, <1>2, <1>3 DEF Names
  <2> QED
    BY <1>2, <1>3, <2>1, OfIssued
<1>4. ASSUME NEW c \in Confirms, NEW k \in Confirms, confirm[c].answer = "offered", confirm[k].answer = "offered"
      PROVE  confirm[k].draft = confirm[c].draft <=> confirm[k].offer = confirm[c].offer
  <2>1. confirm[k].draft = confirm[c].draft => confirm[k].offer = confirm[c].offer
    BY <1>4 DEF OfferInv, SaidAlike, Said
  <2>2. confirm[k].offer = confirm[c].offer => Names(confirm[k].draft, confirm[c].offer)
    BY DEF Names
  <2>3. confirm[k].offer = confirm[c].offer => confirm[k].draft = confirm[c].draft
    BY <1>2, <1>4, <2>2, OfIssued
  <2> QED
    BY <2>1, <2>3
<1> QED
  BY <1>1, <1>2, <1>3, <1>4 DEF OneOfferPerDraft

\* Theorem for CreationSound: a draft leads to one offer, and a hold is its request's.
THEOREM CreationTheorem == SpecCreation => []CreationSound
<1>1. CreationIInv => NoHoldIsAbandoned
  <2> SUFFICES ASSUME CreationIInv PROVE NoHoldIsAbandoned
    OBVIOUS
  <2>1. \A d \in Drafts : DraftOK(d)
    BY DEF CreationIInv, OfferInv
  <2>2. \A a \in Artifacts : HoldOK(a)
    BY DEF CreationIInv, HoldInv
  <2> QED
    BY <2>1, <2>2 DEF NoHoldIsAbandoned, DraftOK, HoldOK, Leasing
<1>2. CreationIInv => CreationSound
  BY <1>1, OneOffer DEF CreationSound, HoldsMatchRequests, CreationIInv, HoldInv
<1> QED
  BY <1>2, CreationInvariant, PTL

\* Theorem for ToldTheTruth: what is said of a profile is so.
THEOREM ToldTheorem == SpecCreation => []ToldTheTruth
<1>1. CreationIInv => ToldTheTruth
  BY DEF CreationIInv, HoldInv
<1> QED
  BY <1>1, CreationInvariant, PTL
=============================================================================
