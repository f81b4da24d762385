------------------------ MODULE CrashRecovery_proofs ------------------------
(***************************************************************************)
(* Four protocols of MCCrashRecovery for every value of their constants:   *)
(* the registry of public jobs, the owners of a database, the routine      *)
(* publisher, the observation ledger.                                      *)
(***************************************************************************)
EXTENDS PublicJobIdentity, LifetimeOwnership, RoutineRelease, ObservationLedger, FiniteSetTheorems,
        SequenceTheorems, WellFoundedInduction, NaturalsInduction, TLAPS

-----------------------------------------------------------------------------
(* The registry of public jobs.  A registry is sound by itself, and one    *)
(* extends another when it knows all its paths and ends every redirect     *)
(* where the other's redirect ends.  Every operation of the authority      *)
(* extends its registry, and a copy is extended by the authority's.        *)

Registry == [state   : [Ids -> {"unissued", "serving", "redirect", "gone"}],
             target  : [Ids -> Ids \cup {NoId}],
             owner   : [Paths -> Ids \cup {NoId}],
             primary : [Ids -> Paths \cup {NoId}]]

\* Where a redirect ends; any other identity ends at itself.
End(r, i) == IF r.state[i] = "redirect" THEN r.target[i] ELSE i

Sound(r) ==
  /\ \A i \in Ids : r.state[i] = "redirect" => r.target[i] \in Ids /\ r.state[r.target[i]] = "serving"
  /\ \A i \in Ids : r.state[i] # "redirect" => r.target[i] = NoId
  /\ \A i \in Minted(r) : r.primary[i] \in Paths /\ r.owner[r.primary[i]] = i
  /\ \A p \in Paths : r.owner[p] # NoId => r.owner[p] \in Minted(r)
  /\ \A p, q \in Paths : r.owner[p] # NoId /\ r.owner[q] # NoId /\ folded[p] = folded[q] => p = q

\* What a database's bindings are to its registry.
BindingsSound(r, b) ==
  /\ \A i \in Ids : Bound(b, i) => r.state[i] \in {"serving", "gone"}
  /\ \A i, j \in Ids : Bound(b, i) /\ b[i] = b[j] => i = j

Extends(r, s) ==
  /\ \A p \in Paths : r.owner[p] # NoId => s.owner[p] = r.owner[p]
  /\ \A i \in Minted(r) : /\ i \in Minted(s) /\ s.primary[i] = r.primary[i]
                          /\ End(s, End(r, i)) = End(s, i)

IdentityIInv ==
  /\ identities \in [Registries -> Registry]
  /\ bindings \in [Registries -> [Ids -> Canonicals \cup {Unbound}]]
  /\ \A d \in Registries : Sound(identities[d]) /\ BindingsSound(identities[d], bindings[d])
  /\ \A i \in Ids : identities[Issuer].state[i] \in {"serving", "gone"} => Bound(bindings[Issuer], i)
  /\ \A d \in Copies : Extends(identities[d], identities[Issuer])

\* The absent identity is neither an identity nor a path, and the copies are not the issuer.
LEMMA NoIdIsNone == NoId \notin Ids /\ NoId \notin Paths /\ Ids \subseteq Paths /\ Issuer \in Registries
                    /\ Copies \subseteq Registries /\ Issuer \notin Copies
BY IdentityAssumption DEF Paths, Registries

\* A redirect of a sound registry ends at an identity that is minted and ends at itself.
LEMMA EndServes ==
  ASSUME NEW r \in Registry, Sound(r), NEW i \in Minted(r)
  PROVE  /\ End(r, i) \in Minted(r) /\ End(r, i) \in Ids
         /\ End(r, End(r, i)) = End(r, i)
BY NoIdIsNone DEF Sound, Minted, End, Registry

\* A registry that did not change extends itself.
LEMMA ExtendsItself ==
  ASSUME NEW r \in Registry, Sound(r)
  PROVE  Extends(r, r)
BY EndServes DEF Extends, Minted

\* What extends an extension of a registry extends that registry.
LEMMA ExtendsFurther ==
  ASSUME NEW r \in Registry, NEW s \in Registry, NEW t \in Registry,
         Sound(r), Extends(r, s), Extends(s, t)
  PROVE  Extends(r, t)
<1>1. \A p \in Paths : r.owner[p] # NoId => t.owner[p] = r.owner[p]
  BY DEF Extends
<1>2. ASSUME NEW i \in Minted(r)
      PROVE  i \in Minted(t) /\ t.primary[i] = r.primary[i] /\ End(t, End(r, i)) = End(t, i)
  <2>1. i \in Minted(s) /\ i \in Minted(t) /\ t.primary[i] = r.primary[i]
    BY DEF Extends
  <2>2. End(r, i) \in Minted(s)
    BY EndServes DEF Extends
  <2>3. /\ End(s, End(r, i)) = End(s, i)
        /\ End(t, End(s, i)) = End(t, i)
        /\ End(t, End(s, End(r, i))) = End(t, End(r, i))
    BY <2>1, <2>2 DEF Extends
  <2> QED BY <2>1, <2>3
<1> QED BY <1>1, <1>2 DEF Extends

\* Two registries of which one extends the other find a path at the same identity.
Spelling(r, p) == IF r.owner[p] # NoId THEN p ELSE CHOOSE s \in Spelled(r, p) : TRUE
Found(r, p) == r.owner[Spelling(r, p)]

\* In a sound registry one spelling of a path is known at most, and it has an owner.
LEMMA SpellingIsOwned ==
  ASSUME NEW r \in Registry, Sound(r), NEW p \in Paths, Spelled(r, p) # {}
  PROVE  /\ Spelling(r, p) \in Spelled(r, p)
         /\ \A q \in Spelled(r, p) : q = Spelling(r, p)
         /\ Found(r, p) \in Minted(r) /\ Found(r, p) \in Ids
<1>1. Spelling(r, p) \in Spelled(r, p)
  BY DEF Spelling, Spelled
<1>2. \A q \in Spelled(r, p) : q = Spelling(r, p)
  BY <1>1 DEF Spelled, Sound
<1>3. Found(r, p) \in Minted(r) /\ Found(r, p) \in Ids
  BY <1>1 DEF Spelled, Sound, Found, Minted
<1> QED BY <1>1, <1>2, <1>3

\* An extension finds the owner that was found before.
LEMMA FindsTheSame ==
  ASSUME NEW r \in Registry, NEW s \in Registry, Sound(r), Sound(s), Extends(r, s),
         NEW p \in Paths, Spelled(r, p) # {}
  PROVE  Spelled(s, p) # {} /\ Found(s, p) = Found(r, p)
<1>1. Spelling(r, p) \in Spelled(r, p)
  BY SpellingIsOwned
<1>2. Spelling(r, p) \in Spelled(s, p) /\ s.owner[Spelling(r, p)] = Found(r, p)
  BY <1>1 DEF Spelled, Extends, Found
<1>3. Spelling(r, p) = Spelling(s, p)
  BY <1>2, SpellingIsOwned
<1> QED BY <1>2, <1>3 DEF Found

\* resolve_public_job_path, in these words.
LEMMA AnswerIs ==
  ASSUME NEW r \in Registry, NEW b, NEW p \in Paths
  PROVE  LET answer == ResolvePublicJobPath(r, b, p)
         IN  /\ answer.kind # "unknown" => Spelled(r, p) # {}
             /\ Spelled(r, p) # {} =>
                  /\ answer.job = End(r, Found(r, p))
                  /\ answer.at = r.primary[End(r, Found(r, p))]
                  /\ answer.kind # "unknown"
BY DEF ResolvePublicJobPath, Unknown, End, Found, Spelling

-----------------------------------------------------------------------------
(* One lemma per operation of the authority *)

\* Every operation but the merge leaves redirects, owned paths and primaries alone.
LEMMA KeepsRedirects ==
  ASSUME NEW r \in Registry, NEW s \in Registry, Sound(r),
         s.target = r.target,
         \A i \in Ids : s.state[i] = "redirect" <=> r.state[i] = "redirect",
         \A i \in Minted(r) : i \in Minted(s) /\ s.primary[i] = r.primary[i],
         \A p \in Paths : r.owner[p] # NoId => s.owner[p] = r.owner[p]
  PROVE  Extends(r, s)
<1>1. \A i \in Ids : End(s, i) = End(r, i)
  BY DEF End
<1>2. \A i \in Minted(r) : End(s, End(r, i)) = End(s, i)
  BY <1>1, EndServes DEF Minted
<1> QED BY <1>2 DEF Extends

\* A new job extends the issuer's registry and touches no copy.
LEMMA AllocateStep ==
  ASSUME IdentityIInv, AllocatePublicJob
  PROVE  /\ identities'[Issuer] \in Registry /\ Sound(identities'[Issuer])
         /\ Extends(identities[Issuer], identities'[Issuer])
         /\ \A d \in Copies : identities'[d] = identities[d]
<1> DEFINE r == identities[Issuer]
<1> USE NoIdIsNone DEF IdentityIInv
<1>1. PICK i \in Ids, c \in Canonicals : \E p \in {i} \cup LegacyPaths :
        /\ Minted(r) = 1..(i - 1) /\ Spelled(r, p) = {}
        /\ Registers(Issuer, [r EXCEPT !.state[i] = "serving", !.owner[p] = i, !.primary[i] = p])
  BY DEF AllocatePublicJob
<1>2. PICK p \in {i} \cup LegacyPaths :
        /\ Minted(r) = 1..(i - 1) /\ Spelled(r, p) = {}
        /\ Registers(Issuer, [r EXCEPT !.state[i] = "serving", !.owner[p] = i, !.primary[i] = p])
  BY <1>1
<1> DEFINE s == [r EXCEPT !.state[i] = "serving", !.owner[p] = i, !.primary[i] = p]
<1>3. r \in Registry /\ Sound(r) /\ p \in Paths /\ i \notin Minted(r)
  BY <1>2 DEF Paths, Ids
<1>4. s \in Registry
  BY <1>3 DEF Registry
<1>5. /\ s.target = r.target
      /\ \A j \in Ids : s.state[j] = IF j = i THEN "serving" ELSE r.state[j]
      /\ \A j \in Ids : s.primary[j] = IF j = i THEN p ELSE r.primary[j]
      /\ \A q \in Paths : s.owner[q] = IF q = p THEN i ELSE r.owner[q]
  BY <1>3 DEF Registry
<1>6. r.state[i] = "unissued" /\ \A q \in Paths : r.owner[q] # NoId => folded[q] # folded[p]
  BY <1>2, <1>3 DEF Minted, Spelled
<1>7. Minted(s) = Minted(r) \cup {i}
  BY <1>5 DEF Minted
<1>8. Sound(s)
  <2>1. \A j \in Ids : s.state[j] = "redirect" => s.target[j] \in Ids /\ s.state[s.target[j]] = "serving"
    BY <1>3, <1>5, <1>6 DEF Sound
  <2>2. \A j \in Ids : s.state[j] # "redirect" => s.target[j] = NoId
    BY <1>3, <1>5, <1>6 DEF Sound
  <2>3. \A j \in Minted(s) : s.primary[j] \in Paths /\ s.owner[s.primary[j]] = j
    BY <1>3, <1>5, <1>6, <1>7 DEF Sound, Minted
  <2>4. \A q \in Paths : s.owner[q] # NoId => s.owner[q] \in Minted(s)
    BY <1>3, <1>5, <1>7 DEF Sound
  <2>5. \A q, q2 \in Paths : s.owner[q] # NoId /\ s.owner[q2] # NoId /\ folded[q] = folded[q2] => q = q2
    BY <1>3, <1>5, <1>6 DEF Sound
  <2> QED BY <2>1, <2>2, <2>3, <2>4, <2>5 DEF Sound
<1>9. Extends(r, s)
  <2>1. \A j \in Ids : s.state[j] = "redirect" <=> r.state[j] = "redirect"
    BY <1>5, <1>6
  <2>2. \A j \in Minted(r) : j \in Minted(s) /\ s.primary[j] = r.primary[j]
    BY <1>3, <1>5, <1>7 DEF Minted
  <2>3. \A q \in Paths : r.owner[q] # NoId => s.owner[q] = r.owner[q]
    BY <1>5, <1>6
  <2> QED BY <1>3, <1>4, <1>5, <2>1, <2>2, <2>3, KeepsRedirects
<1> QED BY <1>2, <1>4, <1>8, <1>9 DEF Registers

\* A new legacy path extends the issuer's registry and touches no copy.
LEMMA AliasStep ==
  ASSUME IdentityIInv, RegisterPublicJobAlias
  PROVE  /\ identities'[Issuer] \in Registry /\ Sound(identities'[Issuer])
         /\ Extends(identities[Issuer], identities'[Issuer])
         /\ \A d \in Copies : identities'[d] = identities[d]
<1> DEFINE r == identities[Issuer]
<1> USE NoIdIsNone DEF IdentityIInv
<1>1. PICK i \in Ids : \E p \in LegacyPaths \cup Minted(r) :
        /\ r.state[i] = "serving" /\ Spelled(r, p) = {}
        /\ Registers(Issuer, [r EXCEPT !.owner[p] = i])
  BY DEF RegisterPublicJobAlias
<1>2. PICK p \in LegacyPaths \cup Minted(r) :
        /\ r.state[i] = "serving" /\ Spelled(r, p) = {}
        /\ Registers(Issuer, [r EXCEPT !.owner[p] = i])
  BY <1>1
<1> DEFINE s == [r EXCEPT !.owner[p] = i]
<1>3. r \in Registry /\ Sound(r) /\ p \in Paths /\ i \in Minted(r)
  BY <1>2 DEF Paths, Minted
<1>4. s \in Registry
  BY <1>3 DEF Registry
<1>5. /\ s.target = r.target /\ s.state = r.state /\ s.primary = r.primary
      /\ \A q \in Paths : s.owner[q] = IF q = p THEN i ELSE r.owner[q]
  BY <1>3 DEF Registry
<1>6. \A q \in Paths : r.owner[q] # NoId => folded[q] # folded[p]
  BY <1>2, <1>3 DEF Spelled
<1>7. Minted(s) = Minted(r)
  BY <1>5 DEF Minted
<1>8. Sound(s)
  <2>1. \A j \in Minted(s) : s.primary[j] \in Paths /\ s.owner[s.primary[j]] = j
    BY <1>3, <1>5, <1>6, <1>7 DEF Sound, Minted
  <2>2. \A q \in Paths : s.owner[q] # NoId => s.owner[q] \in Minted(s)
    BY <1>3, <1>5, <1>7 DEF Sound
  <2>3. \A q, q2 \in Paths : s.owner[q] # NoId /\ s.owner[q2] # NoId /\ folded[q] = folded[q2] => q = q2
    BY <1>3, <1>5, <1>6 DEF Sound
  <2> QED BY <1>3, <1>5, <2>1, <2>2, <2>3, SMTT(20) DEF Sound
<1>9. Extends(r, s)
  <2>1. \A q \in Paths : r.owner[q] # NoId => s.owner[q] = r.owner[q]
    BY <1>5, <1>6
  <2>2. \A j \in Minted(r) : j \in Minted(s) /\ s.primary[j] = r.primary[j]
    BY <1>5, <1>7
  <2>3. \A j \in Ids : s.state[j] = "redirect" <=> r.state[j] = "redirect"
    BY <1>5
  <2> HIDE DEF s, r
  <2> QED BY <1>3, <1>4, <1>5, <2>1, <2>2, <2>3, KeepsRedirects
<1> QED BY <1>2, <1>4, <1>8, <1>9 DEF Registers

\* The one operation that moves redirects: those to the loser end at the survivor.
LEMMA MergeStep ==
  ASSUME IdentityIInv, MergePublicJobs
  PROVE  /\ identities'[Issuer] \in Registry /\ Sound(identities'[Issuer])
         /\ Extends(identities[Issuer], identities'[Issuer])
         /\ \A d \in Copies : identities'[d] = identities[d]
         /\ \E loser, survivor \in Ids :
              /\ identities'[Issuer] = Redirected(identities[Issuer], loser, survivor)
              /\ identities[Issuer].state[loser] = "serving"
              /\ identities[Issuer].state[survivor] = "serving"
              /\ loser # survivor
              /\ bindings' = [bindings EXCEPT ![Issuer] = [@ EXCEPT ![loser] = Unbound]]
<1> DEFINE r == identities[Issuer]
<1> USE NoIdIsNone DEF IdentityIInv
<1>1. PICK loser \in Ids, survivor \in Ids :
        /\ loser # survivor
        /\ r.state[loser] = "serving" /\ r.state[survivor] = "serving"
        /\ Registers(Issuer, Redirected(r, loser, survivor))
        /\ Binds(Issuer, [bindings[Issuer] EXCEPT ![loser] = Unbound])
  BY DEF MergePublicJobs
<1> DEFINE s == Redirected(r, loser, survivor)
<1>2. r \in Registry /\ Sound(r)
  OBVIOUS
<1>3. s \in Registry
  BY <1>2 DEF Registry, Redirected
<1>4. /\ s.owner = r.owner /\ s.primary = r.primary
      /\ \A j \in Ids : s.state[j] = IF j = loser THEN "redirect" ELSE r.state[j]
      /\ \A j \in Ids : s.target[j] = IF j = loser \/ r.target[j] = loser THEN survivor ELSE r.target[j]
  BY <1>2 DEF Registry, Redirected
<1>5. Minted(s) = Minted(r)
  BY <1>1, <1>4 DEF Minted
<1>6. Sound(s)
  <2>1. \A j \in Ids : s.state[j] = "redirect" => s.target[j] \in Ids /\ s.state[s.target[j]] = "serving"
    BY <1>1, <1>2, <1>4, SMTT(20) DEF Sound
  <2>2. \A j \in Ids : s.state[j] # "redirect" => s.target[j] = NoId
    BY <1>1, <1>2, <1>4 DEF Sound
  <2> QED BY <1>2, <1>4, <1>5, <2>1, <2>2 DEF Sound
<1>7. ASSUME NEW i \in Minted(r)
      PROVE  End(s, End(r, i)) = End(s, i)
  <2>0. i \in Ids
    BY DEF Minted
  <2>1. CASE r.state[i] # "redirect"
    BY <2>1 DEF End
  <2>2. CASE r.state[i] = "redirect" /\ r.target[i] = loser
    BY <2>0, <2>2, <1>1, <1>4 DEF End
  <2>3. CASE r.state[i] = "redirect" /\ r.target[i] # loser
    <3>1. r.target[i] \in Ids /\ r.state[r.target[i]] = "serving" /\ i # loser
      BY <2>0, <2>3, <1>1, <1>2 DEF Sound
    <3> QED BY <2>0, <2>3, <3>1, <1>4 DEF End
  <2> QED BY <2>1, <2>2, <2>3
<1>8. Extends(r, s)
  BY <1>4, <1>5, <1>7 DEF Extends
<1> QED BY <1>1, <1>3, <1>6, <1>8 DEF Registers, Binds

\* Retiring an identity and taking that back: no redirect leads to it.
LEMMA GoneStep ==
  ASSUME IdentityIInv, MarkPublicJobGone \/ RestorePublicJob
  PROVE  /\ identities'[Issuer] \in Registry /\ Sound(identities'[Issuer])
         /\ Extends(identities[Issuer], identities'[Issuer])
         /\ \A d \in Copies : identities'[d] = identities[d]
         /\ \E i \in Ids : /\ Bound(bindings[Issuer], i)
                           /\ \A j \in Ids : identities'[Issuer].state[j] \in {"serving", "gone"} <=>
                                             identities[Issuer].state[j] \in {"serving", "gone"}
<1> DEFINE r == identities[Issuer]
<1> USE NoIdIsNone DEF IdentityIInv
<1>1. PICK i \in Ids, to \in {"serving", "gone"} :
        /\ r.state[i] \in {"serving", "gone"} /\ Bound(bindings[Issuer], i)
        /\ r.state[i] = "serving" => MayBeGone(r, i)
        /\ Registers(Issuer, [r EXCEPT !.state[i] = to])
  BY DEF MarkPublicJobGone, RestorePublicJob
<1> DEFINE s == [r EXCEPT !.state[i] = to]
<1>2. r \in Registry /\ Sound(r)
  OBVIOUS
<1>3. s \in Registry
  BY <1>2 DEF Registry
<1>4. /\ s.target = r.target /\ s.owner = r.owner /\ s.primary = r.primary
      /\ \A j \in Ids : s.state[j] = IF j = i THEN to ELSE r.state[j]
  BY <1>2 DEF Registry
<1>5. Minted(s) = Minted(r) /\ i \in Minted(r)
  BY <1>1, <1>4 DEF Minted
<1>6. Sound(s)
  <2>1. \A j \in Ids : s.state[j] = "redirect" => s.target[j] \in Ids /\ s.state[s.target[j]] = "serving"
    BY <1>1, <1>2, <1>4 DEF Sound, MayBeGone
  <2>2. \A j \in Ids : s.state[j] # "redirect" => s.target[j] = NoId
    BY <1>1, <1>2, <1>4 DEF Sound
  <2>3. \A j \in Minted(s) : s.primary[j] \in Paths /\ s.owner[s.primary[j]] = j
    BY <1>2, <1>4, <1>5 DEF Sound
  <2>4. \A p \in Paths : s.owner[p] # NoId => s.owner[p] \in Minted(s)
    BY <1>2, <1>4, <1>5 DEF Sound
  <2>5. \A p, q \in Paths : s.owner[p] # NoId /\ s.owner[q] # NoId /\ folded[p] = folded[q] => p = q
    BY <1>2, <1>4 DEF Sound
  <2> QED BY <2>1, <2>2, <2>3, <2>4, <2>5 DEF Sound
<1>7. Extends(r, s)
  <2>1. \A j \in Ids : s.state[j] = "redirect" <=> r.state[j] = "redirect"
    BY <1>1, <1>4
  <2>2. \A j \in Minted(r) : j \in Minted(s) /\ s.primary[j] = r.primary[j]
    BY <1>4, <1>5
  <2>3. \A p \in Paths : r.owner[p] # NoId => s.owner[p] = r.owner[p]
    BY <1>4
  <2> HIDE DEF s, r
  <2> QED BY <1>2, <1>3, <1>4, <2>1, <2>2, <2>3, KeepsRedirects
<1> QED BY <1>1, <1>3, <1>4, <1>6, <1>7 DEF Registers

-----------------------------------------------------------------------------
(* The invariant *)

\* The registry of an empty database is sound, and anything extends it.
LEMMA EmptyIsSound ==
  /\ EmptyRegistry \in Registry /\ Sound(EmptyRegistry) /\ BindingsSound(EmptyRegistry, NoBindings)
  /\ NoBindings \in [Ids -> Canonicals \cup {Unbound}]
  /\ \A s : Extends(EmptyRegistry, s)
<1>1. EmptyRegistry \in Registry /\ NoBindings \in [Ids -> Canonicals \cup {Unbound}]
  BY NoIdIsNone DEF EmptyRegistry, Registry, NoBindings
<1>2. Minted(EmptyRegistry) = {} /\ \A i \in Ids : ~Bound(NoBindings, i)
  BY DEF Minted, EmptyRegistry, NoBindings, Bound
<1>3. Sound(EmptyRegistry) /\ \A s : Extends(EmptyRegistry, s)
  BY <1>2 DEF Sound, Extends, EmptyRegistry
<1> QED BY <1>1, <1>2, <1>3 DEF BindingsSound

\* The first state of the registries.
LEMMA IdentityInit == InitIdentity => IdentityIInv
<1> SUFFICES ASSUME InitIdentity PROVE IdentityIInv
  OBVIOUS
<1>1. \A i \in Ids : EmptyRegistry.state[i] = "unissued"
  BY DEF EmptyRegistry
<1> QED BY <1>1, EmptyIsSound, NoIdIsNone DEF InitIdentity, IdentityIInv

\* A step of the authority that extends its registry keeps the invariant, when its
\* bindings follow.
LEMMA AuthorityStep ==
  ASSUME IdentityIInv, NEW b \in [Ids -> Canonicals \cup {Unbound}],
         identities' \in [Registries -> Registry], Sound(identities'[Issuer]),
         Extends(identities[Issuer], identities'[Issuer]),
         \A d \in Copies : identities'[d] = identities[d],
         bindings' = [bindings EXCEPT ![Issuer] = b],
         BindingsSound(identities'[Issuer], b),
         \A i \in Ids : identities'[Issuer].state[i] \in {"serving", "gone"} => Bound(b, i)
  PROVE  IdentityIInv'
<1> USE NoIdIsNone DEF IdentityIInv
<1>1. bindings' \in [Registries -> [Ids -> Canonicals \cup {Unbound}]] /\ bindings'[Issuer] = b
  OBVIOUS
<1>2. ASSUME NEW d \in Registries
      PROVE  Sound(identities'[d]) /\ BindingsSound(identities'[d], bindings'[d])
  <2>1. CASE d = Issuer
    BY <1>1, <2>1
  <2>2. CASE d # Issuer
    <3>1. d \in Copies /\ identities'[d] = identities[d] /\ bindings'[d] = bindings[d]
      BY <2>2 DEF Registries
    <3> QED BY <3>1
  <2> QED BY <2>1, <2>2
<1>3. ASSUME NEW d \in Copies PROVE Extends(identities'[d], identities'[Issuer])
  <2>1. /\ identities[d] \in Registry /\ identities[Issuer] \in Registry
        /\ identities'[Issuer] \in Registry /\ Sound(identities[d])
        /\ Extends(identities[d], identities[Issuer])
    OBVIOUS
  <2>2. Extends(identities[d], identities'[Issuer])
    BY <2>1, ExtendsFurther
  <2> QED BY <2>2
<1> QED BY <1>1, <1>2, <1>3

\* A step of a copy keeps it when the copy is still extended by the authority.
LEMMA CopyStep ==
  ASSUME IdentityIInv, NEW d \in Copies, NEW r \in Registry, Sound(r),
         NEW b \in [Ids -> Canonicals \cup {Unbound}], BindingsSound(r, b),
         Extends(r, identities[Issuer]),
         identities' = [identities EXCEPT ![d] = r], bindings' = [bindings EXCEPT ![d] = b]
  PROVE  IdentityIInv'
<1> USE NoIdIsNone DEF IdentityIInv
<1>1. /\ identities' \in [Registries -> Registry] /\ identities'[d] = r
      /\ bindings' \in [Registries -> [Ids -> Canonicals \cup {Unbound}]] /\ bindings'[d] = b
      /\ \A e \in Registries \ {d} : identities'[e] = identities[e] /\ bindings'[e] = bindings[e]
  OBVIOUS
<1>2. identities'[Issuer] = identities[Issuer] /\ bindings'[Issuer] = bindings[Issuer]
  BY <1>1
<1>3. \A e \in Registries : Sound(identities'[e]) /\ BindingsSound(identities'[e], bindings'[e])
  BY <1>1
<1>4. \A e \in Copies : Extends(identities'[e], identities'[Issuer])
  BY <1>1, <1>2
<1> QED BY <1>1, <1>2, <1>3, <1>4

\* What a step of the authority's registry does to its bindings.
LEMMA AllocateBinds ==
  ASSUME IdentityIInv, AllocatePublicJob
  PROVE  \E b \in [Ids -> Canonicals \cup {Unbound}] :
           /\ bindings' = [bindings EXCEPT ![Issuer] = b]
           /\ BindingsSound(identities'[Issuer], b)
           /\ \A i \in Ids : identities'[Issuer].state[i] \in {"serving", "gone"} => Bound(b, i)
<1> USE NoIdIsNone DEF IdentityIInv
<1>1. PICK i \in Ids, c \in Canonicals : \E p \in {i} \cup LegacyPaths :
        /\ Unclaimed(bindings[Issuer], i, c)
        /\ Registers(Issuer, [identities[Issuer] EXCEPT !.state[i] = "serving", !.owner[p] = i,
                                                         !.primary[i] = p])
        /\ Binds(Issuer, [bindings[Issuer] EXCEPT ![i] = c])
  BY DEF AllocatePublicJob
<1> DEFINE b == [bindings[Issuer] EXCEPT ![i] = c]
<1>2. /\ b \in [Ids -> Canonicals \cup {Unbound}]
      /\ \A j \in Ids : b[j] = IF j = i THEN c ELSE bindings[Issuer][j]
  OBVIOUS
<1>3. \A j \in Ids : identities'[Issuer].state[j] = IF j = i THEN "serving" ELSE identities[Issuer].state[j]
  BY <1>1 DEF Registers, Registry
<1>4. c # Unbound
  BY IdentityAssumption
<1>5. \A j, k \in Ids : Bound(b, j) /\ b[j] = b[k] => j = k
  BY <1>1, <1>2, <1>4 DEF Unclaimed, Bound, BindingsSound
<1>6. \A j \in Ids : Bound(b, j) => identities'[Issuer].state[j] \in {"serving", "gone"}
  BY <1>2, <1>3 DEF Bound, BindingsSound
<1>7. \A j \in Ids : identities'[Issuer].state[j] \in {"serving", "gone"} => Bound(b, j)
  BY <1>2, <1>3, <1>4 DEF Bound
<1> QED BY <1>1, <1>2, <1>5, <1>6, <1>7 DEF Binds, BindingsSound

\* A merger leaves the bindings sound beside the registry it makes.
LEMMA MergeBinds ==
  ASSUME IdentityIInv, MergePublicJobs
  PROVE  \E b \in [Ids -> Canonicals \cup {Unbound}] :
           /\ bindings' = [bindings EXCEPT ![Issuer] = b]
           /\ BindingsSound(identities'[Issuer], b)
           /\ \A i \in Ids : identities'[Issuer].state[i] \in {"serving", "gone"} => Bound(b, i)
<1> USE NoIdIsNone DEF IdentityIInv
<1>1. PICK loser \in Ids, survivor \in Ids :
        /\ identities'[Issuer] = Redirected(identities[Issuer], loser, survivor)
        /\ bindings' = [bindings EXCEPT ![Issuer] = [@ EXCEPT ![loser] = Unbound]]
  BY MergeStep
<1> DEFINE b == [bindings[Issuer] EXCEPT ![loser] = Unbound]
<1>2. /\ b \in [Ids -> Canonicals \cup {Unbound}]
      /\ \A j \in Ids : b[j] = IF j = loser THEN Unbound ELSE bindings[Issuer][j]
  OBVIOUS
<1>3. \A j \in Ids : identities'[Issuer].state[j] = IF j = loser THEN "redirect" ELSE identities[Issuer].state[j]
  BY <1>1 DEF Redirected, Registry
<1>4. \A j, k \in Ids : Bound(b, j) /\ b[j] = b[k] => j = k
  BY <1>2 DEF Bound, BindingsSound
<1>5. \A j \in Ids : Bound(b, j) <=> identities'[Issuer].state[j] \in {"serving", "gone"}
  BY <1>2, <1>3 DEF Bound, BindingsSound
<1>6. bindings' = [bindings EXCEPT ![Issuer] = b]
  BY <1>1
<1> QED BY <1>2, <1>4, <1>5, <1>6 DEF BindingsSound

\* Every step keeps the registries well formed.
LEMMA IdentityNext == IdentityIInv /\ [NextIdentity]_identityVars => IdentityIInv'
<1> SUFFICES ASSUME IdentityIInv, [NextIdentity]_identityVars PROVE IdentityIInv'
  OBVIOUS
<1>T. /\ identities \in [Registries -> Registry]
      /\ bindings \in [Registries -> [Ids -> Canonicals \cup {Unbound}]]
      /\ \A d \in Registries : Sound(identities[d]) /\ BindingsSound(identities[d], bindings[d])
      /\ \A i \in Ids : identities[Issuer].state[i] \in {"serving", "gone"} => Bound(bindings[Issuer], i)
      /\ bindings[Issuer] \in [Ids -> Canonicals \cup {Unbound}]
      /\ Issuer \in Registries /\ Copies \subseteq Registries /\ Issuer \notin Copies
  BY NoIdIsNone DEF IdentityIInv
<1>R. ASSUME NEW r, identities' = [identities EXCEPT ![Issuer] = r], r \in Registry
      PROVE  identities' \in [Registries -> Registry]
  BY <1>T, <1>R
<1>B. bindings = [bindings EXCEPT ![Issuer] = bindings[Issuer]]
  BY <1>T
<1>1. CASE AllocatePublicJob
  <2>1. identities' \in [Registries -> Registry]
    BY <1>1, <1>T, AllocateStep DEF AllocatePublicJob, Registers
  <2> QED BY <1>1, <2>1, AllocateStep, AllocateBinds, AuthorityStep
<1>2. CASE RegisterPublicJobAlias
  <2>1. identities' \in [Registries -> Registry] /\ identities'[Issuer].state = identities[Issuer].state
        /\ bindings' = bindings
    BY <1>2, <1>T, AliasStep DEF RegisterPublicJobAlias, Registers, Registry
  <2>2. BindingsSound(identities'[Issuer], bindings[Issuer])
    BY <2>1, <1>T DEF BindingsSound
  <2> QED BY <1>2, <2>1, <2>2, <1>T, <1>B, AliasStep, AuthorityStep
<1>3. CASE MergePublicJobs
  <2>1. identities' \in [Registries -> Registry]
    BY <1>3, <1>T, MergeStep DEF MergePublicJobs, Registers
  <2> QED BY <1>3, <2>1, MergeStep, MergeBinds, AuthorityStep
<1>4. CASE MarkPublicJobGone \/ RestorePublicJob
  <2>1. identities' \in [Registries -> Registry] /\ bindings' = bindings
    BY <1>4, <1>T, GoneStep DEF MarkPublicJobGone, RestorePublicJob, Registers
  <2>2. \A j \in Ids : identities'[Issuer].state[j] \in {"serving", "gone"} <=>
                       identities[Issuer].state[j] \in {"serving", "gone"}
    BY <1>4, GoneStep
  <2>3. BindingsSound(identities'[Issuer], bindings[Issuer])
    BY <2>2, <1>T DEF BindingsSound
  <2>4. \A i \in Ids : identities'[Issuer].state[i] \in {"serving", "gone"} => Bound(bindings[Issuer], i)
    BY <2>2, <1>T
  <2> QED BY <1>4, <2>1, <2>3, <2>4, <1>T, <1>B, GoneStep, AuthorityStep
<1>5. CASE RebindPublicJob
  <2>1. PICK i \in Ids, c \in Canonicals :
          /\ Bound(bindings[Issuer], i) /\ Unclaimed(bindings[Issuer], i, c)
          /\ Binds(Issuer, [bindings[Issuer] EXCEPT ![i] = c]) /\ UNCHANGED identities
    BY <1>5 DEF RebindPublicJob
  <2> DEFINE b == [bindings[Issuer] EXCEPT ![i] = c]
  <2>2. /\ b \in [Ids -> Canonicals \cup {Unbound}] /\ c # Unbound
        /\ \A j \in Ids : b[j] = IF j = i THEN c ELSE bindings[Issuer][j]
    BY <1>T, IdentityAssumption
  <2>3. \A j, k \in Ids : Bound(b, j) /\ b[j] = b[k] => j = k
    BY <1>T, <2>1, <2>2 DEF Unclaimed, Bound, BindingsSound
  <2>4. \A j \in Ids : Bound(b, j) <=> Bound(bindings[Issuer], j)
    BY <2>1, <2>2 DEF Bound
  <2>5. BindingsSound(identities[Issuer], b)
    BY <1>T, <2>3, <2>4 DEF BindingsSound
  <2>6. Extends(identities[Issuer], identities[Issuer])
    BY <1>T, ExtendsItself
  <2> HIDE DEF b
  <2> QED BY <1>T, <2>1, <2>2, <2>4, <2>5, <2>6, AuthorityStep DEF Binds, b
<1>6. ASSUME NEW d \in Copies, ImportPublicJobRegistry(d) PROVE IdentityIInv'
  <2>1. /\ identities' = [identities EXCEPT ![d] = identities[Issuer]] /\ bindings' = bindings
        /\ identities[d] = EmptyRegistry /\ bindings = [bindings EXCEPT ![d] = bindings[d]]
    BY <1>6, <1>T DEF ImportPublicJobRegistry, Registers
  <2>2. \A i \in Ids : ~Bound(bindings[d], i)
    BY <1>T, <2>1 DEF BindingsSound, EmptyRegistry
  <2>3. BindingsSound(identities[Issuer], bindings[d])
    BY <2>2 DEF BindingsSound
  <2>4. Extends(identities[Issuer], identities[Issuer])
    BY <1>T, ExtendsItself
  <2> QED BY <1>T, <2>1, <2>3, <2>4, CopyStep
<1>7. ASSUME NEW d \in Copies, BindImportedPublicJob(d) PROVE IdentityIInv'
  <2>1. PICK i \in Ids, c \in Canonicals :
          /\ identities[d].state[i] \in {"serving", "gone"}
          /\ Unclaimed(bindings[d], i, c)
          /\ Binds(d, [bindings[d] EXCEPT ![i] = c]) /\ UNCHANGED identities
    BY <1>7 DEF BindImportedPublicJob
  <2> DEFINE b == [bindings[d] EXCEPT ![i] = c]
  <2>2. /\ b \in [Ids -> Canonicals \cup {Unbound}] /\ c # Unbound
        /\ \A j \in Ids : b[j] = IF j = i THEN c ELSE bindings[d][j]
    BY <1>T, IdentityAssumption
  <2>3. \A j, k \in Ids : Bound(b, j) /\ b[j] = b[k] => j = k
    BY <1>T, <2>1, <2>2 DEF Unclaimed, Bound, BindingsSound
  <2>4. BindingsSound(identities[d], b)
    BY <1>T, <2>1, <2>2, <2>3 DEF Bound, BindingsSound
  <2>5. Extends(identities[d], identities[Issuer]) /\ identities = [identities EXCEPT ![d] = identities[d]]
    BY <1>T DEF IdentityIInv
  <2> HIDE DEF b
  <2> QED BY <1>T, <2>1, <2>2, <2>4, <2>5, CopyStep DEF Binds, b
<1>8. ASSUME NEW d \in Copies, BuildsAnew(d) PROVE IdentityIInv'
  BY <1>8, EmptyIsSound, CopyStep DEF BuildsAnew, Registers, Binds
<1>9. CASE UNCHANGED identityVars
  BY <1>9 DEF IdentityIInv, identityVars
<1> QED BY <1>1, <1>2, <1>3, <1>4, <1>5, <1>6, <1>7, <1>8, <1>9 DEF NextIdentity

\* The registries and bindings of all databases are sound in every reachable state.
THEOREM IdentityInvariant == SpecIdentity => []IdentityIInv
<1> QED BY IdentityInit, IdentityNext, PTL DEF SpecIdentity

-----------------------------------------------------------------------------
(* The properties of the registry *)

\* Registries that are well formed reconcile, the copies too.
LEMMA ReconcilesFromIInv == IdentityIInv => RegistryReconciles
<1> SUFFICES ASSUME IdentityIInv, NEW d \in Registries, NEW i \in Minted(identities[d])
             PROVE  LET r == identities[d]  own == bindings[d]
                    IN  /\ r.state[i] = "redirect" => r.state[r.target[i]] = "serving" /\ ~Bound(own, i)
                        /\ r.state[i] # "redirect" /\ d = Issuer => Bound(own, i)
                        /\ Bound(own, i) => Unclaimed(own, i, own[i])
  BY DEF RegistryReconciles
<1>1. i \in Ids /\ identities[d] \in Registry /\ identities[d].state[i] # "unissued"
  BY DEF Minted, IdentityIInv
<1>2. identities[d].state[i] \in {"serving", "redirect", "gone"}
  BY <1>1 DEF Registry
<1>3. identities[d].state[i] = "redirect" => identities[d].state[identities[d].target[i]] = "serving"
  BY <1>1 DEF IdentityIInv, Sound
<1>4. identities[d].state[i] = "redirect" => ~Bound(bindings[d], i)
  BY <1>1 DEF IdentityIInv, BindingsSound
<1>5. Bound(bindings[d], i) => Unclaimed(bindings[d], i, bindings[d][i])
  BY <1>1 DEF IdentityIInv, BindingsSound, Unclaimed
<1>6. identities[d].state[i] # "redirect" /\ d = Issuer => Bound(bindings[d], i)
  BY <1>1, <1>2 DEF IdentityIInv
<1> QED BY <1>3, <1>4, <1>5, <1>6

\* What a database says of a path and of an opportunity agree.
LEMMA LeadBackFromIInv == IdentityIInv => LinksLeadBack
<1> SUFFICES ASSUME IdentityIInv, NEW d \in Registries, NEW i \in Minted(identities[d]),
                    identities[d].state[i] = "serving", Bound(bindings[d], i)
             PROVE  \E p \in Paths :
                      /\ PrimaryPaths(d, bindings[d][i]) = {p}
                      /\ Answer(d, p) = [kind |-> "serve", job |-> i, at |-> p, canonical |-> bindings[d][i]]
  BY DEF LinksLeadBack
<1> DEFINE r == identities[d]  own == bindings[d]  p == r.primary[i]
<1>1. i \in Ids /\ r \in Registry /\ Sound(r) /\ BindingsSound(r, own)
  BY DEF Minted, IdentityIInv
<1>2. p \in Paths /\ r.owner[p] = i /\ i # NoId
  BY <1>1, NoIdIsNone DEF Sound
<1>3. PrimaryPaths(d, own[i]) = {p}
  <2>1. {j \in Ids : own[j] = own[i] /\ r.state[j] = "serving"} = {i}
    BY <1>1 DEF BindingsSound
  <2> QED BY <2>1 DEF PrimaryPaths
<1>4. p \in Spelled(r, p)
  BY <1>2 DEF Spelled
<1>5. Answer(d, p) = [kind |-> "serve", job |-> i, at |-> p, canonical |-> own[i]]
  BY <1>2, <1>4 DEF Answer, ResolvePublicJobPath
<1> QED BY <1>2, <1>3, <1>5

\* Where a copy sends a path, the issuer ends where it ends for the path itself.
LEMMA LeadHomeFromIInv == IdentityIInv => CopiesLeadHome
<1> SUFFICES ASSUME IdentityIInv, NEW d \in Copies, NEW p \in Paths, Answer(d, p).kind # "unknown"
             PROVE  Answer(Issuer, Answer(d, p).at).job = Answer(Issuer, p).job
  BY DEF CopiesLeadHome
<1> DEFINE r == identities[d]  s == identities[Issuer]  i == Found(r, p)  e == End(r, i)
<1>1. r \in Registry /\ s \in Registry /\ Sound(r) /\ Sound(s) /\ Extends(r, s)
  BY NoIdIsNone DEF IdentityIInv
<1>2. Spelled(r, p) # {} /\ Answer(d, p).at = r.primary[e]
  BY <1>1, AnswerIs DEF Answer
<1>3. i \in Minted(r) /\ e \in Minted(r) /\ e \in Minted(s)
  BY <1>1, <1>2, SpellingIsOwned, EndServes DEF Extends
<1>4. Answer(Issuer, p).job = End(s, i)
  <2>1. Spelled(s, p) # {} /\ Found(s, p) = i
    BY <1>1, <1>2, FindsTheSame
  <2> QED BY <1>1, <2>1, AnswerIs DEF Answer
<1>5. Answer(Issuer, r.primary[e]).job = End(s, e)
  <2>1. r.primary[e] \in Paths /\ s.owner[r.primary[e]] = e /\ e # NoId
    BY <1>1, <1>3, NoIdIsNone DEF Sound, Extends, Minted
  <2> DEFINE q == r.primary[e]
  <2>2. Spelling(s, q) = q /\ q \in Spelled(s, q)
    BY <2>1 DEF Spelling, Spelled
  <2>3. q \in Paths /\ Spelled(s, q) # {} /\ Found(s, q) = e
    BY <2>1, <2>2 DEF Found
  <2> HIDE DEF q, e
  <2>4. ResolvePublicJobPath(s, bindings[Issuer], q).job = End(s, Found(s, q))
    BY <1>1, <2>3, AnswerIs
  <2> QED BY <2>3, <2>4 DEF Answer, q
<1>6. End(s, e) = End(s, i)
  BY <1>1, <1>3 DEF Extends
<1> QED BY <1>2, <1>4, <1>5, <1>6

\* A step leaves the authority's registry alone or extends it.
LEMMA AuthorityExtends ==
  ASSUME IdentityIInv, [NextIdentity]_identityVars
  PROVE  Extends(identities[Issuer], identities'[Issuer])
<1>1. identities[Issuer] \in Registry /\ Sound(identities[Issuer])
  BY NoIdIsNone DEF IdentityIInv
<1>2. CASE identities'[Issuer] = identities[Issuer]
  BY <1>1, <1>2, ExtendsItself
<1>3. CASE AllocatePublicJob
  BY <1>3, AllocateStep
<1>4. CASE RegisterPublicJobAlias
  BY <1>4, AliasStep
<1>5. CASE MergePublicJobs
  BY <1>5, MergeStep
<1>6. CASE MarkPublicJobGone \/ RestorePublicJob
  BY <1>6, GoneStep
<1>7. ASSUME NEW d \in Copies,
             ImportPublicJobRegistry(d) \/ BindImportedPublicJob(d) \/ BuildsAnew(d)
      PROVE  identities'[Issuer] = identities[Issuer]
  BY <1>7, NoIdIsNone
     DEF ImportPublicJobRegistry, BindImportedPublicJob, BuildsAnew, Registers, IdentityIInv
<1>8. RebindPublicJob \/ UNCHANGED identityVars => identities'[Issuer] = identities[Issuer]
  BY DEF RebindPublicJob, identityVars
<1> QED BY <1>2, <1>3, <1>4, <1>5, <1>6, <1>7, <1>8 DEF NextIdentity

\* What a path answers stays, or becomes what its job was merged into.
LEMMA KeptByStep ==
  ASSUME IdentityIInv, [NextIdentity]_identityVars, NEW p \in Paths, Answer(Issuer, p).kind # "unknown"
  PROVE  LET e == Answer(Issuer, p).job  e2 == Answer(Issuer, p)'.job
         IN  /\ Answer(Issuer, p)'.kind # "unknown"
             /\ e2 = e \/ identities[Issuer].target'[e] = e2
<1> DEFINE r == identities[Issuer]  s == identities'[Issuer]  i == Found(r, p)
<1>1. r \in Registry /\ s \in Registry /\ Sound(r) /\ Sound(s) /\ Extends(r, s)
  BY NoIdIsNone, IdentityNext, AuthorityExtends DEF IdentityIInv
<1>2. Spelled(r, p) # {} /\ Answer(Issuer, p).job = End(r, i)
  BY <1>1, AnswerIs DEF Answer
<1>3. Spelled(s, p) # {} /\ Found(s, p) = i
  BY <1>1, <1>2, FindsTheSame
<1>4. /\ ResolvePublicJobPath(s, bindings'[Issuer], p).job = End(s, i)
      /\ ResolvePublicJobPath(s, bindings'[Issuer], p).kind # "unknown"
  BY <1>1, <1>3, AnswerIs
<1>5. Answer(Issuer, p)' = ResolvePublicJobPath(s, bindings'[Issuer], p)
  BY DEF Answer, ResolvePublicJobPath, Spelled, Bound, Unknown
<1>6. End(s, End(r, i)) = End(s, i)
  BY <1>1, <1>2, SpellingIsOwned DEF Extends
<1> QED BY <1>2, <1>4, <1>5, <1>6 DEF End

\* In every database a redirect leads in one hop to an identity that serves, an opportunity
\* has one identity and its path leads back to it; a copy built long ago sends a path where
\* the authority ends it today; and a published link never becomes unknown nor leads to a
\* job its own was not merged into: for any number of jobs, paths, opportunities and copies.
THEOREM LinksTheorem == SpecIdentity => LinksSound
<1>1. IdentityIInv => RegistryReconciles /\ LinksLeadBack /\ CopiesLeadHome
  BY ReconcilesFromIInv, LeadBackFromIInv, LeadHomeFromIInv
<1>2. IdentityIInv /\ [NextIdentity]_identityVars =>
        [identities' # identities =>
           \A p \in Paths :
             Answer(Issuer, p).kind # "unknown" =>
               LET e == Answer(Issuer, p).job  e2 == Answer(Issuer, p)'.job
               IN  /\ Answer(Issuer, p)'.kind # "unknown"
                   /\ e2 = e \/ identities[Issuer].target'[e] = e2]_identityVars
  BY KeptByStep
<1> QED BY <1>1, <1>2, IdentityInvariant, PTL DEF SpecIdentity, LinksSound, LinksAreKept

-----------------------------------------------------------------------------
(* The owners of a database.  A file has one locked description, a process *)
(* has open, strays apart, at most the one its record names and none after *)
(* a close whose outcome is unknown; where two records name one            *)
(* description one of them can only be cleaned up.                         *)

Working == {"coordination_open", "native_owned", "owned", "lost"}
Cleaning == {"cleanup_pending", "cleanup_indeterminate"}

Ownership == [state : {"none", "opening"} \cup Working \cup Cleaning,
              opening : BOOLEAN, failed : BOOLEAN, cleaner : BOOLEAN, leased : BOOLEAN,
              descriptor : Descriptions \cup {NoOne}, database : Databases \cup {NoFile}]

OwnershipTyped ==
  /\ kernel \in [Descriptions -> [file : LockFiles \cup {NoFile}, locked : BOOLEAN]]
  /\ descriptors \in [Processes -> SUBSET Descriptions]
  /\ strays \in [Processes -> SUBSET Descriptions]
  /\ owner \in [Processes -> Ownership]
  /\ database \in Databases

\* What is open has a file; a locked file has one locked description.
KernelSound ==
  /\ \A p \in Processes : \A d \in descriptors[p] : kernel[d].file # NoFile
  /\ \A d \in Descriptions : kernel[d].file = NoFile => kernel[d] = NotOpen
  /\ \A d, e \in Descriptions :
       kernel[d].locked /\ kernel[e].locked /\ kernel[d].file = kernel[e].file => d = e

RecordsSound ==
  /\ \A p \in Processes : descriptors[p] \subseteq {owner[p].descriptor}
  /\ \A p \in Processes : owner[p].state \in {"none", "opening"} => owner[p].descriptor = NoOne
  /\ \A p \in Processes : owner[p].state = "cleanup_indeterminate" => descriptors[p] = {}
  /\ \A p \in Processes : owner[p].state \in Working => owner[p].descriptor \in descriptors[p]
  /\ \A p \in Processes : owner[p].state \in {"native_owned", "owned"} => kernel[owner[p].descriptor].locked
  /\ \A p, q \in Processes :
       owner[p].descriptor = owner[q].descriptor /\ owner[p].state \in Working
       /\ owner[q].state \in Working => p = q

OwnershipIInv == OwnershipTyped /\ KernelSound /\ RecordsSound

\* The property follows from the inductive invariant.
LEMMA OwnershipFromIInv == OwnershipIInv => OwnershipSound
<1> SUFFICES ASSUME OwnershipIInv PROVE OwnershipSound
  OBVIOUS
<1>1. ASSUME NEW p \in Processes, NEW q \in Processes, Authority(p), Authority(q) PROVE p = q
  <2>1. /\ owner[p].state = "owned" /\ owner[q].state = "owned"
        /\ kernel[owner[p].descriptor].file = kernel[owner[q].descriptor].file
    BY <1>1 DEF Authority, Fits
  <2>2. /\ owner[p].descriptor \in Descriptions /\ owner[q].descriptor \in Descriptions
        /\ kernel[owner[p].descriptor].locked /\ kernel[owner[q].descriptor].locked
    BY <2>1 DEF OwnershipIInv, OwnershipTyped, RecordsSound, Working
  <2>3. owner[p].descriptor = owner[q].descriptor
    BY <2>1, <2>2 DEF OwnershipIInv, KernelSound
  <2> QED BY <2>1, <2>3 DEF OwnershipIInv, RecordsSound, Working
<1>2. NoLockForgotten
  BY DEF NoLockForgotten, OwnershipIInv, RecordsSound
<1> QED BY <1>1, <1>2 DEF OwnershipSound, OneAuthority

\* The first state of the owners.
LEMMA OwnershipInit == InitOwnership => OwnershipIInv
<1> SUFFICES ASSUME InitOwnership PROVE OwnershipIInv
  OBVIOUS
<1> USE OwnershipAssumption DEF InitOwnership, NotOpen, NoRecord, Working, Cleaning
<1>1. OwnershipTyped
  BY DEF OwnershipTyped, Ownership
<1>2. KernelSound
  BY DEF KernelSound
<1>3. RecordsSound
  BY DEF RecordsSound
<1> QED BY <1>1, <1>2, <1>3 DEF OwnershipIInv

\* A description that some process has open survives what another process closes.
LEMMA SurviveKeeps ==
  ASSUME OwnershipTyped, KernelSound,
         NEW held \in [Processes -> SUBSET Descriptions], NEW left \in [Processes -> SUBSET Descriptions],
         \A p \in Processes : held[p] \subseteq descriptors[p], Survive(held, left)
  PROVE  /\ kernel' \in [Descriptions -> [file : LockFiles \cup {NoFile}, locked : BOOLEAN]]
         /\ descriptors' = held /\ strays' = left
         /\ \A p \in Processes : \A d \in held[p] : kernel'[d] = kernel[d]
         /\ KernelSound'
<1>1. /\ descriptors' = held /\ strays' = left
      /\ \A d \in Descriptions :
           kernel'[d] = IF \E p \in Processes : d \in held[p] \cup left[p] THEN kernel[d] ELSE NotOpen
      /\ kernel' \in [Descriptions -> [file : LockFiles \cup {NoFile}, locked : BOOLEAN]]
  BY DEF Survive, OwnershipTyped, NotOpen
<1>2. \A p \in Processes : \A d \in held[p] : kernel'[d] = kernel[d]
  BY <1>1
<1>3. \A d \in Descriptions : kernel'[d] = kernel[d] \/ kernel'[d] = NotOpen
  BY <1>1
<1>4. KernelSound'
  <2>1. \A p \in Processes : \A d \in descriptors'[p] : kernel'[d].file # NoFile
    BY <1>1, <1>2 DEF KernelSound
  <2>2. \A d \in Descriptions : kernel'[d].file = NoFile => kernel'[d] = NotOpen
    BY <1>3 DEF KernelSound, NotOpen
  <2>3. \A d, e \in Descriptions :
          kernel'[d].locked /\ kernel'[e].locked /\ kernel'[d].file = kernel'[e].file => d = e
    BY <1>3 DEF KernelSound, NotOpen
  <2> QED BY <2>1, <2>2, <2>3 DEF KernelSound
<1> QED BY <1>1, <1>2, <1>4

\* A record that is at rest asks nothing of the others.
LEMMA AtRest ==
  ASSUME OwnershipIInv, NEW p \in Processes,
         \A q \in Processes \ {p} : /\ owner'[q] = owner[q] /\ descriptors'[q] = descriptors[q]
                                    /\ \A d \in descriptors[q] : kernel'[d] = kernel[d],
         descriptors'[p] \subseteq {owner'[p].descriptor}, owner'[p].state \notin Working,
         owner'[p].state \in {"none", "opening"} => owner'[p].descriptor = NoOne,
         owner'[p].state = "cleanup_indeterminate" => descriptors'[p] = {}
  PROVE  RecordsSound'
<1> USE DEF OwnershipIInv, RecordsSound
<1>1. \A q \in Processes : descriptors'[q] \subseteq {owner'[q].descriptor}
  OBVIOUS
<1>2. \A q \in Processes : /\ owner'[q].state \in {"none", "opening"} => owner'[q].descriptor = NoOne
                           /\ owner'[q].state = "cleanup_indeterminate" => descriptors'[q] = {}
  OBVIOUS
<1>3. \A q \in Processes : owner'[q].state \in Working =>
        q # p /\ owner'[q] = owner[q] /\ owner'[q].descriptor \in descriptors'[q]
  OBVIOUS
<1>4. \A q \in Processes : owner'[q].state \in {"native_owned", "owned"} => kernel'[owner'[q].descriptor].locked
  BY <1>3 DEF Working
<1>5. \A q, r \in Processes :
        owner'[q].descriptor = owner'[r].descriptor /\ owner'[q].state \in Working
        /\ owner'[r].state \in Working => q = r
  BY <1>3
<1> QED BY <1>1, <1>2, <1>3, <1>4, <1>5

\* A process gives up what its descriptor names and has a record that asks for nothing.
LEMMA LeavingKeeps ==
  ASSUME OwnershipIInv, NEW p \in Processes, UNCHANGED database, NEW after \in Ownership,
         after.state \notin Working,
         after.state \in {"none", "opening"} => after.descriptor = NoOne,
         NEW left \in [Processes -> SUBSET Descriptions],
         Survive([descriptors EXCEPT ![p] = @ \ {owner[p].descriptor}], left),
         owner' = [owner EXCEPT ![p] = after]
  PROVE  OwnershipIInv'
<1> DEFINE held == [descriptors EXCEPT ![p] = @ \ {owner[p].descriptor}]
<1>0. OwnershipTyped /\ KernelSound /\ RecordsSound
  BY DEF OwnershipIInv
<1>1. /\ held \in [Processes -> SUBSET Descriptions] /\ \A q \in Processes : held[q] \subseteq descriptors[q]
      /\ held[p] = {} /\ \A q \in Processes \ {p} : held[q] = descriptors[q]
  BY <1>0 DEF OwnershipTyped, RecordsSound, Ownership
<1>2. Survive(held, left)
  OBVIOUS
<1> HIDE DEF held
<1>3. /\ descriptors' = held /\ strays' = left /\ KernelSound'
      /\ kernel' \in [Descriptions -> [file : LockFiles \cup {NoFile}, locked : BOOLEAN]]
      /\ \A q \in Processes : \A d \in held[q] : kernel'[d] = kernel[d]
  BY <1>0, <1>1, <1>2, SurviveKeeps
<1>4. owner' \in [Processes -> Ownership] /\ owner'[p] = after
      /\ \A q \in Processes \ {p} : owner'[q] = owner[q]
  BY <1>0 DEF OwnershipTyped
<1>5. OwnershipTyped'
  BY <1>0, <1>1, <1>3, <1>4 DEF OwnershipTyped
<1>6. RecordsSound'
  BY <1>1, <1>3, <1>4, AtRest
<1> QED BY <1>3, <1>5, <1>6 DEF OwnershipIInv

\* A process replaces its record by one that has nothing open, closed what it had, and may
\* do so even when the closing failed with a record that is to be cleaned up.
LEMMA ClosingKeeps ==
  ASSUME OwnershipIInv, NEW p \in Processes, UNCHANGED database,
         NEW record \in Ownership,
         record.state = owner[p].state, record.descriptor = owner[p].descriptor,
         NEW closed, closed \in {NoRecord, Opening},
         Closing(p, record, closed)
  PROVE  OwnershipIInv'
<1> USE OwnershipAssumption
<1>0. /\ OwnershipTyped /\ KernelSound /\ RecordsSound
      /\ closed.state \in {"none", "opening"} /\ closed.descriptor = NoOne
      /\ closed \in Ownership
  <2>1. OwnershipTyped /\ KernelSound /\ RecordsSound /\ database \in Databases
    BY DEF OwnershipIInv, OwnershipTyped
  <2>2. CASE closed = NoRecord
    BY <2>1, <2>2 DEF NoRecord, Ownership
  <2>3. CASE closed = Opening
    BY <2>1, <2>3 DEF NoRecord, Opening, Ownership
  <2> QED BY <2>2, <2>3
<1>1. CASE /\ record.descriptor = NoOne \/ record.state = "cleanup_indeterminate"
           /\ owner' = [owner EXCEPT ![p] = closed] /\ UNCHANGED <<kernel, descriptors, strays>>
  <2>2. descriptors[p] = {}
    BY <1>0, <1>1 DEF RecordsSound, OwnershipTyped
  <2>3. OwnershipTyped' /\ KernelSound'
    BY <1>0, <1>1 DEF OwnershipTyped, KernelSound
  <2>4. RecordsSound'
    BY <1>0, <1>1, <2>2 DEF RecordsSound, OwnershipTyped, Working
  <2> QED BY <2>3, <2>4 DEF OwnershipIInv
<1>2. CASE Closed(p, owner[p].descriptor) /\ owner' = [owner EXCEPT ![p] = closed]
  <2>1. strays \in [Processes -> SUBSET Descriptions] /\ closed.state \notin Working
    BY <1>0 DEF OwnershipTyped, Working
  <2> QED BY <1>0, <1>2, <2>1, LeavingKeeps DEF Closed
<1>3. CASE /\ owner' = [owner EXCEPT ![p] = [record EXCEPT !.state = "cleanup_pending"]]
           /\ UNCHANGED <<kernel, descriptors, strays>>
           /\ record.state # "cleanup_indeterminate"
  <2> DEFINE after == [record EXCEPT !.state = "cleanup_pending"]
  <2>1. after \in Ownership /\ after.state = "cleanup_pending" /\ after.descriptor = owner[p].descriptor
    BY DEF Ownership, Cleaning
  <2> HIDE DEF after
  <2>2. owner'[p] = after /\ \A q \in Processes \ {p} : owner'[q] = owner[q]
    BY <1>0, <1>3 DEF OwnershipTyped, after
  <2>3. OwnershipTyped' /\ KernelSound'
    BY <1>0, <1>3, <2>1 DEF OwnershipTyped, KernelSound, after
  <2>4. RecordsSound'
    BY <1>0, <1>3, <2>1, <2>2, AtRest DEF RecordsSound, Working
  <2> QED BY <2>3, <2>4 DEF OwnershipIInv
<1>4. CASE /\ owner' = [owner EXCEPT ![p] = [record EXCEPT !.state = "cleanup_indeterminate"]]
           /\ Doubtful(p, record.descriptor)
           /\ record.descriptor # NoOne
  <2> DEFINE after == [record EXCEPT !.state = "cleanup_indeterminate"]
  <2>1. after \in Ownership /\ after.state = "cleanup_indeterminate"
    BY DEF Ownership, Cleaning
  <2> HIDE DEF after
  <2>2. owner' = [owner EXCEPT ![p] = after] /\ after.state \notin Working
        /\ after.state \notin {"none", "opening"}
    BY <1>4, <2>1 DEF after, Working
  <2>3. CASE Closed(p, owner[p].descriptor)
    <3>1. strays \in [Processes -> SUBSET Descriptions]
      BY <1>0 DEF OwnershipTyped
    <3> QED BY <2>1, <2>2, <2>3, <3>1, LeavingKeeps DEF Closed
  <2>4. CASE Survive([descriptors EXCEPT ![p] = @ \ {owner[p].descriptor}],
                     [strays EXCEPT ![p] = @ \cup {owner[p].descriptor}])
    <3> DEFINE left == [strays EXCEPT ![p] = @ \cup {owner[p].descriptor}]
    <3>1. left \in [Processes -> SUBSET Descriptions]
      <4>1. owner[p].descriptor \in Descriptions
        BY <1>0, <1>4 DEF OwnershipTyped, Ownership
      <4> QED BY <1>0, <4>1 DEF OwnershipTyped
    <3>2. Survive([descriptors EXCEPT ![p] = @ \ {owner[p].descriptor}], left)
      BY <2>4
    <3> HIDE DEF left
    <3> QED BY <2>1, <2>2, <3>1, <3>2, LeavingKeeps
  <2> QED BY <1>4, <2>3, <2>4 DEF Doubtful
<1> QED BY <1>1, <1>2, <1>3, <1>4 DEF Closing

\* A step that changes only the record of one process, to a state that asks no more of it.
LEMMA RecordKeeps ==
  ASSUME OwnershipIInv, NEW p \in Processes, UNCHANGED <<kernel, descriptors, strays>>, database' \in Databases,
         NEW record \in Ownership,
         owner' = [owner EXCEPT ![p] = record],
         record.descriptor = owner[p].descriptor,
         record.state \in {"none", "opening"} => owner[p].state \in {"none", "opening"},
         record.state = "cleanup_indeterminate" => owner[p].state = "cleanup_indeterminate",
         record.state \in Working => owner[p].state \in Working,
         record.state \in {"native_owned", "owned"} => owner[p].state \in {"native_owned", "owned"}
  PROVE  OwnershipIInv'
<1>1. /\ OwnershipTyped /\ KernelSound /\ RecordsSound
      /\ \A q \in Processes : owner'[q] = IF q = p THEN record ELSE owner[q]
  BY DEF OwnershipIInv, OwnershipTyped
<1>2. OwnershipTyped' /\ KernelSound'
  BY <1>1 DEF OwnershipTyped, KernelSound
<1>3. RecordsSound'
  BY <1>1 DEF RecordsSound
<1> QED BY <1>2, <1>3 DEF OwnershipIInv

\* Opening the coordination file adds one description that nobody has locked.
LEMMA OpenKeeps ==
  ASSUME OwnershipIInv, NEW p \in Processes, OpenCoordination(p)
  PROVE  OwnershipIInv'
<1> USE OwnershipAssumption
<1>0. OwnershipTyped /\ KernelSound /\ RecordsSound
  BY DEF OwnershipIInv
<1>1. PICK d \in Descriptions, f \in LockFiles :
        /\ owner[p].state = "opening" /\ kernel[d] = NotOpen
        /\ kernel' = [kernel EXCEPT ![d].file = f]
        /\ descriptors' = [descriptors EXCEPT ![p] = @ \cup {d}]
        /\ owner' = [owner EXCEPT ![p].state = "coordination_open", ![p].descriptor = d]
        /\ UNCHANGED <<database, strays>>
  BY DEF OpenCoordination
<1>2. \A q \in Processes : d \notin descriptors[q]
  BY <1>0, <1>1 DEF KernelSound, NotOpen
<1>3. \A q \in Processes : owner[q].state \in Working => owner[q].descriptor # d
  BY <1>0, <1>2 DEF RecordsSound
<1>4. owner[p].descriptor = NoOne /\ descriptors[p] = {}
  BY <1>0, <1>1 DEF RecordsSound, Ownership, OwnershipTyped
<1>5. /\ \A q \in Processes \ {p} : owner'[q] = owner[q] /\ descriptors'[q] = descriptors[q]
      /\ owner'[p].state = "coordination_open" /\ owner'[p].descriptor = d /\ descriptors'[p] = {d}
      /\ \A e \in Descriptions \ {d} : kernel'[e] = kernel[e]
      /\ kernel'[d].file = f /\ ~kernel'[d].locked
  <2>1. /\ \A q \in Processes \ {p} : owner'[q] = owner[q] /\ descriptors'[q] = descriptors[q]
        /\ owner'[p].state = "coordination_open" /\ owner'[p].descriptor = d
    BY <1>0, <1>1 DEF Ownership, OwnershipTyped
  <2>2. descriptors'[p] = {d}
    BY <1>0, <1>1, <1>4 DEF Ownership, OwnershipTyped
  <2>3. \A e \in Descriptions \ {d} : kernel'[e] = kernel[e]
    BY <1>0, <1>1 DEF Ownership, OwnershipTyped
  <2>4. kernel'[d].file = f /\ ~kernel'[d].locked
    BY <1>0, <1>1 DEF Ownership, OwnershipTyped, NotOpen
  <2> QED BY <2>1, <2>2, <2>3, <2>4
<1>6. OwnershipTyped'
  <2>1. kernel' \in [Descriptions -> [file : LockFiles \cup {NoFile}, locked : BOOLEAN]]
    BY <1>0, <1>1 DEF Ownership, OwnershipTyped
  <2>2. descriptors' \in [Processes -> SUBSET Descriptions]
    BY <1>0, <1>1 DEF Ownership, OwnershipTyped
  <2>4. owner' = [owner EXCEPT ![p] = [[owner[p] EXCEPT !.state = "coordination_open"]
                                         EXCEPT !.descriptor = d]]
    BY <1>0, <1>1 DEF OwnershipTyped, Ownership
  <2>5. owner[p] \in Ownership
    BY <1>0 DEF OwnershipTyped
  <2>6. owner' \in [Processes -> Ownership]
    <3> DEFINE o == [[owner[p] EXCEPT !.state = "coordination_open"] EXCEPT !.descriptor = d]
    <3>1. owner' = [owner EXCEPT ![p] = o]  BY <2>4
    <3>2. o \in Ownership
      BY <2>5 DEF Working, Ownership
    <3> HIDE DEF o
    <3> QED BY <1>0, <3>1, <3>2 DEF OwnershipTyped
  <2>7. database' \in Databases /\ strays' \in [Processes -> SUBSET Descriptions]
    BY <1>0, <1>1 DEF OwnershipTyped
  <2> QED BY <2>1, <2>2, <2>6, <2>7 DEF OwnershipTyped
<1>7. KernelSound'
  <2>1. \A q \in Processes : \A e \in descriptors'[q] : kernel'[e].file # NoFile
    BY <1>0, <1>1, <1>2, <1>5 DEF KernelSound, Ownership, OwnershipTyped
  <2>2. \A e \in Descriptions : kernel'[e].file = NoFile => kernel'[e] = NotOpen
    BY <1>0, <1>1, <1>5 DEF KernelSound
  <2>3. \A e, g \in Descriptions :
          kernel'[e].locked /\ kernel'[g].locked /\ kernel'[e].file = kernel'[g].file => e = g
    BY <1>0, <1>5 DEF KernelSound
  <2> QED BY <2>1, <2>2, <2>3 DEF KernelSound
<1>8. RecordsSound'
  <2>1. \A q \in Processes : descriptors'[q] \subseteq {owner'[q].descriptor}
    BY <1>0, <1>5 DEF RecordsSound
  <2>2. \A q \in Processes : owner'[q].state \in {"none", "opening"} => owner'[q].descriptor = NoOne
    BY <1>0, <1>5 DEF RecordsSound
  <2>3. \A q \in Processes : owner'[q].state \in Working => owner'[q].descriptor \in descriptors'[q]
    BY <1>0, <1>5 DEF RecordsSound
  <2>4. \A q \in Processes : owner'[q].state \in {"native_owned", "owned"} => kernel'[owner'[q].descriptor].locked
    <3> SUFFICES ASSUME NEW q \in Processes, owner'[q].state \in {"native_owned", "owned"}
                 PROVE  kernel'[owner'[q].descriptor].locked
      OBVIOUS
    <3>1. q # p /\ owner'[q] = owner[q] /\ owner[q].state \in Working
      BY <1>5 DEF Working
    <3>2. owner[q].descriptor \in Descriptions /\ owner[q].descriptor # d
      BY <1>0, <1>3, <3>1 DEF RecordsSound, Ownership, OwnershipTyped
    <3> QED BY <1>0, <1>5, <3>1, <3>2 DEF RecordsSound
  <2>5. \A q, r \in Processes :
          owner'[q].descriptor = owner'[r].descriptor /\ owner'[q].state \in Working
          /\ owner'[r].state \in Working => q = r
    BY <1>0, <1>3, <1>5 DEF RecordsSound
  <2>6. \A q \in Processes : owner'[q].state = "cleanup_indeterminate" => descriptors'[q] = {}
    BY <1>0, <1>5 DEF RecordsSound
  <2> QED BY <2>1, <2>2, <2>3, <2>4, <2>5, <2>6 DEF RecordsSound
<1> QED BY <1>6, <1>7, <1>8 DEF OwnershipIInv

\* The lock is refused while another description of the file has it.
LEMMA LockKeeps ==
  ASSUME OwnershipIInv, NEW p \in Processes, NativeAcquire(p)
  PROVE  OwnershipIInv'
<1> DEFINE d == owner[p].descriptor
<1>0. OwnershipTyped /\ KernelSound /\ RecordsSound
  BY DEF OwnershipIInv
<1>1. /\ owner[p].state = "coordination_open"
      /\ \A e \in Descriptions : kernel[e].locked => kernel[e].file # kernel[d].file
      /\ kernel' = [kernel EXCEPT ![d].locked = TRUE]
      /\ owner' = [owner EXCEPT ![p].state = "native_owned"]
      /\ UNCHANGED <<database, descriptors, strays>>
  BY DEF NativeAcquire
<1>2. d \in Descriptions /\ d \in descriptors[p] /\ kernel[d].file # NoFile
  BY <1>0, <1>1 DEF RecordsSound, Ownership, OwnershipTyped, KernelSound, Working
<1>3. /\ \A q \in Processes \ {p} : owner'[q] = owner[q]
      /\ owner'[p].state = "native_owned" /\ owner'[p].descriptor = d
      /\ \A e \in Descriptions : e # d => kernel'[e] = kernel[e]
      /\ kernel'[d].locked /\ kernel'[d].file = kernel[d].file
  BY <1>0, <1>1, <1>2 DEF Ownership, OwnershipTyped
<1> HIDE DEF d
<1>4. OwnershipTyped'
  <2>1. owner' \in [Processes -> Ownership]
    <3>1. [owner[p] EXCEPT !.state = "native_owned"] \in Ownership
      BY <1>0 DEF OwnershipTyped, Ownership, Working
    <3> QED BY <1>0, <1>1, <3>1 DEF OwnershipTyped
  <2>2. kernel' \in [Descriptions -> [file : LockFiles \cup {NoFile}, locked : BOOLEAN]]
    BY <1>0, <1>1, <1>2 DEF OwnershipTyped
  <2> QED BY <1>0, <1>1, <2>1, <2>2 DEF OwnershipTyped
<1>5. KernelSound'
  <2>1. \A q \in Processes : \A e \in descriptors'[q] : kernel'[e].file # NoFile
    BY <1>0, <1>1, <1>2, <1>3 DEF KernelSound, Ownership, OwnershipTyped
  <2>2. \A e \in Descriptions : kernel'[e].file = NoFile => kernel'[e] = NotOpen
    BY <1>0, <1>2, <1>3 DEF KernelSound
  <2>3. \A e, g \in Descriptions :
          kernel'[e].locked /\ kernel'[g].locked /\ kernel'[e].file = kernel'[g].file => e = g
    BY <1>0, <1>1, <1>3 DEF KernelSound
  <2> QED BY <2>1, <2>2, <2>3 DEF KernelSound
<1>6. RecordsSound'
  <2>1. \A q \in Processes : descriptors'[q] \subseteq {owner'[q].descriptor}
    BY <1>0, <1>1, <1>3 DEF RecordsSound, d
  <2>2. \A q \in Processes : owner'[q].state \in {"none", "opening"} => owner'[q].descriptor = NoOne
    BY <1>0, <1>3 DEF RecordsSound
  <2>3. \A q \in Processes : owner'[q].state \in Working => owner'[q].descriptor \in descriptors'[q]
    BY <1>0, <1>1, <1>2, <1>3 DEF RecordsSound
  <2>4. \A q \in Processes : owner'[q].state \in {"native_owned", "owned"} => kernel'[owner'[q].descriptor].locked
    <3> SUFFICES ASSUME NEW q \in Processes, q # p, owner[q].state \in {"native_owned", "owned"}
                 PROVE  kernel'[owner[q].descriptor].locked
      BY <1>3
    <3>1. owner[q].descriptor \in Descriptions /\ kernel[owner[q].descriptor].locked
      BY <1>0 DEF RecordsSound, Ownership, OwnershipTyped, Working
    <3> QED BY <1>3, <3>1
  <2>5. \A q, r \in Processes :
          owner'[q].descriptor = owner'[r].descriptor /\ owner'[q].state \in Working
          /\ owner'[r].state \in Working => q = r
    <3>1. \A q \in Processes : owner'[q].descriptor = owner[q].descriptor
      BY <1>3 DEF d
    <3>2. \A q \in Processes : owner'[q].state \in Working => owner[q].state \in Working
      BY <1>1, <1>3 DEF Working
    <3> QED BY <1>0, <3>1, <3>2 DEF RecordsSound
  <2>6. \A q \in Processes : owner'[q].state = "cleanup_indeterminate" => descriptors'[q] = {}
    BY <1>0, <1>1, <1>3 DEF RecordsSound
  <2> QED BY <2>1, <2>2, <2>3, <2>4, <2>5, <2>6 DEF RecordsSound
<1> QED BY <1>4, <1>5, <1>6 DEF OwnershipIInv

\* The child has no record, or one that is to be cleaned up.
LEMMA ForkKeepsIInv ==
  ASSUME OwnershipIInv, NEW p \in Processes, NEW q \in Processes, Fork(p, q)
  PROVE  OwnershipIInv'
<1> USE OwnershipAssumption
<1>0. OwnershipTyped /\ KernelSound /\ RecordsSound
  BY DEF OwnershipIInv
<1> DEFINE child == owner'[q]  d == owner[p].descriptor
           Inherited(state) ==
             [owner[p] EXCEPT !.leased = FALSE, !.cleaner = FALSE, !.failed = TRUE, !.state = state]
<1>1. /\ UNCHANGED <<database, kernel>>
      /\ \A r \in Processes \ {q} : owner'[r] = owner[r] /\ descriptors'[r] = descriptors[r]
      /\ descriptors' \in [Processes -> SUBSET Descriptions] /\ descriptors'[q] \subseteq descriptors[p]
  BY <1>0 DEF Fork, OwnershipTyped
<1>2. \A state \in Cleaning : /\ Inherited(state) \in Ownership
                              /\ Inherited(state).state = state /\ Inherited(state).descriptor = d
  BY <1>0 DEF OwnershipTyped, Ownership
<1>3. descriptors[p] \subseteq {d}
  BY <1>0 DEF RecordsSound
<1>4. /\ owner' = [owner EXCEPT ![q] = child] /\ child \in Ownership
      /\ \/ child.state = "none" /\ child.descriptor = NoOne /\ descriptors'[q] = {}
         \/ child.state = "cleanup_pending" /\ child.descriptor = d
         \/ child.state = "cleanup_indeterminate" /\ descriptors'[q] = {}
  <2> HIDE DEF Inherited
  <2>1. CASE /\ owner' = [owner EXCEPT ![q] = NoRecord]
             /\ descriptors' = [descriptors EXCEPT ![q] = descriptors[p] \ {d}]
    <3>1. child = NoRecord /\ descriptors'[q] = {}
      BY <1>0, <2>1 DEF OwnershipTyped, RecordsSound
    <3>2. NoRecord \in Ownership /\ NoRecord.state = "none" /\ NoRecord.descriptor = NoOne
      BY DEF NoRecord, Ownership
    <3> HIDE DEF child
    <3> QED BY <2>1, <3>1, <3>2
  <2>2. CASE owner' = [owner EXCEPT ![q] = Inherited("cleanup_pending")]
    <3>1. child = Inherited("cleanup_pending")
      BY <1>0, <2>2 DEF OwnershipTyped
    <3> HIDE DEF child
    <3> QED BY <1>2, <2>2, <3>1 DEF Cleaning
  <2>3. CASE /\ owner' = [owner EXCEPT ![q] = Inherited("cleanup_indeterminate")]
             /\ descriptors' = [descriptors EXCEPT ![q] = descriptors[p] \ {d}]
    <3>1. child = Inherited("cleanup_indeterminate") /\ descriptors'[q] = {}
      BY <1>0, <2>3 DEF OwnershipTyped, RecordsSound
    <3> HIDE DEF child
    <3> QED BY <1>2, <2>3, <3>1 DEF Cleaning
  <2> QED BY <2>1, <2>2, <2>3 DEF Fork, Inherited
<1>5. strays' \in [Processes -> SUBSET Descriptions]
  <2>1. \E left \in SUBSET Descriptions : strays' = [strays EXCEPT ![q] = left]
    <3>1. strays[p] \in SUBSET Descriptions
      BY <1>0 DEF OwnershipTyped
    <3>2. d # NoOne => strays[p] \cup {d} \in SUBSET Descriptions
      BY <1>0, <3>1 DEF OwnershipTyped, Ownership
    <3> HIDE DEF d
    <3> QED BY <3>1, <3>2 DEF Fork, d
  <2> QED BY <1>0, <2>1 DEF OwnershipTyped
<1> HIDE DEF child
<1>6. /\ descriptors'[q] \subseteq {child.descriptor} /\ child.state \notin Working
      /\ child.state \in {"none", "opening"} => child.descriptor = NoOne
      /\ child.state = "cleanup_indeterminate" => descriptors'[q] = {}
  <2>1. CASE child.state = "none" /\ child.descriptor = NoOne /\ descriptors'[q] = {}
    BY <2>1 DEF Working
  <2>2. CASE child.state = "cleanup_pending" /\ child.descriptor = d
    BY <1>1, <1>3, <2>2 DEF Working
  <2>3. CASE child.state = "cleanup_indeterminate" /\ descriptors'[q] = {}
    BY <2>3 DEF Working
  <2> QED BY <1>4, <2>1, <2>2, <2>3
<1>7. OwnershipTyped'
  BY <1>0, <1>1, <1>4, <1>5 DEF OwnershipTyped
<1>8. KernelSound'
  BY <1>0, <1>1 DEF KernelSound
<1>9. RecordsSound'
  BY <1>1, <1>6, AtRest DEF child
<1> QED BY <1>7, <1>8, <1>9 DEF OwnershipIInv

\* A dead process takes its descriptions with it, unless a fork still has them.
LEMMA DeathKeeps ==
  ASSUME OwnershipIInv, NEW p \in Processes, ProcessDies(p)
  PROVE  OwnershipIInv'
<1> USE OwnershipAssumption
<1> DEFINE held == [descriptors EXCEPT ![p] = {}]  left == [strays EXCEPT ![p] = {}]
<1>0. OwnershipTyped /\ KernelSound /\ RecordsSound
  BY DEF OwnershipIInv
<1>1. Survive(held, left) /\ owner' = [owner EXCEPT ![p] = NoRecord] /\ UNCHANGED database
  BY DEF ProcessDies
<1>2. /\ held \in [Processes -> SUBSET Descriptions] /\ \A q \in Processes : held[q] \subseteq descriptors[q]
      /\ held[p] = {} /\ \A q \in Processes \ {p} : held[q] = descriptors[q]
      /\ left \in [Processes -> SUBSET Descriptions]
  BY <1>0 DEF OwnershipTyped
<1> HIDE DEF held, left
<1>3. /\ descriptors' = held /\ strays' = left /\ KernelSound'
      /\ kernel' \in [Descriptions -> [file : LockFiles \cup {NoFile}, locked : BOOLEAN]]
      /\ \A q \in Processes : \A d \in held[q] : kernel'[d] = kernel[d]
  BY <1>0, <1>1, <1>2, SurviveKeeps
<1>4. OwnershipTyped'
  BY <1>0, <1>1, <1>2, <1>3 DEF Ownership, OwnershipTyped, NoRecord
<1>5. owner'[p] = NoRecord /\ \A q \in Processes \ {p} : owner'[q] = owner[q]
  BY <1>0, <1>1 DEF Ownership, OwnershipTyped
<1>6. RecordsSound'
  <2>1. NoRecord.state = "none" /\ NoRecord.descriptor = NoOne
    BY DEF NoRecord
  <2>2. NoRecord.state \notin Working
    BY <2>1 DEF Working
  <2> QED BY <1>2, <1>3, <1>5, <2>1, <2>2, AtRest
<1> QED BY <1>3, <1>4, <1>6 DEF OwnershipIInv

\* Every step of the owners keeps the invariant.
LEMMA OwnershipNext == OwnershipIInv /\ [NextOwnership]_ownershipVars => OwnershipIInv'
<1> SUFFICES ASSUME OwnershipIInv, [NextOwnership]_ownershipVars PROVE OwnershipIInv'
  OBVIOUS
<1>0. OwnershipTyped /\ RecordsSound
  BY DEF OwnershipIInv
<1>1. ASSUME NEW p \in Processes, AcquireOwnership(p) PROVE OwnershipIInv'
  <2>1. /\ owner[p] = NoRecord /\ owner' = [owner EXCEPT ![p] = Opening]
        /\ UNCHANGED <<kernel, descriptors, strays, database>> /\ database \in Databases
    BY <1>0, <1>1 DEF AcquireOwnership, Ownership, OwnershipTyped
  <2>2. Opening \in Ownership
        /\ Opening.state = "opening" /\ Opening.descriptor = NoOne
    BY <2>1 DEF Opening, NoRecord, Ownership
  <2>3. owner[p].state = "none" /\ owner[p].descriptor = NoOne
    BY <2>1 DEF NoRecord
  <2> QED BY <2>1, <2>2, <2>3, RecordKeeps DEF Working
<1>2. ASSUME NEW p \in Processes, AcquireOverFailed(p) PROVE OwnershipIInv'
  <2>1. owner[p] \in Ownership
    BY <1>0 DEF OwnershipTyped
  <2> QED BY <1>2, <2>1, ClosingKeeps DEF AcquireOverFailed
<1>3. ASSUME NEW p \in Processes, OpenCoordination(p) PROVE OwnershipIInv'
  BY <1>3, OpenKeeps
<1>4. ASSUME NEW p \in Processes, NativeAcquire(p) PROVE OwnershipIInv'
  BY <1>4, LockKeeps
<1>5. ASSUME NEW p \in Processes, Publish(p) PROVE OwnershipIInv'
  <2> DEFINE record == [owner[p] EXCEPT !.state = "owned", !.leased = TRUE]
  <2>1. owner' = [owner EXCEPT ![p] = record] /\ owner[p].state = "native_owned"
        /\ UNCHANGED <<kernel, descriptors, strays, database>> /\ database \in Databases
    BY <1>0, <1>5 DEF Publish, Ownership, OwnershipTyped
  <2>2. /\ record \in Ownership
        /\ record.state = "owned" /\ record.descriptor = owner[p].descriptor
    BY <1>0 DEF Ownership, OwnershipTyped, Working
  <2> HIDE DEF record
  <2> QED BY <2>1, <2>2, RecordKeeps DEF Working
<1>6. ASSUME NEW p \in Processes, Acquired(p) \/ AcquireFails(p) PROVE OwnershipIInv'
  <2>1. PICK record \in {[owner[p] EXCEPT !.opening = FALSE, !.failed = FALSE],
                         [owner[p] EXCEPT !.opening = FALSE, !.cleaner = TRUE]} :
          owner' = [owner EXCEPT ![p] = record]
    BY <1>0, <1>6 DEF Acquired, AcquireFails, OwnershipTyped
  <2>2. UNCHANGED <<kernel, descriptors, strays, database>> /\ database \in Databases
    BY <1>0, <1>6 DEF Acquired, AcquireFails, OwnershipTyped
  <2>3. record \in Ownership /\ record.state = owner[p].state /\ record.descriptor = owner[p].descriptor
    BY <1>0, <2>1 DEF Ownership, OwnershipTyped
  <2> QED BY <2>1, <2>2, <2>3, RecordKeeps
<1>7. ASSUME NEW p \in Processes, CleanUpFailed(p) PROVE OwnershipIInv'
  <2> DEFINE record == [owner[p] EXCEPT !.cleaner = FALSE]
  <2>1. record \in Ownership /\ record.state = owner[p].state /\ record.descriptor = owner[p].descriptor
    BY <1>0 DEF Ownership, OwnershipTyped
  <2>2. Closing(p, record, NoRecord) /\ UNCHANGED database
    BY <1>7 DEF CleanUpFailed
  <2> HIDE DEF record
  <2> QED BY <2>1, <2>2, ClosingKeeps
<1>8. ASSUME NEW p \in Processes, RequireLoses(p) PROVE OwnershipIInv'
  <2> DEFINE record == [owner[p] EXCEPT !.state = "lost"]
  <2>1. owner' = [owner EXCEPT ![p] = record] /\ owner[p].state = "owned"
        /\ UNCHANGED <<kernel, descriptors, strays, database>> /\ database \in Databases
    BY <1>0, <1>8 DEF RequireLoses, Ownership, OwnershipTyped
  <2>2. /\ record \in Ownership
        /\ record.state = "lost" /\ record.descriptor = owner[p].descriptor
    BY <1>0 DEF Ownership, OwnershipTyped, Working
  <2> HIDE DEF record
  <2> QED BY <2>1, <2>2, RecordKeeps DEF Working
<1>9. ASSUME NEW p \in Processes, ReleaseOwnership(p) PROVE OwnershipIInv'
  <2>1. CASE Closing(p, owner[p], NoRecord)
    <3>1. owner[p] \in Ownership
      BY <1>0 DEF OwnershipTyped
    <3> QED BY <1>9, <2>1, <3>1, ClosingKeeps DEF ReleaseOwnership
  <2>2. CASE owner' = [owner EXCEPT ![p].state = "cleanup_pending"] /\ UNCHANGED <<kernel, descriptors, strays>>
    <3> DEFINE record == [owner[p] EXCEPT !.state = "cleanup_pending"]
    <3>1. /\ record \in Ownership
          /\ record.state = "cleanup_pending" /\ record.descriptor = owner[p].descriptor
          /\ owner' = [owner EXCEPT ![p] = record]
      BY <1>0, <2>2 DEF Ownership, OwnershipTyped, Cleaning
    <3>2. database' \in Databases
      BY <1>0, <1>9 DEF ReleaseOwnership, Ownership, OwnershipTyped
    <3> HIDE DEF record
    <3> QED BY <2>2, <3>1, <3>2, RecordKeeps DEF Working
  <2> QED BY <1>9, <2>1, <2>2 DEF ReleaseOwnership
<1>10. ASSUME NEW p \in Processes, ProcessDies(p) PROVE OwnershipIInv'
  BY <1>10, DeathKeeps
<1>11. ASSUME NEW p \in Processes, NEW q \in Processes, Fork(p, q) PROVE OwnershipIInv'
  BY <1>11, ForkKeepsIInv
<1>12. ASSUME UNCHANGED <<kernel, descriptors, strays, owner>>, database' \in Databases PROVE OwnershipIInv'
  BY <1>12 DEF OwnershipIInv, Ownership, OwnershipTyped, KernelSound, RecordsSound
<1>13. ASSUME NEW p \in Processes, StartsAgain(p) PROVE OwnershipIInv'
  BY <1>0, <1>12, <1>13 DEF StartsAgain, Ownership, OwnershipTyped
<1>14. Replaced \/ UNCHANGED ownershipVars => OwnershipIInv'
  BY <1>0, <1>12 DEF Replaced, ownershipVars, Ownership, OwnershipTyped
<1> QED BY <1>1, <1>2, <1>3, <1>4, <1>5, <1>6, <1>7, <1>8, <1>9, <1>10, <1>11, <1>13, <1>14
     DEF NextOwnership

\* At most one process has the authority of a database, and no process has a lock, other
\* than a stray's, that its registry does not know: for any number of processes, forks,
\* replaced files, failed closings and cleanups that come late.
THEOREM OwnershipTheorem == SpecOwnership => []OwnershipSound
<1> QED BY OwnershipInit, OwnershipNext, OwnershipFromIInv, PTL DEF SpecOwnership

-----------------------------------------------------------------------------
(* The routine publisher.  A promotion that may still have an effect is    *)
(* the only one, is on record and has the row; a run asks for each of its  *)
(* two promotions while no alias serves the target, so aliases that all    *)
(* serve it have been moved by that promotion and it has ended.            *)

Steps == {"idle", "bind", "observe", "checked", "forward", "live", "smoke", "returnable", "return",
          "returned", "accepted", "recovered", "leave", "stopping"}
FileNames == {"bind_intent", "forward_intent", "return_intent", "accepted", "recovered", "preflight_stopped"}

RoutineTyped ==
  /\ row \in Runs \cup {NoRun, other}
  /\ writerLock \in Runs \cup {NoRun}
  /\ files \in [Runs -> SUBSET FileNames]
  /\ step \in [Runs -> Steps]
  /\ inFlight \in SUBSET (Runs \X (Runs \cup {lastAccepted}))
  /\ job \in [of : Runs \cup {NoRun}, to : Runs \cup {lastAccepted, foreign, NoRun},
              status : {"none", "pending", "succeeded", "failed"}]
  /\ serving \in [Aliases -> Runs \cup {lastAccepted, foreign}]
  /\ intruded \in BOOLEAN

\* No alias serves d.
Absent(d) == \A a \in Aliases : serving[a] # d
Quiet == inFlight = {} /\ ~Pending
Has(r, file) == file \in files[r]

\* The locks belong to the one run that is under way, and it has the row once bound.
Holders == \A r \in Runs :
  /\ step[r] # "idle" => writerLock = r
  /\ step[r] = "bind" => row = NoRun
  /\ step[r] \notin {"idle", "bind"} => row = r

\* A promotion to d is run r's: its intent is on record.
MayEffect(r, d) ==
  /\ r \in Runs /\ row = r /\ Has(r, "forward_intent")
  /\ d \in {r, lastAccepted} /\ (d = lastAccepted => Has(r, "return_intent"))

\* At most one promotion is unanswered, it has the row, and no alias serves its target yet.
EffectSound ==
  /\ \A p \in inFlight : MayEffect(p[1], p[2]) /\ ~Pending /\ inFlight = {p} /\ Absent(p[2])
       /\ (p[2] = p[1] => ~Has(p[1], "return_intent"))
  /\ Pending => MayEffect(job.of, job.to)
  /\ \A r \in Runs :
       /\ step[r] \in {"forward","smoke", "returnable", "return", "accepted", "recovered", "leave"} => Quiet
       /\ Ended(r) /\ row = r => Quiet
       /\ ~Has(r, "forward_intent") => Absent(r)
       /\ step[r] = "forward" => Absent(r)
       /\ step[r] \in {"returnable", "return"} => Absent(lastAccepted)

\* What the files of a run say of where its publisher is.
FilesSound == \A r \in Runs :
  /\ step[r] \in {"checked", "forward", "live", "smoke", "returnable"} => ~Has(r, "return_intent")
  /\ step[r] \in {"forward", "live", "smoke", "returnable", "return", "returned", "accepted", "recovered"}
       => Has(r, "forward_intent")
  /\ Has(r, "return_intent") => Has(r, "forward_intent")
  /\ step[r] \in {"return", "returned"} => Has(r, "return_intent")
  /\ step[r] = "stopping" => ~Has(r, "forward_intent")
  /\ step[r] \in {"checked"} => ~Has(r, "forward_intent")
  /\ Has(r, "forward_intent") => Ended(r) \/ row = r
  /\ step[r] \notin {"idle", "leave"} => ~Ended(r)
  /\ step[r] = "leave" => Ended(r)

\* Short of a promotion past the registry, production serves what the records say.
RecordsTrue ==
  /\ \A q, r \in Runs : Has(q, "accepted") /\ Has(r, "accepted") => q = r
  /\ \A q, r \in Runs : Has(q, "accepted") /\ Has(r, "forward_intent") => Ended(r)
  /\ \A q, r \in Runs : Has(q, "accepted") => step[r] # "checked"
  /\ \A q \in Runs : Has(q, "accepted") => Selected(q)
  /\ (\A q \in Runs : ~Has(q, "accepted")) /\ (\A r \in Runs : row = r /\ Has(r, "forward_intent") => Ended(r))
       => Selected(lastAccepted)
  /\ \A r \in Runs : step[r] = "accepted" => Selected(r)
  /\ \A r \in Runs : step[r] = "recovered" => Selected(lastAccepted)

RoutineIInv == RoutineTyped /\ Holders /\ EffectSound /\ FilesSound /\ (~intruded => RecordsTrue)

EndedIs == \A r \in Runs : Ended(r) <=> (Has(r, "accepted") \/ Has(r, "recovered"))

\* What it is for a promotion to have ended, now and after a step.
LEMMA EndedMeans == EndedIs /\ EndedIs'
  BY DEF EndedIs, Ended, Has

\* A write adds one file to one run.
LEMMA FilesAfter ==
  ASSUME RoutineTyped, NEW r \in Runs, NEW f \in FileNames, Writes(r, f)
  PROVE  /\ files' \in [Runs -> SUBSET FileNames]
         /\ \A q \in Runs, g \in FileNames : Has(q, g)' <=> (Has(q, g) \/ (q = r /\ g = f))
  BY DEF RoutineTyped, Writes, Has

\* A run that goes to a step leaves the others where they are.
LEMMA StepAfter ==
  ASSUME RoutineTyped, NEW r \in Runs, NEW s \in Steps, Goes(r, s)
  PROVE  step' \in [Runs -> Steps] /\ \A q \in Runs : step'[q] = IF q = r THEN s ELSE step[q]
  BY DEF RoutineTyped, Goes

\* Nothing has been accepted when a run goes forward: the check saw the old deployment.
LEMMA ForwardIntentKeeps ==
  ASSUME RoutineIInv, NEW r \in Runs, ForwardIntent(r)
  PROVE  RoutineIInv'
<1> USE RoutineAssumption
<1>0. RoutineTyped /\ Holders /\ EffectSound /\ FilesSound /\ EndedIs /\ EndedIs'
  BY EndedMeans DEF RoutineIInv
<1>1. /\ step[r] = "checked" /\ ~Pending
      /\ Writes(r, "forward_intent") /\ Goes(r, "forward")
      /\ UNCHANGED <<row, writerLock, inFlight, job, serving, intruded>>
  BY DEF ForwardIntent, cloudVars
<1>2. /\ files' \in [Runs -> SUBSET FileNames]
      /\ \A q \in Runs, g \in FileNames : Has(q, g)' <=> (Has(q, g) \/ (q = r /\ g = "forward_intent"))
  BY <1>0, <1>1, FilesAfter DEF FileNames
<1>3. step' \in [Runs -> Steps] /\ \A q \in Runs : step'[q] = IF q = r THEN "forward" ELSE step[q]
  BY <1>0, <1>1, StepAfter DEF Steps
<1>4. RoutineTyped'
  BY <1>0, <1>1, <1>2, <1>3 DEF RoutineTyped
<1>5. Holders'
  BY <1>0, <1>1, <1>2, <1>3 DEF Holders
<1>6. FilesSound'
  BY <1>0, <1>1, <1>2, <1>3 DEF FilesSound, Holders, EndedIs, FileNames
<1>7. EffectSound'
  BY <1>0, <1>1, <1>2, <1>3 DEF EffectSound, Holders, FilesSound, EndedIs, FileNames, MayEffect,
       Quiet, Absent, Pending
<1>8. ~intruded' => RecordsTrue'
  BY <1>0, <1>1, <1>2, <1>3 DEF RoutineIInv, RecordsTrue, Holders, FilesSound, EffectSound, EndedIs,
       FileNames, Selected
<1> QED BY <1>4, <1>5, <1>6, <1>7, <1>8 DEF RoutineIInv

\* The row is free when a run binds it.
LEMMA BindKeeps ==
  ASSUME RoutineIInv, NEW r \in Runs, Bind(r)
  PROVE  RoutineIInv'
<1> USE RoutineAssumption
<1>0. RoutineTyped /\ Holders /\ EffectSound /\ FilesSound /\ EndedIs /\ EndedIs'
  BY EndedMeans DEF RoutineIInv
<1>1. /\ step[r] = "bind" /\ row' = r /\ Goes(r, "observe")
      /\ UNCHANGED <<writerLock, files, inFlight, job, serving, intruded>>
  BY DEF Bind, cloudVars
<1>3. step' \in [Runs -> Steps] /\ \A q \in Runs : step'[q] = IF q = r THEN "observe" ELSE step[q]
  BY <1>0, <1>1, StepAfter DEF Steps
<1>4. RoutineTyped'
  BY <1>0, <1>1, <1>3 DEF RoutineTyped
<1>5. Holders'
  BY <1>0, <1>1, <1>3 DEF Holders
<1>6. FilesSound'
  BY <1>0, <1>1, <1>3 DEF FilesSound, Holders, EndedIs, FileNames, Has
<1>7. EffectSound'
  BY <1>0, <1>1, <1>3 DEF EffectSound, Holders, FilesSound, EndedIs, FileNames, MayEffect,
       Quiet, Absent, Pending, Has
<1>8. ~intruded' => RecordsTrue'
  BY <1>0, <1>1, <1>3 DEF RoutineIInv, RecordsTrue, Holders, FilesSound, EffectSound, EndedIs,
       FileNames, Selected, Has
<1> QED BY <1>4, <1>5, <1>6, <1>7, <1>8 DEF RoutineIInv

\* The return has ended, so no promotion is left.
LEMMA ObserveRecoveredKeeps ==
  ASSUME RoutineIInv, NEW r \in Runs, step[r] = "observe",
         "return_intent" \in files[r] /\ PromotionEnded(lastAccepted),
         Goes(r, "recovered"), UNCHANGED <<row, writerLock, files, cloudVars>>
  PROVE  RoutineIInv'
<1> USE RoutineAssumption
<1>0. RoutineTyped /\ Holders /\ EffectSound /\ FilesSound /\ EndedIs /\ EndedIs'
  BY EndedMeans DEF RoutineIInv
<1>1. /\ step[r] = "observe" /\ "return_intent" \in files[r] /\ PromotionEnded(lastAccepted)
      /\ Goes(r, "recovered") /\ UNCHANGED <<row, writerLock, files, inFlight, job, serving, intruded>>
  BY DEF cloudVars
<1>3. step' \in [Runs -> Steps] /\ \A q \in Runs : step'[q] = IF q = r THEN "recovered" ELSE step[q]
  BY <1>0, <1>1, StepAfter DEF Steps
<1>4. RoutineTyped'
  BY <1>0, <1>1, <1>3 DEF RoutineTyped
<1>5. Holders'
  BY <1>0, <1>1, <1>3 DEF Holders
<1>6. FilesSound'
  BY <1>0, <1>1, <1>3 DEF FilesSound, Holders, EndedIs, FileNames, Has
<1>7. EffectSound'
  BY <1>0, <1>1, <1>3 DEF EffectSound, Holders, FilesSound, EndedIs, FileNames, MayEffect,
       Quiet, Absent, Pending, Has, PromotionEnded, Selected, RoutineTyped, NoJob
<1>8. ~intruded' => RecordsTrue'
  BY <1>0, <1>1, <1>3 DEF RoutineIInv, RecordsTrue, Holders, FilesSound, EffectSound, EndedIs,
       FileNames, Selected, Has, PromotionEnded, Pending, Quiet, MayEffect, Absent, RoutineTyped, NoJob
<1> QED BY <1>4, <1>5, <1>6, <1>7, <1>8 DEF RoutineIInv

\* A run resumed past its forward intent looks again.
LEMMA ObserveLiveKeeps ==
  ASSUME RoutineIInv, NEW r \in Runs, step[r] = "observe",
         "return_intent" \notin files[r] /\ "forward_intent" \in files[r] /\ Selected(r),
         Goes(r, "live"), UNCHANGED <<row, writerLock, files, cloudVars>>
  PROVE  RoutineIInv'
<1> USE RoutineAssumption
<1>0. RoutineTyped /\ Holders /\ EffectSound /\ FilesSound /\ EndedIs /\ EndedIs'
  BY EndedMeans DEF RoutineIInv
<1>1. /\ step[r] = "observe" /\ "return_intent" \notin files[r] /\ "forward_intent" \in files[r] /\ Selected(r)
      /\ Goes(r, "live") /\ UNCHANGED <<row, writerLock, files, inFlight, job, serving, intruded>>
  BY DEF cloudVars
<1>3. step' \in [Runs -> Steps] /\ \A q \in Runs : step'[q] = IF q = r THEN "live" ELSE step[q]
  BY <1>0, <1>1, StepAfter DEF Steps
<1>4. RoutineTyped'
  BY <1>0, <1>1, <1>3 DEF RoutineTyped
<1>5. Holders'
  BY <1>0, <1>1, <1>3 DEF Holders
<1>6. FilesSound'
  BY <1>0, <1>1, <1>3 DEF FilesSound, Holders, EndedIs, FileNames, Has
<1>7. EffectSound'
  BY <1>0, <1>1, <1>3 DEF EffectSound, Holders, FilesSound, EndedIs, FileNames, MayEffect,
       Quiet, Absent, Pending, Has, PromotionEnded, Selected, RoutineTyped, NoJob
<1>8. ~intruded' => RecordsTrue'
  BY <1>0, <1>1, <1>3 DEF RoutineIInv, RecordsTrue, Holders, FilesSound, EffectSound, EndedIs,
       FileNames, Selected, Has, PromotionEnded, Pending, Quiet, MayEffect, Absent, RoutineTyped, NoJob
<1> QED BY <1>4, <1>5, <1>6, <1>7, <1>8 DEF RoutineIInv

\* All aliases serve the old deployment, so no run was accepted.
LEMMA ObserveCheckedKeeps ==
  ASSUME RoutineIInv, NEW r \in Runs, step[r] = "observe", files[r] \cap {"forward_intent",
         "return_intent"} = {} /\ Selected(lastAccepted),
         Goes(r, "checked"), UNCHANGED <<row, writerLock, files, cloudVars>>
  PROVE  RoutineIInv'
<1> USE RoutineAssumption
<1>0. RoutineTyped /\ Holders /\ EffectSound /\ FilesSound /\ EndedIs /\ EndedIs'
  BY EndedMeans DEF RoutineIInv
<1>1. /\ step[r] = "observe" /\ files[r] \cap {"forward_intent", "return_intent"} = {} /\ Selected(lastAccepted)
      /\ Goes(r, "checked") /\ UNCHANGED <<row, writerLock, files, inFlight, job, serving, intruded>>
  BY DEF cloudVars
<1>3. step' \in [Runs -> Steps] /\ \A q \in Runs : step'[q] = IF q = r THEN "checked" ELSE step[q]
  BY <1>0, <1>1, StepAfter DEF Steps
<1>4. RoutineTyped'
  BY <1>0, <1>1, <1>3 DEF RoutineTyped
<1>5. Holders'
  BY <1>0, <1>1, <1>3 DEF Holders
<1>6. FilesSound'
  BY <1>0, <1>1, <1>3 DEF FilesSound, Holders, EndedIs, FileNames, Has
<1>7. EffectSound'
  BY <1>0, <1>1, <1>3 DEF EffectSound, Holders, FilesSound, EndedIs, FileNames, MayEffect,
       Quiet, Absent, Pending, Has, PromotionEnded, Selected, RoutineTyped, NoJob
<1>8. ~intruded' => RecordsTrue'
  BY <1>0, <1>1, <1>3 DEF RoutineIInv, RecordsTrue, Holders, FilesSound, EffectSound, EndedIs,
       FileNames, Selected, Has, PromotionEnded, Pending, Quiet, MayEffect, Absent, RoutineTyped, NoJob
<1> QED BY <1>4, <1>5, <1>6, <1>7, <1>8 DEF RoutineIInv

\* The one promotion of the run.
LEMMA PromoteForwardKeeps ==
  ASSUME RoutineIInv, NEW r \in Runs, step[r] = "forward", inFlight' = inFlight \cup {<<r, r>>},
         Goes(r, "live"),
         UNCHANGED <<row, writerLock, files, job, serving, intruded>>
  PROVE  RoutineIInv'
<1> USE RoutineAssumption
<1>0. RoutineTyped /\ Holders /\ EffectSound /\ FilesSound /\ EndedIs /\ EndedIs'
  BY EndedMeans DEF RoutineIInv
<1>1. /\ step[r] = "forward" /\ inFlight' = {<<r, r>>} /\ Goes(r, "live")
      /\ UNCHANGED <<row, writerLock, files, job, serving, intruded>>
  BY DEF EffectSound, Quiet, RoutineIInv
<1>3. step' \in [Runs -> Steps] /\ \A q \in Runs : step'[q] = IF q = r THEN "live" ELSE step[q]
  BY <1>0, <1>1, StepAfter DEF Steps
<1>4. RoutineTyped'
  BY <1>0, <1>1, <1>3 DEF RoutineTyped
<1>5. Holders'
  BY <1>0, <1>1, <1>3 DEF Holders
<1>6. FilesSound'
  BY <1>0, <1>1, <1>3 DEF FilesSound, Holders, EndedIs, FileNames, Has
<1>7. EffectSound'
  BY <1>0, <1>1, <1>3 DEF EffectSound, Holders, FilesSound, EndedIs, FileNames, MayEffect,
       Quiet, Absent, Pending, Has
<1>8. ~intruded' => RecordsTrue'
  BY <1>0, <1>1, <1>3 DEF RoutineIInv, RecordsTrue, Holders, FilesSound, EffectSound, EndedIs,
       FileNames, Selected, Has
<1> QED BY <1>4, <1>5, <1>6, <1>7, <1>8 DEF RoutineIInv

\* The one promotion back.
LEMMA PromoteReturnKeeps ==
  ASSUME RoutineIInv, NEW r \in Runs, step[r] = "return", inFlight' = inFlight \cup {<<r,
         lastAccepted>>}, Goes(r, "returned"),
         UNCHANGED <<row, writerLock, files, job, serving, intruded>>
  PROVE  RoutineIInv'
<1> USE RoutineAssumption
<1>0. RoutineTyped /\ Holders /\ EffectSound /\ FilesSound /\ EndedIs /\ EndedIs'
  BY EndedMeans DEF RoutineIInv
<1>1. /\ step[r] = "return" /\ inFlight' = {<<r, lastAccepted>>} /\ Goes(r, "returned")
      /\ UNCHANGED <<row, writerLock, files, job, serving, intruded>>
  BY DEF EffectSound, Quiet, RoutineIInv
<1>3. step' \in [Runs -> Steps] /\ \A q \in Runs : step'[q] = IF q = r THEN "returned" ELSE step[q]
  BY <1>0, <1>1, StepAfter DEF Steps
<1>4. RoutineTyped'
  BY <1>0, <1>1, <1>3 DEF RoutineTyped
<1>5. Holders'
  BY <1>0, <1>1, <1>3 DEF Holders
<1>6. FilesSound'
  BY <1>0, <1>1, <1>3 DEF FilesSound, Holders, EndedIs, FileNames, Has
<1>7. EffectSound'
  BY <1>0, <1>1, <1>3 DEF EffectSound, Holders, FilesSound, EndedIs, FileNames, MayEffect,
       Quiet, Absent, Pending, Has
<1>8. ~intruded' => RecordsTrue'
  BY <1>0, <1>1, <1>3 DEF RoutineIInv, RecordsTrue, Holders, FilesSound, EffectSound, EndedIs,
       FileNames, Selected, Has
<1> QED BY <1>4, <1>5, <1>6, <1>7, <1>8 DEF RoutineIInv

\* The promotion has ended and its effect is whole.
LEMMA LiveKeeps ==
  ASSUME RoutineIInv, NEW r \in Runs, Live(r)
  PROVE  RoutineIInv'
<1> USE RoutineAssumption
<1>0. RoutineTyped /\ Holders /\ EffectSound /\ FilesSound /\ EndedIs /\ EndedIs'
  BY EndedMeans DEF RoutineIInv
<1>1. /\ step[r] = "live" /\ PromotionEnded(r) /\ Goes(r, "smoke")
      /\ UNCHANGED <<row, writerLock, files, inFlight, job, serving, intruded>>
  BY DEF Live, cloudVars
<1>3. step' \in [Runs -> Steps] /\ \A q \in Runs : step'[q] = IF q = r THEN "smoke" ELSE step[q]
  BY <1>0, <1>1, StepAfter DEF Steps
<1>4. RoutineTyped'
  BY <1>0, <1>1, <1>3 DEF RoutineTyped
<1>5. Holders'
  BY <1>0, <1>1, <1>3 DEF Holders
<1>6. FilesSound'
  BY <1>0, <1>1, <1>3 DEF FilesSound, Holders, EndedIs, FileNames, Has
<1>7. EffectSound'
  BY <1>0, <1>1, <1>3 DEF EffectSound, Holders, FilesSound, EndedIs, FileNames, MayEffect,
       Quiet, Absent, Pending, Has, PromotionEnded, Selected, RoutineTyped, NoJob
<1>8. ~intruded' => RecordsTrue'
  BY <1>0, <1>1, <1>3 DEF RoutineIInv, RecordsTrue, Holders, FilesSound, EffectSound, EndedIs,
       FileNames, Selected, Has, PromotionEnded, Pending, Quiet, MayEffect, Absent, RoutineTyped, NoJob
<1> QED BY <1>4, <1>5, <1>6, <1>7, <1>8 DEF RoutineIInv

\* The deployment the run accepts is the one served.
LEMMA SmokePassesKeeps ==
  ASSUME RoutineIInv, NEW r \in Runs, step[r] = "smoke", Selected(r), Goes(r, "accepted"),
         UNCHANGED <<row, writerLock, files, cloudVars>>
  PROVE  RoutineIInv'
<1> USE RoutineAssumption
<1>0. RoutineTyped /\ Holders /\ EffectSound /\ FilesSound /\ EndedIs /\ EndedIs'
  BY EndedMeans DEF RoutineIInv
<1>1. /\ step[r] = "smoke" /\ Selected(r) /\ Goes(r, "accepted")
      /\ UNCHANGED <<row, writerLock, files, inFlight, job, serving, intruded>>
  BY DEF cloudVars
<1>3. step' \in [Runs -> Steps] /\ \A q \in Runs : step'[q] = IF q = r THEN "accepted" ELSE step[q]
  BY <1>0, <1>1, StepAfter DEF Steps
<1>4. RoutineTyped'
  BY <1>0, <1>1, <1>3 DEF RoutineTyped
<1>5. Holders'
  BY <1>0, <1>1, <1>3 DEF Holders
<1>6. FilesSound'
  BY <1>0, <1>1, <1>3 DEF FilesSound, Holders, EndedIs, FileNames, Has
<1>7. EffectSound'
  BY <1>0, <1>1, <1>3 DEF EffectSound, Holders, FilesSound, EndedIs, FileNames, MayEffect,
       Quiet, Absent, Pending, Has
<1>8. ~intruded' => RecordsTrue'
  BY <1>0, <1>1, <1>3 DEF RoutineIInv, RecordsTrue, Holders, FilesSound, EffectSound, EndedIs,
       FileNames, Selected, Has
<1> QED BY <1>4, <1>5, <1>6, <1>7, <1>8 DEF RoutineIInv

\* The deployment the run will return is the one served.
LEMMA SmokeFailsKeeps ==
  ASSUME RoutineIInv, NEW r \in Runs, step[r] = "smoke", PromotionEnded(r), Goes(r, "returnable"),
         UNCHANGED <<row, writerLock, files, cloudVars>>
  PROVE  RoutineIInv'
<1> USE RoutineAssumption
<1>0. RoutineTyped /\ Holders /\ EffectSound /\ FilesSound /\ EndedIs /\ EndedIs'
  BY EndedMeans DEF RoutineIInv
<1>1. /\ step[r] = "smoke" /\ PromotionEnded(r) /\ Goes(r, "returnable")
      /\ UNCHANGED <<row, writerLock, files, inFlight, job, serving, intruded>>
  BY DEF cloudVars
<1>3. step' \in [Runs -> Steps] /\ \A q \in Runs : step'[q] = IF q = r THEN "returnable" ELSE step[q]
  BY <1>0, <1>1, StepAfter DEF Steps
<1>4. RoutineTyped'
  BY <1>0, <1>1, <1>3 DEF RoutineTyped
<1>5. Holders'
  BY <1>0, <1>1, <1>3 DEF Holders
<1>6. FilesSound'
  BY <1>0, <1>1, <1>3 DEF FilesSound, Holders, EndedIs, FileNames, Has
<1>7. EffectSound'
  BY <1>0, <1>1, <1>3 DEF EffectSound, Holders, FilesSound, EndedIs, FileNames, MayEffect,
       Quiet, Absent, Pending, Has, PromotionEnded, Selected, RoutineTyped, NoJob
<1>8. ~intruded' => RecordsTrue'
  BY <1>0, <1>1, <1>3 DEF RoutineIInv, RecordsTrue, Holders, FilesSound, EffectSound, EndedIs,
       FileNames, Selected, Has, PromotionEnded, Pending, Quiet, MayEffect, Absent, RoutineTyped, NoJob
<1> QED BY <1>4, <1>5, <1>6, <1>7, <1>8 DEF RoutineIInv

\* The run is now allowed the old deployment, and has not asked for it.
LEMMA ReturnIntentKeeps ==
  ASSUME RoutineIInv, NEW r \in Runs, ReturnIntent(r)
  PROVE  RoutineIInv'
<1> USE RoutineAssumption
<1>0. RoutineTyped /\ Holders /\ EffectSound /\ FilesSound /\ EndedIs /\ EndedIs'
  BY EndedMeans DEF RoutineIInv
<1>1. /\ step[r] = "returnable" /\ Writes(r, "return_intent") /\ Goes(r, "return")
      /\ UNCHANGED <<row, writerLock, inFlight, job, serving, intruded>>
  BY DEF ReturnIntent, cloudVars
<1>2. /\ files' \in [Runs -> SUBSET FileNames]
      /\ \A q \in Runs, g \in FileNames : Has(q, g)' <=> (Has(q, g) \/ (q = r /\ g = "return_intent"))
  BY <1>0, <1>1, FilesAfter DEF FileNames
<1>3. step' \in [Runs -> Steps] /\ \A q \in Runs : step'[q] = IF q = r THEN "return" ELSE step[q]
  BY <1>0, <1>1, StepAfter DEF Steps
<1>4. RoutineTyped'
  BY <1>0, <1>1, <1>2, <1>3 DEF RoutineTyped
<1>5. Holders'
  BY <1>0, <1>1, <1>2, <1>3 DEF Holders
<1>6. FilesSound'
  BY <1>0, <1>1, <1>2, <1>3 DEF FilesSound, Holders, EndedIs, FileNames
<1>7. EffectSound'
  BY <1>0, <1>1, <1>2, <1>3 DEF EffectSound, Holders, FilesSound, EndedIs, FileNames, MayEffect,
       Quiet, Absent, Pending
<1>8. ~intruded' => RecordsTrue'
  BY <1>0, <1>1, <1>2, <1>3 DEF RoutineIInv, RecordsTrue, Holders, FilesSound, EffectSound, EndedIs,
       FileNames, Selected
<1> QED BY <1>4, <1>5, <1>6, <1>7, <1>8 DEF RoutineIInv

\* The return has ended and its effect is whole.
LEMMA ReturnedKeeps ==
  ASSUME RoutineIInv, NEW r \in Runs, Returned(r)
  PROVE  RoutineIInv'
<1> USE RoutineAssumption
<1>0. RoutineTyped /\ Holders /\ EffectSound /\ FilesSound /\ EndedIs /\ EndedIs'
  BY EndedMeans DEF RoutineIInv
<1>1. /\ step[r] = "returned" /\ PromotionEnded(lastAccepted) /\ Goes(r, "recovered")
      /\ UNCHANGED <<row, writerLock, files, inFlight, job, serving, intruded>>
  BY DEF Returned, cloudVars
<1>3. step' \in [Runs -> Steps] /\ \A q \in Runs : step'[q] = IF q = r THEN "recovered" ELSE step[q]
  BY <1>0, <1>1, StepAfter DEF Steps
<1>4. RoutineTyped'
  BY <1>0, <1>1, <1>3 DEF RoutineTyped
<1>5. Holders'
  BY <1>0, <1>1, <1>3 DEF Holders
<1>6. FilesSound'
  BY <1>0, <1>1, <1>3 DEF FilesSound, Holders, EndedIs, FileNames, Has
<1>7. EffectSound'
  BY <1>0, <1>1, <1>3 DEF EffectSound, Holders, FilesSound, EndedIs, FileNames, MayEffect,
       Quiet, Absent, Pending, Has, PromotionEnded, Selected, RoutineTyped, NoJob
<1>8. ~intruded' => RecordsTrue'
  BY <1>0, <1>1, <1>3 DEF RoutineIInv, RecordsTrue, Holders, FilesSound, EffectSound, EndedIs,
       FileNames, Selected, Has, PromotionEnded, Pending, Quiet, MayEffect, Absent, RoutineTyped, NoJob
<1> QED BY <1>4, <1>5, <1>6, <1>7, <1>8 DEF RoutineIInv

\* The first run to record acceptance is the only one past its intent and not ended.
LEMMA FinishKeeps ==
  ASSUME RoutineIInv, NEW r \in Runs, Finish(r)
  PROVE  RoutineIInv'
<1> USE RoutineAssumption
<1>0. RoutineTyped /\ Holders /\ EffectSound /\ FilesSound /\ EndedIs /\ EndedIs'
  BY EndedMeans DEF RoutineIInv
<1>1. /\ step[r] \in {"accepted", "recovered"} /\ Writes(r, step[r]) /\ Goes(r, "leave")
      /\ UNCHANGED <<row, writerLock, inFlight, job, serving, intruded>>
  BY DEF Finish, cloudVars
<1>2. /\ files' \in [Runs -> SUBSET FileNames]
      /\ \A q \in Runs, g \in FileNames : Has(q, g)' <=> (Has(q, g) \/ (q = r /\ g = step[r]))
  BY <1>0, <1>1, FilesAfter DEF FileNames
<1>3. step' \in [Runs -> Steps] /\ \A q \in Runs : step'[q] = IF q = r THEN "leave" ELSE step[q]
  BY <1>0, <1>1, StepAfter DEF Steps
<1>4. RoutineTyped'
  BY <1>0, <1>1, <1>2, <1>3 DEF RoutineTyped
<1>5. Holders'
  BY <1>0, <1>1, <1>2, <1>3 DEF Holders
<1>6. FilesSound'
  BY <1>0, <1>1, <1>2, <1>3 DEF FilesSound, Holders, EndedIs, FileNames
<1>7. EffectSound'
  BY <1>0, <1>1, <1>2, <1>3 DEF EffectSound, Holders, FilesSound, EndedIs, FileNames, MayEffect,
       Quiet, Absent, Pending
<1>8. ~intruded' => RecordsTrue'
  BY <1>0, <1>1, <1>2, <1>3 DEF RoutineIInv, RecordsTrue, Holders, FilesSound, EffectSound, EndedIs,
       FileNames, Selected
<1> QED BY <1>4, <1>5, <1>6, <1>7, <1>8 DEF RoutineIInv

\* A run that never went forward stops.
LEMMA StopKeeps ==
  ASSUME RoutineIInv, NEW r \in Runs, "forward_intent" \notin files[r], step[r] \notin {"idle",
         "bind", "leave", "stopping"},
         Writes(r, "preflight_stopped"), Goes(r, "stopping"), UNCHANGED <<row, writerLock, cloudVars>>
  PROVE  RoutineIInv'
<1> USE RoutineAssumption
<1>0. RoutineTyped /\ Holders /\ EffectSound /\ FilesSound /\ EndedIs /\ EndedIs'
  BY EndedMeans DEF RoutineIInv
<1>1. /\ ~Has(r, "forward_intent") /\ step[r] \notin {"idle", "bind", "leave", "stopping"}
      /\ Writes(r, "preflight_stopped") /\ Goes(r, "stopping")
      /\ UNCHANGED <<row, writerLock, inFlight, job, serving, intruded>>
  BY DEF Has, cloudVars
<1>2. /\ files' \in [Runs -> SUBSET FileNames]
      /\ \A q \in Runs, g \in FileNames : Has(q, g)' <=> (Has(q, g) \/ (q = r /\ g = "preflight_stopped"))
  BY <1>0, <1>1, FilesAfter DEF FileNames
<1>3. step' \in [Runs -> Steps] /\ \A q \in Runs : step'[q] = IF q = r THEN "stopping" ELSE step[q]
  BY <1>0, <1>1, StepAfter DEF Steps
<1>4. RoutineTyped'
  BY <1>0, <1>1, <1>2, <1>3 DEF RoutineTyped
<1>5. Holders'
  BY <1>0, <1>1, <1>2, <1>3 DEF Holders
<1>6. FilesSound'
  BY <1>0, <1>1, <1>2, <1>3 DEF FilesSound, Holders, EndedIs, FileNames
<1>7. EffectSound'
  BY <1>0, <1>1, <1>2, <1>3 DEF EffectSound, Holders, FilesSound, EndedIs, FileNames, MayEffect,
       Quiet, Absent, Pending
<1>8. ~intruded' => RecordsTrue'
  BY <1>0, <1>1, <1>2, <1>3 DEF RoutineIInv, RecordsTrue, Holders, FilesSound, EffectSound, EndedIs,
       FileNames, Selected
<1> QED BY <1>4, <1>5, <1>6, <1>7, <1>8 DEF RoutineIInv

\* A publisher that stops past its intent, or dies, only frees the lock.
LEMMA GiveBackKeeps ==
  ASSUME RoutineIInv, NEW r \in Runs, step[r] # "idle", GivesBack(r), UNCHANGED <<row, files, cloudVars>>
  PROVE  RoutineIInv'
<1> USE RoutineAssumption
<1>0. RoutineTyped /\ Holders /\ EffectSound /\ FilesSound /\ EndedIs /\ EndedIs'
  BY EndedMeans DEF RoutineIInv
<1>1. /\ step[r] # "idle" /\ writerLock' = NoRun /\ Goes(r, "idle")
      /\ UNCHANGED <<row, files, inFlight, job, serving, intruded>>
  BY DEF GivesBack, cloudVars
<1>3. step' \in [Runs -> Steps] /\ \A q \in Runs : step'[q] = IF q = r THEN "idle" ELSE step[q]
  BY <1>0, <1>1, StepAfter DEF Steps
<1>4. RoutineTyped'
  BY <1>0, <1>1, <1>3 DEF RoutineTyped
<1>5. Holders'
  BY <1>0, <1>1, <1>3 DEF Holders
<1>6. FilesSound'
  BY <1>0, <1>1, <1>3 DEF FilesSound, Holders, EndedIs, FileNames, Has
<1>7. EffectSound'
  BY <1>0, <1>1, <1>3 DEF EffectSound, Holders, FilesSound, EndedIs, FileNames, MayEffect,
       Quiet, Absent, Pending, Has
<1>8. ~intruded' => RecordsTrue'
  BY <1>0, <1>1, <1>3 DEF RoutineIInv, RecordsTrue, Holders, FilesSound, EffectSound, EndedIs,
       FileNames, Selected, Has
<1> QED BY <1>4, <1>5, <1>6, <1>7, <1>8 DEF RoutineIInv

\* A run leaves when it has ended or never went forward: nothing is under way.
LEMMA LeaveRegistryKeeps ==
  ASSUME RoutineIInv, NEW r \in Runs, LeaveRegistry(r)
  PROVE  RoutineIInv'
<1> USE RoutineAssumption
<1>0. RoutineTyped /\ Holders /\ EffectSound /\ FilesSound /\ EndedIs /\ EndedIs'
  BY EndedMeans DEF RoutineIInv
<1>1. /\ step[r] \in {"leave", "stopping"} /\ row' = NoRun /\ writerLock' = NoRun /\ Goes(r, "idle")
      /\ UNCHANGED <<files, inFlight, job, serving, intruded>>
  BY DEF LeaveRegistry, GivesBack, cloudVars
<1>3. step' \in [Runs -> Steps] /\ \A q \in Runs : step'[q] = IF q = r THEN "idle" ELSE step[q]
  BY <1>0, <1>1, StepAfter DEF Steps
<1>4. RoutineTyped'
  BY <1>0, <1>1, <1>3 DEF RoutineTyped
<1>5. Holders'
  BY <1>0, <1>1, <1>3 DEF Holders
<1>6. FilesSound'
  BY <1>0, <1>1, <1>3 DEF FilesSound, Holders, EndedIs, FileNames, Has
<1>7. EffectSound'
  BY <1>0, <1>1, <1>3 DEF EffectSound, Holders, FilesSound, EndedIs, FileNames, MayEffect,
       Quiet, Absent, Pending, Has
<1>8. ~intruded' => RecordsTrue'
  BY <1>0, <1>1, <1>3 DEF RoutineIInv, RecordsTrue, Holders, FilesSound, EffectSound, EndedIs,
       FileNames, Selected, Has
<1> QED BY <1>4, <1>5, <1>6, <1>7, <1>8 DEF RoutineIInv

\* An ended run frees the row it died with.
LEMMA EnterEndedKeeps ==
  ASSUME RoutineIInv, NEW r \in Runs, step[r] = "idle", writerLock = NoRun, row \in {NoRun, r},
         Ended(r), row' = NoRun,
         UNCHANGED <<writerLock, files, step, cloudVars>>
  PROVE  RoutineIInv'
<1> USE RoutineAssumption
<1>0. RoutineTyped /\ Holders /\ EffectSound /\ FilesSound /\ EndedIs /\ EndedIs'
  BY EndedMeans DEF RoutineIInv
<1>1. /\ writerLock = NoRun /\ row \in {NoRun, r} /\ row' = NoRun /\ Ended(r)
      /\ UNCHANGED <<writerLock, files, step, inFlight, job, serving, intruded>>
  BY DEF cloudVars
<1>4. RoutineTyped'
  BY <1>0, <1>1 DEF RoutineTyped
<1>5. Holders'
  BY <1>0, <1>1 DEF Holders
<1>6. FilesSound'
  BY <1>0, <1>1 DEF FilesSound, Holders, EndedIs, FileNames, Has
<1>7. EffectSound'
  BY <1>0, <1>1 DEF EffectSound, Holders, FilesSound, EndedIs, FileNames, MayEffect,
       Quiet, Absent, Pending, Has
<1>8. ~intruded' => RecordsTrue'
  BY <1>0, <1>1 DEF RoutineIInv, RecordsTrue, Holders, FilesSound, EffectSound, EndedIs,
       FileNames, Selected, Has
<1> QED BY <1>4, <1>5, <1>6, <1>7, <1>8 DEF RoutineIInv

\* A run goes on from its row.
LEMMA EnterAgainKeeps ==
  ASSUME RoutineIInv, NEW r \in Runs, step[r] = "idle", writerLock = NoRun, ~Ended(r), row = r,
         Goes(r, "observe"), writerLock' = r, UNCHANGED <<row, files, cloudVars>>
  PROVE  RoutineIInv'
<1> USE RoutineAssumption
<1>0. RoutineTyped /\ Holders /\ EffectSound /\ FilesSound /\ EndedIs /\ EndedIs'
  BY EndedMeans DEF RoutineIInv
<1>1. /\ writerLock = NoRun /\ ~Ended(r) /\ row = r /\ Goes(r, "observe") /\ writerLock' = r
      /\ UNCHANGED <<row, files, inFlight, job, serving, intruded>>
  BY DEF cloudVars
<1>3. step' \in [Runs -> Steps] /\ \A q \in Runs : step'[q] = IF q = r THEN "observe" ELSE step[q]
  BY <1>0, <1>1, StepAfter DEF Steps
<1>4. RoutineTyped'
  BY <1>0, <1>1, <1>3 DEF RoutineTyped
<1>5. Holders'
  BY <1>0, <1>1, <1>3 DEF Holders
<1>6. FilesSound'
  BY <1>0, <1>1, <1>3 DEF FilesSound, Holders, EndedIs, FileNames, Has
<1>7. EffectSound'
  BY <1>0, <1>1, <1>3 DEF EffectSound, Holders, FilesSound, EndedIs, FileNames, MayEffect,
       Quiet, Absent, Pending, Has
<1>8. ~intruded' => RecordsTrue'
  BY <1>0, <1>1, <1>3 DEF RoutineIInv, RecordsTrue, Holders, FilesSound, EffectSound, EndedIs,
       FileNames, Selected, Has
<1> QED BY <1>4, <1>5, <1>6, <1>7, <1>8 DEF RoutineIInv

\* A run starts while the resource is free.
LEMMA EnterFirstKeeps ==
  ASSUME RoutineIInv, NEW r \in Runs, step[r] = "idle", writerLock = NoRun, ~Ended(r), row = NoRun,
         Writes(r, "bind_intent"), Goes(r, "bind"), writerLock' = r, UNCHANGED <<row, cloudVars>>
  PROVE  RoutineIInv'
<1> USE RoutineAssumption
<1>0. RoutineTyped /\ Holders /\ EffectSound /\ FilesSound /\ EndedIs /\ EndedIs'
  BY EndedMeans DEF RoutineIInv
<1>1. /\ writerLock = NoRun /\ ~Ended(r) /\ row = NoRun /\ Writes(r, "bind_intent")
      /\ Goes(r, "bind") /\ writerLock' = r /\ UNCHANGED <<row, inFlight, job, serving, intruded>>
  BY DEF cloudVars
<1>2. /\ files' \in [Runs -> SUBSET FileNames]
      /\ \A q \in Runs, g \in FileNames : Has(q, g)' <=> (Has(q, g) \/ (q = r /\ g = "bind_intent"))
  BY <1>0, <1>1, FilesAfter DEF FileNames
<1>3. step' \in [Runs -> Steps] /\ \A q \in Runs : step'[q] = IF q = r THEN "bind" ELSE step[q]
  BY <1>0, <1>1, StepAfter DEF Steps
<1>4. RoutineTyped'
  BY <1>0, <1>1, <1>2, <1>3 DEF RoutineTyped
<1>5. Holders'
  BY <1>0, <1>1, <1>2, <1>3 DEF Holders
<1>6. FilesSound'
  BY <1>0, <1>1, <1>2, <1>3 DEF FilesSound, Holders, EndedIs, FileNames
<1>7. EffectSound'
  BY <1>0, <1>1, <1>2, <1>3 DEF EffectSound, Holders, FilesSound, EndedIs, FileNames, MayEffect,
       Quiet, Absent, Pending
<1>8. ~intruded' => RecordsTrue'
  BY <1>0, <1>1, <1>2, <1>3 DEF RoutineIInv, RecordsTrue, Holders, FilesSound, EffectSound, EndedIs,
       FileNames, Selected
<1> QED BY <1>4, <1>5, <1>6, <1>7, <1>8 DEF RoutineIInv

\* Another publisher uses the resource only while no run has it.
LEMMA OtherRowKeeps ==
  ASSUME RoutineIInv, OtherRow
  PROVE  RoutineIInv'
<1> USE RoutineAssumption
<1>0. RoutineTyped /\ Holders /\ EffectSound /\ FilesSound /\ EndedIs /\ EndedIs'
  BY EndedMeans DEF RoutineIInv
<1>1. /\ writerLock = NoRun /\ row \in {NoRun, other} /\ row' \in {NoRun, other}
      /\ UNCHANGED <<writerLock, files, step, inFlight, job, serving, intruded>>
  BY DEF OtherRow, cloudVars
<1>4. RoutineTyped'
  BY <1>0, <1>1 DEF RoutineTyped
<1>5. Holders'
  BY <1>0, <1>1 DEF Holders
<1>6. FilesSound'
  BY <1>0, <1>1 DEF FilesSound, Holders, EndedIs, FileNames, Has
<1>7. EffectSound'
  BY <1>0, <1>1 DEF EffectSound, Holders, FilesSound, EndedIs, FileNames, MayEffect,
       Quiet, Absent, Pending, Has
<1>8. ~intruded' => RecordsTrue'
  BY <1>0, <1>1 DEF RoutineIInv, RecordsTrue, Holders, FilesSound, EffectSound, EndedIs,
       FileNames, Selected, Has
<1> QED BY <1>4, <1>5, <1>6, <1>7, <1>8 DEF RoutineIInv

\* The provider takes or loses the one promotion.
LEMMA TakesKeeps ==
  ASSUME RoutineIInv, NEW p \in inFlight, Takes(p)
  PROVE  RoutineIInv'
<1> USE RoutineAssumption
<1>0. RoutineTyped /\ Holders /\ EffectSound /\ FilesSound /\ EndedIs /\ EndedIs'
  BY EndedMeans DEF RoutineIInv
<1>1. /\ inFlight' = inFlight \ {p}
      /\ (~Pending /\ job' = [of |-> p[1], to |-> p[2], status |-> "pending"]) \/ job' = job
      /\ UNCHANGED <<row, writerLock, files, step, serving, intruded>>
  BY DEF Takes
<1>4. RoutineTyped'
  BY <1>0, <1>1 DEF RoutineTyped
<1>5. Holders'
  BY <1>0, <1>1 DEF Holders
<1>6. FilesSound'
  BY <1>0, <1>1 DEF FilesSound, Holders, EndedIs, FileNames, Has
<1>7. EffectSound'
  BY <1>0, <1>1 DEF EffectSound, Holders, FilesSound, EndedIs, FileNames, MayEffect,
       Quiet, Absent, Pending, Has
<1>8. ~intruded' => RecordsTrue'
  BY <1>0, <1>1 DEF RoutineIInv, RecordsTrue, Holders, FilesSound, EffectSound, EndedIs,
       FileNames, Selected, Has
<1> QED BY <1>4, <1>5, <1>6, <1>7, <1>8 DEF RoutineIInv

\* An alias moves only for the run that has the row.
LEMMA MovesKeeps ==
  ASSUME RoutineIInv, NEW a \in Aliases, MovesAlias(a)
  PROVE  RoutineIInv'
<1> USE RoutineAssumption
<1>0. RoutineTyped /\ Holders /\ EffectSound /\ FilesSound /\ EndedIs /\ EndedIs'
  BY EndedMeans DEF RoutineIInv
<1>1. /\ job.status = "pending" /\ serving' = [serving EXCEPT ![a] = job.to]
      /\ UNCHANGED <<row, writerLock, files, step, inFlight, job, intruded>>
  BY DEF MovesAlias, Pending
<1>a. /\ job.to \in Runs \cup {lastAccepted} /\ MayEffect(job.of, job.to)
      /\ serving' \in [Aliases -> Runs \cup {lastAccepted, foreign}]
      /\ \A z \in Aliases : serving'[z] = IF z = a THEN job.to ELSE serving[z]
  BY <1>0, <1>1 DEF RoutineTyped, EffectSound, MayEffect, Pending
<1>4. RoutineTyped'
  BY <1>0, <1>1, <1>a DEF RoutineTyped
<1>5. Holders'
  BY <1>0, <1>1, <1>a DEF Holders
<1>6. FilesSound'
  BY <1>0, <1>1, <1>a DEF FilesSound, Holders, EndedIs, FileNames, Has
<1>7. EffectSound'
  BY <1>0, <1>1, <1>a DEF EffectSound, Holders, FilesSound, EndedIs, FileNames, MayEffect,
       Quiet, Absent, Pending, Has
<1>8. ~intruded' => RecordsTrue'
  BY <1>0, <1>1, <1>a DEF RoutineIInv, RecordsTrue, Holders, FilesSound, EffectSound, EndedIs,
       FileNames, Selected, Has, MayEffect, Pending, Quiet
<1> QED BY <1>4, <1>5, <1>6, <1>7, <1>8 DEF RoutineIInv

\* The provider ends the job.
LEMMA EndsJobKeeps ==
  ASSUME RoutineIInv, EndsJob
  PROVE  RoutineIInv'
<1> USE RoutineAssumption
<1>0. RoutineTyped /\ Holders /\ EffectSound /\ FilesSound /\ EndedIs /\ EndedIs'
  BY EndedMeans DEF RoutineIInv
<1>1. /\ job' \in {NoJob, [job EXCEPT !.status = "succeeded"], [job EXCEPT !.status = "failed"]}
      /\ UNCHANGED <<row, writerLock, files, step, inFlight, serving, intruded>>
  BY DEF EndsJob
<1>a. /\ job' \in [of : Runs \cup {NoRun}, to : Runs \cup {lastAccepted, foreign, NoRun},
                status : {"none", "pending", "succeeded", "failed"}]
      /\ job'.status # "pending"
  BY <1>0, <1>1 DEF RoutineTyped, NoJob
<1>4. RoutineTyped'
  BY <1>0, <1>1, <1>a DEF RoutineTyped
<1>5. Holders'
  BY <1>0, <1>1, <1>a DEF Holders
<1>6. FilesSound'
  BY <1>0, <1>1, <1>a DEF FilesSound, Holders, EndedIs, FileNames, Has
<1>7. EffectSound'
  BY <1>0, <1>1, <1>a DEF EffectSound, Holders, FilesSound, EndedIs, FileNames, MayEffect,
       Quiet, Absent, Pending, Has
<1>8. ~intruded' => RecordsTrue'
  BY <1>0, <1>1, <1>a DEF RoutineIInv, RecordsTrue, Holders, FilesSound, EffectSound, EndedIs,
       FileNames, Selected, Has
<1> QED BY <1>4, <1>5, <1>6, <1>7, <1>8 DEF RoutineIInv

\* A promotion past the registry serves a deployment of no plan.
LEMMA IntrudesKeeps ==
  ASSUME RoutineIInv, Intrudes
  PROVE  RoutineIInv'
<1> USE RoutineAssumption
<1>0. RoutineTyped /\ Holders /\ EffectSound /\ FilesSound /\ EndedIs /\ EndedIs'
  BY EndedMeans DEF RoutineIInv
<1>1. /\ ~Pending /\ intruded' /\ serving' = [z \in Aliases |-> foreign]
      /\ job' = [of |-> NoRun, to |-> foreign, status |-> "succeeded"]
      /\ UNCHANGED <<row, writerLock, files, step, inFlight>>
  BY DEF Intrudes
<1>4. RoutineTyped'
  BY <1>0, <1>1 DEF RoutineTyped
<1>5. Holders'
  BY <1>0, <1>1 DEF Holders
<1>6. FilesSound'
  BY <1>0, <1>1 DEF FilesSound, Holders, EndedIs, FileNames, Has
<1>7. EffectSound'
  BY <1>0, <1>1 DEF EffectSound, Holders, FilesSound, EndedIs, FileNames, MayEffect,
       Quiet, Absent, Pending, Has
<1>8. ~intruded' => RecordsTrue'
  BY <1>0, <1>1 DEF RoutineIInv, RecordsTrue, Holders, FilesSound, EffectSound, EndedIs,
       FileNames, Selected, Has
<1> QED BY <1>4, <1>5, <1>6, <1>7, <1>8 DEF RoutineIInv

\* The first state of the publisher.
LEMMA RoutineInit == InitRoutine => RoutineIInv
<1> SUFFICES ASSUME InitRoutine PROVE RoutineIInv
  OBVIOUS
<1> USE RoutineAssumption DEF InitRoutine
<1>1. RoutineTyped
  <2>1. job \in [of : Runs \cup {NoRun}, to : Runs \cup {lastAccepted, foreign, NoRun},
                status : {"none", "pending", "succeeded", "failed"}]
    BY DEF NoJob
  <2> QED BY <2>1 DEF RoutineTyped, Steps, FileNames
<1>2. Holders /\ FilesSound
  BY DEF Holders, FilesSound, Has, Ended
<1>3. EffectSound
  BY DEF EffectSound, Has, Ended, Absent, Pending, Quiet, NoJob
<1>4. RecordsTrue
  BY DEF RecordsTrue, Has, Selected
<1> QED BY <1>1, <1>2, <1>3, <1>4 DEF RoutineIInv

\* A step of nobody keeps the invariant of the publisher.
LEMMA RoutineStutters ==
  ASSUME RoutineIInv, UNCHANGED routineVars
  PROVE  RoutineIInv'
<1>1. UNCHANGED <<row, writerLock, files, step, inFlight, job, serving, intruded>>
  BY DEF routineVars
<1>2. RoutineTyped' /\ Holders' /\ FilesSound'
  BY <1>1 DEF RoutineIInv, RoutineTyped, Holders, FilesSound, Has, Ended
<1>3. EffectSound'
  BY <1>1 DEF RoutineIInv, EffectSound, MayEffect, Quiet, Absent, Pending, Has, Ended
<1>4. ~intruded' => RecordsTrue'
  BY <1>1 DEF RoutineIInv, RecordsTrue, Selected, Has, Ended
<1> QED BY <1>2, <1>3, <1>4 DEF RoutineIInv

\* Every step of the publisher keeps its invariant.
LEMMA RoutineNext == RoutineIInv /\ [NextRoutine]_routineVars => RoutineIInv'
<1> SUFFICES ASSUME RoutineIInv, [NextRoutine]_routineVars PROVE RoutineIInv'
  OBVIOUS
<1>1. ASSUME NEW r \in Runs, Enter(r) PROVE RoutineIInv'
  BY <1>1, EnterEndedKeeps, EnterAgainKeeps, EnterFirstKeeps DEF Enter
<1>2. ASSUME NEW r \in Runs, Observe(r) PROVE RoutineIInv'
  BY <1>2, ObserveRecoveredKeeps, ObserveLiveKeeps, ObserveCheckedKeeps DEF Observe
<1>3. ASSUME NEW r \in Runs, Promote(r) PROVE RoutineIInv'
  BY <1>3, PromoteForwardKeeps, PromoteReturnKeeps DEF Promote
<1>4. ASSUME NEW r \in Runs, Smoke(r) PROVE RoutineIInv'
  BY <1>4, SmokePassesKeeps, SmokeFailsKeeps DEF Smoke
<1>5. ASSUME NEW r \in Runs, Stops(r) PROVE RoutineIInv'
  BY <1>5, StopKeeps, GiveBackKeeps DEF Stops
<1>6. ASSUME NEW r \in Runs, PublisherDies(r) PROVE RoutineIInv'
  BY <1>6, GiveBackKeeps DEF PublisherDies
<1>7. ASSUME NEW r \in Runs, Bind(r) \/ ForwardIntent(r) \/ Live(r) \/ ReturnIntent(r)
      PROVE  RoutineIInv'
  BY <1>7, BindKeeps, ForwardIntentKeeps, LiveKeeps, ReturnIntentKeeps
<1>8. ASSUME NEW r \in Runs, Returned(r) \/ Finish(r) \/ LeaveRegistry(r) PROVE RoutineIInv'
  BY <1>8, ReturnedKeeps, FinishKeeps, LeaveRegistryKeeps
<1>9. OtherRow \/ EndsJob \/ Intrudes \/ UNCHANGED routineVars => RoutineIInv'
  BY OtherRowKeeps, EndsJobKeeps, IntrudesKeeps, RoutineStutters
<1>10. ASSUME NEW p \in inFlight, Takes(p) PROVE RoutineIInv'
  BY <1>10, TakesKeeps
<1>11. ASSUME NEW a \in Aliases, MovesAlias(a) PROVE RoutineIInv'
  BY <1>11, MovesKeeps
<1> QED BY <1>1, <1>2, <1>3, <1>4, <1>5, <1>6, <1>7, <1>8, <1>9, <1>10, <1>11 DEF NextRoutine

\* The property follows from the inductive invariant.
LEMMA ReleaseFromIInv == RoutineIInv => ReleaseSound
<1> SUFFICES ASSUME RoutineIInv PROVE ReleaseSound
  OBVIOUS
<1> USE RoutineAssumption
<1>1. EffectIsHeld
  BY DEF RoutineIInv, EffectSound, MayEffect, EffectIsHeld
<1>2. ASSUME row = NoRun, ~intruded
      PROVE  \E d \in Runs \cup {lastAccepted} :
               /\ Selected(d)
               /\ \A r \in Runs : "accepted" \in files[r] <=> d = r
  <2>1. RecordsTrue
    BY <1>2 DEF RoutineIInv
  <2>2. CASE \E q \in Runs : Has(q, "accepted")
    <3>1. PICK q \in Runs : Has(q, "accepted")
      BY <2>2
    <3>2. Selected(q) /\ \A r \in Runs : Has(r, "accepted") <=> q = r
      BY <2>1, <3>1 DEF RecordsTrue
    <3> QED BY <3>2 DEF Has
  <2>3. CASE \A q \in Runs : ~Has(q, "accepted")
    <3>1. Selected(lastAccepted)
      BY <1>2, <2>1, <2>3 DEF RecordsTrue
    <3> QED BY <2>3, <3>1 DEF Has
  <2> QED BY <2>2, <2>3
<1> QED BY <1>1, <1>2 DEF ReleaseSound, ServedAsRecorded

\* A promotion that may still change production has its run's row, and a free resource
\* serves what the runs recorded: for any number of runs and aliases, deaths of publishers
\* between any two writes, and answers of the provider that come late or never.
THEOREM ReleaseTheorem == SpecRoutine => []ReleaseSound
<1> QED BY RoutineInit, RoutineNext, ReleaseFromIInv, PTL DEF SpecRoutine

-----------------------------------------------------------------------------
(* The observation ledger.  The history is in order whoever published it   *)
(* and however it ended: only the last bundle may lack its receipt, and    *)
(* only the recorder inside the lock knows where the history stands.  What *)
(* the readers walk back over is its longest streak.                       *)

BundleRecord == [started : Nat, observed : Nat, completed : Nat, evidence : Evidence]
Inside == {"locked", "making", "loaded", "planned", "bundle_staged", "bundle_linked", "bundled",
           "receipt_staged", "receipt_linked"}
RecorderRecord == [step : {"idle", "started", "completed"} \cup Inside,
                   started : Nat, completed : Nat, published : Nat]

LedgerTypeOK ==
  /\ clock \in Nat
  /\ bundles \in Seq(BundleRecord) /\ receipts \in Seq(Nat)
  /\ recorder \in [Recorders -> RecorderRecord]

\* What was published, whoever published it and however it ended.
HistoryOK ==
  /\ Len(receipts) \in {Len(bundles), Len(bundles) - 1}
  /\ \A n \in 1..Len(bundles) : bundles[n].started < bundles[n].completed
  /\ \A n \in 2..Len(bundles) : bundles[n].started > bundles[n - 1].completed
  /\ \A n \in 1..Len(receipts) : receipts[n] >= bundles[n].completed
  /\ \A n \in 2..Len(receipts) : receipts[n] > receipts[n - 1]
  /\ bundles # <<>> => "bundles" \in directories /\ "receipts" \in directories

\* What an invocation may rely on that holds the lock.
RecorderOK(i) ==
  LET r == recorder[i]
      level == Len(receipts) = Len(bundles)
      after == Len(receipts) # 0 => r.published > receipts[Len(receipts)]
  IN  /\ r.step \in Inside => lockedBy = i
      /\ r.step \notin {"idle", "started"} => r.started < r.completed
      /\ r.step = "making" => bundles = <<>> /\ "bundles" \in directories
      /\ r.step \in {"making", "loaded", "planned", "bundle_staged"} => linked = "none"
      /\ r.step \in {"loaded", "planned", "bundle_staged"} =>
           level /\ "bundles" \in directories /\ "receipts" \in directories
      /\ r.step \in {"planned", "bundle_staged"} =>
           /\ r.published >= r.completed /\ after
           /\ Len(bundles) # 0 => r.started > bundles[Len(bundles)].completed
      /\ r.step \in {"bundle_linked", "bundled", "receipt_staged"} =>
           /\ Len(bundles) = Len(receipts) + 1 /\ after
           /\ r.published >= bundles[Len(bundles)].completed

LedgerIInv == LedgerTypeOK /\ HistoryOK /\ \A i \in Recorders : RecorderOK(i)

\* A recorder's step that publishes nothing.
LEMMA LedgerQuiet ==
  ASSUME LedgerIInv, NEW i \in Recorders, NEW r \in RecorderRecord,
         recorder' = [recorder EXCEPT ![i] = r], clock' \in Nat,
         UNCHANGED <<bundles, receipts>>, directories \subseteq directories',
         UNCHANGED linked \/ recorder[i].step \in Inside,
         RecorderOK(i)', \A j \in Recorders \ {i} : lockedBy = j => lockedBy' = j
  PROVE  LedgerIInv'
<1>1. LedgerTypeOK'
  BY DEF LedgerIInv, LedgerTypeOK
<1>2. HistoryOK'
  BY DEF LedgerIInv, HistoryOK
<1>3. ASSUME NEW j \in Recorders PROVE RecorderOK(j)'
  <2>1. CASE j = i
    BY <2>1
  <2>2. CASE j # i
    <3>1. recorder'[j] = recorder[j] /\ RecorderOK(j) /\ (lockedBy = j => lockedBy' = j)
      BY <2>2 DEF LedgerIInv, LedgerTypeOK
    <3>2. recorder[j].step \in Inside => UNCHANGED linked
      BY <2>2 DEF LedgerIInv, RecorderOK
    <3> QED
      BY <3>1, <3>2 DEF RecorderOK, Inside
  <2> QED
    BY <2>1, <2>2
<1> QED
  BY <1>1, <1>2, <1>3 DEF LedgerIInv

\* What one recorder knows when it moves.
LEMMA RecorderKnows ==
  ASSUME LedgerIInv, NEW i \in Recorders
  PROVE  /\ recorder[i] \in RecorderRecord /\ RecorderOK(i) /\ clock \in Nat
         /\ bundles \in Seq(BundleRecord) /\ receipts \in Seq(Nat) /\ HistoryOK
         /\ Len(bundles) \in Nat /\ Len(receipts) \in Nat /\ recorder \in [Recorders -> RecorderRecord]
BY LenProperties DEF LedgerIInv, LedgerTypeOK

\* An invocation starts and completes.
LEMMA LedgerStarts ==
  ASSUME LedgerIInv, NEW i \in Recorders, Starts(i) \/ Completes(i)
  PROVE  LedgerIInv'
<1>1. CASE Starts(i)
  <2> DEFINE r == [recorder[i] EXCEPT !.step = "started", !.started = clock]
  <2>1. r \in RecorderRecord /\ r.step = "started"
    BY RecorderKnows DEF RecorderRecord
  <2>2. recorder' = [recorder EXCEPT ![i] = r] /\ UNCHANGED <<clock, artifacts, lockedBy>>
    BY <1>1 DEF Starts
  <2> HIDE DEF r
  <2>3. RecorderOK(i)'
    BY <2>1, <2>2, RecorderKnows DEF RecorderOK, Inside
  <2> QED
    BY <2>1, <2>2, <2>3, RecorderKnows, LedgerQuiet DEF artifacts
<1>2. CASE Completes(i)
  <2> DEFINE started == recorder[i].started
             end == IF clock > started THEN clock ELSE started + 1
             r == [recorder[i] EXCEPT !.step = "completed", !.completed = end]
  <2>1. end \in Nat /\ started \in Nat /\ started < end
    BY RecorderKnows DEF RecorderRecord
  <2>2. recorder' = [recorder EXCEPT ![i] = r] /\ UNCHANGED <<clock, artifacts, lockedBy>>
    BY <1>2 DEF Completes
  <2> HIDE DEF end
  <2>3. r \in RecorderRecord /\ r.step = "completed" /\ r.started = started /\ r.completed = end
    BY <2>1, RecorderKnows DEF RecorderRecord
  <2> HIDE DEF r, started
  <2>4. RecorderOK(i)'
    BY <2>1, <2>2, <2>3, RecorderKnows DEF RecorderOK, Inside
  <2> QED
    BY <2>2, <2>3, <2>4, RecorderKnows, LedgerQuiet DEF artifacts
<1> QED
  BY <1>1, <1>2

\* The lock is taken, the history read, the directories made, the append planned.
LEMMA LedgerPrepares ==
  ASSUME LedgerIInv, NEW i \in Recorders, Locks(i) \/ Loads(i) \/ Makes(i)
  PROVE  LedgerIInv'
<1>1. ASSUME NEW s \in Inside PROVE
        LET r == [recorder[i] EXCEPT !.step = s]
        IN  r \in RecorderRecord /\ r.step = s /\ r.started = recorder[i].started
            /\ r.completed = recorder[i].completed
  BY RecorderKnows DEF RecorderRecord
<1>2. CASE Locks(i)
  <2> DEFINE r == [recorder[i] EXCEPT !.step = "locked"]
  <2>1. r \in RecorderRecord /\ r.step = "locked" /\ r.started = recorder[i].started
        /\ r.completed = recorder[i].completed
    BY <1>1 DEF Inside
  <2>2. /\ recorder' = [recorder EXCEPT ![i] = r] /\ lockedBy' = i /\ UNCHANGED <<clock, artifacts>>
        /\ lockedBy = Nobody /\ recorder[i].step = "completed"
    BY <1>2 DEF Locks, Turns, At
  <2> HIDE DEF r
  <2>3. RecorderOK(i)'
    BY <2>1, <2>2, RecorderKnows DEF RecorderOK, Inside
  <2> QED
    BY <2>1, <2>2, <2>3, RecorderKnows, LedgerQuiet, LedgerBounds DEF artifacts
<1>3. CASE Loads(i)
  <2> PICK s \in {"making", "loaded"} :
        /\ Turns(i, s)
        /\ linked = "none"
        /\ s = "making" => "bundles" \notin directories /\ "bundles" \in directories'
        /\ s = "loaded" => Verified /\ "bundles" \in directories' /\ "receipts" \in directories'
    BY <1>3 DEF Loads, Verified, LayoutValid
  <2> DEFINE r == [recorder[i] EXCEPT !.step = s]
  <2>1. r \in RecorderRecord /\ r.step = s /\ r.started = recorder[i].started
        /\ r.completed = recorder[i].completed
    BY <1>1 DEF Inside
  <2>2. /\ recorder' = [recorder EXCEPT ![i] = r] /\ directories \subseteq directories'
        /\ UNCHANGED <<clock, bundles, receipts, linked, lockedBy>> /\ recorder[i].step = "locked"
    BY <1>3 DEF Loads, Turns, At
  <2> HIDE DEF r
  <2>3. RecorderOK(i)'
    BY <2>1, <2>2, RecorderKnows DEF RecorderOK, Inside, HistoryOK, Verified
  <2> QED
    BY <2>1, <2>2, <2>3, RecorderKnows, LedgerQuiet
<1>4. CASE Makes(i)
  <2> PICK s \in {"making", "loaded"} :
        /\ recorder' = [recorder EXCEPT ![i].step = s]
        /\ s = "loaded" => "receipts" \in directories'
    <3>1. recorder[i].step = "making" /\ recorder \in [Recorders -> RecorderRecord]
      BY <1>4, RecorderKnows DEF Makes, At
    <3>2. CASE UNCHANGED recorder
      <4>1. [recorder EXCEPT ![i] = [recorder[i] EXCEPT !.step = "making"]] = recorder
        <5>1. [recorder[i] EXCEPT !.step = "making"] = recorder[i]
          BY <3>1 DEF RecorderRecord
        <5> QED
          BY <3>1, <5>1
      <4> QED
        BY <3>2, <4>1
    <3>3. CASE Turns(i, "loaded") /\ "receipts" \in directories'
      BY <3>3 DEF Turns
    <3> QED
      BY <1>4, <3>2, <3>3 DEF Makes
  <2> DEFINE r == [recorder[i] EXCEPT !.step = s]
  <2>1. r \in RecorderRecord /\ r.step = s /\ r.started = recorder[i].started
        /\ r.completed = recorder[i].completed
    BY <1>1 DEF Inside
  <2>2. /\ recorder' = [recorder EXCEPT ![i] = r] /\ directories \subseteq directories'
        /\ UNCHANGED <<clock, bundles, receipts, linked, lockedBy>> /\ recorder[i].step = "making"
    BY <1>4 DEF Makes, At
  <2> HIDE DEF r
  <2>3. bundles = <<>> /\ Len(receipts) = Len(bundles) /\ "bundles" \in directories'
    BY <2>2, RecorderKnows DEF RecorderOK, HistoryOK
  <2>4. RecorderOK(i)'
    BY <2>1, <2>2, <2>3, RecorderKnows DEF RecorderOK, Inside
  <2> QED
    BY <2>1, <2>2, <2>4, RecorderKnows, LedgerQuiet
<1> QED
  BY <1>2, <1>3, <1>4

\* The append is compared with the head before anything is staged.
LEMMA LedgerPlans ==
  ASSUME LedgerIInv, NEW i \in Recorders, Plans(i)
  PROVE  LedgerIInv'
<1> DEFINE r == [recorder[i] EXCEPT !.step = "planned", !.published = clock]
<1>1. r \in RecorderRecord /\ r.step = "planned" /\ r.started = recorder[i].started
      /\ r.completed = recorder[i].completed /\ r.published = clock
  BY RecorderKnows DEF RecorderRecord, Inside
<1>2. /\ recorder' = [recorder EXCEPT ![i] = r] /\ UNCHANGED <<clock, artifacts, lockedBy>>
      /\ recorder[i].step = "loaded" /\ clock >= recorder[i].completed
      /\ bundles # <<>> => clock > receipts[Len(receipts)] /\ recorder[i].started > bundles[Len(bundles)].completed
  BY DEF Plans, At, Last
<1> HIDE DEF r
<1>3. Len(bundles) # 0 => bundles # <<>>
  OBVIOUS
<1>4. RecorderOK(i)'
  BY <1>1, <1>2, <1>3, RecorderKnows DEF RecorderOK, Inside, artifacts
<1> QED
  BY <1>1, <1>2, <1>4, RecorderKnows, LedgerQuiet DEF artifacts

\* A recorder is gone, and the lock with it.
LEMMA LedgerLeaves ==
  ASSUME LedgerIInv, NEW i \in Recorders, Leaves(i), UNCHANGED <<clock, directories, bundles, receipts>>,
         UNCHANGED linked \/ recorder[i].step \in Inside
  PROVE  LedgerIInv'
<1>1. NewRecorder \in RecorderRecord /\ NewRecorder.step = "idle"
  BY DEF NewRecorder, RecorderRecord
<1>2. recorder' = [recorder EXCEPT ![i] = NewRecorder] /\ \A j \in Recorders \ {i} : lockedBy = j => lockedBy' = j
  BY DEF Leaves
<1>3. RecorderOK(i)'
  BY <1>1, <1>2, RecorderKnows DEF RecorderOK, Inside
<1> QED
  BY <1>1, <1>2, <1>3, RecorderKnows, LedgerQuiet

\* A staging file is written, or unlinked.
LEMMA LedgerStages ==
  ASSUME LedgerIInv, NEW i \in Recorders, Stages(i) \/ Unlinks(i)
  PROVE  LedgerIInv'
<1>1. CASE \E s \in {"bundle_staged", "receipt_staged", "bundled"} :
             /\ Turns(i, s) /\ UNCHANGED <<clock, directories, bundles, receipts, lockedBy>>
             /\ s = "bundle_staged" => recorder[i].step = "planned" /\ UNCHANGED linked
             /\ s = "receipt_staged" => recorder[i].step = "bundled"
             /\ s = "bundled" => recorder[i].step = "bundle_linked"
  <2> PICK s \in {"bundle_staged", "receipt_staged", "bundled"} :
             /\ Turns(i, s) /\ UNCHANGED <<clock, directories, bundles, receipts, lockedBy>>
             /\ s = "bundle_staged" => recorder[i].step = "planned" /\ UNCHANGED linked
             /\ s = "receipt_staged" => recorder[i].step = "bundled"
             /\ s = "bundled" => recorder[i].step = "bundle_linked"
    BY <1>1
  <2> DEFINE r == [recorder[i] EXCEPT !.step = s]
  <2>1. r \in RecorderRecord /\ r.step = s /\ r.started = recorder[i].started
        /\ r.completed = recorder[i].completed /\ r.published = recorder[i].published
    BY RecorderKnows DEF RecorderRecord, Inside
  <2>2. recorder' = [recorder EXCEPT ![i] = r]
    BY DEF Turns
  <2> HIDE DEF r
  <2>3. RecorderOK(i)'
    BY <2>1, <2>2, RecorderKnows DEF RecorderOK, Inside
  <2>4. recorder[i].step \in Inside
    BY DEF Inside
  <2> QED
    BY <2>1, <2>2, <2>3, <2>4, RecorderKnows, LedgerQuiet
<1>2. CASE Leaves(i) /\ recorder[i].step = "receipt_linked" /\ UNCHANGED <<clock, directories, bundles, receipts>>
  BY <1>2, LedgerLeaves DEF Inside
<1> QED
  BY <1>1, <1>2 DEF Stages, Unlinks, At

\* Only one recorder holds the lock.
LEMMA OneInside ==
  ASSUME LedgerIInv, NEW i \in Recorders, NEW j \in Recorders, recorder[i].step \in Inside, j # i
  PROVE  recorder[j].step \notin Inside
BY DEF LedgerIInv, RecorderOK

\* A bundle is published.
LEMMA LedgerLinksBundle ==
  ASSUME LedgerIInv, NEW i \in Recorders, LinksBundle(i)
  PROVE  LedgerIInv'
<1> DEFINE r == [recorder[i] EXCEPT !.step = "bundle_linked"]
           n == Len(bundles)
<1>1. r \in RecorderRecord /\ r.step = "bundle_linked" /\ r.started = recorder[i].started
      /\ r.completed = recorder[i].completed /\ r.published = recorder[i].published
      /\ r.started \in Nat /\ r.completed \in Nat
  BY RecorderKnows DEF RecorderRecord, Inside
<1>2. recorder' = [recorder EXCEPT ![i] = r] /\ recorder[i].step = "bundle_staged"
      /\ UNCHANGED <<clock, directories, receipts, lockedBy>>
  BY DEF LinksBundle, Turns, At
<1> HIDE DEF r
<1>3. PICK b \in BundleRecord : bundles' = Append(bundles, b) /\ b.started = r.started /\ b.completed = r.completed
  <2>1. PICK evidence \in Evidence, observed \in recorder[i].started..recorder[i].completed :
          bundles' = Append(bundles, [started |-> recorder[i].started, observed |-> observed,
                                      completed |-> recorder[i].completed, evidence |-> evidence])
    BY DEF LinksBundle
  <2>2. observed \in Nat
    BY <1>1, <2>1
  <2> QED
    BY <1>1, <2>1, <2>2 DEF BundleRecord
<1>4. /\ n \in Nat /\ bundles' \in Seq(BundleRecord) /\ Len(bundles') = n + 1
      /\ \A k \in 1..n : bundles'[k] = bundles[k]
      /\ bundles'[n + 1] = b
  BY <1>3, RecorderKnows, AppendProperties
<1>5. /\ Len(receipts) = n /\ r.started < r.completed /\ r.published >= r.completed
      /\ n # 0 => r.started > bundles[n].completed
      /\ n # 0 => r.published > receipts[n]
  BY <1>1, <1>2, RecorderKnows DEF RecorderOK, Inside
<1>6. \A k \in 2..n : k \in 1..n /\ k - 1 \in 1..n
  BY <1>4
<1>7. "bundles" \in directories /\ "receipts" \in directories
  BY <1>2, RecorderKnows DEF RecorderOK
<1>8. LedgerTypeOK'
  BY <1>1, <1>2, <1>4, RecorderKnows DEF LedgerTypeOK
<1> HIDE DEF n
<1>9. HistoryOK'
  <2>1. \A k \in 1..Len(bundles') : bundles'[k].started < bundles'[k].completed
    <3> SUFFICES ASSUME NEW k \in 1..(n + 1) PROVE bundles'[k].started < bundles'[k].completed
      BY <1>4
    <3>1. CASE k = n + 1
      BY <1>3, <1>4, <1>5, <3>1
    <3>2. CASE k \in 1..n
      BY <1>4, <3>2, RecorderKnows DEF HistoryOK, n
    <3> QED
      BY <1>4, <3>1, <3>2
  <2>2. \A k \in 2..Len(bundles') : bundles'[k].started > bundles'[k - 1].completed
    <3> SUFFICES ASSUME NEW k \in 2..(n + 1) PROVE bundles'[k].started > bundles'[k - 1].completed
      BY <1>4
    <3>1. CASE k = n + 1
      BY <1>3, <1>4, <1>5, <3>1
    <3>2. CASE k \in 2..n
      BY <1>4, <1>6, <3>2, RecorderKnows DEF HistoryOK, n
    <3> QED
      BY <1>4, <3>1, <3>2
  <2>3. \A k \in 1..Len(receipts) : receipts[k] >= bundles'[k].completed
    BY <1>4, <1>5, RecorderKnows DEF HistoryOK
  <2> QED
    BY <1>2, <1>4, <1>5, <1>7, <2>1, <2>2, <2>3, RecorderKnows DEF HistoryOK
<1>10. ASSUME NEW j \in Recorders PROVE RecorderOK(j)'
  <2>1. CASE j = i
    BY <1>1, <1>2, <1>3, <1>4, <1>5, <2>1, RecorderKnows DEF RecorderOK, Inside
  <2>2. CASE j # i
    <3>1. recorder'[j] = recorder[j] /\ RecorderOK(j) /\ recorder[j].step \notin Inside
      BY <1>2, <2>2, RecorderKnows, OneInside DEF Inside
    <3> QED
      BY <3>1 DEF RecorderOK, Inside
  <2> QED
    BY <2>1, <2>2
<1> QED
  BY <1>8, <1>9, <1>10 DEF LedgerIInv

\* A receipt is published.
LEMMA LedgerLinksReceipt ==
  ASSUME LedgerIInv, NEW i \in Recorders, LinksReceipt(i)
  PROVE  LedgerIInv'
<1> DEFINE r == [recorder[i] EXCEPT !.step = "receipt_linked"]
           n == Len(receipts)
<1>1. r \in RecorderRecord /\ r.step = "receipt_linked" /\ r.started = recorder[i].started
      /\ r.completed = recorder[i].completed /\ r.published = recorder[i].published
      /\ r.published \in Nat
  BY RecorderKnows DEF RecorderRecord, Inside
<1>2. recorder' = [recorder EXCEPT ![i] = r] /\ recorder[i].step = "receipt_staged"
      /\ UNCHANGED <<clock, directories, bundles, lockedBy>> /\ receipts' = Append(receipts, r.published)
  BY <1>1 DEF LinksReceipt, Turns, At
<1> HIDE DEF r
<1>3. /\ n \in Nat /\ receipts' \in Seq(Nat) /\ Len(receipts') = n + 1
      /\ \A k \in 1..n : receipts'[k] = receipts[k]
      /\ receipts'[n + 1] = r.published
  BY <1>1, <1>2, RecorderKnows, AppendProperties
<1>4. /\ Len(bundles) = n + 1 /\ r.started < r.completed /\ r.published >= bundles[n + 1].completed
      /\ n # 0 => r.published > receipts[n]
  BY <1>1, <1>2, RecorderKnows DEF RecorderOK, Inside
<1>5. \A k \in 2..n : k \in 1..n /\ k - 1 \in 1..n
  BY <1>3
<1>6. LedgerTypeOK'
  BY <1>1, <1>2, <1>3, RecorderKnows DEF LedgerTypeOK
<1> HIDE DEF n
<1>7. HistoryOK'
  <2>1. \A k \in 1..Len(receipts') : receipts'[k] >= bundles[k].completed
    <3> SUFFICES ASSUME NEW k \in 1..(n + 1) PROVE receipts'[k] >= bundles[k].completed
      BY <1>3
    <3>1. CASE k = n + 1
      BY <1>3, <1>4, <3>1
    <3>2. CASE k \in 1..n
      BY <1>3, <3>2, RecorderKnows DEF HistoryOK, n
    <3> QED
      BY <1>3, <3>1, <3>2
  <2>2. \A k \in 2..Len(receipts') : receipts'[k] > receipts'[k - 1]
    <3> SUFFICES ASSUME NEW k \in 2..(n + 1) PROVE receipts'[k] > receipts'[k - 1]
      BY <1>3
    <3>1. CASE k = n + 1
      BY <1>3, <1>4, <3>1
    <3>2. CASE k \in 2..n
      BY <1>3, <1>5, <3>2, RecorderKnows DEF HistoryOK, n
    <3> QED
      BY <1>3, <3>1, <3>2
  <2> QED
    BY <1>2, <1>3, <1>4, <2>1, <2>2, RecorderKnows DEF HistoryOK
<1>8. ASSUME NEW j \in Recorders PROVE RecorderOK(j)'
  <2>1. CASE j = i
    BY <1>1, <1>2, <1>3, <1>4, <2>1, RecorderKnows DEF RecorderOK, Inside
  <2>2. CASE j # i
    <3>1. recorder'[j] = recorder[j] /\ RecorderOK(j) /\ recorder[j].step \notin Inside
      BY <1>2, <2>2, RecorderKnows, OneInside DEF Inside
    <3> QED
      BY <3>1 DEF RecorderOK, Inside
  <2> QED
    BY <2>1, <2>2
<1> QED
  BY <1>6, <1>7, <1>8 DEF LedgerIInv

\* The clock moves, or nothing does.
LEMMA LedgerWaits ==
  ASSUME LedgerIInv, clock' \in Nat, UNCHANGED <<artifacts, lockedBy, recorder>>
  PROVE  LedgerIInv'
<1>1. LedgerTypeOK' /\ HistoryOK'
  BY DEF artifacts, LedgerIInv, LedgerTypeOK, HistoryOK
<1>2. ASSUME NEW j \in Recorders PROVE RecorderOK(j)'
  BY DEF artifacts, LedgerIInv, RecorderOK
<1> QED
  BY <1>1, <1>2 DEF LedgerIInv

\* The inductive invariant of the ledger: what was published is in order, and the one
\* recorder that holds the lock knows where the history stands.
THEOREM LedgerInvariant == SpecLedger => []LedgerIInv
<1>1. ASSUME InitLedger PROVE LedgerIInv
  <2>1. NewRecorder \in RecorderRecord /\ NewRecorder.step = "idle"
    BY DEF NewRecorder, RecorderRecord
  <2>2. LedgerTypeOK /\ HistoryOK
    BY <1>1, <2>1 DEF InitLedger, LedgerTypeOK, HistoryOK
  <2>3. ASSUME NEW i \in Recorders PROVE RecorderOK(i)
    BY <1>1, <2>1 DEF InitLedger, RecorderOK, Inside
  <2> QED
    BY <2>2, <2>3 DEF LedgerIInv
<1>2. ASSUME LedgerIInv, [NextLedger]_ledgerVars PROVE LedgerIInv'
  <2>1. ASSUME NEW i \in Recorders, RecorderFails(i) \/ RecorderDies(i) PROVE LedgerIInv'
    <3>1. /\ Leaves(i) /\ UNCHANGED <<clock, directories, bundles, receipts>>
          /\ UNCHANGED linked \/ recorder[i].step \in Inside
      BY <2>1 DEF RecorderFails, RecorderDies, artifacts, Inside
    <3> QED
      BY <1>2, <3>1, LedgerLeaves
  <2>2. CASE ClockMoves
    <3>1. clock' \in Nat
      BY <2>2 DEF ClockMoves
    <3> QED
      BY <1>2, <2>2, <3>1, LedgerWaits DEF ClockMoves
  <2>3. CASE UNCHANGED ledgerVars
    <3>1. clock' \in Nat
      BY <1>2, <2>3 DEF ledgerVars, LedgerIInv, LedgerTypeOK
    <3> QED
      BY <1>2, <2>3, <3>1, LedgerWaits DEF ledgerVars, artifacts
  <2> QED
    BY <1>2, <2>1, <2>2, <2>3, LedgerStarts, LedgerPrepares, LedgerPlans, LedgerStages, LedgerLinksBundle,
       LedgerLinksReceipt DEF NextLedger
<1> QED
  BY <1>1, <1>2, PTL DEF SpecLedger

\* What was published whole is read, unless something was interrupted.
LEMMA InterruptedOnly == LedgerIInv => UnreadableOnlyWhenInterrupted
<1> SUFFICES ASSUME LedgerIInv, Len(receipts) = Len(bundles), LayoutValid
             PROVE  Verified
  BY DEF UnreadableOnlyWhenInterrupted, LedgerIInv, HistoryOK
<1> QED
  BY DEF Verified, Continuous, LedgerIInv, HistoryOK

\* A sequence is a prefix of itself and of what is appended to it.
LEMMA PrefixOfAppend ==
  ASSUME NEW S, NEW s \in Seq(S), NEW x \in S
  PROVE  IsPrefix(s, s) /\ IsPrefix(s, Append(s, x))
<1> DEFINE t == Append(s, x)
           n == Len(s)
<1>1. n \in Nat /\ t \in Seq(S) /\ Len(t) = n + 1 /\ \A k \in 1..n : t[k] = s[k]
  BY AppendProperties, LenProperties
<1>2. SubSeq(s, 1, n) = SubSeq(t, 1, n)
  <2>1. \A k \in 1..n : s[k] \in S /\ t[k] \in S
    BY <1>1
  <2> HIDE DEF t, n
  <2>2. /\ SubSeq(s, 1, n) \in Seq(S) /\ Len(SubSeq(s, 1, n)) = n
        /\ \A k \in 1..n : SubSeq(s, 1, n)[k] = s[k]
    BY <1>1, <2>1, SubSeqProperties
  <2>3. /\ SubSeq(t, 1, n) \in Seq(S) /\ Len(SubSeq(t, 1, n)) = n
        /\ \A k \in 1..n : SubSeq(t, 1, n)[k] = t[k]
    BY <1>1, <2>1, SubSeqProperties
  <2> QED
    BY <1>1, <2>2, <2>3, SeqEqual
<1> QED
  BY <1>1, <1>2 DEF IsPrefix

\* Nothing published is taken back, a bundle is added to a verified history, and only who
\* holds the lock changes the directory.
LEMMA LedgerGrows ==
  ASSUME LedgerIInv, [NextLedger]_ledgerVars
  PROVE  /\ IsPrefix(bundles, bundles') /\ IsPrefix(receipts, receipts')
         /\ bundles' # bundles => Verified
         /\ lockedBy = Nobody => UNCHANGED artifacts
<1>1. bundles \in Seq(BundleRecord) /\ receipts \in Seq(Nat) /\ \E b \in BundleRecord : TRUE
  <2>1. [started |-> 0, observed |-> 0, completed |-> 0, evidence |-> "failed"] \in BundleRecord
    BY DEF BundleRecord, Evidence
  <2> QED
    BY <2>1 DEF LedgerIInv, LedgerTypeOK
<1>2. CASE UNCHANGED artifacts
  BY <1>1, <1>2, PrefixOfAppend DEF artifacts
<1>3. ASSUME NEW i \in Recorders, recorder[i].step \in Inside PROVE lockedBy # Nobody
  BY <1>3, LedgerBounds DEF LedgerIInv, RecorderOK
<1>4. ASSUME NEW i \in Recorders, LinksBundle(i) 
      PROVE  IsPrefix(bundles, bundles') /\ recorder[i].step \in Inside /\ Verified
  <2>1. recorder[i] \in RecorderRecord /\ recorder[i].step \in Inside
    BY <1>4, RecorderKnows DEF LinksBundle, At, Inside
  <2>2. PICK evidence \in Evidence, observed \in recorder[i].started..recorder[i].completed :
          bundles' = Append(bundles, [started |-> recorder[i].started, observed |-> observed,
                                      completed |-> recorder[i].completed, evidence |-> evidence])
    BY <1>4 DEF LinksBundle
  <2>3. recorder[i].started \in Nat /\ recorder[i].completed \in Nat /\ observed \in Nat
    BY <2>1, <2>2 DEF RecorderRecord
  <2>4. \E b \in BundleRecord : bundles' = Append(bundles, b)
    BY <2>2, <2>3 DEF BundleRecord
  <2>5. Verified
    <3>1. /\ recorder[i].step = "bundle_staged" /\ linked = "none" /\ Len(receipts) = Len(bundles)
          /\ "bundles" \in directories /\ "receipts" \in directories
      BY <1>4, RecorderKnows DEF LinksBundle, At, RecorderOK
    <3> QED
      BY <3>1, RecorderKnows DEF Verified, LayoutValid, Continuous, HistoryOK
  <2> QED
    BY <1>1, <2>1, <2>4, <2>5, PrefixOfAppend
<1>5. ASSUME NEW i \in Recorders, LinksReceipt(i) PROVE IsPrefix(receipts, receipts') /\ recorder[i].step \in Inside
  <2>1. recorder[i].published \in Nat /\ recorder[i].step \in Inside
    BY <1>5, RecorderKnows DEF LinksReceipt, At, Inside, RecorderRecord
  <2> QED
    BY <1>1, <1>5, <2>1, PrefixOfAppend DEF LinksReceipt
<1>6. ASSUME NEW i \in Recorders, Loads(i) \/ Makes(i) \/ Stages(i) \/ Unlinks(i)
      PROVE  recorder[i].step \in Inside /\ UNCHANGED <<bundles, receipts>>
  BY <1>6 DEF Loads, Makes, Stages, Unlinks, At, Inside
<1>7. ASSUME NEW i \in Recorders, RecorderFails(i)
      PROVE  UNCHANGED artifacts \/ (recorder[i].step \in Inside /\ UNCHANGED <<bundles, receipts>>)
  BY <1>7 DEF RecorderFails, Inside, artifacts
<1>8. ASSUME NEW i \in Recorders, Starts(i) \/ Completes(i) \/ Locks(i) \/ Plans(i) \/ RecorderDies(i)
      PROVE  UNCHANGED artifacts
  BY <1>8 DEF Starts, Completes, Locks, Plans, RecorderDies
<1>9. CASE ClockMoves \/ UNCHANGED ledgerVars
  BY <1>2, <1>9 DEF ClockMoves, ledgerVars, artifacts
<1>10. ASSUME NEW i \in Recorders,
              \/ Starts(i) \/ Completes(i) \/ Locks(i) \/ Loads(i) \/ Makes(i) \/ Plans(i)
              \/ Stages(i) \/ LinksBundle(i) \/ LinksReceipt(i) \/ Unlinks(i)
              \/ RecorderFails(i) \/ RecorderDies(i)
       PROVE  /\ IsPrefix(bundles, bundles') /\ IsPrefix(receipts, receipts')
              /\ bundles' # bundles => Verified
              /\ lockedBy = Nobody => UNCHANGED artifacts
  <2>1. ASSUME recorder[i].step \in Inside, UNCHANGED <<bundles, receipts>>
        PROVE  /\ IsPrefix(bundles, bundles') /\ IsPrefix(receipts, receipts')
               /\ bundles' # bundles => Verified
               /\ lockedBy = Nobody => UNCHANGED artifacts
    BY <1>1, <1>3, <2>1, PrefixOfAppend
  <2>2. CASE LinksBundle(i)
    BY <1>1, <1>3, <1>4, <2>2, PrefixOfAppend DEF LinksBundle
  <2>3. CASE LinksReceipt(i)
    BY <1>1, <1>3, <1>5, <2>3, PrefixOfAppend DEF LinksReceipt
  <2>4. CASE Loads(i) \/ Makes(i) \/ Stages(i) \/ Unlinks(i)
    BY <1>6, <2>1, <2>4
  <2>5. CASE RecorderFails(i)
    BY <1>2, <1>7, <2>1, <2>5
  <2>6. CASE Starts(i) \/ Completes(i) \/ Locks(i) \/ Plans(i) \/ RecorderDies(i)
    BY <1>2, <1>8, <2>6
  <2> QED
    BY <1>10, <2>2, <2>3, <2>4, <2>5, <2>6
<1> QED
  BY <1>9, <1>10 DEF NextLedger

\* A non-empty set of naturals has a least element.
LEMMA LeastNat ==
  ASSUME NEW S \in SUBSET Nat, S # {}
  PROVE  \E n \in S : \A m \in S : n <= m
<1> DEFINE R == OpToRel(<, Nat)
<1>1. IsWellFoundedOn(R, Nat)
  BY NatLessThanWellFounded
<1>2. \A x, y \in Nat : y < x => <<y, x>> \in R
  BY DEF OpToRel
<1> HIDE DEF R
<1>3. PICK x \in S : \A y \in S : ~(<<y, x>> \in R)
  BY <1>1, WFMin
<1>4. x \in Nat /\ \A y \in S : y \in Nat /\ ~(y < x)
  BY <1>2, <1>3
<1> QED
  BY <1>4

\* Where a streak that ends at n may start, and where the longest one does.
Streaks(n) ==
  {p \in 1..n : /\ \A m \in (p + 1)..n : bundles[m].evidence = "operational"
                /\ bundles[p].evidence \in {"operational", "changed"}}
StreakStart(n) == CHOOSE p \in Streaks(n) : \A q \in Streaks(n) : p <= q
Trail(n) ==
  IF n \in 1..Len(bundles) /\ Streaks(n) # {} THEN SubSeq(bundles, StreakStart(n), n) ELSE <<>>

\* The start of the longest streak.
LEMMA StreakStarts ==
  ASSUME NEW n \in Nat, Streaks(n) # {}
  PROVE  StreakStart(n) \in Streaks(n) /\ \A q \in Streaks(n) : StreakStart(n) <= q
<1> DEFINE S == Streaks(n)
<1>1. S \in SUBSET Nat /\ S # {}
  BY DEF Streaks
<1> HIDE DEF S
<1>2. \E p \in S : \A q \in S : p <= q
  BY <1>1, LeastNat
<1> QED
  BY <1>2 DEF StreakStart, S

\* How the streak at n follows from the one before.
LEMMA StreakRecurs ==
  ASSUME LedgerTypeOK, NEW n \in 1..Len(bundles)
  PROVE  /\ bundles[n].evidence = "operational" => Streaks(n) = Streaks(n - 1) \cup {n}
         /\ bundles[n].evidence = "changed" => Streaks(n) = {n}
         /\ bundles[n].evidence = "failed" => Streaks(n) = {}
         /\ bundles[n].evidence \in {"operational", "changed", "failed"}
<1>1. Len(bundles) \in Nat /\ n \in Nat /\ n >= 1 /\ bundles[n] \in BundleRecord
  BY LenProperties, ElementOfSeq DEF LedgerTypeOK
<1>2. bundles[n].evidence \in {"operational", "changed", "failed"}
  BY <1>1 DEF BundleRecord, Evidence
<1>3. ASSUME NEW p \in Streaks(n)
      PROVE  /\ p \in 1..n
             /\ p # n => bundles[n].evidence = "operational" /\ p \in Streaks(n - 1)
             /\ p = n => bundles[n].evidence \in {"operational", "changed"}
  <2>1. p \in 1..n /\ bundles[p].evidence \in {"operational", "changed"}
        /\ \A m \in (p + 1)..n : bundles[m].evidence = "operational"
    BY <1>3 DEF Streaks
  <2>2. CASE p = n
    BY <2>1, <2>2
  <2>3. CASE p # n
    <3>1. n \in (p + 1)..n /\ p \in 1..(n - 1) /\ \A m \in (p + 1)..(n - 1) : m \in (p + 1)..n
      BY <1>1, <2>1, <2>3
    <3> QED
      BY <2>1, <2>3, <3>1 DEF Streaks
  <2> QED
    BY <2>2, <2>3
<1>4. bundles[n].evidence \in {"operational", "changed"} => n \in Streaks(n)
  BY <1>1 DEF Streaks
<1>5. ASSUME bundles[n].evidence = "operational", NEW p \in Streaks(n - 1) PROVE p \in Streaks(n)
  <2>1. p \in 1..(n - 1) /\ bundles[p].evidence \in {"operational", "changed"}
        /\ \A m \in (p + 1)..(n - 1) : bundles[m].evidence = "operational"
    BY <1>5 DEF Streaks
  <2>2. p \in 1..n /\ \A m \in (p + 1)..n : m = n \/ m \in (p + 1)..(n - 1)
    BY <1>1, <2>1
  <2> QED
    BY <1>5, <2>1, <2>2 DEF Streaks
<1>6. bundles[n].evidence = "operational" => Streaks(n) = Streaks(n - 1) \cup {n}
  BY <1>3, <1>4, <1>5
<1>7. bundles[n].evidence = "changed" => Streaks(n) = {n}
  BY <1>3, <1>4
<1>8. bundles[n].evidence = "failed" => Streaks(n) = {}
  BY <1>3
<1> QED
  BY <1>2, <1>6, <1>7, <1>8

\* One bundle by itself.
LEMMA OneBundle ==
  ASSUME LedgerTypeOK, NEW n \in 1..Len(bundles)
  PROVE  SubSeq(bundles, n, n) = <<bundles[n]>>
<1>1. Len(bundles) \in Nat /\ bundles \in Seq(BundleRecord) /\ n \in n..Len(bundles) /\ n \in Int /\ n - 1 < n
  BY LenProperties DEF LedgerTypeOK
<1>2. SubSeq(bundles, n, n) = SubSeq(bundles, n, n - 1) \o <<bundles[n]>>
  BY <1>1, SubSeqRecursiveSecond
<1>3. SubSeq(bundles, n, n - 1) = <<>>
  BY <1>1, SubSeqEmpty
<1>4. bundles[n] \in BundleRecord
  BY <1>1, ElementOfSeq
<1>5. <<bundles[n]>> \in Seq(BundleRecord)
  BY <1>4
<1>6. <<>> \o <<bundles[n]>> = <<bundles[n]>>
  BY <1>5, ConcatEmptySeq
<1> QED
  BY <1>2, <1>3, <1>6

\* The trail recurs as _evaluate_board_readiness walks it.
LEMMA TrailRecurs ==
  ASSUME LedgerTypeOK, NEW n \in 1..Len(bundles)
  PROVE  Trail(n) = CASE bundles[n].evidence = "operational" -> Append(Trail(n - 1), bundles[n])
                      [] bundles[n].evidence = "changed" -> <<bundles[n]>>
                      [] OTHER -> <<>>
<1>1. /\ Len(bundles) \in Nat /\ bundles \in Seq(BundleRecord) /\ n \in Nat /\ n - 1 \in Nat
      /\ bundles[n] \in BundleRecord
  BY LenProperties, ElementOfSeq DEF LedgerTypeOK
<1>2. CASE bundles[n].evidence = "failed"
  BY <1>2, StreakRecurs DEF Trail
<1>3. ASSUME Streaks(n) = {n} PROVE Trail(n) = <<bundles[n]>>
  <2>1. StreakStart(n) = n
    BY <1>1, <1>3, StreakStarts
  <2> QED
    BY <1>3, <2>1, OneBundle DEF Trail
<1>4. CASE bundles[n].evidence = "changed"
  BY <1>3, <1>4, StreakRecurs
<1>5. CASE bundles[n].evidence = "operational" /\ Streaks(n - 1) = {}
  <2>1. Trail(n - 1) = <<>> /\ Streaks(n) = {n}
    BY <1>5, StreakRecurs DEF Trail
  <2>2. Append(<<>>, bundles[n]) = <<bundles[n]>>
    OBVIOUS
  <2> QED
    BY <1>3, <1>5, <2>1, <2>2
<1>6. CASE bundles[n].evidence = "operational" /\ Streaks(n - 1) # {}
  <2> DEFINE p == StreakStart(n - 1)
  <2>1. p \in Streaks(n - 1) /\ \A q \in Streaks(n - 1) : p <= q
    BY <1>1, <1>6, StreakStarts
  <2>2. p \in 1..(n - 1) /\ n - 1 \in 1..Len(bundles) /\ p \in 1..Len(bundles) /\ n \in p..Len(bundles)
    <3>1. p \in 1..(n - 1)
      BY <2>1 DEF Streaks
    <3> QED
      BY <1>1, <3>1
  <2> HIDE DEF p
  <2>3. Streaks(n) = Streaks(n - 1) \cup {n}
    BY <1>6, StreakRecurs
  <2>4. Streaks(n) \subseteq Nat /\ Streaks(n) # {}
    BY <2>3 DEF Streaks
  <2>5. StreakStart(n) \in Streaks(n) /\ \A q \in Streaks(n) : StreakStart(n) <= q
    BY <1>1, <2>4, StreakStarts
  <2>6. StreakStart(n) = p
    <3>1. p \in Streaks(n) /\ p <= n
      BY <1>1, <2>1, <2>2, <2>3
    <3>2. \A q \in Streaks(n) : p <= q
      BY <2>1, <2>3, <3>1
    <3>3. StreakStart(n) \in Nat /\ p \in Nat
      BY <2>4, <2>5, <3>1
    <3> QED
      BY <2>5, <3>1, <3>2, <3>3
  <2>7. Trail(n) = SubSeq(bundles, p, n) /\ Trail(n - 1) = SubSeq(bundles, p, n - 1)
    BY <1>6, <2>2, <2>4, <2>6 DEF Trail, p
  <2>8. SubSeq(bundles, p, n) = SubSeq(bundles, p, n - 1) \o <<bundles[n]>>
    BY <1>1, <2>2, SubSeqRecursiveSecond
  <2>9. SubSeq(bundles, p, n - 1) \in Seq(BundleRecord)
    <3>1. \A k \in p..(n - 1) : bundles[k] \in BundleRecord
      <4>1. \A k \in p..(n - 1) : k \in 1..Len(bundles)
        BY <1>1, <2>2
      <4> QED
        BY <1>1, <4>1, ElementOfSeq
    <3> QED
      BY <1>1, <2>2, <3>1, SubSeqProperties
  <2>10. Append(SubSeq(bundles, p, n - 1), bundles[n]) = SubSeq(bundles, p, n - 1) \o <<bundles[n]>>
    BY <1>1, <2>9, AppendIsConcat
  <2> QED
    BY <1>6, <2>7, <2>8, <2>10
<1> QED
  BY <1>2, <1>4, <1>5, <1>6, StreakRecurs

\* What the readers walk back over is the longest streak.
LEMMA TrailingIsTrail ==
  ASSUME LedgerTypeOK, NEW n \in Nat
  PROVE  Trailing[n] = Trail(n)
<1> DEFINE next(f) ==
      [k \in Nat |->
         IF k = 0 \/ k > Len(bundles) THEN <<>>
         ELSE CASE bundles[k].evidence = "operational" -> Append(f[k - 1], bundles[k])
                [] bundles[k].evidence = "changed" -> <<bundles[k]>>
                [] OTHER -> <<>>]
    t == CHOOSE f : f = next(f)
    g == [k \in Nat |-> Trail(k)]
<1>1. Len(bundles) \in Nat
  BY LenProperties DEF LedgerTypeOK
<1>2. ASSUME NEW k \in Nat PROVE g[k] = next(g)[k]
  <2>1. CASE k = 0 \/ k > Len(bundles)
    BY <1>1, <2>1 DEF Trail
  <2>2. CASE ~(k = 0 \/ k > Len(bundles))
    <3>1. k \in 1..Len(bundles) /\ k - 1 \in Nat
      BY <1>1, <2>2
    <3>2. g[k] = Trail(k) /\ g[k - 1] = Trail(k - 1)
      BY <3>1
    <3> HIDE DEF g
    <3> QED
      BY <2>2, <3>1, <3>2, TrailRecurs
  <2> QED
    BY <2>1, <2>2
<1>3. g = next(g)
  <2>1. g = [k \in Nat |-> g[k]]
    OBVIOUS
  <2> HIDE DEF g
  <2> QED
    BY <1>2, <2>1
<1>4. t = next(t)
  <2> HIDE DEF g
  <2>1. \E f : f = next(f)
    BY <1>3
  <2> HIDE DEF next
  <2> QED
    BY <2>1
<1>5. Trailing = t
  BY DEF Trailing
<1> HIDE DEF t, g
<1>6. ASSUME NEW k \in Nat
      PROVE  t[k] = IF k = 0 \/ k > Len(bundles) THEN <<>>
                    ELSE CASE bundles[k].evidence = "operational" -> Append(t[k - 1], bundles[k])
                           [] bundles[k].evidence = "changed" -> <<bundles[k]>>
                           [] OTHER -> <<>>
  BY <1>4
<1> HIDE DEF next
<1> DEFINE C == {k \in Nat : t[k] # Trail(k)}
<1>7. C = {}
  <2> SUFFICES ASSUME C # {} PROVE FALSE
    OBVIOUS
  <2>1. PICK k \in C : \A m \in C : k <= m
    BY LeastNat
  <2>2. k \in Nat /\ t[k] # Trail(k)
    BY <2>1
  <2>3. CASE k = 0 \/ k > Len(bundles)
    <3>1. t[k] = <<>>
      BY <1>6, <2>2, <2>3
    <3>2. k \notin 1..Len(bundles)
      BY <1>1, <2>2, <2>3
    <3>3. Trail(k) = <<>>
      BY <3>2 DEF Trail
    <3> QED
      BY <2>2, <3>1, <3>3
  <2>4. CASE ~(k = 0 \/ k > Len(bundles))
    <3>1. k \in 1..Len(bundles) /\ k - 1 \in Nat /\ ~(k <= k - 1)
      BY <1>1, <2>2, <2>4
    <3>2. t[k - 1] = Trail(k - 1)
      BY <2>1, <3>1
    <3> QED
      BY <1>6, <2>2, <2>4, <3>1, <3>2, TrailRecurs
  <2> QED
    BY <2>3, <2>4
<1> QED
  BY <1>5, <1>7

\* Bundles of a verified history are apart from each other.
LEMMA BundlesApart ==
  ASSUME LedgerTypeOK, Verified, NEW m \in 1..Len(bundles), NEW n \in 1..Len(bundles), m < n
  PROVE  bundles[m].completed < bundles[n].started
<1> DEFINE C == {k \in 1..Len(bundles) : m < k /\ ~(bundles[m].completed < bundles[k].started)}
<1>1. Len(bundles) \in Nat /\ \A k \in 1..Len(bundles) : bundles[k].started \in Nat /\ bundles[k].completed \in Nat
  <2>1. Len(bundles) \in Nat /\ bundles \in Seq(BundleRecord)
    BY LenProperties DEF LedgerTypeOK
  <2>2. \A k \in 1..Len(bundles) : bundles[k] \in BundleRecord
    BY <2>1, ElementOfSeq
  <2> QED
    BY <2>1, <2>2 DEF BundleRecord
<1> SUFFICES ASSUME C # {} PROVE FALSE
  OBVIOUS
<1>2. C \in SUBSET Nat
  OBVIOUS
<1>3. PICK k \in C : \A j \in C : k <= j
  BY <1>2, LeastNat
<1>4. k \in 1..Len(bundles) /\ m < k /\ ~(bundles[m].completed < bundles[k].started) /\ k \in 2..Len(bundles)
      /\ k - 1 \in 1..Len(bundles) /\ ~(k <= k - 1)
  BY <1>1, <1>3
<1>5. bundles[k].started > bundles[k - 1].completed /\ bundles[k - 1].started < bundles[k - 1].completed
  BY <1>4 DEF Verified, Continuous
<1>6. CASE k - 1 = m
  BY <1>4, <1>5, <1>6
<1>7. CASE k - 1 # m
  <2>1. m < k - 1 /\ k - 1 \notin C
    BY <1>3, <1>4, <1>7
  <2>2. bundles[m].completed < bundles[k - 1].started
    BY <1>4, <2>1
  <2> QED
    BY <1>1, <1>4, <1>5, <2>2
<1> QED
  BY <1>6, <1>7

\* A board that is ready has a streak of observations behind it.
LEMMA EarnedReadiness == LedgerIInv => ReadinessIsEarned
<1> SUFFICES ASSUME LedgerTypeOK, SnapshotReady PROVE ReadinessIsEarned
  BY DEF LedgerIInv, ReadinessIsEarned
<1> DEFINE N == Len(bundles)
           trail == Trailing[N]
           p == StreakStart(N)
<1>1. N \in Nat /\ Streak \in Nat /\ Streak > 0 /\ bundles \in Seq(BundleRecord)
  BY LenProperties, LedgerBounds DEF LedgerTypeOK
<1>2. /\ Verified /\ Len(trail) >= Streak
      /\ trail[Len(trail)].observed - Head(trail).observed >= Span
  <2> DEFINE Long(s) == Len(s) >= Streak /\ Last(s).observed - Head(s).observed >= Span
  <2>1. Verified /\ Long(trail)
    BY DEF SnapshotReady
  <2> HIDE DEF trail
  <2>2. Len(trail) >= Streak /\ trail[Len(trail)].observed - Head(trail).observed >= Span
    BY <2>1 DEF Last
  <2> QED
    BY <2>1, <2>2
<1>3. trail = Trail(N)
  BY <1>1, TrailingIsTrail
<1> HIDE DEF N, trail, p
<1>4. trail # <<>>
  BY <1>1, <1>2
<1>5. N \in 1..N /\ Streaks(N) # {} /\ trail = SubSeq(bundles, p, N)
  BY <1>1, <1>3, <1>4 DEF Trail, N, p
<1>6. p \in Streaks(N)
  BY <1>1, <1>5, StreakStarts DEF p
<1>7. /\ p \in 1..N /\ \A m \in (p + 1)..N : bundles[m].evidence = "operational"
      /\ bundles[p].evidence \in {"operational", "changed"}
  BY <1>6 DEF Streaks
<1>8. Len(trail) = N - p + 1 /\ Head(trail) = bundles[p] /\ trail[N - p + 1] = bundles[N]
  <2>1. \A k \in p..N : bundles[k] \in BundleRecord
    <3>1. \A k \in p..N : k \in 1..N
      BY <1>1, <1>7
    <3> QED
      BY <1>1, <3>1, ElementOfSeq DEF N
  <2>2. /\ Len(SubSeq(bundles, p, N)) = N - p + 1
        /\ \A k \in 1..(N - p + 1) : SubSeq(bundles, p, N)[k] = bundles[p + k - 1]
    BY <1>1, <1>7, <2>1, SubSeqProperties
  <2>3. N - p + 1 \in 1..(N - p + 1) /\ p + (N - p + 1) - 1 = N
    BY <1>1, <1>7
  <2>4. Head(SubSeq(bundles, p, N)) = bundles[p]
    BY <1>1, <1>7, HeadTailOfSubSeq DEF N
  <2> QED
    BY <1>5, <2>2, <2>3, <2>4
<1>9. p \in 1..(N - Streak + 1)
  BY <1>1, <1>2, <1>7, <1>8
<1>10. \A n \in p..N : bundles[n].evidence = "operational" \/ (n = p /\ bundles[n].evidence = "changed")
  <2>1. \A n \in p..N : n = p \/ n \in (p + 1)..N
    BY <1>1, <1>7
  <2> QED
    BY <1>7, <2>1
<1>11. \A m, n \in p..N : m < n => bundles[m].completed < bundles[n].started
  <2>1. \A k \in p..N : k \in 1..N
    BY <1>1, <1>7
  <2> QED
    BY <1>2, <2>1, BundlesApart DEF N
<1>12. bundles[N].observed - bundles[p].observed >= Span
  BY <1>2, <1>8
<1> QED
  BY <1>9, <1>10, <1>11, <1>12 DEF ReadinessIsEarned, N

\* Theorem for EvidenceSound: a history is unreadable only after an interruption, a board is
\* ready only by observations apart from each other, and a refused history is left alone.
THEOREM EvidenceTheorem == SpecLedger => EvidenceSound
<1>1. LedgerIInv => UnreadableOnlyWhenInterrupted /\ ReadinessIsEarned
  BY InterruptedOnly, EarnedReadiness
<1>2. LedgerIInv /\ [NextLedger]_ledgerVars =>
        [/\ IsPrefix(bundles, bundles') /\ IsPrefix(receipts, receipts')
         /\ bundles' # bundles => Verified
         /\ lockedBy = Nobody => UNCHANGED artifacts]_ledgerVars
  BY LedgerGrows
<1>3. SpecLedger => RefusedIsLeftAlone
  BY <1>2, LedgerInvariant, PTL DEF SpecLedger, RefusedIsLeftAlone
<1>4. SpecLedger => [](UnreadableOnlyWhenInterrupted /\ ReadinessIsEarned)
  BY <1>1, LedgerInvariant, PTL
<1> QED
  BY <1>3, <1>4, PTL DEF EvidenceSound
=============================================================================
