------------------------- MODULE PublicJobIdentity -------------------------
(***************************************************************************)
(* The permanent identities of public jobs and the paths they own.  One    *)
(* database is the authority that issues, merges and retires identities;   *)
(* others, built from an export of its registry, only bind the identities  *)
(* to their own canonical opportunities, and go on answering from what     *)
(* they imported.  Every operation is one savepoint, guarded once more by  *)
(* the triggers of migration 009; a refused one changes nothing.           *)
(***************************************************************************)
EXTENDS Naturals, FiniteSets

CONSTANTS MaxJobs,     \* bound on the ids, in the order they are minted
          LegacyPaths, \* spellings of paths that were public before
          folded,      \* normalized_public_job_path: the lower case of a spelling
          Canonicals,  \* canonical opportunities, by their number in a database
          Issuer, Copies, \* the issuing database, and those that import
          NoId, Unbound

Ids == 1..MaxJobs
Paths == Ids \cup LegacyPaths  \* an id also names the path made from it
Registries == {Issuer} \cup Copies

ASSUME IdentityAssumption ==
  /\ MaxJobs \in Nat /\ Ids \cap LegacyPaths = {} /\ NoId \notin Paths /\ Unbound \notin Canonicals
  /\ folded \in [Paths -> Paths] /\ \A i \in Ids, p \in Paths : folded[p] = folded[i] => p = i
  /\ Issuer \notin Copies

VARIABLES identities, \* public_job_identities and public_job_paths, by database
          bindings  \* public_job_bindings: the canonical opportunity, by database and id

identityVars == <<identities, bindings>>

EmptyRegistry == [state  |-> [i \in Ids |-> "unissued"],
                  target |-> [i \in Ids |-> NoId],
                  owner  |-> [p \in Paths |-> NoId],
                  primary |-> [i \in Ids |-> NoId]]
NoBindings == [i \in Ids |-> Unbound]

Bound(b, i) == b[i] # Unbound
Minted(r) == {i \in Ids : r.state[i] # "unissued"}
\* canonical_opportunity_id is UNIQUE.
Unclaimed(b, i, c) == \A j \in Ids \ {i} : b[j] # c
\* So is normalized_path.
Spelled(r, p) == {q \in Paths : r.owner[q] # NoId /\ folded[q] = folded[p]}

Registers(d, r) == identities' = [identities EXCEPT ![d] = r]
Binds(d, b) == bindings' = [bindings EXCEPT ![d] = b]

-----------------------------------------------------------------------------
(* The authority *)

\* An id that was minted before is minted again; a path that is taken undoes the identity.
AllocatePublicJob ==
  LET r == identities[Issuer]  own == bindings[Issuer]
  IN  \E i \in Ids, c \in Canonicals : \E p \in {i} \cup LegacyPaths :
        /\ Minted(r) = 1..(i - 1) /\ Spelled(r, p) = {} /\ Unclaimed(own, i, c)
        /\ Registers(Issuer, [r EXCEPT !.state[i] = "serving", !.owner[p] = i,
                                          !.primary[i] = p])
        /\ Binds(Issuer, [own EXCEPT ![i] = c])

\* Nobody knows an id, nor the path made from it, before it is minted.
RegisterPublicJobAlias ==
  LET r == identities[Issuer]
  IN  \E i \in Ids : \E p \in LegacyPaths \cup Minted(r) :
        /\ r.state[i] = "serving" /\ Spelled(r, p) = {}
        /\ Registers(Issuer, [r EXCEPT !.owner[p] = i])
        /\ UNCHANGED bindings

\* Mutant: the redirects that lead to the loser stay.
RedirectedOnce(r, loser, survivor) ==
  [r EXCEPT !.state[loser] = "redirect", !.target[loser] = survivor]

Redirected(r, loser, survivor) ==
  [r EXCEPT !.state[loser] = "redirect",
            !.target = [i \in Ids |-> IF i = loser \/ @[i] = loser THEN survivor ELSE @[i]]]

\* Every redirect to the loser is led to the survivor first; the schema retires the
\* loser's binding with it.
MergePublicJobs ==
  LET r == identities[Issuer]  own == bindings[Issuer]
  IN  \E loser \in Ids, survivor \in Ids :
        /\ loser # survivor
        /\ \A i \in {loser, survivor} : r.state[i] = "serving" /\ Bound(own, i)
        /\ Registers(Issuer, Redirected(r, loser, survivor))
        /\ Binds(Issuer, [own EXCEPT ![loser] = Unbound])

MayBeGone(r, i) == \A j \in Ids : r.target[j] # i

MarkPublicJobGone ==
  LET r == identities[Issuer]
  IN  \E i \in Ids :
        /\ r.state[i] = "serving" /\ Bound(bindings[Issuer], i) /\ MayBeGone(r, i)
        /\ Registers(Issuer, [r EXCEPT !.state[i] = "gone"])
        /\ UNCHANGED bindings

RestorePublicJob ==
  LET r == identities[Issuer]
  IN  \E i \in Ids :
        /\ r.state[i] = "gone" /\ Bound(bindings[Issuer], i)
        /\ Registers(Issuer, [r EXCEPT !.state[i] = "serving"])
        /\ UNCHANGED bindings

\* A caller whose expected version is stale changes nothing.
RebindPublicJob ==
  LET own == bindings[Issuer]
  IN  \E i \in Ids, c \in Canonicals :
        /\ Bound(own, i) /\ Unclaimed(own, i, c)
        /\ Binds(Issuer, [own EXCEPT ![i] = c])
        /\ UNCHANGED identities

-----------------------------------------------------------------------------
(* Registries built from an export *)

\* _validated_registry_payload, of the export and again before the import
ValidPayload(r) ==
  \A i \in Ids : r.state[i] = "redirect" => r.state[r.target[i]] = "serving"

ImportPublicJobRegistry(d) ==
  /\ identities[d] = EmptyRegistry /\ ValidPayload(identities[Issuer])
  /\ Registers(d, identities[Issuer])
  /\ UNCHANGED bindings

BindImportedPublicJob(d) ==
  \E i \in Ids, c \in Canonicals :
    /\ identities[d].state[i] \in {"serving", "gone"}
    /\ ~Bound(bindings[d], i) /\ Unclaimed(bindings[d], i, c)
    /\ Binds(d, [bindings[d] EXCEPT ![i] = c])
    /\ UNCHANGED identities

\* The next build starts from a new file.
BuildsAnew(d) ==
  /\ Registers(d, EmptyRegistry) /\ Binds(d, NoBindings)

-----------------------------------------------------------------------------
(* Answers *)

Unknown == [kind |-> "unknown", job |-> NoId, at |-> NoId, canonical |-> Unbound]

\* resolve_public_job_path: the spelling itself, or else the one it folds to.
ResolvePublicJobPath(r, b, p) ==
  LET q == IF r.owner[p] # NoId THEN p ELSE CHOOSE s \in Spelled(r, p) : TRUE
      i == r.owner[q]
      e == IF r.state[i] = "redirect" THEN r.target[i] ELSE i
      kind == CASE r.state[i] = "gone" -> "gone"
                [] r.state[i] # "gone" /\ ~Bound(b, e) -> "unbound"
                [] r.state[i] # "gone" /\ Bound(b, e) /\ p # r.primary[e] -> "redirect"
                [] OTHER -> "serve"
  IN  IF Spelled(r, p) = {} THEN Unknown
      ELSE [kind |-> kind, job |-> e, at |-> r.primary[e], canonical |-> b[e]]

Answer(d, p) == ResolvePublicJobPath(identities[d], bindings[d], p)

\* primary_public_job_path_for_canonical
PrimaryPaths(d, c) ==
  {identities[d].primary[i] : i \in {j \in Ids : /\ bindings[d][j] = c
                                               /\ identities[d].state[j] = "serving"}}

InitIdentity ==
  /\ identities = [d \in Registries |-> EmptyRegistry]
  /\ bindings = [d \in Registries |-> NoBindings]

NextIdentity ==
  \/ AllocatePublicJob \/ RegisterPublicJobAlias \/ MergePublicJobs
  \/ MarkPublicJobGone \/ RestorePublicJob \/ RebindPublicJob
  \/ \E d \in Copies :
       ImportPublicJobRegistry(d) \/ BindImportedPublicJob(d) \/ BuildsAnew(d)

SpecIdentity == InitIdentity /\ [][NextIdentity]_identityVars

-----------------------------------------------------------------------------
\* A redirect leads in one hop to an identity that serves, in every database; an
\* opportunity has one identity; and in the authority every identity that serves or is gone
\* has an opportunity (reconcile_public_job_identity; "Redirect chains, cycles,
\* self-targets, and targets that are not serving are rejected").
RegistryReconciles ==
  \A d \in Registries : \A i \in Minted(identities[d]) :
    LET r == identities[d]  own == bindings[d]
    IN  /\ r.state[i] = "redirect" => r.state[r.target[i]] = "serving" /\ ~Bound(own, i)
        /\ r.state[i] # "redirect" /\ d = Issuer => Bound(own, i)
        /\ Bound(own, i) => Unclaimed(own, i, own[i])

\* What a database says of a path and what it says of an opportunity agree: the path it
\* gives for the opportunity of an identity is served with that opportunity, and is the
\* only one (primary_public_job_path_for_canonical, the links of the pages).
LinksLeadBack ==
  \A d \in Registries : \A i \in Minted(identities[d]) :
    identities[d].state[i] = "serving" /\ Bound(bindings[d], i) =>
      \E p \in Paths :
        /\ PrimaryPaths(d, bindings[d][i]) = {p}
        /\ Answer(d, p) = [kind |-> "serve", job |-> i, at |-> p, canonical |-> bindings[d][i]]

\* A database that was built long ago still leads home: where it sends a path, the
\* authority of today ends at the identity at which it ends for the path itself.
CopiesLeadHome ==
  \A d \in Copies : identities[d] # EmptyRegistry =>
    \A p \in Paths :
      Answer(d, p).kind # "unknown" =>
        Answer(Issuer, Answer(d, p).at).job = Answer(Issuer, p).job

\* A published link is for ever: its path never becomes unknown, and leads to the identity
\* it led to or to the one that identity was merged into.
LinksAreKept ==
  [][identities' # identities =>
       \A p \in Paths :
         Answer(Issuer, p).kind # "unknown" =>
           LET e == Answer(Issuer, p).job  e2 == Answer(Issuer, p)'.job
           IN  /\ Answer(Issuer, p)'.kind # "unknown"
               /\ e2 = e \/ identities[Issuer].target'[e] = e2]_identityVars

LinksSound == [](RegistryReconciles /\ LinksLeadBack /\ CopiesLeadHome) /\ LinksAreKept
=============================================================================
