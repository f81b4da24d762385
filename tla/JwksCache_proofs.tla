-------------------------- MODULE JwksCache_proofs --------------------------
(***************************************************************************)
(* One fetch at a time, for any number of threads.  The argument: a thread *)
(* starts a flight only when the cache has none, and the cache keeps the   *)
(* number of that flight until its owner installs or fails it; a close     *)
(* takes the flight away from the cache for good.                          *)
(*                                                                         *)
(* Then the server beside it, whose threads use the cache: it ends in the  *)
(* order of its dependencies, whatever interrupts it.                      *)
(***************************************************************************)
EXTENDS JwksCache, LoginServer, SequenceTheorems, TLAPS

Cache == [keys : Nat, expires : Nat, generation : Nat, forced : Nat, flight : Nat, closed : BOOLEAN]
Thread == [step : {"idle", "call", "waiting", "woken", "fetching", "install", "failing", "decode", "done"},
           call : {"get", "recover"}, kid : Nat, keys : Nat, used : Nat, flight : Nat,
           answer : {"none", "unavailable", "rate_limited", "verified", "rejected"}]

JwksTypeOK ==
  /\ monotonic \in Nat /\ published \in Nat
  /\ cache \in Cache
  /\ flights \in Seq([done : BOOLEAN, succeeded : BOOLEAN])
  /\ thread \in [Threads -> Thread]

Fetches(x) == x.step \in {"fetching", "install", "failing"}

\* Who fetches owns the flight the cache knows, until the cache is closed.
Owner(t) ==
  Fetches(thread[t]) => /\ thread[t].flight # 0
                        /\ cache.closed \/ thread[t].flight = cache.flight

OneOwner ==
  \A t, u \in Threads : ~cache.closed /\ Fetches(thread[t]) /\ Fetches(thread[u]) => t = u

ClosedIsEmpty == cache.closed => cache = [EmptyCache EXCEPT !.closed = TRUE]

JwksIInv ==
  /\ JwksTypeOK
  /\ \A t \in Threads : Owner(t)
  /\ OneOwner
  /\ ClosedIsEmpty

----------------------------------------------------------------------------
\* Waking the waiters changes nothing for those who fetch (Notified).
LEMMA NotifiedLemma ==
  ASSUME NEW threads \in [Threads -> Thread]
  PROVE  /\ Notified(threads) \in [Threads -> Thread]
         /\ \A t \in Threads : /\ Notified(threads)[t].flight = threads[t].flight
                               /\ Fetches(Notified(threads)[t]) <=> Fetches(threads[t])
                               /\ threads[t].step # "waiting" => Notified(threads)[t] = threads[t]
<1>1. \A x \in Thread : /\ [x EXCEPT !.step = "woken"] \in Thread
                        /\ [x EXCEPT !.step = "woken"].flight = x.flight
                        /\ [x EXCEPT !.step = "woken"].step = "woken"
  BY DEF Thread
<1>2. \A t \in Threads :
        Notified(threads)[t] = IF threads[t].step = "waiting"
                               THEN [threads[t] EXCEPT !.step = "woken"] ELSE threads[t]
  BY DEF Notified
<1>3. \A t \in Threads : threads[t] \in Thread
  OBVIOUS
<1>4. Notified(threads) \in [Threads -> Thread]
  BY <1>1, <1>3 DEF Notified
<1> QED
  BY <1>1, <1>2, <1>3, <1>4 DEF Fetches

\* Marking a flight keeps the list of flights (_JwksRefreshFlight).
LEMMA MarkLemma ==
  ASSUME NEW S, NEW s \in Seq(S), NEW n, NEW e \in S
  PROVE  [s EXCEPT ![n] = e] \in Seq(S)
<1>1. s \in [1..Len(s) -> S] /\ Len(s) \in Nat
  OBVIOUS
<1>2. [s EXCEPT ![n] = e] \in [1..Len(s) -> S]
  BY <1>1
<1> QED
  BY <1>1, <1>2

\* A step that starts no fetch: nobody begins one, who goes on keeps the flight, and an
\* open cache keeps the flight of whoever goes on.
LEMMA QuietLemma ==
  ASSUME JwksIInv, JwksTypeOK', ClosedIsEmpty',
         \A t \in Threads : Fetches(thread'[t]) => /\ Fetches(thread[t])
                                                   /\ thread'[t].flight = thread[t].flight,
         cache.closed => cache'.closed,
         ~cache'.closed => \/ cache'.flight = cache.flight
                           \/ \A t \in Threads : ~Fetches(thread'[t])
  PROVE  JwksIInv'
<1>1. \A t \in Threads : Owner(t)'
  BY DEF JwksIInv, Owner
<1>2. OneOwner'
  BY DEF JwksIInv, OneOwner
<1> QED
  BY <1>1, <1>2 DEF JwksIInv

\* A step that starts one: the open cache had no flight, so nobody fetched (StartFlight).
LEMMA StartLemma ==
  ASSUME JwksIInv, NEW t \in Threads, NEW emptied \in Cache, StartFlight(t, emptied),
         UNCHANGED <<monotonic, published>>,
         cache.flight = 0, ~cache.closed, ~emptied.closed
  PROVE  JwksIInv'
<1> DEFINE n == Len(flights) + 1
<1>1. JwksTypeOK /\ thread[t] \in Thread /\ n \in Nat \ {0}
  BY DEF JwksIInv, JwksTypeOK
<1>2. \A u \in Threads : ~Fetches(thread[u])
  BY DEF JwksIInv, Owner
<1>3. cache' \in Cache /\ cache'.flight = n /\ ~cache'.closed
  BY <1>1 DEF StartFlight, Cache
<1>4. /\ thread' \in [Threads -> Thread] /\ thread'[t].flight = n
      /\ \A u \in Threads \ {t} : thread'[u] = thread[u]
  <2>1. /\ [thread[t] EXCEPT !.step = "fetching", !.flight = n] \in Thread
        /\ [thread[t] EXCEPT !.step = "fetching", !.flight = n].flight = n
    BY <1>1 DEF Thread
  <2>2. thread' = [thread EXCEPT ![t] = [thread[t] EXCEPT !.step = "fetching", !.flight = n]]
    BY DEF StartFlight, Goes
  <2> QED
    BY <1>1, <2>1, <2>2 DEF JwksTypeOK
<1>5. flights' \in Seq([done : BOOLEAN, succeeded : BOOLEAN])
  BY <1>1 DEF JwksTypeOK, StartFlight
<1>6. JwksTypeOK' /\ ClosedIsEmpty'
  BY <1>1, <1>3, <1>4, <1>5 DEF JwksTypeOK, ClosedIsEmpty
<1>7. (\A u \in Threads : Owner(u)') /\ OneOwner'
  BY <1>1, <1>2, <1>3, <1>4 DEF Owner, OneOwner
<1> QED
  BY <1>6, <1>7 DEF JwksIInv

----------------------------------------------------------------------------
(* The steps of a thread *)

\* Emptying an expired cache keeps its flight (ClearExpired).
LEMMA ClearLemma ==
  ASSUME JwksIInv
  PROVE  ClearExpired \in Cache /\ ClearExpired.flight = cache.flight
         /\ ClearExpired.closed = cache.closed
  BY DEF JwksIInv, JwksTypeOK, Cache, ClearExpired, NoKeys

\* A thread moves on without starting or ending a flight.
LEMMA QuietStepLemma ==
  ASSUME JwksIInv, NEW t \in Threads, NEW x \in Thread, Goes(t, x),
         UNCHANGED <<monotonic, published, flights>>,
         Fetches(x) => Fetches(thread[t]) /\ x.flight = thread[t].flight,
         cache' = cache \/ (~cache.closed /\ cache' = ClearExpired)
  PROVE  JwksIInv'
<1>1. JwksTypeOK /\ ClosedIsEmpty
  BY DEF JwksIInv
<1>2. /\ thread' \in [Threads -> Thread] /\ thread'[t] = x
      /\ \A u \in Threads \ {t} : thread'[u] = thread[u]
  BY <1>1 DEF JwksTypeOK, Goes
<1>3. cache' \in Cache /\ cache'.flight = cache.flight /\ cache'.closed = cache.closed
  BY <1>1, ClearLemma DEF JwksTypeOK
<1>4. JwksTypeOK'
  BY <1>1, <1>2, <1>3 DEF JwksTypeOK
<1>5. ClosedIsEmpty'
  BY <1>1, <1>3 DEF ClosedIsEmpty
<1>6. \A u \in Threads : Fetches(thread'[u]) => /\ Fetches(thread[u])
                                                /\ thread'[u].flight = thread[u].flight
  BY <1>2
<1> QED
  BY <1>3, <1>4, <1>5, <1>6, QuietLemma

\* The records a thread goes on with are threads again, and none of these fetches anew.
LEMMA RecordsLemma ==
  ASSUME JwksIInv, NEW t \in Threads
  PROVE  /\ \A why \in {"unavailable", "rate_limited", "verified", "rejected"} :
              [NewThread EXCEPT !.step = "done", !.answer = why] \in Thread
              /\ ~Fetches([NewThread EXCEPT !.step = "done", !.answer = why])
         /\ [NewThread EXCEPT !.step = "call", !.kid = published] \in Thread
         /\ ~Fetches([NewThread EXCEPT !.step = "call", !.kid = published])
         /\ \A keys, generation \in Nat :
              Takes(t, keys, generation) \in Thread /\ ~Fetches(Takes(t, keys, generation))
<1>1. NewThread \in Thread
  BY DEF NewThread, Thread, NoKeys
<1>2. thread[t] \in Thread /\ published \in Nat
  BY DEF JwksIInv, JwksTypeOK
<1>3. \A x \in Thread, why \in {"unavailable", "rate_limited", "verified", "rejected"} :
        /\ [x EXCEPT !.step = "done", !.answer = why] \in Thread
        /\ [x EXCEPT !.step = "done", !.answer = why].step = "done"
  BY DEF Thread
<1>4. \A x \in Thread, kid \in Nat :
        /\ [x EXCEPT !.step = "call", !.kid = kid] \in Thread
        /\ [x EXCEPT !.step = "call", !.kid = kid].step = "call"
  BY DEF Thread
<1>5. \A x \in Thread, keys, generation \in Nat :
        /\ [x EXCEPT !.step = "decode", !.keys = keys, !.used = generation, !.flight = 0] \in Thread
        /\ [x EXCEPT !.step = "decode", !.keys = keys, !.used = generation, !.flight = 0].step = "decode"
  BY DEF Thread
<1> QED
  BY <1>1, <1>2, <1>3, <1>4, <1>5 DEF Takes, Fetches

\* A request that arrives takes no part in a flight yet.
LEMMA ArrivesLemma ==
  ASSUME JwksIInv, NEW t \in Threads, Arrives(t)
  PROVE  JwksIInv'
  BY RecordsLemma, QuietStepLemma DEF Arrives

\* A caller takes the keys, starts the one fetch, or waits for it (Get).
LEMMA GetLemma ==
  ASSUME JwksIInv, NEW t \in Threads, Get(t)
  PROVE  JwksIInv'
<1>1. thread[t] \in Thread /\ cache \in Cache /\ UNCHANGED <<monotonic, published>>
  BY DEF JwksIInv, JwksTypeOK, Get
<1>2. CASE cache.closed /\ Answers(t, "unavailable") /\ UNCHANGED <<cache, flights>>
  BY <1>1, <1>2, RecordsLemma, QuietStepLemma DEF Answers
<1>3. CASE Goes(t, Takes(t, cache.keys, cache.generation)) /\ UNCHANGED <<cache, flights>>
  <2>1. cache.keys \in Nat /\ cache.generation \in Nat
    BY <1>1 DEF Cache
  <2> QED
    BY <1>1, <1>3, <2>1, RecordsLemma, QuietStepLemma
<1>4. CASE ~cache.closed /\ cache.flight = 0 /\ StartFlight(t, ClearExpired)
  BY <1>1, <1>4, ClearLemma, StartLemma
<1>5. CASE /\ ~cache.closed /\ cache' = ClearExpired /\ UNCHANGED flights
           /\ Goes(t, [thread[t] EXCEPT !.step = "waiting", !.flight = cache.flight])
  <2> DEFINE x == [thread[t] EXCEPT !.step = "waiting", !.flight = cache.flight]
  <2>1. x \in Thread /\ x.step = "waiting"
    BY <1>1 DEF Thread, Cache
  <2>2. Goes(t, x)
    BY <1>5
  <2> HIDE DEF x
  <2> QED
    BY <1>1, <1>5, <2>1, <2>2, QuietStepLemma DEF Fetches
<1> QED
  BY <1>2, <1>3, <1>4, <1>5 DEF Get

\* The same for a key the cache does not know (RecoverUnknownKid).
LEMMA RecoverLemma ==
  ASSUME JwksIInv, NEW t \in Threads, RecoverUnknownKid(t)
  PROVE  JwksIInv'
<1> DEFINE kept == IF Snapshot THEN cache ELSE ClearExpired
           emptied == IF Snapshot THEN [kept EXCEPT !.forced = monotonic] ELSE kept
<1>1. /\ thread[t] \in Thread /\ cache \in Cache /\ monotonic \in Nat
      /\ UNCHANGED <<monotonic, published>>
  BY DEF JwksIInv, JwksTypeOK, RecoverUnknownKid
<1>2. CASE \E why \in {"unavailable", "rate_limited"} : Answers(t, why) /\ UNCHANGED <<cache, flights>>
  BY <1>1, <1>2, RecordsLemma, QuietStepLemma DEF Answers
<1>3. CASE Goes(t, Takes(t, cache.keys, cache.generation)) /\ UNCHANGED <<cache, flights>>
  <2>1. cache.keys \in Nat /\ cache.generation \in Nat
    BY <1>1 DEF Cache
  <2> QED
    BY <1>1, <1>3, <2>1, RecordsLemma, QuietStepLemma
<1>4. CASE ~cache.closed /\ MayRefresh(t) /\ StartFlight(t, emptied)
  <2>1. emptied \in Cache /\ emptied.closed = cache.closed
    <3>1. \A c \in Cache : [c EXCEPT !.forced = monotonic] \in Cache
                           /\ [c EXCEPT !.forced = monotonic].closed = c.closed
      BY <1>1 DEF Cache
    <3> QED
      BY <1>1, <3>1, ClearLemma
  <2>2. cache.flight = 0
    BY <1>4 DEF MayRefresh
  <2> HIDE DEF emptied
  <2> QED
    BY <1>1, <1>4, <2>1, <2>2, StartLemma
<1>5. CASE /\ ~cache.closed /\ cache' = kept /\ UNCHANGED flights
           /\ Goes(t, [thread[t] EXCEPT !.step = "waiting", !.flight = cache.flight])
  <2> DEFINE x == [thread[t] EXCEPT !.step = "waiting", !.flight = cache.flight]
  <2>1. x \in Thread /\ x.step = "waiting"
    BY <1>1 DEF Thread, Cache
  <2>2. Goes(t, x)
    BY <1>5
  <2> HIDE DEF x
  <2> QED
    BY <1>1, <1>5, <2>1, <2>2, QuietStepLemma DEF Fetches
<1> QED
  BY <1>2, <1>3, <1>4, <1>5 DEF RecoverUnknownKid

\* Waking up, fetching and decoding leave the cache alone (Wake, FetchJwks, Decode).
LEMMA LocalLemma ==
  ASSUME JwksIInv, NEW t \in Threads, Wake(t) \/ FetchJwks(t) \/ Decode(t)
  PROVE  JwksIInv'
<1>1. /\ thread[t] \in Thread /\ published \in Nat
      /\ UNCHANGED <<monotonic, published, cache, flights>>
  BY DEF JwksIInv, JwksTypeOK, Wake, FetchJwks, Decode
<1>2. CASE \E why \in {"unavailable", "verified", "rejected"} : Answers(t, why)
  BY <1>1, <1>2, RecordsLemma, QuietStepLemma DEF Answers
<1>3. CASE \E x \in {[thread[t] EXCEPT !.step = "waiting"],
                     [thread[t] EXCEPT !.step = "call", !.flight = 0],
                     [thread[t] EXCEPT !.step = "call", !.call = "recover"]} : Goes(t, x)
  <2>1. PICK x \in {[thread[t] EXCEPT !.step = "waiting"],
                    [thread[t] EXCEPT !.step = "call", !.flight = 0],
                    [thread[t] EXCEPT !.step = "call", !.call = "recover"]} : Goes(t, x)
    BY <1>3
  <2>2. x \in Thread /\ x.step \in {"waiting", "call"}
    <3>1. \A y \in Thread : /\ [y EXCEPT !.step = "waiting"] \in Thread
                            /\ [y EXCEPT !.step = "waiting"].step = "waiting"
      BY DEF Thread
    <3>2. \A y \in Thread : /\ [y EXCEPT !.step = "call", !.flight = 0] \in Thread
                            /\ [y EXCEPT !.step = "call", !.flight = 0].step = "call"
      BY DEF Thread
    <3>3. \A y \in Thread : /\ [y EXCEPT !.step = "call", !.call = "recover"] \in Thread
                            /\ [y EXCEPT !.step = "call", !.call = "recover"].step = "call"
      BY DEF Thread
    <3> QED
      BY <1>1, <2>1, <3>1, <3>2, <3>3
  <2> QED
    BY <1>1, <2>1, <2>2, QuietStepLemma DEF Fetches
<1>4. CASE /\ thread[t].step = "fetching"
           /\ \E x \in {[thread[t] EXCEPT !.step = "install", !.keys = published],
                        [thread[t] EXCEPT !.step = "failing"]} : Goes(t, x)
  <2>1. PICK x \in {[thread[t] EXCEPT !.step = "install", !.keys = published],
                    [thread[t] EXCEPT !.step = "failing"]} : Goes(t, x)
    BY <1>4
  <2>2. x \in Thread /\ x.flight = thread[t].flight
    BY <1>1, <2>1 DEF Thread
  <2> QED
    BY <1>1, <1>4, <2>1, <2>2, QuietStepLemma DEF Fetches
<1> QED
  BY <1>2, <1>3, <1>4 DEF Wake, FetchJwks, Decode

\* The owner installs the keys and the cache has no flight again (InstallKeys).
LEMMA InstallLemma ==
  ASSUME JwksIInv, NEW t \in Threads, InstallKeys(t)
  PROVE  JwksIInv'
<1> DEFINE done == [done |-> TRUE, succeeded |-> TRUE]
           x == Takes(t, thread[t].keys, cache.generation + 1)
<1>1. /\ thread[t] \in Thread /\ cache \in Cache /\ monotonic \in Nat /\ JwksTypeOK /\ ClosedIsEmpty
      /\ thread[t].step = "install" /\ UNCHANGED <<monotonic, published>>
  BY DEF JwksIInv, JwksTypeOK, InstallKeys
<1>2. CASE Goes(t, [thread[t] EXCEPT !.step = "failing"]) /\ UNCHANGED <<cache, flights>>
  <2> DEFINE y == [thread[t] EXCEPT !.step = "failing"]
  <2>1. y \in Thread /\ y.flight = thread[t].flight
    BY <1>1 DEF Thread
  <2>2. Goes(t, y)
    BY <1>2
  <2> HIDE DEF y
  <2> QED
    BY <1>1, <1>2, <2>1, <2>2, QuietStepLemma DEF Fetches
<1>3. CASE /\ ~cache.closed /\ cache.flight = thread[t].flight
           /\ cache' = [cache EXCEPT !.keys = thread[t].keys, !.expires = monotonic + KeysTtl,
                                     !.generation = @ + 1, !.flight = 0]
           /\ flights' = [flights EXCEPT ![thread[t].flight] = done]
           /\ thread' = Notified([thread EXCEPT ![t] = x])
  <2>1. cache' \in Cache /\ ~cache'.closed
    <3>1. KeysTtl \in Nat /\ thread[t].keys \in Nat
      BY <1>1, JwksAssumption DEF Thread
    <3> QED
      <4> DEFINE keys == thread[t].keys
                 expires == monotonic + KeysTtl
                 generation == cache.generation + 1
      <4>1. keys \in Nat /\ expires \in Nat /\ generation \in Nat
        BY <1>1, <3>1 DEF Cache
      <4>2. cache' = [cache EXCEPT !.keys = keys, !.expires = expires, !.generation = generation,
                                   !.flight = 0]
        BY <1>3
      <4> HIDE DEF keys, expires, generation
      <4>3. \A c \in Cache : [c EXCEPT !.keys = keys, !.expires = expires, !.generation = generation,
                                      !.flight = 0] \in Cache
        BY <4>1 DEF Cache
      <4>4. \A c \in Cache : [c EXCEPT !.keys = keys, !.expires = expires, !.generation = generation,
                                      !.flight = 0].closed = c.closed
        BY DEF Cache
      <4> QED
        BY <1>1, <1>3, <4>2, <4>3, <4>4
  <2>2. x \in Thread /\ ~Fetches(x)
    <3>1. thread[t].keys \in Nat /\ cache.generation + 1 \in Nat
      BY <1>1 DEF Thread, Cache
    <3> QED
      BY <3>1, RecordsLemma
  <2> HIDE DEF x, done
  <2>3. /\ [thread EXCEPT ![t] = x] \in [Threads -> Thread]
        /\ [thread EXCEPT ![t] = x][t] = x
        /\ \A u \in Threads \ {t} : [thread EXCEPT ![t] = x][u] = thread[u]
    BY <1>1, <2>2 DEF JwksTypeOK
  <2>4. /\ thread' \in [Threads -> Thread] /\ ~Fetches(thread'[t])
        /\ \A u \in Threads \ {t} : /\ Fetches(thread'[u]) <=> Fetches(thread[u])
                                    /\ thread'[u].flight = thread[u].flight
    BY <1>3, <2>2, <2>3, NotifiedLemma
  <2>5. \A u \in Threads : ~Fetches(thread'[u])
    BY <1>1, <1>3, <2>4 DEF JwksIInv, OneOwner, Fetches
  <2>6. flights' \in Seq([done : BOOLEAN, succeeded : BOOLEAN])
    <3>1. done \in [done : BOOLEAN, succeeded : BOOLEAN]
      BY DEF done
    <3> QED
      BY <1>1, <1>3, <3>1, MarkLemma DEF JwksTypeOK
  <2>7. JwksTypeOK' /\ ClosedIsEmpty'
    BY <1>1, <2>1, <2>4, <2>6 DEF JwksTypeOK, ClosedIsEmpty
  <2> QED
    BY <1>3, <2>5, <2>7, QuietLemma
<1> QED
  BY <1>2, <1>3 DEF InstallKeys

\* A flight that failed leaves the open cache without one (FailFlight).
LEMMA FailLemma ==
  ASSUME JwksIInv, NEW t \in Threads, FailFlight(t)
  PROVE  JwksIInv'
<1> DEFINE x == [NewThread EXCEPT !.step = "done", !.answer = "unavailable"]
           done == [done |-> TRUE, succeeded |-> FALSE]
<1>1. /\ thread[t] \in Thread /\ cache \in Cache /\ JwksTypeOK /\ ClosedIsEmpty
      /\ thread[t].step = "failing" /\ UNCHANGED <<monotonic, published>>
      /\ flights' = [flights EXCEPT ![thread[t].flight] = done]
      /\ cache' = IF cache.flight = thread[t].flight THEN [cache EXCEPT !.flight = 0] ELSE cache
      /\ thread' = Notified([thread EXCEPT ![t] = x])
  BY DEF JwksIInv, JwksTypeOK, FailFlight
<1>2. x \in Thread /\ ~Fetches(x)
  BY RecordsLemma
<1>3. flights' \in Seq([done : BOOLEAN, succeeded : BOOLEAN])
  <2>1. done \in [done : BOOLEAN, succeeded : BOOLEAN]
    OBVIOUS
  <2> HIDE DEF done
  <2> QED
    BY <1>1, <2>1, MarkLemma DEF JwksTypeOK
<1> HIDE DEF x, done
<1>4. /\ [thread EXCEPT ![t] = x] \in [Threads -> Thread]
      /\ [thread EXCEPT ![t] = x][t] = x
      /\ \A u \in Threads \ {t} : [thread EXCEPT ![t] = x][u] = thread[u]
  BY <1>1, <1>2 DEF JwksTypeOK
<1>5. /\ thread' \in [Threads -> Thread] /\ ~Fetches(thread'[t])
      /\ \A u \in Threads \ {t} : /\ Fetches(thread'[u]) <=> Fetches(thread[u])
                                  /\ thread'[u].flight = thread[u].flight
  BY <1>1, <1>2, <1>4, NotifiedLemma
<1>6. cache' \in Cache /\ cache'.closed = cache.closed
  BY <1>1 DEF Cache
<1>7. cache.closed => cache' = cache
  <2>1. thread[t].flight # 0
    BY <1>1 DEF JwksIInv, Owner, Fetches
  <2>2. cache.closed => cache.flight = 0
    BY <1>1 DEF ClosedIsEmpty, EmptyCache
  <2> QED
    BY <1>1, <2>1, <2>2
<1>8. ~cache.closed => \A u \in Threads : ~Fetches(thread'[u])
  BY <1>1, <1>5 DEF JwksIInv, OneOwner, Fetches
<1>9. JwksTypeOK' /\ ClosedIsEmpty'
  BY <1>1, <1>3, <1>5, <1>6, <1>7 DEF JwksTypeOK, ClosedIsEmpty
<1> QED
  BY <1>5, <1>6, <1>7, <1>8, <1>9, QuietLemma

\* A close empties the cache and takes its flight away for good (CloseCache).
LEMMA CloseCacheLemma ==
  ASSUME JwksIInv, CloseCache
  PROVE  JwksIInv'
<1>1. /\ JwksTypeOK /\ cache' = [EmptyCache EXCEPT !.closed = TRUE]
      /\ thread' = Notified(thread) /\ UNCHANGED <<monotonic, published>>
  BY DEF JwksIInv, CloseCache
<1>2. EmptyCache \in Cache
  BY JwksAssumption DEF EmptyCache, Cache, NoKeys, NeverForced
<1>3. cache' \in Cache /\ cache'.closed
  BY <1>1, <1>2 DEF Cache
<1>4. /\ thread' \in [Threads -> Thread]
      /\ \A t \in Threads : /\ Fetches(thread'[t]) <=> Fetches(thread[t])
                            /\ thread'[t].flight = thread[t].flight
  BY <1>1, NotifiedLemma DEF JwksTypeOK
<1>5. flights' \in Seq([done : BOOLEAN, succeeded : BOOLEAN])
  <2>1. flights' = flights \/ \E n \in Nat : flights' = [flights EXCEPT ![n] = [done |-> TRUE, succeeded |-> FALSE]]
    BY <1>1 DEF CloseCache, JwksTypeOK, Cache
  <2> DEFINE done == [done |-> TRUE, succeeded |-> FALSE]
  <2>2. done \in [done : BOOLEAN, succeeded : BOOLEAN]
    OBVIOUS
  <2> HIDE DEF done
  <2>3. \A n \in Nat : [flights EXCEPT ![n] = done] \in Seq([done : BOOLEAN, succeeded : BOOLEAN])
    BY <1>1, <2>2, MarkLemma DEF JwksTypeOK
  <2> QED
    BY <1>1, <2>1, <2>3 DEF JwksTypeOK, done
<1>6. JwksTypeOK' /\ ClosedIsEmpty'
  BY <1>1, <1>3, <1>4, <1>5 DEF JwksTypeOK, ClosedIsEmpty
<1> QED
  BY <1>3, <1>4, <1>6, QuietLemma

----------------------------------------------------------------------------
\* The first state of the cache.
LEMMA InitJwksLemma == InitJwks => JwksIInv
<1> SUFFICES ASSUME InitJwks PROVE JwksIInv
  OBVIOUS
<1>1. EmptyCache \in Cache /\ EmptyCache.closed = FALSE
  BY JwksAssumption DEF EmptyCache, Cache, NoKeys, NeverForced
<1>2. NewThread \in Thread /\ ~Fetches(NewThread)
  BY DEF NewThread, Thread, NoKeys, Fetches
<1>3. \A t \in Threads : thread[t] = NewThread
  BY DEF InitJwks
<1>4. JwksTypeOK
  BY <1>1, <1>2 DEF InitJwks, JwksTypeOK
<1> QED
  BY <1>1, <1>2, <1>3, <1>4 DEF InitJwks, JwksIInv, Owner, OneOwner, ClosedIsEmpty

\* Every step keeps the invariant of the cache.
LEMMA NextJwksLemma == JwksIInv /\ [NextJwks]_jwksVars => JwksIInv'
<1> SUFFICES ASSUME JwksIInv, [NextJwks]_jwksVars PROVE JwksIInv'
  OBVIOUS
<1>1. CASE \E t \in Threads : Arrives(t)
  BY <1>1, ArrivesLemma
<1>2. CASE \E t \in Threads : ThreadStep(t)
  BY <1>2, GetLemma, RecoverLemma, LocalLemma, InstallLemma, FailLemma DEF ThreadStep
<1>3. CASE CloseCache
  BY <1>3, CloseCacheLemma
<1>4. CASE MonotonicTicks \/ ProviderRotates \/ UNCHANGED jwksVars
  <2>1. UNCHANGED <<cache, flights, thread>> /\ monotonic' \in Nat /\ published' \in Nat
    BY <1>4 DEF MonotonicTicks, ProviderRotates, jwksVars, JwksIInv, JwksTypeOK
  <2> QED
    BY <2>1 DEF JwksIInv, JwksTypeOK, Owner, OneOwner, ClosedIsEmpty
<1> QED
  BY <1>1, <1>2, <1>3, <1>4 DEF NextJwks

\* At most one thread fetches for an open cache, the owner of the flight the others wait
\* for, and a closed cache stays empty (_perform_refresh, close), for any number of threads.
THEOREM OneFetchTheorem == SpecJwks => []OneFetchAtATime
<1>1. JwksIInv => OneFetchAtATime
  BY DEF JwksIInv, Owner, OneOwner, ClosedIsEmpty, OneFetchAtATime, Fetches
<1> QED
  BY <1>1, InitJwksLemma, NextJwksLemma, PTL DEF SpecJwks

----------------------------------------------------------------------------
(* The end of the server.                                                  *)

Ending == main.step \in {"cleanup", "done"}
Halted == server.stopping \/ ~Alive

(* What a terminal entry says for ever.                                    *)
Finished(r) ==
  CASE r = "serve_thread" -> ~Alive
    [] r = "accepted_sockets" -> Pending \cup Accepted = {}
    [] r = "request_threads" -> Running = {}
    [] r = "server_shutdown" -> TRUE
    [] OTHER -> r \notin open

Main == [step : {"prepared", "starting", "deciding", "serving", "cleanup", "done"},
         attempt : Nat, pass : Nat, at : Nat, acted : {"no", "returned", "raised"}, faults : Nat]

Outcome == [state : {"created", "starting", "serving", "stopping", "stopped", "failed"},
            ready : BOOLEAN, done : BOOLEAN]
Server == [active : BOOLEAN, stopping : BOOLEAN, told : BOOLEAN, valid : BOOLEAN]
(* What the thread that serves is at, and whose connection it holds.       *)
ServeSteps == {"unstarted", "started", "poll", "accept", "handshake", "process", "service",
               "decide", "dead"}
Serve == [step : ServeSteps, lease : Connections \cup {"none"}]

ServerTypeOK ==
  /\ main \in Main
  /\ signalled \in BOOLEAN /\ owned \in BOOLEAN
  /\ outcome \in Outcome
  /\ server \in Server
  /\ serve \in Serve
  /\ socket \in [Connections -> {"none", "pending", "accepted", "closed"}]
  /\ worker \in [Connections -> {"none", "running", "ended"}]
  /\ entry \in [Resources -> {"unowned", "owned", "unresolved", "failed", "terminal"}]
  /\ open \subseteq Resources \ {"serve_thread", "server_shutdown", "accepted_sockets", "request_threads"}

(* Whoever says that serving is over has stopped the server or is its      *)
(* thread that ended.                                                      *)
HaltShape ==
  /\ Ending \/ outcome.done \/ outcome.state = "failed" => Halted
  /\ ~server.valid => server.stopping
  /\ main.step = "prepared" => serve.step = "unstarted" /\ ~outcome.done /\ Running = {}
  /\ entry["serve_thread"] = "unowned" =>
       serve.step = "unstarted" /\ main.step \notin {"starting", "deciding", "serving"}

EntryShape ==
  /\ \A r \in Resources : entry[r] = "unowned" => r = "serve_thread"
  /\ \A r \in Resources : entry[r] = "terminal" => Ending /\ Finished(r)
  /\ \A r \in Probed : entry[r] # "failed"
  /\ entry["browser_integration"] \in {"failed", "terminal"} => entry["request_threads"] = "terminal"
  /\ ~Ending => {"browser_integration", "database_connections", "database_lifetime_ownership"} \subseteq open

CleanupShape ==
  /\ main.step = "cleanup" =>
       /\ main.at \in 1..Len(CleanupOrder) /\ entry[Current] \notin {"unowned", "terminal"}
       /\ main.pass = 1 \/ Current \in Probed
  /\ main.acted # "no" => /\ main.step = "cleanup" /\ main.pass = 1
                          /\ ~DependenciesLive(entry, Current)

ServerIInv ==
  ServerTypeOK /\ HaltShape /\ EntryShape /\ CleanupShape /\ DatabaseOutlivesRequests

----------------------------------------------------------------------------
\* The ten resources and their order, counted out.
LEMMA Order ==
  /\ Len(CleanupOrder) = 10
  /\ CleanupOrder[1] = "serve_thread" /\ CleanupOrder[2] = "server_shutdown"
  /\ Resources = {"serve_thread", "server_shutdown", "accepted_sockets", "request_threads",
                  "route_integration", "inactive_server", "listener_socket", "browser_integration",
                  "database_connections", "database_lifetime_ownership"}
  /\ \A n \in 1..10 : CleanupOrder[n] \in Resources
<1>1. Len(CleanupOrder) = 10
  BY DEF CleanupOrder
<1>2. /\ CleanupOrder[1] = "serve_thread" /\ CleanupOrder[2] = "server_shutdown"
      /\ CleanupOrder[3] = "accepted_sockets" /\ CleanupOrder[4] = "request_threads"
      /\ CleanupOrder[5] = "route_integration" /\ CleanupOrder[6] = "inactive_server"
      /\ CleanupOrder[7] = "listener_socket" /\ CleanupOrder[8] = "browser_integration"
      /\ CleanupOrder[9] = "database_connections" /\ CleanupOrder[10] = "database_lifetime_ownership"
  BY DEF CleanupOrder
<1>3. \A n \in 1..10 : n = 1 \/ n = 2 \/ n = 3 \/ n = 4 \/ n = 5 \/ n = 6 \/ n = 7 \/ n = 8
                       \/ n = 9 \/ n = 10
  OBVIOUS
<1>4. \A n \in 1..10 : CleanupOrder[n] \in Resources
  BY <1>1 DEF Resources
<1>5. 1 \in 1..10 /\ 2 \in 1..10 /\ 3 \in 1..10 /\ 4 \in 1..10 /\ 5 \in 1..10 /\ 6 \in 1..10
      /\ 7 \in 1..10 /\ 8 \in 1..10 /\ 9 \in 1..10 /\ 10 \in 1..10
  OBVIOUS
<1>6. Resources = {"serve_thread", "server_shutdown", "accepted_sockets", "request_threads",
                   "route_integration", "inactive_server", "listener_socket", "browser_integration",
                   "database_connections", "database_lifetime_ownership"}
  <2>1. Resources \subseteq {"serve_thread", "server_shutdown", "accepted_sockets", "request_threads",
                   "route_integration", "inactive_server", "listener_socket", "browser_integration",
                   "database_connections", "database_lifetime_ownership"}
    BY <1>1, <1>2, <1>3 DEF Resources
  <2>2. {"serve_thread", "server_shutdown", "accepted_sockets", "request_threads",
                   "route_integration", "inactive_server", "listener_socket", "browser_integration",
                   "database_connections", "database_lifetime_ownership"} \subseteq Resources
    BY <1>2, <1>4, <1>5
  <2> QED
    BY <2>1, <2>2
<1> QED
  BY <1>1, <1>2, <1>4, <1>6

(* Where the coordinator may go on, given the entries e.                   *)
Places(e) ==
  {x \in Main : /\ x.step = main.step /\ x.acted = "no" /\ x.pass \in {1, 2}
                /\ x.at \in 1..Len(CleanupOrder) /\ ~Skipped(e, x.pass, CleanupOrder[x.at])}

\* A set of places has a first one.
LEMMA LeastOfTen ==
  ASSUME NEW S \in SUBSET (1..10), S # {}
  PROVE  \E n \in S : \A k \in S : n <= k
<1>1. CASE 1 \in S  BY <1>1
<1>2. CASE 1 \notin S /\ 2 \in S  BY <1>2
<1>3. CASE 1 \notin S /\ 2 \notin S /\ 3 \in S  BY <1>3
<1>4. CASE \A j \in 1..3 : j \notin S
  <2>1. CASE 4 \in S  BY <1>4, <2>1
  <2>2. CASE 4 \notin S /\ 5 \in S  BY <1>4, <2>2
  <2>3. CASE 4 \notin S /\ 5 \notin S /\ 6 \in S  BY <1>4, <2>3
  <2>4. CASE 4 \notin S /\ 5 \notin S /\ 6 \notin S /\ 7 \in S  BY <1>4, <2>4
  <2>5. CASE \A j \in 4..7 : j \notin S
    <3>1. \A j \in S : j \in {8, 9, 10}
      BY <1>4, <2>5
    <3>2. CASE 8 \in S  BY <3>1, <3>2
    <3>3. CASE 8 \notin S /\ 9 \in S  BY <3>1, <3>3
    <3>4. CASE 8 \notin S /\ 9 \notin S
      <4>1. \A j \in S : j = 10
        BY <3>1, <3>4
      <4>2. 10 \in S
        BY <4>1
      <4> QED
        BY <4>1, <4>2
    <3> QED
      BY <3>2, <3>3, <3>4
  <2>6. (\A j \in 4..7 : j \notin S) \/ 4 \in S \/ 5 \in S \/ 6 \in S \/ 7 \in S
    OBVIOUS
  <2> QED
    BY <2>1, <2>2, <2>3, <2>4, <2>5, <2>6
<1>5. (\A j \in 1..3 : j \notin S) \/ 1 \in S \/ 2 \in S \/ 3 \in S
  OBVIOUS
<1> QED
  BY <1>1, <1>2, <1>3, <1>4, <1>5

Moved(m, attempt, pass, at) ==
  [m EXCEPT !.attempt = attempt, !.pass = pass, !.acted = "no", !.at = at]

MovedTo(m, x, pass, at) ==
  x \in Main /\ x.step = m.step /\ x.acted = "no" /\ x.pass = pass /\ x.at = at

\* The coordinator moved to another place is a coordinator.
LEMMA MovedIsMain ==
  ASSUME NEW m \in Main, NEW attempt \in Nat, NEW pass \in {1, 2}, NEW at \in Nat
  PROVE  MovedTo(m, Moved(m, attempt, pass, at), pass, at)
<1> DEFINE x1 == [m EXCEPT !.attempt = attempt]
           x2 == [x1 EXCEPT !.pass = pass]
           x3 == [x2 EXCEPT !.acted = "no"]
           x4 == [x3 EXCEPT !.at = at]
<1>1. x1 \in Main /\ x1.step = m.step
  BY DEF Main
<1> HIDE DEF x1
<1>2. x2 \in Main /\ x2.step = m.step /\ x2.pass = pass
  BY <1>1 DEF Main
<1> HIDE DEF x2
<1>3. x3 \in Main /\ x3.step = m.step /\ x3.pass = pass /\ x3.acted = "no"
  BY <1>2 DEF Main
<1> HIDE DEF x3
<1>4. x4 \in Main /\ x4.step = m.step /\ x4.pass = pass /\ x4.acted = "no" /\ x4.at = at
  BY <1>3 DEF Main
<1> QED
  BY <1>4 DEF Moved, MovedTo, x1, x2, x3

\* What follows is a place of the order.
LEMMA FromPlaces ==
  ASSUME main \in Main, NEW e, NEW attempt \in Nat, NEW pass \in {1, 2}, NEW n \in Nat \ {0}
  PROVE  From(e, attempt, pass, n) \subseteq Places(e)
<1> DEFINE todo == {m \in n..Len(CleanupOrder) : ~Skipped(e, pass, CleanupOrder[m])}
           least == CHOOSE m \in todo : \A k \in todo : m <= k
           x == Moved(main, attempt, pass, least)
<1>1. CASE todo = {}
  BY <1>1 DEF From
<1>2. CASE todo # {}
  <2>1. todo \in SUBSET (1..10)
    BY Order
  <2>2. \E m \in todo : \A k \in todo : m <= k
    BY <1>2, <2>1, LeastOfTen
  <2>3. least \in todo
    BY <2>2
  <2>4. least \in 1..10 /\ least \in Nat /\ ~Skipped(e, pass, CleanupOrder[least])
    BY <2>1, <2>3
  <2> HIDE DEF least
  <2>5. x \in Main /\ x.step = main.step /\ x.acted = "no" /\ x.pass = pass /\ x.at = least
    <3>1. main \in Main /\ least \in Nat /\ attempt \in Nat
      BY <2>4
    <3>2. MovedTo(main, Moved(main, attempt, pass, least), pass, least)
      BY <3>1, MovedIsMain
    <3> QED
      BY <3>2 DEF MovedTo
  <2>6. x \in Places(e)
    BY <2>4, <2>5, Order DEF Places
  <2>7. From(e, attempt, pass, n) = {x}
    BY <1>2 DEF From, Moved, least
  <2> QED
    BY <2>6, <2>7
<1> QED
  BY <1>1, <1>2

(* The coordinator goes on at an entry it does not skip, or is done.       *)
LEMMA FollowingPlaces ==
  ASSUME main \in Main, main.step = "cleanup", main.at \in 1..Len(CleanupOrder), NEW e
  PROVE  Following(e, main) = AtRest("done") \/ Following(e, main) \in Places(e)
<1> DEFINE P == SUBSET Places(e)
           rest == IF main.pass = 1
                   THEN OrElse(From(e, main.attempt, 1, main.at + 1), From(e, main.attempt, 2, 1))
                   ELSE From(e, main.attempt, 2, main.at + 1)
           again == IF main.attempt = 1 THEN OrElse(From(e, 2, 1, 1), From(e, 2, 2, 1)) ELSE {}
           left == OrElse(rest, again)
<1>1. \A attempt \in Nat, pass \in {1, 2}, n \in Nat \ {0} : From(e, attempt, pass, n) \in P
  BY FromPlaces
<1>2. main.attempt \in Nat /\ main.at + 1 \in Nat \ {0} /\ 1 \in Nat \ {0} /\ 2 \in Nat
  BY Order DEF Main
<1>3. {} \in P
  OBVIOUS
<1> HIDE DEF P
<1>4. \A some, others \in P : OrElse(some, others) \in P
  BY DEF OrElse
<1>5. rest \in P /\ again \in P
  BY <1>1, <1>2, <1>3, <1>4
<1> HIDE DEF rest, again
<1>6. left \in P
  BY <1>1, <1>2, <1>4, <1>5
<1>7. Following(e, main) = IF left = {} THEN AtRest("done") ELSE CHOOSE next \in left : TRUE
  BY DEF Following, rest, again
<1> HIDE DEF left
<1> QED
  BY <1>6, <1>7 DEF P

----------------------------------------------------------------------------
(* A step while the server is halted: nothing begins, and nothing that was *)
(* closed opens again.                                                     *)
Winds ==
  /\ ~Alive => ~Alive'
  /\ Pending' \subseteq Pending /\ Accepted' \subseteq Accepted /\ Running' \subseteq Running
  /\ open' \subseteq open

(* What a thread of the server, a client or a signal does leaves the main  *)
(* thread and its books alone.                                             *)
LEMMA BooksStay ==
  ASSUME ServerIInv, UNCHANGED <<main, entry, open>>, Halted => Winds
  PROVE  EntryShape' /\ CleanupShape' /\ DatabaseOutlivesRequests'
<1> USE DEF ServerIInv
<1>1. Ending => Winds
  BY DEF HaltShape
<1>2. Ending' = Ending
  BY DEF Ending
<1>3. \A r \in Resources : Ending /\ Finished(r) => Finished(r)'
  <2> SUFFICES ASSUME NEW r \in Resources, Ending, Finished(r)
               PROVE  Finished(r)'
    OBVIOUS
  <2> QED
    BY <1>1 DEF Finished, Winds
<1>4. EntryShape'
  BY <1>2, <1>3 DEF EntryShape
<1>5. CleanupShape'
  BY DEF CleanupShape, Current, DependenciesLive
<1>6. {"browser_integration", "database_connections"} \ open # {}
      \/ "database_lifetime_ownership" \notin open => Winds
  BY <1>1 DEF EntryShape
<1>7. DatabaseOutlivesRequests'
  BY <1>6 DEF DatabaseOutlivesRequests, Winds
<1> QED
  BY <1>4, <1>5, <1>7

\* What a failure, a success and a stop make of an outcome.
LEMMA Outcomes ==
  ASSUME ServerTypeOK, NEW o \in Outcome
  PROVE  /\ Stopped(o) \in Outcome /\ Stopped(o).done = o.done
         /\ Stopped(o).state = "failed" <=> o.state = "failed"
         /\ Failure(o) \in Outcome /\ Success(o) \in Outcome /\ Unstarted(o) \in Outcome
<1>1. \A st \in {"created", "starting", "serving", "stopping", "stopped", "failed"} :
        /\ [o EXCEPT !.state = st] \in Outcome
        /\ [o EXCEPT !.state = st].done = o.done /\ [o EXCEPT !.state = st].state = st
        /\ [o EXCEPT !.done = TRUE, !.state = st] \in Outcome
  BY DEF Outcome
<1>2. o.state \in {"created", "starting", "serving", "stopping", "stopped", "failed"}
  BY DEF Outcome
<1>3. Stopped(o) \in Outcome /\ Stopped(o).done = o.done
  BY <1>1, <1>2 DEF Stopped
<1>4. Stopped(o).state = "failed" <=> o.state = "failed"
  BY <1>1, <1>2 DEF Stopped
<1>5. Failure(o) \in Outcome
  BY <1>1, <1>2 DEF Failure, Ended
<1>6. Success(o) \in Outcome
  BY <1>1, <1>2 DEF Success, Ended
<1>7. Unstarted(o) \in Outcome
  BY <1>1, <1>2 DEF Unstarted
<1> QED
  BY <1>3, <1>4, <1>5, <1>6, <1>7

\* What a shutdown and the loss of ownership make of the server.
LEMMA Servers ==
  ASSUME ServerTypeOK
  PROVE  /\ ShutDown(server) \in Server /\ ShutDown(server).stopping
         /\ ShutDown(server).valid = server.valid
         /\ \A a, t \in BOOLEAN :
              /\ [server EXCEPT !.active = a, !.told = t] \in Server
              /\ [server EXCEPT !.active = a, !.told = t].stopping = server.stopping
              /\ [server EXCEPT !.active = a, !.told = t].valid = server.valid
              /\ [server EXCEPT !.valid = FALSE, !.stopping = TRUE] \in Server
              /\ [server EXCEPT !.valid = FALSE, !.stopping = TRUE].stopping
              /\ [server EXCEPT !.valid = FALSE, !.stopping = TRUE, !.active = a, !.told = t] \in Server
              /\ [server EXCEPT !.valid = FALSE, !.stopping = TRUE, !.active = a, !.told = t].stopping
         /\ [server EXCEPT !.active = TRUE] \in Server
         /\ [server EXCEPT !.active = TRUE].stopping = server.stopping
         /\ [server EXCEPT !.active = TRUE].valid = server.valid
<1> QED
  BY DEF ServerTypeOK, Server, ShutDown

\* The serving thread goes on to a step of its own.
LEMMA GoesTo ==
  ASSUME ServerTypeOK, NEW step \in ServeSteps, GoesOn(step)
  PROVE  serve' \in Serve /\ serve'.step = step
<1>1. serve.lease \in Connections \cup {"none"}
  BY DEF ServerTypeOK, Serve
<1> QED
  BY <1>1 DEF GoesOn, Serve

(* What one step of a thread must show: the types, and that a server that  *)
(* is halted winds down.                                                   *)
Keeps == ServerTypeOK' /\ HaltShape' /\ (Halted => Winds)

(* A step of the thread that serves, or of a client: only books and states *)
(* of its own, no connection enters while the server is halted, and whoever *)
(* says that serving is over has stopped it or is dead.                    *)
ServingTurn ==
  /\ Alive \/ Running # {}
  /\ UNCHANGED <<main, signalled, owned, entry, open>>
  /\ server' \in Server /\ serve' \in Serve /\ outcome' \in Outcome
  /\ socket' \in [Connections -> {"none", "pending", "accepted", "closed"}]
  /\ worker' \in [Connections -> {"none", "running", "ended"}]
  /\ serve'.step # serve.step => Alive /\ serve'.step # "unstarted"
  /\ server.stopping => server'.stopping
  /\ ~server'.valid => server'.stopping \/ ~server.valid
  /\ outcome'.done \/ outcome'.state = "failed" =>
       server'.stopping \/ serve'.step = "dead" \/ outcome.done \/ outcome.state = "failed"
  /\ Halted => Pending' \subseteq Pending /\ Accepted' \subseteq Accepted /\ Running' \subseteq Running

\* A turn of the serving side keeps what the cleanup relies on.
LEMMA ThreadKeeps ==
  ASSUME ServerIInv, ServingTurn
  PROVE  Keeps
<1> USE DEF ServerIInv, ServingTurn
<1>1. ServerTypeOK'
  BY DEF ServerTypeOK
<1>2. Halted => Halted'
  BY DEF Halted, Alive
<1>3. ~Alive => ~Alive'
  BY DEF Alive
<1>4. Ending' = Ending
  BY DEF Ending
<1>5. ~Alive' \/ server'.stopping => Halted'
  BY DEF Halted
<1>6. serve'.step = "dead" => ~Alive'
  BY DEF Alive
<1>7. HaltShape'
  BY <1>2, <1>4, <1>5, <1>6 DEF HaltShape, Alive
<1>8. Halted => Winds
  BY <1>3 DEF Winds
<1> QED
  BY <1>1, <1>7, <1>8 DEF Keeps

\* Losing the ownership stops the server and leaves what is done.
LEMMA Losing ==
  ASSUME ServerTypeOK, LoseOwnership
  PROVE  /\ server' \in Server /\ server'.stopping
         /\ outcome' \in Outcome /\ outcome'.done = outcome.done
         /\ outcome'.state = "failed" <=> outcome.state = "failed"
<1>1. outcome \in Outcome
  BY DEF ServerTypeOK
<1> QED
  BY <1>1, Outcomes, Servers DEF LoseOwnership

(* A connection that is closed is nobody's any more. *)
LEMMA Closing ==
  ASSUME ServerTypeOK, NEW c \in Connections \cup {"none"},
         socket' = [socket EXCEPT ![c] = "closed"]
  PROVE  /\ socket' \in [Connections -> {"none", "pending", "accepted", "closed"}]
         /\ Pending' \subseteq Pending /\ Accepted' \subseteq Accepted
<1> QED
  BY DEF ServerTypeOK, Pending, Accepted

\* A connection is admitted only by a server that serves.
LEMMA AdmitStep ==
  ASSUME ServerIInv, NEW c \in Connections, AdmitConnection(c)
  PROVE  ServingTurn
<1> USE DEF ServerIInv
<1>1. /\ server \in Server /\ serve \in Serve /\ outcome \in Outcome
      /\ socket \in [Connections -> {"none", "pending", "accepted", "closed"}]
      /\ worker \in [Connections -> {"none", "running", "ended"}]
      /\ ServerTypeOK
  BY DEF ServerTypeOK
<1>2. Alive
  BY DEF Alive, AdmitConnection
<1>3. Halted => ~AdmissionReady
  BY <1>2 DEF Halted, AdmissionReady
<1>4. CASE ~OwnershipHolds /\ LoseOwnership /\ GoesOn("service") /\ UNCHANGED socket
  BY <1>1, <1>2, <1>4, Losing, GoesTo DEF AdmitConnection, ServingTurn, ServeSteps, Pending, Accepted, Running
<1>5. CASE GoesOn("service") /\ UNCHANGED <<server, outcome, socket>>
  BY <1>1, <1>2, <1>5, GoesTo DEF AdmitConnection, ServingTurn, ServeSteps, Pending, Accepted, Running
<1>6. CASE /\ AdmissionReady /\ UNCHANGED <<server, outcome>>
           /\ socket' = [socket EXCEPT ![c] = "pending"]
           /\ serve' = [serve EXCEPT !.step = "accept", !.lease = c]
  <2>1. serve' \in Serve /\ serve'.step = "accept"
    BY <1>1, <1>6 DEF Serve, ServeSteps
  <2>2. socket' \in [Connections -> {"none", "pending", "accepted", "closed"}]
    BY <1>1, <1>6
  <2> QED
    BY <1>1, <1>2, <1>3, <1>6, <2>1, <2>2 DEF AdmitConnection, ServingTurn, Running
<1> QED
  BY <1>4, <1>5, <1>6 DEF AdmitConnection

\* A handshake is a turn of the serving side.
LEMMA HandshakeStep ==
  ASSUME ServerIInv, Handshake
  PROVE  ServingTurn
<1> USE DEF ServerIInv
<1>1. /\ server \in Server /\ serve \in Serve /\ outcome \in Outcome
      /\ socket \in [Connections -> {"none", "pending", "accepted", "closed"}]
      /\ worker \in [Connections -> {"none", "running", "ended"}]
      /\ ServerTypeOK
  BY DEF ServerTypeOK
<1>2. Alive
  BY DEF Alive, Handshake
<1>3. Halted => ~AdmissionReady
  BY <1>2 DEF Halted, AdmissionReady
<1>4. serve.lease \in Connections \cup {"none"}
  BY <1>1 DEF Serve
<1>5. CASE socket' = [socket EXCEPT ![serve.lease] = "closed"] /\ GoesOn("service")
  BY <1>1, <1>2, <1>4, <1>5, Closing, GoesTo DEF Handshake, ServingTurn, ServeSteps, Running
<1>6. CASE GoesOn("handshake") /\ UNCHANGED socket
  BY <1>1, <1>2, <1>6, GoesTo DEF Handshake, ServingTurn, ServeSteps, Pending, Accepted, Running
<1>7. CASE AdmissionReady /\ socket' = [socket EXCEPT ![serve.lease] = "accepted"] /\ GoesOn("process")
  <2>1. socket' \in [Connections -> {"none", "pending", "accepted", "closed"}]
    BY <1>1, <1>7
  <2> QED
    BY <1>1, <1>2, <1>3, <1>7, <2>1, GoesTo DEF Handshake, ServingTurn, ServeSteps, Running
<1> QED
  BY <1>5, <1>6, <1>7 DEF Handshake

\* A request handed to a thread is a turn of the serving side.
LEMMA ProcessStep ==
  ASSUME ServerIInv, ProcessRequest
  PROVE  ServingTurn
<1> USE DEF ServerIInv
<1>1. /\ server \in Server /\ serve \in Serve /\ outcome \in Outcome
      /\ socket \in [Connections -> {"none", "pending", "accepted", "closed"}]
      /\ worker \in [Connections -> {"none", "running", "ended"}]
      /\ ServerTypeOK
  BY DEF ServerTypeOK
<1>2. Alive
  BY DEF Alive, ProcessRequest
<1>3. Halted => ~AdmissionReady
  BY <1>2 DEF Halted, AdmissionReady
<1>4. serve.lease \in Connections \cup {"none"}
  BY <1>1 DEF Serve
<1>5. GoesOn("service") /\ UNCHANGED <<main, signalled, owned, entry, open>>
  BY DEF ProcessRequest
<1>6. CASE LoseOwnership /\ socket' = [socket EXCEPT ![serve.lease] = "closed"] /\ UNCHANGED worker
  BY <1>1, <1>2, <1>4, <1>5, <1>6, Losing, Closing, GoesTo DEF ServingTurn, ServeSteps, Running
<1>7. CASE /\ AdmissionReady /\ worker' = [worker EXCEPT ![serve.lease] = "running"]
           /\ UNCHANGED <<server, outcome, socket>>
  <2>1. worker' \in [Connections -> {"none", "running", "ended"}]
    BY <1>1, <1>7
  <2> QED
    BY <1>1, <1>2, <1>3, <1>5, <1>7, <2>1, GoesTo DEF ServingTurn, ServeSteps, Pending, Accepted
<1>8. CASE /\ socket' = [socket EXCEPT ![serve.lease] = "closed"]
           /\ UNCHANGED <<server, outcome, worker>>
  BY <1>1, <1>2, <1>4, <1>5, <1>8, Closing, GoesTo DEF ServingTurn, ServeSteps, Running
<1> QED
  BY <1>6, <1>7, <1>8 DEF ProcessRequest, MayStartThread

\* A request that ends is a turn of the serving side.
LEMMA RequestEndStep ==
  ASSUME ServerIInv, NEW c \in Connections, RequestEnds(c)
  PROVE  ServingTurn
<1> USE DEF ServerIInv
<1>1. /\ server \in Server /\ serve \in Serve /\ outcome \in Outcome
      /\ socket \in [Connections -> {"none", "pending", "accepted", "closed"}]
      /\ worker \in [Connections -> {"none", "running", "ended"}]
      /\ ServerTypeOK
  BY DEF ServerTypeOK
<1>2. /\ worker' \in [Connections -> {"none", "running", "ended"}]
      /\ Running' \subseteq Running
  BY <1>1 DEF RequestEnds, Running
<1>6. Running # {}
  BY DEF RequestEnds, Running
<1>3. /\ socket' \in [Connections -> {"none", "pending", "accepted", "closed"}]
      /\ Pending' \subseteq Pending /\ Accepted' \subseteq Accepted
  BY <1>1, Closing DEF RequestEnds
<1>4. CASE UNCHANGED <<server, outcome>>
  BY <1>1, <1>2, <1>3, <1>4, <1>6 DEF RequestEnds, ServingTurn
<1>5. CASE server' = ShutDown(server) /\ outcome' = Stopped(Failure(outcome))
  <2>1. Failure(outcome) \in Outcome
    BY <1>1, Outcomes
  <2>2. outcome' \in Outcome
    BY <1>1, <1>5, <2>1, Outcomes
  <2> QED
    BY <1>1, <1>2, <1>3, <1>5, <1>6, <2>2, Servers DEF RequestEnds, ServingTurn
<1> QED
  BY <1>4, <1>5 DEF RequestEnds

\* The death of the serving thread is its last turn.
LEMMA Dying ==
  ASSUME ServerIInv, Alive, NEW o \in Outcome, Dies(o),
         UNCHANGED <<main, signalled, owned, socket, worker, entry, open>>
  PROVE  ServingTurn
<1> USE DEF ServerIInv
<1>1. /\ server \in Server /\ serve \in Serve /\ outcome \in Outcome
      /\ socket \in [Connections -> {"none", "pending", "accepted", "closed"}]
      /\ worker \in [Connections -> {"none", "running", "ended"}]
      /\ ServerTypeOK
  BY DEF ServerTypeOK
<1>2. serve' \in Serve /\ serve'.step = "dead"
  BY <1>1, GoesTo DEF Dies, ServeSteps
<1>3. server' \in Server /\ server'.stopping = server.stopping /\ server'.valid = server.valid
  BY <1>1, Servers DEF Dies
<1> QED
  BY <1>1, <1>2, <1>3 DEF Dies, ServingTurn, Pending, Accepted, Running

\* The loop, its polls and its decisions are turns of the serving side.
LEMMA ServingStep ==
  ASSUME ServerIInv, ServeForever \/ Poll \/ ServiceActions \/ ReadinessDecision
  PROVE  ServingTurn
<1> USE DEF ServerIInv
<1>1. /\ server \in Server /\ serve \in Serve /\ outcome \in Outcome
      /\ socket \in [Connections -> {"none", "pending", "accepted", "closed"}]
      /\ worker \in [Connections -> {"none", "running", "ended"}]
      /\ ServerTypeOK
  BY DEF ServerTypeOK
<1>2. Alive
  BY DEF Alive, ServeForever, Poll, ServiceActions, ReadinessDecision
<1>3. Halted => ~AdmissionReady
  BY <1>2 DEF Halted, AdmissionReady
<1>4. UNCHANGED <<main, signalled, owned, socket, worker, entry, open>>
  BY DEF ServeForever, Poll, ServiceActions, ReadinessDecision
<1>5. Failure(outcome) \in Outcome /\ Success(outcome) \in Outcome /\ Stopped(outcome) \in Outcome
  BY <1>1, Outcomes
<1>6. ASSUME NEW o \in Outcome, Dies(o)
      PROVE  ServingTurn
  BY <1>2, <1>4, <1>6, Dying
<1>7. ASSUME NEW step \in {"poll", "decide"}, GoesOn(step), UNCHANGED server, outcome' \in Outcome,
             outcome'.done \/ outcome'.state = "failed" => outcome.done \/ outcome.state = "failed"
      PROVE  ServingTurn
  BY <1>1, <1>2, <1>4, <1>7, GoesTo DEF ServingTurn, ServeSteps, Pending, Accepted, Running
<1>8. CASE ServeForever
  <2>1. CASE server.stopping
    BY <1>5, <1>6, <1>8, <2>1 DEF ServeForever
  <2>2. CASE ~server.stopping
    BY <1>1, <1>2, <1>4, <1>8, <2>2, GoesTo, Servers
       DEF ServeForever, ServingTurn, ServeSteps, Pending, Accepted, Running
  <2> QED
    BY <2>1, <2>2
<1>9. CASE Poll
  <2>1. CASE server.told
    BY <1>5, <1>6, <1>9, <2>1 DEF Poll
  <2>2. CASE ~server.told
    BY <1>1, <1>2, <1>4, <1>9, <2>2, GoesTo
       DEF Poll, ServingTurn, ServeSteps, Pending, Accepted, Running
  <2> QED
    BY <2>1, <2>2
<1>10. CASE ServiceActions
  <2>1. CASE ~OwnershipHolds /\ GoesOn("dead") /\ outcome' = Failure(Stopped(outcome))
             /\ server' = [server EXCEPT !.valid = FALSE, !.stopping = TRUE,
                                         !.active = FALSE, !.told = FALSE]
    <3>1. outcome' \in Outcome
      BY <1>1, <1>5, <2>1, Outcomes
    <3>2. server' \in Server /\ server'.stopping
      BY <1>1, <2>1, Servers
    <3> QED
      BY <1>1, <1>2, <1>4, <2>1, <3>1, <3>2, GoesTo
         DEF ServingTurn, ServeSteps, Pending, Accepted, Running
  <2>2. CASE /\ outcome.state = "starting" /\ outcome' = [outcome EXCEPT !.state = "serving"]
             /\ GoesOn("decide") /\ UNCHANGED server
    <3>1. outcome' \in Outcome /\ outcome'.done = outcome.done /\ outcome'.state = "serving"
      BY <1>1, <2>2 DEF Outcome
    <3> QED
      BY <1>7, <2>2, <3>1
  <2>3. CASE GoesOn("poll") /\ UNCHANGED <<server, outcome>>
    BY <1>1, <1>7, <2>3
  <2> QED
    BY <1>10, <2>1, <2>2, <2>3 DEF ServiceActions
<1>11. CASE ReadinessDecision
  <2>1. CASE GoesOn("poll") /\ UNCHANGED <<server, outcome>>
    BY <1>1, <1>7, <2>1
  <2>2. CASE Dies(Failure(outcome))
    BY <1>5, <1>6, <2>2
  <2>3. CASE outcome' = Stopped(outcome) /\ GoesOn("poll") /\ UNCHANGED server
    BY <1>1, <1>5, <1>7, <2>3, Outcomes
  <2> QED
    BY <1>11, <2>1, <2>2, <2>3 DEF ReadinessDecision
<1> QED
  BY <1>8, <1>9, <1>10, <1>11

(* Before the cleanup nothing is closed; it begins at an entry that is     *)
(* owned.                                                                  *)
Begins ==
  /\ main'.step = "cleanup" /\ main'.pass = 1 /\ main'.acted = "no"
  /\ main'.at \in {1, 2} /\ entry'[CleanupOrder[main'.at]] # "unowned"

\* A step before the cleanup has nothing to keep closed.
LEMMA BeforeTheEnd ==
  ASSUME ServerIInv, ~Ending, open' = open, ServerTypeOK', HaltShape',
         entry' = entry \/ entry' = [entry EXCEPT !["serve_thread"] = "owned"],
         (main'.step \notin {"cleanup", "done"} /\ main'.acted = "no") \/ Begins
  PROVE  ServerIInv'
<1> USE DEF ServerIInv
<1>1. \A r \in Resources : entry'[r] = entry[r] \/ (r = "serve_thread" /\ entry'[r] = "owned")
  <2>1. entry \in [Resources -> {"unowned", "owned", "unresolved", "failed", "terminal"}]
    BY DEF ServerTypeOK
  <2>2. CASE entry' = entry
    BY <2>2
  <2>3. CASE entry' = [entry EXCEPT !["serve_thread"] = "owned"]
    BY <2>1, <2>3
  <2> QED
    BY <2>2, <2>3
<1>2. \A r \in Resources : entry'[r] # "terminal"
  BY <1>1 DEF EntryShape
<1>3. /\ "browser_integration" \in Resources /\ "request_threads" \in Resources
      /\ "serve_thread" \in Resources /\ "server_shutdown" \in Resources
  BY Order
<1>4. entry'["browser_integration"] \notin {"failed", "terminal"}
  BY <1>1, <1>2, <1>3 DEF EntryShape
<1>5. \A r \in Probed : entry'[r] # "failed"
  BY <1>1 DEF EntryShape, Probed
<1>6. \A r \in Resources : entry'[r] = "unowned" => r = "serve_thread"
  BY <1>1 DEF EntryShape
<1>7. {"browser_integration", "database_connections", "database_lifetime_ownership"} \subseteq open'
  BY DEF EntryShape
<1>8. EntryShape'
  BY <1>2, <1>4, <1>5, <1>6, <1>7 DEF EntryShape, Probed
<1>9. CASE Begins
  <2>1. main'.at \in 1..Len(CleanupOrder) /\ CleanupOrder[main'.at] \in Resources
    BY <1>9, Order DEF Begins
  <2> QED
    BY <1>2, <1>7, <1>8, <1>9, <2>1 DEF Begins, CleanupShape, Current, DatabaseOutlivesRequests
<1>10. CASE main'.step \notin {"cleanup", "done"} /\ main'.acted = "no"
  BY <1>7, <1>8, <1>10 DEF CleanupShape, DatabaseOutlivesRequests
<1> QED
  BY <1>9, <1>10

\* Cleanup begins at the thread or at the shutdown, whichever is owned.
LEMMA Beginning ==
  ASSUME NEW n \in {1, 2}, CleansFrom(n), n = 1 => entry'["serve_thread"] # "unowned",
         n = 2 => entry'["server_shutdown"] # "unowned"
  PROVE  main' \in Main /\ Begins
<1> QED
  BY Order DEF CleansFrom, Main, Begins

\* The main thread goes on before the cleanup.
LEMMA Steps ==
  ASSUME ServerTypeOK, NEW step \in {"starting", "deciding", "serving"}, MainTo(step),
         main.step \notin {"cleanup", "done"}, CleanupShape
  PROVE  main' \in Main /\ main'.step = step /\ main'.acted = "no"
<1> QED
  BY DEF ServerTypeOK, Main, MainTo, CleanupShape

\* Starting to serve keeps the invariant.
LEMMA StartStep ==
  ASSUME ServerIInv, StartServing
  PROVE  ServerIInv'
<1> USE DEF ServerIInv
<1>1. /\ server \in Server /\ serve \in Serve /\ outcome \in Outcome /\ ServerTypeOK
      /\ entry \in [Resources -> {"unowned", "owned", "unresolved", "failed", "terminal"}]
  BY DEF ServerTypeOK
<1>2. ~Ending /\ main.step = "prepared" /\ serve.step = "unstarted"
  BY DEF StartServing, Ending, HaltShape
<1>3. "serve_thread" \in Resources /\ "server_shutdown" \in Resources
  BY Order
<1>4. entry["server_shutdown"] # "unowned"
  BY <1>3 DEF EntryShape
<1>5. CASE CleansFrom(2) /\ UNCHANGED <<outcome, serve, entry>>
  <2>1. main' \in Main /\ Begins
    BY <1>4, <1>5, Beginning
  <2>2. ServerTypeOK'
    BY <1>5, <2>1 DEF StartServing, ServerTypeOK
  <2>3. Halted'
    BY <1>2, <1>5 DEF Halted, Alive
  <2>4. HaltShape'
    BY <1>2, <1>5, <2>1, <2>3 DEF HaltShape, StartServing, Begins
  <2> QED
    BY <1>2, <1>5, <2>1, <2>2, <2>4, BeforeTheEnd DEF StartServing
<1>6. CASE /\ entry' = [entry EXCEPT !["serve_thread"] = "owned"]
           /\ outcome' = [outcome EXCEPT !.state = "starting"]
           /\ \/ MainTo("starting") /\ GoesOn("started")
              \/ CleansFrom(1) /\ UNCHANGED serve
  <2>1. /\ outcome' \in Outcome /\ outcome'.done = outcome.done /\ outcome'.state = "starting"
        /\ entry' \in [Resources -> {"unowned", "owned", "unresolved", "failed", "terminal"}]
        /\ entry'["serve_thread"] = "owned"
    BY <1>1, <1>3, <1>6 DEF Outcome
  <2>2. CASE MainTo("starting") /\ GoesOn("started")
    <3>1. main' \in Main /\ main'.step = "starting" /\ main'.acted = "no"
      BY <1>1, <1>2, <2>2, Steps
    <3>2. serve' \in Serve /\ serve'.step = "started"
      BY <1>1, <2>2, GoesTo DEF ServeSteps
    <3>3. ServerTypeOK'
      BY <2>1, <3>1, <3>2 DEF StartServing, ServerTypeOK
    <3>4. HaltShape'
      BY <1>2, <2>1, <3>1, <3>2 DEF HaltShape, StartServing, Ending, Halted
    <3> QED
      BY <1>2, <1>6, <3>1, <3>3, <3>4, BeforeTheEnd DEF StartServing
  <2>3. CASE CleansFrom(1) /\ UNCHANGED serve
    <3>1. main' \in Main /\ Begins
      BY <2>1, <2>3, Beginning
    <3>2. ServerTypeOK'
      BY <2>1, <2>3, <3>1 DEF StartServing, ServerTypeOK
    <3>3. Halted'
      BY <1>2, <2>3 DEF Halted, Alive
    <3>4. HaltShape'
      BY <1>2, <2>1, <2>3, <3>1, <3>3 DEF HaltShape, StartServing, Begins
    <3> QED
      BY <1>2, <1>6, <3>1, <3>2, <3>4, BeforeTheEnd DEF StartServing
  <2> QED
    BY <2>2, <2>3, <1>6
<1> QED
  BY <1>5, <1>6 DEF StartServing

\* Waiting and claiming readiness keep the invariant.
LEMMA WaitingStep ==
  ASSUME ServerIInv, WaitForStartup \/ ClaimReadiness \/ WaitForEnd
  PROVE  ServerIInv'
<1> USE DEF ServerIInv
<1>1. /\ server \in Server /\ serve \in Serve /\ outcome \in Outcome /\ ServerTypeOK
      /\ entry["serve_thread"] # "unowned"
      /\ main.step \notin {"prepared", "cleanup", "done"} /\ ~Ending
      /\ UNCHANGED <<signalled, owned, serve, socket, worker, entry, open>>
  BY DEF ServerTypeOK, HaltShape, WaitForStartup, ClaimReadiness, WaitForEnd, Ending
<1>2. ASSUME CleansFrom(1), server' \in Server, outcome' \in Outcome, Halted',
             ~server'.valid => server'.stopping
      PROVE  ServerIInv'
  <2>1. main' \in Main /\ Begins
    BY <1>1, <1>2, Beginning
  <2>2. ServerTypeOK'
    BY <1>1, <1>2, <2>1 DEF ServerTypeOK
  <2>3. HaltShape'
    BY <1>1, <1>2, <2>1 DEF HaltShape, Begins
  <2> QED
    BY <1>1, <2>1, <2>2, <2>3, BeforeTheEnd
<1>3. ASSUME NEW step \in {"deciding", "serving"}, MainTo(step), UNCHANGED server, outcome' \in Outcome,
             outcome'.done = outcome.done, outcome'.state = outcome.state
      PROVE  ServerIInv'
  <2>1. main' \in Main /\ main'.step = step /\ main'.acted = "no"
    BY <1>1, <1>3, Steps
  <2>2. ServerTypeOK'
    BY <1>1, <1>3, <2>1 DEF ServerTypeOK
  <2>3. HaltShape'
    BY <1>1, <1>3, <2>1 DEF HaltShape, Ending, Halted, Alive
  <2> QED
    BY <1>1, <2>1, <2>2, <2>3, BeforeTheEnd
<1>4. ASSUME CleansFrom(1), server' = ShutDown(server), outcome' \in Outcome
      PROVE  ServerIInv'
  <2>1. server' \in Server /\ server'.stopping
    BY <1>1, <1>4, Servers
  <2>2. Halted'
    BY <2>1 DEF Halted
  <2> QED
    BY <1>2, <1>4, <2>1, <2>2
<1>5. Stopped(outcome) \in Outcome
  BY <1>1, Outcomes
<1>6. CASE WaitForStartup
  <2>1. CASE outcome.state = "serving" /\ MainTo("deciding") /\ UNCHANGED <<server, outcome>>
    BY <1>1, <1>3, <2>1
  <2>2. CASE /\ server' = ShutDown(server) /\ CleansFrom(1)
             /\ outcome' = IF outcome.state # "starting" THEN outcome
                           ELSE IF signalled THEN Stopped(outcome)
                           ELSE [outcome EXCEPT !.state = "failed"]
    <3>1. [outcome EXCEPT !.state = "failed"] \in Outcome
      BY <1>1 DEF Outcome
    <3>2. outcome' \in Outcome
      BY <1>1, <1>5, <2>2, <3>1
    <3> QED
      BY <1>4, <2>2, <3>2
  <2> QED
    BY <1>6, <2>1, <2>2 DEF WaitForStartup
<1>7. CASE ClaimReadiness
  <2>1. CASE /\ outcome' = Stopped(outcome) /\ CleansFrom(1)
             /\ server' = IF server.valid THEN [server EXCEPT !.valid = FALSE, !.stopping = TRUE]
                          ELSE server
    <3>1. server' \in Server /\ server'.stopping
      BY <1>1, <2>1, Servers DEF HaltShape
    <3>2. Halted'
      BY <3>1 DEF Halted
    <3> QED
      BY <1>2, <1>5, <2>1, <3>1, <3>2
  <2>2. CASE outcome' = [outcome EXCEPT !.ready = TRUE] /\ MainTo("serving") /\ UNCHANGED server
    <3>1. outcome' \in Outcome /\ outcome'.done = outcome.done /\ outcome'.state = outcome.state
      BY <1>1, <2>2 DEF Outcome
    <3> QED
      BY <1>3, <2>2, <3>1
  <2>3. CASE outcome.state = "failed" /\ CleansFrom(1) /\ UNCHANGED <<server, outcome>>
    <3>1. Halted
      BY <2>3 DEF HaltShape
    <3>2. Halted' /\ (~server'.valid => server'.stopping)
      BY <1>1, <2>3, <3>1 DEF Halted, Alive, HaltShape
    <3> QED
      BY <1>1, <1>2, <2>3, <3>2
  <2>4. CASE BeginShutdown /\ CleansFrom(1)
    BY <1>4, <1>5, <2>4 DEF BeginShutdown
  <2> QED
    BY <1>7, <2>1, <2>2, <2>3, <2>4 DEF ClaimReadiness
<1>8. CASE WaitForEnd
  <2>1. CASE BeginShutdown
    BY <1>4, <1>5, <1>8, <2>1 DEF BeginShutdown, WaitForEnd
  <2>2. CASE outcome.done /\ UNCHANGED <<server, outcome>>
    <3>1. Halted
      BY <2>2 DEF HaltShape
    <3>2. Halted' /\ (~server'.valid => server'.stopping)
      BY <1>1, <2>2, <3>1 DEF Halted, Alive, HaltShape
    <3> QED
      BY <1>1, <1>2, <1>8, <2>2, <3>2 DEF WaitForEnd
  <2> QED
    BY <1>8, <2>1, <2>2 DEF WaitForEnd
<1> QED
  BY <1>6, <1>7, <1>8

----------------------------------------------------------------------------
(* The cleanup *)

EntryStates == {"unowned", "owned", "unresolved", "failed", "terminal"}

(* An entry that is concluded, and where the coordinator goes on. *)
LEMMA Concludes ==
  ASSUME ServerIInv, main.step = "cleanup", NEW state \in {"unresolved", "failed", "terminal"},
         MovesOn([entry EXCEPT ![Current] = state]),
         UNCHANGED <<signalled, owned, outcome, server, serve, socket, worker, open>>,
         state = "terminal" => Finished(Current),
         state = "failed" => Current \notin Probed,
         Current = "browser_integration" /\ state \in {"failed", "terminal"}
           => entry["request_threads"] = "terminal"
  PROVE  ServerIInv'
<1> USE DEF ServerIInv
<1>1. /\ main \in Main /\ main.at \in 1..Len(CleanupOrder)
      /\ entry \in [Resources -> EntryStates] /\ Current \in Resources
      /\ entry[Current] \notin {"unowned", "terminal"}
  BY Order DEF ServerTypeOK, CleanupShape, Current, EntryStates
<1> DEFINE e == [entry EXCEPT ![Current] = state]
<1>2. /\ e \in [Resources -> EntryStates] /\ e[Current] = state
      /\ \A r \in Resources : r # Current => e[r] = entry[r]
  BY <1>1 DEF EntryStates
<1>3. entry' = e
  BY DEF MovesOn
<1> HIDE DEF e
<1>4. main' = AtRest("done") \/ main' \in Places(e)
  BY <1>1, FollowingPlaces DEF MovesOn, e
<1>5. main' \in Main /\ (main'.step = "cleanup" \/ main'.step = "done") /\ main'.acted = "no"
  BY <1>4 DEF AtRest, Places, Main
<1>6. ServerTypeOK'
  BY <1>2, <1>3, <1>5 DEF ServerTypeOK, EntryStates
<1>7. Ending /\ Ending' /\ Halted /\ Halted'
  BY <1>5 DEF Ending, HaltShape, Halted, Alive
<1>8. "serve_thread" \in Resources /\ "browser_integration" \in Resources /\ "request_threads" \in Resources
  BY Order
<1>9. HaltShape'
  BY <1>1, <1>2, <1>3, <1>5, <1>7, <1>8 DEF HaltShape
<1>10. \A r \in Resources : Finished(r)' <=> Finished(r)
  BY DEF Finished, Alive, Pending, Accepted, Running
<1>11. \A r \in Resources : entry'[r] = "unowned" => r = "serve_thread"
  BY <1>1, <1>2, <1>3 DEF EntryShape
<1>12. \A r \in Resources : entry'[r] = "terminal" => Finished(r)'
  BY <1>1, <1>2, <1>3, <1>10 DEF EntryShape
<1>13. \A r \in Probed : entry'[r] # "failed"
  BY <1>1, <1>2, <1>3 DEF EntryShape, Probed
<1>14. entry'["browser_integration"] \in {"failed", "terminal"} => entry'["request_threads"] = "terminal"
  <2>1. entry'["browser_integration"] \in {"failed", "terminal"} => entry["request_threads"] = "terminal"
    BY <1>1, <1>2, <1>3, <1>8 DEF EntryShape
  <2>2. entry["request_threads"] = "terminal" => entry'["request_threads"] = "terminal"
    BY <1>1, <1>2, <1>3, <1>8
  <2> QED
    BY <2>1, <2>2
<1>15. EntryShape'
  BY <1>7, <1>11, <1>12, <1>13, <1>14 DEF EntryShape
<1>16. CleanupShape'
  <2>1. CASE main' = AtRest("done")
    BY <2>1 DEF CleanupShape, AtRest
  <2>2. CASE main' \in Places(e)
    BY <1>3, <2>2 DEF CleanupShape, Places, Skipped, Current
  <2> QED
    BY <1>4, <2>1, <2>2
<1>17. DatabaseOutlivesRequests'
  BY DEF DatabaseOutlivesRequests, Alive, Pending, Accepted, Running
<1> QED
  BY <1>6, <1>9, <1>15, <1>16, <1>17

\* An entry held back for one it depends on keeps the invariant.
LEMMA HeldBack ==
  ASSUME ServerIInv, HoldBack
  PROVE  ServerIInv'
<1>1. /\ main.step = "cleanup" /\ MovesOn([entry EXCEPT ![Current] = "unresolved"])
      /\ UNCHANGED <<signalled, owned, outcome, server, serve, socket, worker, open>>
  BY DEF HoldBack
<1> QED
  BY <1>1, Concludes

(* Whatever was not held back waited for what it depends on. *)
LEMMA NothingLive ==
  ASSUME ServerIInv, NEW r \in Resources, ~DependenciesLive(entry, r)
  PROVE  /\ r \in {"browser_integration", "database_connections"} => entry["request_threads"] = "terminal"
         /\ r = "database_lifetime_ownership" =>
              \A d \in Resources \ {"server_shutdown", "inactive_server", "database_lifetime_ownership"} :
                entry[d] = "terminal" \/ (d = "serve_thread" /\ ~Alive)
<1> USE DEF ServerIInv
<1>1. \A d \in Resources : entry[d] \in EntryStates
  BY DEF ServerTypeOK, EntryStates
<1>2. /\ "request_threads" \in Resources /\ "browser_integration" \in Resources
      /\ "request_threads" \in Probed
  BY Order DEF Probed
<1>3. \A d \in Dependencies(r) :
        /\ entry[d] \notin {"owned", "unresolved"}
        /\ r = "database_lifetime_ownership" => entry[d] # "failed"
  BY DEF DependenciesLive
<1>4. entry["request_threads"] \notin {"failed", "unowned"}
  BY <1>2 DEF EntryShape
<1>5. CASE r = "browser_integration"
  <2>1. "request_threads" \in Dependencies(r)
    BY <1>5 DEF Dependencies
  <2> QED
    BY <1>1, <1>2, <1>3, <1>4, <1>5, <2>1 DEF EntryStates
<1>6. CASE r = "database_connections"
  <2>1. "browser_integration" \in Dependencies(r)
    BY <1>6 DEF Dependencies
  <2>2. entry["browser_integration"] \in {"failed", "terminal"}
    BY <1>1, <1>2, <1>3, <2>1 DEF EntryStates, EntryShape
  <2> QED
    BY <1>6, <2>2 DEF EntryShape
<1>7. CASE r = "database_lifetime_ownership"
  <2>1. Dependencies(r) = Resources \ {"server_shutdown", "inactive_server", "database_lifetime_ownership"}
    BY <1>7 DEF Dependencies
  <2>2. \A d \in Dependencies(r) : entry[d] = "terminal" \/ entry[d] = "unowned"
    BY <1>1, <1>3, <1>7, <2>1 DEF EntryStates
  <2>3. \A d \in Dependencies(r) : entry[d] = "unowned" => d = "serve_thread" /\ ~Alive
    BY <2>1 DEF EntryShape, HaltShape, Alive
  <2> QED
    BY <1>7, <2>1, <2>2, <2>3
<1> QED
  BY <1>5, <1>6, <1>7

\* An entry is concluded only when what it stands for is gone.
LEMMA ConcludeStep ==
  ASSUME ServerIInv, Conclude
  PROVE  ServerIInv'
<1> USE DEF ServerIInv
<1> DEFINE closed == Gone(Current) /\ (Current \in Probed \/ main.acted = "returned")
           state == IF closed THEN "terminal"
                    ELSE IF main.acted = "raised" /\ Current \notin Probed THEN "failed"
                    ELSE "unresolved"
<1>1. /\ main.step = "cleanup" /\ MovesOn([entry EXCEPT ![Current] = state])
      /\ UNCHANGED <<signalled, owned, outcome, server, serve, socket, worker, open>>
  BY DEF Conclude
<1>2. state \in {"unresolved", "failed", "terminal"}
  OBVIOUS
<1>3. state = "terminal" => Finished(Current)
  BY DEF Gone, Finished
<1>4. state = "failed" => Current \notin Probed
  OBVIOUS
<1>5. Current \in Resources
  BY <1>1, Order DEF CleanupShape, Current
<1>6. Current = "browser_integration" /\ state \in {"failed", "terminal"}
        => entry["request_threads"] = "terminal"
  <2> SUFFICES ASSUME Current = "browser_integration", state \in {"failed", "terminal"}
               PROVE  entry["request_threads"] = "terminal"
    OBVIOUS
  <2>1. Current \notin Probed
    BY DEF Probed
  <2>2. main.acted # "no"
    BY <2>1
  <2>3. ~DependenciesLive(entry, Current)
    BY <2>2 DEF CleanupShape
  <2> QED
    BY <1>5, <2>3, NothingLive
<1> HIDE DEF state
<1> QED
  BY <1>1, <1>2, <1>3, <1>4, <1>6, Concludes

(* What an action of the coordinator may do. *)
Closes(r) ==
  /\ server' \in Server /\ outcome' \in Outcome
  /\ server.stopping => server'.stopping
  /\ server'.valid = server.valid
  /\ socket' \in [Connections -> {"none", "pending", "accepted", "closed"}]
  /\ Pending' \subseteq Pending /\ Accepted' \subseteq Accepted
  /\ open' \subseteq open /\ open \ open' \subseteq {r, "listener_socket"}

\* Closing sockets opens none.
LEMMA SocketsClose ==
  ASSUME ServerTypeOK, NEW places, CloseSockets(places)
  PROVE  /\ socket' \in [Connections -> {"none", "pending", "accepted", "closed"}]
         /\ Pending' \subseteq Pending /\ Accepted' \subseteq Accepted
<1>1. \A c \in Connections : socket'[c] = "closed" \/ socket'[c] = socket[c]
  BY DEF CloseSockets
<1>2. socket' \in [Connections -> {"none", "pending", "accepted", "closed"}]
  BY DEF CloseSockets, ServerTypeOK
<1> QED
  BY <1>1, <1>2 DEF Pending, Accepted

\* What an action does closes what its entry stands for.
LEMMA EffectCloses ==
  ASSUME ServerIInv, NEW r \in Resources, Effect(r)
  PROVE  Closes(r)
<1> USE DEF ServerIInv
<1>1. /\ server \in Server /\ outcome \in Outcome /\ ServerTypeOK
      /\ socket \in [Connections -> {"none", "pending", "accepted", "closed"}]
  BY DEF ServerTypeOK
<1>2. Stopped(outcome) \in Outcome
  BY <1>1, Outcomes
<1>3. Unstarted(Stopped(outcome)) \in Outcome
  BY <1>1, <1>2, Outcomes
<1>4. ShutDown(server) \in Server /\ ShutDown(server).stopping /\ ShutDown(server).valid = server.valid
  BY <1>1, Servers
<1>5. CASE r = "serve_thread"
  <2>1. CASE Alive
    <3>1. server' = ShutDown(server) /\ outcome' = Stopped(outcome) /\ CloseSockets({"pending"})
          /\ open' = open
      BY <1>5, <2>1 DEF Effect
    <3> QED
      BY <1>1, <1>2, <1>4, <3>1, SocketsClose DEF Closes
  <2>2. CASE ~Alive
    <3>1. /\ outcome' = IF outcome.done THEN outcome ELSE Unstarted(Stopped(outcome))
          /\ UNCHANGED <<server, socket, open>>
      BY <1>5, <2>2 DEF Effect
    <3> QED
      BY <1>1, <1>3, <3>1 DEF Closes, Pending, Accepted
  <2> QED
    BY <2>1, <2>2
<1>6. CASE r = "server_shutdown"
  <2>1. BeginShutdown /\ UNCHANGED <<socket, open>>
    BY <1>6 DEF Effect
  <2> QED
    BY <1>1, <1>2, <1>4, <2>1 DEF Closes, BeginShutdown, Pending, Accepted
<1>7. CASE r = "accepted_sockets"
  <2>1. CloseSockets({"pending", "accepted"}) /\ UNCHANGED <<server, outcome, open>>
    BY <1>7 DEF Effect
  <2> QED
    BY <1>1, <2>1, SocketsClose DEF Closes
<1>8. CASE r = "request_threads"
  <2>1. UNCHANGED <<server, outcome, socket, open>>
    BY <1>8 DEF Effect
  <2> QED
    BY <1>1, <2>1 DEF Closes, Pending, Accepted
<1>9. CASE r \notin {"serve_thread", "server_shutdown", "accepted_sockets", "request_threads"}
  <2>1. open' \subseteq open /\ open \ open' \subseteq {r, "listener_socket"}
        /\ UNCHANGED <<server, outcome, socket>>
    BY <1>9 DEF Effect
  <2> QED
    BY <1>1, <2>1 DEF Closes, Pending, Accepted
<1> QED
  BY <1>5, <1>6, <1>7, <1>8, <1>9

\* An action of the cleanup keeps the invariant.
LEMMA ActStep ==
  ASSUME ServerIInv, Act
  PROVE  ServerIInv'
<1> USE DEF ServerIInv
<1>1. /\ main \in Main /\ main.step = "cleanup" /\ main.pass = 1 /\ main.at \in 1..Len(CleanupOrder)
      /\ Current \in Resources /\ ~DependenciesLive(entry, Current)
      /\ UNCHANGED <<signalled, owned, serve, worker, entry>>
  BY Order DEF Act, ServerTypeOK, CleanupShape, Current
<1>2. Effect(Current) \/ UNCHANGED <<server, outcome, socket, open>>
  BY DEF Act
<1>3. Closes(Current)
  <2>1. CASE Effect(Current)
    BY <1>1, <2>1, EffectCloses
  <2>2. CASE UNCHANGED <<server, outcome, socket, open>>
    BY <2>2 DEF Closes, ServerTypeOK, Pending, Accepted
  <2> QED
    BY <1>2, <2>1, <2>2
<1>4. \E how \in {"returned", "raised"} :
        main' = [main EXCEPT !.acted = how] \/ main' = [main EXCEPT !.acted = how, !.faults = @ + 1]
  BY DEF Act
<1>5. /\ main' \in Main /\ main'.step = "cleanup" /\ main'.pass = 1 /\ main'.at = main.at
      /\ main'.acted # "no"
  <2>1. PICK how \in {"returned", "raised"} :
          main' = [main EXCEPT !.acted = how] \/ main' = [main EXCEPT !.acted = how, !.faults = @ + 1]
    BY <1>4
  <2> DEFINE m == [main EXCEPT !.acted = how]
  <2>2. m \in Main /\ m.step = "cleanup" /\ m.pass = 1 /\ m.at = main.at /\ m.acted = how
        /\ m.faults = main.faults
    BY <1>1 DEF Main
  <2>3. main' = m \/ main' = [m EXCEPT !.faults = main.faults + 1]
    BY <1>1, <2>1 DEF Main
  <2> HIDE DEF m
  <2> QED
    BY <2>2, <2>3 DEF Main
<1>6. ServerTypeOK'
  BY <1>1, <1>3, <1>5 DEF ServerTypeOK, Closes
<1>7. Ending /\ Ending' /\ Halted /\ Halted' /\ (~Alive' <=> ~Alive)
  BY <1>1, <1>3, <1>5 DEF Ending, HaltShape, Halted, Alive, Closes
<1>8. HaltShape'
  BY <1>1, <1>3, <1>5, <1>7 DEF HaltShape, Closes
<1>9. Running' = Running
  BY <1>1 DEF Running
<1>10. \A r \in Resources : Finished(r) => Finished(r)'
  BY <1>3, <1>7, <1>9 DEF Finished, Closes
<1>11. EntryShape'
  BY <1>1, <1>7, <1>10 DEF EntryShape
<1>12. Current' = Current
  BY <1>5 DEF Current
<1>13. CleanupShape'
  BY <1>1, <1>5, <1>12 DEF CleanupShape, DependenciesLive
<1>14. entry["request_threads"] = "terminal" => Running = {}
  <2>1. "request_threads" \in Resources
    BY Order
  <2> QED
    BY <2>1 DEF EntryShape, Finished
<1>15. {"browser_integration", "database_connections"} \ open' # {} => Running' = {}
  <2>1. CASE {"browser_integration", "database_connections"} \ open # {}
    BY <1>9, <2>1 DEF DatabaseOutlivesRequests
  <2>2. CASE Current \in {"browser_integration", "database_connections"}
    BY <1>1, <1>9, <1>14, <2>2, NothingLive
  <2> QED
    BY <1>3, <2>1, <2>2 DEF Closes
<1>16. ASSUME "database_lifetime_ownership" \notin open'
       PROVE  /\ Running' = {} /\ ~Alive' /\ Pending' \cup Accepted' = {}
              /\ {"listener_socket", "route_integration", "database_connections"} \cap open' = {}
  <2>1. CASE "database_lifetime_ownership" \notin open
    BY <1>3, <1>7, <1>9, <2>1 DEF DatabaseOutlivesRequests, Closes
  <2>2. CASE Current = "database_lifetime_ownership"
    <3>1. \A d \in Resources \ {"server_shutdown", "inactive_server", "database_lifetime_ownership"} :
            entry[d] = "terminal" \/ (d = "serve_thread" /\ ~Alive)
      BY <1>1, <2>2, NothingLive
    <3>2. {"serve_thread", "accepted_sockets", "request_threads", "listener_socket",
           "route_integration", "database_connections"}
            \subseteq Resources \ {"server_shutdown", "inactive_server", "database_lifetime_ownership"}
      BY Order
    <3>3. \A d \in {"accepted_sockets", "request_threads", "listener_socket",
                    "route_integration", "database_connections"} : Finished(d)
      BY <3>1, <3>2 DEF EntryShape
    <3>4. ~Alive
      BY <3>1, <3>2 DEF EntryShape, Finished
    <3>5. Running = {} /\ Pending \cup Accepted = {}
          /\ {"listener_socket", "route_integration", "database_connections"} \cap open = {}
      BY <3>3 DEF Finished
    <3> QED
      BY <1>3, <1>7, <1>9, <3>4, <3>5 DEF Closes
  <2> QED
    BY <1>3, <1>16, <2>1, <2>2 DEF Closes
<1>17. DatabaseOutlivesRequests'
  BY <1>15, <1>16 DEF DatabaseOutlivesRequests
<1> QED
  BY <1>6, <1>8, <1>11, <1>13, <1>17

----------------------------------------------------------------------------
\* The first state of the server.
LEMMA InitServerIInv == InitServer => ServerIInv
<1> SUFFICES ASSUME InitServer
             PROVE  ServerIInv
  OBVIOUS
<1>1. main \in Main /\ main.step = "prepared" /\ main.acted = "no"
  BY DEF InitServer, AtRest, Main
<1>2. /\ entry \in [Resources -> EntryStates] /\ Running = {}
      /\ \A r \in Resources : entry[r] = IF r = "serve_thread" THEN "unowned" ELSE "owned"
  BY DEF InitServer, EntryStates, Running
<1>3. ServerTypeOK
  BY <1>1, <1>2 DEF InitServer, ServerTypeOK, Outcome, Server, Serve, ServeSteps, EntryStates
<1>4. HaltShape
  BY <1>1, <1>2 DEF InitServer, HaltShape, Ending
<1>5. {"browser_integration", "database_connections", "database_lifetime_ownership"} \subseteq open
  BY Order DEF InitServer
<1>6. EntryShape
  BY <1>2, <1>5, Order DEF EntryShape, Probed
<1>7. CleanupShape
  BY <1>1 DEF CleanupShape
<1>8. DatabaseOutlivesRequests
  BY <1>5 DEF DatabaseOutlivesRequests
<1> QED
  BY <1>3, <1>4, <1>6, <1>7, <1>8 DEF ServerIInv

\* Every step keeps the invariant of the server's end.
LEMMA ServerStep == ServerIInv /\ [NextServer]_serverVars => ServerIInv'
<1> SUFFICES ASSUME ServerIInv, [NextServer]_serverVars
             PROVE  ServerIInv'
  OBVIOUS
<1>1. ASSUME Keeps, UNCHANGED <<main, entry, open>>
      PROVE  ServerIInv'
  BY <1>1, BooksStay DEF Keeps, ServerIInv
<1>2. ASSUME ServingTurn
      PROVE  ServerIInv'
  BY <1>1, <1>2, ThreadKeeps DEF ServingTurn
<1>3. CASE ServeStep
  BY <1>2, <1>3, ServingStep, HandshakeStep, ProcessStep DEF ServeStep
<1>4. ASSUME NEW c \in Connections, AdmitConnection(c) \/ RequestEnds(c)
      PROVE  ServerIInv'
  BY <1>2, <1>4, AdmitStep, RequestEndStep
<1>5. CASE MainStep
  BY <1>5, StartStep, WaitingStep, HeldBack, ActStep, ConcludeStep DEF MainStep
<1>6. CASE Signal \/ OwnershipLost \/ UNCHANGED serverVars
  <2>1. UNCHANGED <<main, outcome, server, serve, socket, worker, entry, open>>
        /\ signalled' \in BOOLEAN /\ owned' \in BOOLEAN
    BY <1>6 DEF Signal, OwnershipLost, serverVars, ServerIInv, ServerTypeOK
  <2>2. ServerTypeOK'
    BY <2>1 DEF ServerIInv, ServerTypeOK
  <2>3. HaltShape'
    BY <2>1 DEF ServerIInv, HaltShape, Halted, Ending, Alive, Running
  <2>4. Winds
    BY <2>1 DEF Winds, Alive, Pending, Accepted, Running
  <2> QED
    BY <1>1, <2>1, <2>2, <2>3, <2>4 DEF Keeps
<1> QED
  BY <1>3, <1>4, <1>5, <1>6 DEF NextServer

(* Whatever a signal, a lost ownership, a timeout or a cleanup action that *)
(* raised interrupted, the main thread ends what it owns in order.         *)
THEOREM ServerInvariant == SpecServer => []ServerIInv
<1> QED
  BY InitServerIInv, ServerStep, PTL DEF SpecServer

(* The database outlives every request and connection, and a process that  *)
(* exits with a clean status left nothing behind (main and                 *)
(* _DATABASE_LIFETIME_TERMINAL_DEPENDENCIES of durable_google_login_app).  *)
THEOREM OrderedEndTheorem == SpecServer => []OrderedEnd
<1>1. ServerIInv => OrderedEnd
  <2> SUFFICES ASSUME ServerIInv, main.step = "done",
                      \A r \in Resources : entry[r] \in {"unowned", "terminal"}
               PROVE  ~Alive /\ Running = {} /\ Pending \cup Accepted = {} /\ open = {}
    BY DEF ServerIInv, OrderedEnd, HonestExit
  <2> USE DEF ServerIInv
  <2>1. \A r \in Resources \ {"serve_thread"} : Finished(r)
    BY DEF EntryShape
  <2>2. ~Alive
    <3>1. entry["serve_thread"] \in {"unowned", "terminal"}
      BY Order
    <3> QED
      BY <3>1, Order DEF EntryShape, HaltShape, Finished, Alive
  <2>3. Running = {} /\ Pending \cup Accepted = {}
    <3>1. {"accepted_sockets", "request_threads"} \subseteq Resources
      BY Order
    <3> QED
      BY <2>1, <3>1 DEF Finished
  <2>4. \A r \in open : FALSE
    BY <2>1 DEF ServerTypeOK, Finished
  <2> QED
    BY <2>2, <2>3, <2>4
<1> QED
  BY <1>1, ServerInvariant, PTL
============================================================================
