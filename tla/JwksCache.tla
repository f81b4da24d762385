----------------------------- MODULE JwksCache -----------------------------
(***************************************************************************)
(* The provider's signing keys as the callback threads share them: one     *)
(* fetch at a time, whose result every thread that waits on the condition  *)
(* variable takes, a forced refresh for a token signed with a key the      *)
(* cache does not know, and a gateway that may be closed under all of      *)
(* them.  A thread verifies one token.                                     *)
(***************************************************************************)
EXTENDS Naturals, Sequences, FiniteSets

CONSTANTS MaxThreads,     \* callback threads, in the order they start
          MaxMonotonic,   \* bound on the monotonic clock
          MaxKeys,        \* bound on the provider's key rotations
          KeysTtl,        \* what the provider's answer allows
          RefreshSeconds  \* jwks_unknown_kid_refresh_seconds

ASSUME JwksAssumption ==
  /\ {MaxThreads, MaxMonotonic, MaxKeys, RefreshSeconds} \subseteq Nat /\ KeysTtl \in Nat \ {0}

VARIABLES monotonic, published,  \* the clock; the provider's current key set
          cache,                 \* _GoogleOidcJwksCache
          flights,               \* every _JwksRefreshFlight so far
          thread                 \* the callback threads

jwksVars == <<monotonic, published, cache, flights, thread>>

Threads == 1..MaxThreads
NoKeys == 0
NeverForced == MaxMonotonic + 1
EmptyCache == [keys |-> NoKeys, expires |-> 0, generation |-> 0, forced |-> NeverForced,
               flight |-> 0, closed |-> FALSE]
NewThread == [step |-> "idle", call |-> "get", kid |-> 0, keys |-> NoKeys, used |-> 0,
              flight |-> 0, answer |-> "none"]

Goes(t, record) == thread' = [thread EXCEPT ![t] = record]
Answers(t, why) ==
  Goes(t, [NewThread EXCEPT !.step = "done", !.answer = why])
Snapshot == cache.keys # NoKeys /\ monotonic < cache.expires
Takes(t, keys, generation) ==
  [thread[t] EXCEPT !.step = "decode", !.keys = keys, !.used = generation, !.flight = 0]

\* A published set holds the current key and the one before it.
Knows(keys, kid) == keys # NoKeys /\ kid \in {keys - 1, keys}

\* notify_all: the threads that wait are runnable again.
Notified(threads) ==
  [t \in Threads |-> IF threads[t].step = "waiting"
                     THEN [threads[t] EXCEPT !.step = "woken"] ELSE threads[t]]

StartFlight(t, emptied) ==
  /\ flights' = Append(flights, [done |-> FALSE, succeeded |-> FALSE])
  /\ cache' = [emptied EXCEPT !.flight = Len(flights) + 1]
  /\ Goes(t, [thread[t] EXCEPT !.step = "fetching", !.flight = Len(flights) + 1])

ClearExpired == [cache EXCEPT !.keys = NoKeys, !.expires = 0]

Arrives(t) ==
  /\ thread[t].step = "idle" /\ \A u \in 1..(t - 1) : thread[u].step # "idle"
  /\ Goes(t, [NewThread EXCEPT !.step = "call", !.kid = published])
  /\ UNCHANGED <<monotonic, published, cache, flights>>

Get(t) ==
  /\ thread[t].step = "call" /\ thread[t].call = "get"
  /\ \/ cache.closed /\ Answers(t, "unavailable") /\ UNCHANGED <<cache, flights>>
     \/ /\ ~cache.closed /\ Snapshot
        /\ Goes(t, Takes(t, cache.keys, cache.generation)) /\ UNCHANGED <<cache, flights>>
     \/ ~cache.closed /\ ~Snapshot /\ cache.flight = 0 /\ StartFlight(t, ClearExpired)
     \/ /\ ~cache.closed /\ ~Snapshot /\ cache.flight # 0
        /\ cache' = ClearExpired
        /\ Goes(t, [thread[t] EXCEPT !.step = "waiting", !.flight = cache.flight])
        /\ UNCHANGED flights
  /\ UNCHANGED <<monotonic, published>>

RateLimited ==
  cache.forced # NeverForced /\ monotonic < cache.forced + RefreshSeconds

\* Mutant: a valid snapshot is refreshed beside the flight that is on its way.
RecoverBeside(t) == Snapshot /\ ~RateLimited

\* Whether the caller refreshes: an invalid snapshot, or a forced refresh in turn.
MayRefresh(t) == cache.flight = 0 /\ (Snapshot => ~RateLimited)

RecoverUnknownKid(t) ==
  /\ thread[t].step = "call" /\ thread[t].call = "recover"
  /\ \/ cache.closed /\ Answers(t, "unavailable") /\ UNCHANGED <<cache, flights>>
     \/ /\ ~cache.closed /\ Snapshot /\ cache.generation # thread[t].used
        /\ Goes(t, Takes(t, cache.keys, cache.generation)) /\ UNCHANGED <<cache, flights>>
     \/ /\ ~cache.closed /\ (Snapshot => cache.generation = thread[t].used)
        /\ LET kept == IF Snapshot THEN cache ELSE ClearExpired
           IN  \/ /\ MayRefresh(t)
                  /\ StartFlight(t, IF Snapshot THEN [kept EXCEPT !.forced = monotonic] ELSE kept)
               \/ /\ ~MayRefresh(t) /\ cache.flight # 0
                  /\ cache' = kept
                  /\ Goes(t, [thread[t] EXCEPT !.step = "waiting", !.flight = cache.flight])
                  /\ UNCHANGED flights
               \/ /\ ~MayRefresh(t) /\ cache.flight = 0
                  /\ Answers(t, "rate_limited") /\ UNCHANGED <<cache, flights>>
  /\ UNCHANGED <<monotonic, published>>

\* The loop of _wait_for_flight_locked after a wake-up.
Wake(t) ==
  /\ thread[t].step = "woken"
  /\ LET flight == flights[thread[t].flight]
     IN  \/ cache.closed /\ Answers(t, "unavailable")
         \/ /\ ~cache.closed /\ ~flight.done
            /\ Goes(t, [thread[t] EXCEPT !.step = "waiting"])
         \/ ~cache.closed /\ flight.done /\ ~flight.succeeded /\ Answers(t, "unavailable")
         \/ /\ ~cache.closed /\ flight.done /\ flight.succeeded
            /\ Goes(t, [thread[t] EXCEPT !.step = "call", !.flight = 0])
  /\ UNCHANGED <<monotonic, published, cache, flights>>

\* The provider answers, outside the lock, or does not (_fetch_jwks has its timeouts).
FetchJwks(t) ==
  /\ thread[t].step = "fetching"
  /\ \/ Goes(t, [thread[t] EXCEPT !.step = "install", !.keys = published])
     \/ Goes(t, [thread[t] EXCEPT !.step = "failing"])
  /\ UNCHANGED <<monotonic, published, cache, flights>>

InstallKeys(t) ==
  /\ thread[t].step = "install"
  /\ IF cache.closed \/ cache.flight # thread[t].flight
     THEN /\ Goes(t, [thread[t] EXCEPT !.step = "failing"])
          /\ UNCHANGED <<cache, flights>>
     ELSE /\ cache' = [cache EXCEPT !.keys = thread[t].keys, !.expires = monotonic + KeysTtl,
                                    !.generation = @ + 1, !.flight = 0]
          /\ flights' = [flights EXCEPT ![thread[t].flight] = [done |-> TRUE, succeeded |-> TRUE]]
          /\ thread' = Notified([thread EXCEPT ![t] = Takes(t, thread[t].keys, cache.generation + 1)])
  /\ UNCHANGED <<monotonic, published>>

\* Mutant: a failed flight wakes nobody.
FailSilently(t) ==
  /\ thread[t].step = "failing"
  /\ flights' = [flights EXCEPT ![thread[t].flight] = [done |-> TRUE, succeeded |-> FALSE]]
  /\ cache' = IF cache.flight = thread[t].flight THEN [cache EXCEPT !.flight = 0] ELSE cache
  /\ Answers(t, "unavailable")
  /\ UNCHANGED <<monotonic, published>>

FailFlight(t) ==
  /\ thread[t].step = "failing"
  /\ flights' = [flights EXCEPT ![thread[t].flight] = [done |-> TRUE, succeeded |-> FALSE]]
  /\ cache' = IF cache.flight = thread[t].flight THEN [cache EXCEPT !.flight = 0] ELSE cache
  /\ thread' = Notified([thread EXCEPT ![t] =
       [NewThread EXCEPT !.step = "done", !.answer = "unavailable"]])
  /\ UNCHANGED <<monotonic, published>>

\* The signature is checked; a key the set does not hold is asked for once.
Decode(t) ==
  /\ thread[t].step = "decode"
  /\ IF Knows(thread[t].keys, thread[t].kid) THEN Answers(t, "verified")
     ELSE IF thread[t].call = "get"
     THEN Goes(t, [thread[t] EXCEPT !.step = "call", !.call = "recover"])
     ELSE Answers(t, "rejected")
  /\ UNCHANGED <<monotonic, published, cache, flights>>

CloseCache ==
  /\ ~cache.closed
  /\ cache' = [EmptyCache EXCEPT !.closed = TRUE]
  /\ flights' = IF cache.flight = 0 THEN flights
                ELSE [flights EXCEPT ![cache.flight] = [done |-> TRUE, succeeded |-> FALSE]]
  /\ thread' = Notified(thread)
  /\ UNCHANGED <<monotonic, published>>

MonotonicTicks ==
  /\ monotonic < MaxMonotonic /\ monotonic' = monotonic + 1
  /\ UNCHANGED <<published, cache, flights, thread>>

ProviderRotates ==
  /\ published < MaxKeys /\ published' = published + 1
  /\ UNCHANGED <<monotonic, cache, flights, thread>>

InitJwks ==
  /\ monotonic = 0 /\ published = 1
  /\ cache = EmptyCache
  /\ flights = <<>>
  /\ thread = [t \in Threads |-> NewThread]

ThreadStep(t) ==
  \/ Get(t) \/ RecoverUnknownKid(t) \/ Wake(t) \/ FetchJwks(t) \/ InstallKeys(t)
  \/ FailFlight(t) \/ Decode(t)

NextJwks ==
  \/ \E t \in Threads : Arrives(t) \/ ThreadStep(t)
  \/ CloseCache \/ MonotonicTicks \/ ProviderRotates

\* A thread that can run runs, and the provider's answer or its timeout comes.
SpecJwks == InitJwks /\ [][NextJwks]_jwksVars /\ \A t \in Threads : WF_jwksVars(ThreadStep(t))

----------------------------------------------------------------------------
\* At most one thread fetches for an open cache, it is the owner of the flight the
\* others wait for, and a closed cache stays empty whatever still arrives
\* (_perform_refresh, close).
OneFetchAtATime ==
  /\ cache.closed => cache = [EmptyCache EXCEPT !.closed = TRUE]
  /\ \A t, u \in Threads :
       LET busy(x) == thread[x].step \in {"fetching", "install", "failing"}
       IN  ~cache.closed /\ busy(t) => /\ thread[t].flight = cache.flight
                                       /\ busy(u) => t = u

\* Every thread that asks for keys is answered: no waiter outlives its flight, whether it
\* succeeded, failed or was closed over (_wait_for_flight_locked).  Each asks once, so it
\* is enough that again and again none is left asking.
EveryCallAnswers == []<>(\A t \in Threads : thread[t].step \in {"idle", "done"})
============================================================================
