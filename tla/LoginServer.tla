---------------------------- MODULE LoginServer ----------------------------
(***************************************************************************)
(* The durable login process from its prepared runtime to its exit: the    *)
(* main thread, the thread that serves, a thread per request, and the      *)
(* cleanup coordinator that closes what they use in order of dependency.   *)
(* A signal, the loss of the database's lifetime ownership or a failure    *)
(* may come at any point, every wait has a timeout, and every cleanup      *)
(* action may raise with or without its effect.                            *)
(***************************************************************************)
EXTENDS Naturals, Sequences, FiniteSets

CONSTANTS Connections,  \* the TLS connections clients open
          MaxTracked,   \* _MAX_TRACKED_ACCEPTED_SOCKETS
          MaxFaults     \* bound on cleanup actions that fail

ASSUME ServerAssumption == MaxTracked \in Nat \ {0} /\ MaxFaults \in Nat

VARIABLES main,       \* the main thread
          signalled,  \* _SignalShutdownState.requested
          owned,      \* the guard still finds the database's lifetime ownership
          outcome,    \* _ServeOutcome
          server,     \* _DrainingThreadingHTTPServer, and whether it shuts down
          serve,      \* the serving thread
          socket,     \* per connection, its place in the server's books
          worker,     \* per connection, its request thread
          entry,      \* the coordinator's entries
          open        \* resources that are not closed yet

serverVars == <<main, signalled, owned, outcome, server, serve, socket, worker, entry, open>>

\* The coordinator's entries, latest first, as it closes them.
CleanupOrder ==
  <<"serve_thread", "server_shutdown", "accepted_sockets", "request_threads",
    "route_integration", "inactive_server", "listener_socket", "browser_integration",
    "database_connections", "database_lifetime_ownership">>
Resources == {CleanupOrder[n] : n \in 1..Len(CleanupOrder)}

\* Resources whose cleanup was given a probe.
Probed == Resources \ {"server_shutdown", "route_integration", "browser_integration"}

Dependencies(r) ==
  CASE r = "route_integration" -> {"request_threads"}
    [] r = "browser_integration" -> {"route_integration", "request_threads"}
    [] r = "database_connections" -> {"browser_integration"}
    [] r = "database_lifetime_ownership" ->
         Resources \ {"server_shutdown", "inactive_server", "database_lifetime_ownership"}
    [] OTHER -> {}

Alive == serve.step \notin {"unstarted", "dead"}
Pending == {c \in Connections : socket[c] = "pending"}
Accepted == {c \in Connections : socket[c] = "accepted"}
Running == {c \in Connections : worker[c] = "running"}

----------------------------------------------------------------------------
(* _ServeOutcome *)

Stopped(o) ==
  IF o.state \in {"created", "starting", "serving"} THEN [o EXCEPT !.state = "stopping"] ELSE o

Ended(o, whenNot) ==
  [o EXCEPT !.done = TRUE,
            !.state = CASE @ = "stopping" -> "stopped"
                        [] @ \in whenNot -> @
                        [] OTHER -> IF signalled THEN "stopped" ELSE "failed"]
Failure(o) == Ended(o, {"failed", "stopped"})
Success(o) == Ended(o, {"stopped"})
Unstarted(o) == [o EXCEPT !.done = TRUE, !.state = CASE @ = "stopping" -> "stopped"
                                                     [] @ \in {"created", "starting"} -> "failed"
                                                     [] OTHER -> @]

\* begin_shutdown: the serving loop is told if it runs; if not, it will not start.
ShutDown(s) == [s EXCEPT !.stopping = TRUE, !.told = @ \/ s.active]
BeginShutdown ==
  /\ server' = ShutDown(server)
  /\ outcome' = Stopped(outcome)

----------------------------------------------------------------------------
(* Admission *)

AdmissionReady ==
  /\ server.active /\ ~server.stopping /\ ~signalled /\ server.valid
  /\ outcome.ready /\ "listener_socket" \in open /\ "route_integration" \in open

\* require_database_lifetime_ownership: a lost ownership stops the server for good.
OwnershipHolds == owned /\ server.valid
LoseOwnership ==
  /\ server' = [server EXCEPT !.valid = FALSE, !.stopping = TRUE]
  /\ outcome' = Stopped(outcome)

GoesOn(step) ==
  serve' = [step |-> step,
            lease |-> IF step \in {"handshake", "process"} THEN serve.lease ELSE "none"]

\* get_request, up to the blocking accept.
AdmitConnection(c) ==
  /\ serve.step = "poll" /\ ~server.told /\ socket[c] = "none"
  /\ \/ /\ ~OwnershipHolds /\ LoseOwnership
        /\ GoesOn("service") /\ UNCHANGED socket
     \/ /\ OwnershipHolds /\ UNCHANGED <<server, outcome>>
        /\ IF AdmissionReady /\ Cardinality(Pending \cup Accepted) < MaxTracked
           THEN /\ socket' = [socket EXCEPT ![c] = "pending"]
                /\ serve' = [serve EXCEPT !.step = "accept", !.lease = c]
           ELSE GoesOn("service") /\ UNCHANGED socket
  /\ UNCHANGED <<main, signalled, owned, worker, entry, open>>

\* The accept and the TLS handshake: I/O that comes back or fails, after which the
\* admission is asked for again.
Handshake ==
  LET c == serve.lease
  IN  /\ serve.step \in {"accept", "handshake"}
      /\ \/ /\ socket[c] = "pending" /\ AdmissionReady
            /\ IF serve.step = "accept"
               THEN GoesOn("handshake") /\ UNCHANGED socket
               ELSE socket' = [socket EXCEPT ![c] = "accepted"] /\ GoesOn("process")
         \/ socket' = [socket EXCEPT ![c] = "closed"] /\ GoesOn("service")
      /\ UNCHANGED <<main, signalled, owned, outcome, server, worker, entry, open>>

\* Mutant: what get_request admitted is processed whatever happened since.
StartUnchecked == TRUE

\* process_request asks once more, under the lock in which the thread starts.
MayStartThread == AdmissionReady

\* Starting the thread may fail: an ordinary error is the connection's alone.
ProcessRequest ==
  LET c == serve.lease
  IN  /\ serve.step = "process"
      /\ \/ /\ ~OwnershipHolds /\ LoseOwnership
            /\ socket' = [socket EXCEPT ![c] = "closed"] /\ UNCHANGED worker
         \/ /\ OwnershipHolds /\ MayStartThread
            /\ worker' = [worker EXCEPT ![c] = "running"]
            /\ UNCHANGED <<server, outcome, socket>>
         \/ /\ OwnershipHolds
            /\ socket' = [socket EXCEPT ![c] = "closed"]
            /\ UNCHANGED <<server, outcome, worker>>
      /\ GoesOn("service")
      /\ UNCHANGED <<main, signalled, owned, entry, open>>

\* The request thread ends and closes its socket; a control exception in it stops the
\* server.
RequestEnds(c) ==
  /\ worker[c] = "running"
  /\ worker' = [worker EXCEPT ![c] = "ended"]
  /\ socket' = [socket EXCEPT ![c] = "closed"]
  /\ \/ UNCHANGED <<server, outcome>>
     \/ /\ server' = ShutDown(server)
        /\ outcome' = Stopped(Failure(outcome))
  /\ UNCHANGED <<main, signalled, owned, serve, entry, open>>

----------------------------------------------------------------------------
(* The serving thread *)

Dies(o) ==
  /\ GoesOn("dead")
  /\ server' = [server EXCEPT !.active = FALSE, !.told = FALSE]
  /\ outcome' = o

ServeForever ==
  /\ serve.step = "started"
  /\ IF server.stopping THEN Dies(Failure(outcome))
     ELSE /\ server' = [server EXCEPT !.active = TRUE]
          /\ GoesOn("poll") /\ UNCHANGED outcome
  /\ UNCHANGED <<main, signalled, owned, socket, worker, entry, open>>

Poll ==
  /\ serve.step = "poll"
  /\ IF server.told THEN Dies(Success(outcome))
     ELSE GoesOn("service") /\ UNCHANGED <<server, outcome>>
  /\ UNCHANGED <<main, signalled, owned, socket, worker, entry, open>>

\* service_actions: the first one offers to serve and waits for the main thread.
ServiceActions ==
  /\ serve.step = "service"
  /\ \/ /\ ~OwnershipHolds
        /\ GoesOn("dead")
        /\ server' = [server EXCEPT !.valid = FALSE, !.stopping = TRUE,
                                    !.active = FALSE, !.told = FALSE]
        /\ outcome' = Failure(Stopped(outcome))
     \/ /\ OwnershipHolds
        /\ LET eligible == /\ ~server.stopping /\ ~signalled
                           /\ {"listener_socket", "route_integration"} \subseteq open
           IN  IF eligible /\ outcome.state = "starting"
               THEN outcome' = [outcome EXCEPT !.state = "serving"] /\ GoesOn("decide")
               ELSE GoesOn("poll") /\ UNCHANGED outcome
        /\ UNCHANGED server
  /\ UNCHANGED <<main, signalled, owned, socket, worker, entry, open>>

\* wait_for_readiness_decision
ReadinessDecision ==
  /\ serve.step = "decide"
  /\ \/ /\ outcome.ready \/ outcome.state \notin {"serving", "failed"}
        /\ GoesOn("poll") /\ UNCHANGED <<server, outcome>>
     \/ /\ ~outcome.ready /\ outcome.state = "failed"
        /\ Dies(Failure(outcome))
     \/ /\ ~outcome.ready /\ outcome.state = "serving"
        /\ IF signalled
           THEN outcome' = Stopped(outcome) /\ GoesOn("poll") /\ UNCHANGED server
           ELSE Dies(Failure(outcome))
  /\ UNCHANGED <<main, signalled, owned, socket, worker, entry, open>>

----------------------------------------------------------------------------
(* The main thread *)

AtRest(step) == [step |-> step, attempt |-> 0, pass |-> 0, at |-> 0, acted |-> "no", faults |-> 0]
CleansFrom(n) ==
  main' = [step |-> "cleanup", attempt |-> 1, pass |-> 1, at |-> n, acted |-> "no", faults |-> 0]
MainTo(step) == main' = [main EXCEPT !.step = step]

\* Bind, listen and start the thread; any of it may fail, the thread's start included.
StartServing ==
  /\ main.step = "prepared"
  /\ \/ /\ CleansFrom(2) /\ UNCHANGED <<outcome, serve, entry>>
     \/ /\ owned /\ ~signalled
        /\ entry' = [entry EXCEPT !["serve_thread"] = "owned"]
        /\ outcome' = [outcome EXCEPT !.state = "starting"]
        /\ \/ MainTo("starting") /\ GoesOn("started")
           \/ CleansFrom(1) /\ UNCHANGED serve
  /\ UNCHANGED <<signalled, owned, server, socket, worker, open>>

\* wait_for_startup, with its timeout, and what main makes of the state it finds.
WaitForStartup ==
  /\ main.step = "starting"
  /\ \/ /\ outcome.state = "serving"
        /\ MainTo("deciding") /\ UNCHANGED <<server, outcome>>
     \/ /\ outcome.state # "serving"
        /\ server' = ShutDown(server)
        /\ outcome' = IF outcome.state # "starting" THEN outcome
                      ELSE IF signalled THEN Stopped(outcome)
                      ELSE [outcome EXCEPT !.state = "failed"]
        /\ CleansFrom(1)
  /\ UNCHANGED <<signalled, owned, serve, socket, worker, entry, open>>

\* claim_serving_readiness
ClaimReadiness ==
  /\ main.step = "deciding"
  /\ \/ /\ ~OwnershipHolds
        /\ server' = IF server.valid THEN [server EXCEPT !.valid = FALSE, !.stopping = TRUE] ELSE server
        /\ outcome' = Stopped(outcome)
        /\ CleansFrom(1)
     \/ /\ OwnershipHolds
        /\ server.active /\ ~server.stopping /\ ~signalled /\ outcome.state = "serving"
        /\ outcome' = [outcome EXCEPT !.ready = TRUE]
        /\ MainTo("serving") /\ UNCHANGED server
     \/ /\ OwnershipHolds /\ outcome.state = "failed"
        /\ CleansFrom(1) /\ UNCHANGED <<server, outcome>>
     \/ /\ OwnershipHolds /\ outcome.state # "failed"
        /\ signalled \/ outcome.state # "serving" \/ ~server.active \/ server.stopping
        /\ BeginShutdown /\ CleansFrom(1)
  /\ UNCHANGED <<signalled, owned, serve, socket, worker, entry, open>>

WaitForEnd ==
  /\ main.step = "serving"
  /\ \/ signalled /\ BeginShutdown
     \/ outcome.done /\ UNCHANGED <<server, outcome>>
  /\ CleansFrom(1)
  /\ UNCHANGED <<signalled, owned, serve, socket, worker, entry, open>>

----------------------------------------------------------------------------
(* The cleanup coordinator: one pass that acts, one that only probes, and   *)
(* all of it twice if something is left.                                   *)

Current == CleanupOrder[main.at]

\* blocks_dependents: an entry whose action raised is "failed" and holds nothing back but
\* the lifetime ownership.
DependenciesLive(e, r) ==
  \E d \in Dependencies(r) :
    \/ e[d] \in {"owned", "unresolved"}
    \/ e[d] = "failed" /\ r = "database_lifetime_ownership"

Skipped(e, pass, r) ==
  \/ e[r] \in {"unowned", "terminal"}
  \/ pass = 2 /\ (r \notin Probed \/ DependenciesLive(e, r))

Gone(r) ==
  CASE r = "serve_thread" -> ~Alive /\ outcome.state \in {"failed", "stopped"} /\ Pending = {}
    [] r = "accepted_sockets" -> Pending \cup Accepted = {}
    [] r = "request_threads" -> Running = {}
    [] r = "server_shutdown" -> server.stopping
    [] OTHER -> r \notin open

\* A lease whose accept is under way is only marked; its thread closes it.
CloseSockets(places) ==
  socket' = [c \in Connections |->
    IF socket[c] \in places /\ ~(serve.step = "accept" /\ serve.lease = c)
    THEN "closed" ELSE socket[c]]

Effect(r) ==
  CASE r = "serve_thread" ->
         /\ IF Alive
            THEN /\ server' = ShutDown(server)
                 /\ outcome' = Stopped(outcome)
                 /\ CloseSockets({"pending"})
            ELSE /\ outcome' = IF outcome.done THEN outcome ELSE Unstarted(Stopped(outcome))
                 /\ UNCHANGED <<server, socket>>
         /\ UNCHANGED open
    [] r = "server_shutdown" -> BeginShutdown /\ UNCHANGED <<socket, open>>
    [] r = "accepted_sockets" ->
         CloseSockets({"pending", "accepted"}) /\ UNCHANGED <<server, outcome, open>>
    [] r = "request_threads" -> UNCHANGED <<server, outcome, socket, open>>
    [] r = "inactive_server" ->
         open' = open \ {r, "listener_socket"} /\ UNCHANGED <<server, outcome, socket>>
    [] OTHER -> open' = open \ {r} /\ UNCHANGED <<server, outcome, socket>>

\* The first entry from position n on that the pass is about; the second pass over, the
\* cleanup is tried once more if something is left.
From(e, attempt, pass, n) ==
  LET todo == {m \in n..Len(CleanupOrder) : ~Skipped(e, pass, CleanupOrder[m])}
  IN  IF todo = {} THEN {}
      ELSE {[main EXCEPT !.attempt = attempt, !.pass = pass, !.acted = "no",
                         !.at = CHOOSE m \in todo : \A k \in todo : m <= k]}
OrElse(some, others) == IF some # {} THEN some ELSE others
Following(e, m) ==
  LET rest == IF m.pass = 1
              THEN OrElse(From(e, m.attempt, 1, m.at + 1), From(e, m.attempt, 2, 1))
              ELSE From(e, m.attempt, 2, m.at + 1)
      again == IF m.attempt = 1 THEN OrElse(From(e, 2, 1, 1), From(e, 2, 2, 1)) ELSE {}
      left == OrElse(rest, again)
  IN  IF left = {} THEN AtRest("done") ELSE CHOOSE next \in left : TRUE

MovesOn(e) == entry' = e /\ main' = Following(e, main)

HoldBack ==
  /\ main.step = "cleanup" /\ main.acted = "no"
  /\ main.pass = 1 /\ DependenciesLive(entry, Current)
  /\ MovesOn([entry EXCEPT ![Current] = "unresolved"])
  /\ UNCHANGED <<signalled, owned, outcome, server, serve, socket, worker, open>>

\* The action takes effect and returns; or it returns with nothing done, or raises, with
\* or without its effect.
Act ==
  /\ main.step = "cleanup" /\ main.acted = "no" /\ main.pass = 1
  /\ ~DependenciesLive(entry, Current)
  /\ \/ Effect(Current) /\ main' = [main EXCEPT !.acted = "returned"]
     \/ /\ main.faults < MaxFaults
        /\ \/ /\ Effect(Current)
              /\ main' = [main EXCEPT !.acted = "raised", !.faults = @ + 1]
           \/ /\ UNCHANGED <<server, outcome, socket, open>>
              /\ \E how \in {"returned", "raised"} :
                   main' = [main EXCEPT !.acted = how, !.faults = @ + 1]
  /\ UNCHANGED <<signalled, owned, serve, worker, entry>>

\* Its waits are over, or timed out, and the probe is asked.  Whether a probed entry that
\* is left raised or not makes no difference: the drain of the request threads holds
\* back either way, and on the others only the lifetime ownership depends.
Conclude ==
  /\ main.step = "cleanup" /\ (main.acted # "no" \/ main.pass = 2)
  /\ LET closed == Gone(Current) /\ (Current \in Probed \/ main.acted = "returned")
         state == IF closed THEN "terminal"
                  ELSE IF main.acted = "raised" /\ Current \notin Probed THEN "failed"
                  ELSE "unresolved"
     IN  MovesOn([entry EXCEPT ![Current] = state])
  /\ UNCHANGED <<signalled, owned, outcome, server, serve, socket, worker, open>>

----------------------------------------------------------------------------
Signal ==
  /\ ~signalled /\ main.step # "done" /\ signalled' = TRUE
  /\ UNCHANGED <<main, owned, outcome, server, serve, socket, worker, entry, open>>

\* Somebody tampers with the ownership's files.
OwnershipLost ==
  /\ owned /\ owned' = FALSE
  /\ UNCHANGED <<main, signalled, outcome, server, serve, socket, worker, entry, open>>

InitServer ==
  /\ main = AtRest("prepared")
  /\ signalled = FALSE /\ owned = TRUE
  /\ outcome = [state |-> "created", ready |-> FALSE, done |-> FALSE]
  /\ server = [active |-> FALSE, stopping |-> FALSE, told |-> FALSE, valid |-> TRUE]
  /\ serve = [step |-> "unstarted", lease |-> "none"]
  /\ socket = [c \in Connections |-> "none"]
  /\ worker = [c \in Connections |-> "none"]
  /\ entry = [r \in Resources |-> IF r = "serve_thread" THEN "unowned" ELSE "owned"]
  /\ open = Resources \ {"serve_thread", "server_shutdown", "accepted_sockets", "request_threads"}

MainStep ==
  \/ StartServing \/ WaitForStartup \/ ClaimReadiness \/ WaitForEnd
  \/ HoldBack \/ Act \/ Conclude
ServeStep ==
  \/ ServeForever \/ Poll \/ Handshake \/ ProcessRequest \/ ServiceActions \/ ReadinessDecision

NextServer ==
  \/ MainStep \/ ServeStep
  \/ \E c \in Connections : AdmitConnection(c) \/ RequestEnds(c)
  \/ Signal \/ OwnershipLost

\* Both threads run; every wait of theirs has a timeout.
SpecServer == InitServer /\ [][NextServer]_serverVars
              /\ WF_serverVars(MainStep) /\ WF_serverVars(ServeStep)

----------------------------------------------------------------------------
\* The database outlives whoever uses it: its connections are not closed while a request
\* runs, and its lifetime ownership is not released before every thread, socket and
\* connection is gone, whatever was interrupted or timed out
\* (_DATABASE_LIFETIME_TERMINAL_DEPENDENCIES).
DatabaseOutlivesRequests ==
  /\ {"browser_integration", "database_connections"} \ open # {} => Running = {}
  /\ "database_lifetime_ownership" \notin open =>
       /\ Running = {} /\ ~Alive /\ Pending \cup Accepted = {}
       /\ {"listener_socket", "route_integration", "database_connections"} \cap open = {}

\* A process that exits with a clean status left nothing behind (main, status 3).
HonestExit ==
  main.step = "done" /\ (\A r \in Resources : entry[r] \in {"unowned", "terminal"})
    => ~Alive /\ Running = {} /\ Pending \cup Accepted = {} /\ open = {}

\* The end of the server is ordered, and its status says so.
OrderedEnd == DatabaseOutlivesRequests /\ HonestExit

\* Once a signal came or the ownership was lost, neither of which is undone, the process
\* stops serving and its main thread ends.
StopsServing == []<>(signalled \/ ~owned => main.step = "done" /\ ~Alive)
============================================================================
