--------------------------- MODULE MCDurableLogin ---------------------------
(***************************************************************************)
(* Three parts of the durable login process on small instances.  They      *)
(* share no state while they run: a behaviour is about one of them, the    *)
(* one `part` names, and the others stay as they start.                    *)
(***************************************************************************)
EXTENDS LoginDelivery, JwksCache, LoginServer

CONSTANTS ana, r1, r2, k1, c1, c2

VARIABLE part

durableVars == <<vars, jwksVars, serverVars, part>>

Part(p, next, others) == part = p /\ next /\ UNCHANGED <<others, part>>

InitDurable ==
  /\ InitLogin /\ InitJwks /\ InitServer
  /\ part \in {"login", "jwks", "server"}

NextDurable ==
  \/ Part("login", NextLogin, <<jwksVars, serverVars>>)
  \/ Part("jwks", NextJwks, <<vars, serverVars>>)
  \/ Part("server", NextServer, <<vars, jwksVars>>)

\* The fairness of SpecLogin, SpecJwks and SpecServer, each for its part.
SpecDurable ==
  /\ InitDurable /\ [][NextDurable]_durableVars
  /\ \A r \in Requests : WF_vars(part = "login" /\ Serve(r))
  /\ \A t \in Threads : WF_jwksVars(part = "jwks" /\ ThreadStep(t))
  /\ WF_serverVars(part = "server" /\ MainStep)
  /\ WF_serverVars(part = "server" /\ ServeStep)

\* Nothing waits for ever: a login ends with a cookie or a refusal, a thread that needs the
\* provider's keys gets them or an error, and a server told to stop ends (finalize and
\* compensation of a login, _wait_for_flight_locked, begin_shutdown).
EveryoneIsAnswered == LoginEnds /\ EveryCallAnswers /\ StopsServing
=============================================================================
