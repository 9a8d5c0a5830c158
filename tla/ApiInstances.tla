---------------------------- MODULE ApiInstances ----------------------------
(***************************************************************************)
(* The instances of the API behind the load balancer (app.ts, index.ts):   *)
(* requests that pass the limiters and are handled, while instances are    *)
(* shut down, die and come back.  RateLimit is what the instances share in *)
(* Redis, Shutdown the life of each process; the requests join the two.    *)
(***************************************************************************)
EXTENDS RateLimit, Shutdown

CONSTANTS
  Req,           \* requests in flight at once, over all instances
  MaxFailures    \* bound on failing Redis calls and dying processes

ASSUME LimitersAssumption == Limiter = {"global", "login"}
ASSUME FailuresAssumption == MaxFailures \in Nat

VARIABLES
  req,           \* where each request is
  failures

redis == <<counter, recent>>
process == <<phase, signals>>
vars == <<redis, process, req, failures>>

\* "count" and "expire" are the two calls of the limiter `at`; `allowed` is
\* what the count said; "handle" stands for the handler behind the limiters.
Request ==
  [pc : {"idle", "count", "expire", "handle"}, on : Instance, login : BOOLEAN,
   at : Limiter, allowed : BOOLEAN]

Idle ==
  [pc |-> "idle", on |-> CHOOSE i \in Instance : TRUE, login |-> FALSE,
   at |-> "global", allowed |-> FALSE]

TypeOK ==
  /\ RateLimitTypeOK /\ ShutdownTypeOK
  /\ req \in [Req -> Request]
  /\ failures \in Nat

Init ==
  /\ RateLimitInit /\ ShutdownInit
  /\ req = [r \in Req |-> Idle]
  /\ failures = 0

Answer(r) == req' = [req EXCEPT ![r] = Idle]

\* The requests an instance works on.
On(i) == {r \in Req : req[r].pc # "idle" /\ req[r].on = i}
-----------------------------------------------------------------------------
(* The limiters, in the order app.ts puts them in front of the routes *)

Arrive(r, i, login) ==
  /\ req[r].pc = "idle"
  /\ Accepts(i)
  /\ req' = [req EXCEPT ![r] = [Idle EXCEPT !.pc = "count", !.on = i, !.login = login]]
  /\ UNCHANGED <<redis, process, failures>>

\* /health, /livez, /readyz and /metrics are served without being counted.
Probe(r, i) ==
  /\ req[r].pc = "idle"
  /\ Accepts(i)
  /\ req' = [req EXCEPT ![r] = [Idle EXCEPT !.pc = "handle", !.on = i]]
  /\ UNCHANGED <<redis, process, failures>>

\* The next step of a request whose limiter has let it through; 429 otherwise.
Passed(q) ==
  IF ~q.allowed THEN Idle
  ELSE IF q.login /\ q.at = "global" THEN [q EXCEPT !.pc = "count", !.at = "login"]
  ELSE [q EXCEPT !.pc = "handle"]

Count(r) ==
  LET l == req[r].at
      counted == [req[r] EXCEPT !.allowed = Allowed(Incremented(l).hits, l)]
  IN /\ req[r].pc = "count"
     /\ Increment(l)
     /\ req' = [req EXCEPT ![r] = IF NeedsExpiry(l) THEN [counted EXCEPT !.pc = "expire"]
                                  ELSE Passed(counted)]
     /\ UNCHANGED <<process, failures>>

Expire(r) ==
  /\ req[r].pc = "expire"
  /\ SetExpiry(req[r].at)
  /\ req' = [req EXCEPT ![r] = Passed(req[r])]
  /\ UNCHANGED <<process, failures>>

\* The route behind the limiters; modules Accounts and TenderHandlers follow it.
Handle(r) ==
  /\ req[r].pc = "handle"
  /\ Answer(r)
  /\ UNCHANGED <<redis, process, failures>>
-----------------------------------------------------------------------------
(* Time, failures, signals *)

Tick == WindowsElapse /\ UNCHANGED <<process, req, failures>>

Fail == failures < MaxFailures /\ failures' = failures + 1

\* A call to Redis throws: the limiter passes the error on and the request
\* ends with a 500.
RedisFails(r) ==
  /\ Fail
  /\ req[r].pc \in {"count", "expire"}
  /\ Answer(r)
  /\ UNCHANGED <<redis, process>>

Crash(i) ==
  /\ Fail
  /\ Dies(i)
  /\ req' = [r \in Req |-> IF r \in On(i) THEN Idle ELSE req[r]]
  /\ UNCHANGED redis

\* The process comes to an end by itself; what it still works on is cut short.
StopStep(i) ==
  /\ \/ Signal(i)
     \/ ServerClosed(i, On(i) = {})
     \/ CloseFails(i, On(i) = {})
     \/ Disconnect(i)
     \/ DisconnectFails(i)
     \/ CloseRedis(i)
     \/ Start(i)
  /\ UNCHANGED <<redis, req, failures>>
-----------------------------------------------------------------------------
Work(r) == Count(r) \/ Expire(r) \/ Handle(r)

Ask == \E r \in Req, i \in Instance : Arrive(r, i, FALSE)

Next ==
  \/ \E r \in Req, i \in Instance, login \in BOOLEAN : Arrive(r, i, login)
  \/ \E r \in Req, i \in Instance : Probe(r, i)
  \/ \E r \in Req : Work(r) \/ RedisFails(r)
  \/ \E i \in Instance : StopStep(i) \/ Crash(i)
  \/ Tick

\* What the event loop and Redis do for every request, what shutdown awaits,
\* the clock, an orchestrator that restarts and a client that keeps asking
\* (strongly: that requests take each other's place is the model's doing).
Fairness ==
  /\ \A r \in Req : WF_vars(Work(r))
  /\ \A i \in Instance : WF_vars(StopStep(i) /\ ~(signals' > signals))
  /\ WF_vars(Tick)
  /\ SF_vars(Ask)

Spec == Init /\ [][Next]_vars /\ Fairness
-----------------------------------------------------------------------------
(* Properties *)

\* H0.3: a process that ends without dying has nothing under way, from the
\* moment it disconnects from the database, whatever signals arrive when.
NoRequestCut == \A i \in Instance : phase[i] \in {"disconnecting", "closers", "exited"} => On(i) = {}

\* H0.3: a process that was told to stop does, unless requests keep coming in
\* on the connections it has: it is never stuck with nothing under way.
ShutdownEnds == \A i \in Instance : []<>(phase[i] \in {"up", "exited"} \/ On(i) # {})

\* H2.1: a client over the limit that keeps asking is let through again and
\* again, even if a process died between the count and its expiry.
LimitedIsServedAgain == []<>(recent["global"][1] > 0)
=============================================================================
