------------------------------ MODULE Shutdown ------------------------------
(***************************************************************************)
(* The life of an API process: lib/shutdown.ts and the signals index.ts    *)
(* gives it.  Who starts the process, and what runs in it, is elsewhere.   *)
(***************************************************************************)
EXTENDS Naturals

CONSTANTS
  Instance,
  MaxSignals   \* bound on the signals sent

ASSUME InstanceAssumption == Instance # {}
ASSUME SignalsAssumption == MaxSignals \in Nat

VARIABLES
  phase,       \* where the process of each instance is
  signals      \* how many signals there have been

Phase == {"up", "closing", "disconnecting", "closers", "exited"}

ShutdownTypeOK ==
  /\ phase \in [Instance -> Phase]
  /\ signals \in Nat

ShutdownInit ==
  /\ phase = [i \in Instance |-> "up"]
  /\ signals = 0

Enter(i, p) == phase' = [phase EXCEPT ![i] = p]

\* A closing server takes no new connections, but one that is kept alive can
\* still bring requests.
Accepts(i) == phase[i] \in {"up", "closing"}

\* SIGTERM or SIGINT: the cron tasks stop and the server takes no more
\* connections.  `started` makes the second signal do nothing.
Signal(i) ==
  /\ phase[i] # "exited"
  /\ signals < MaxSignals
  /\ signals' = signals + 1
  /\ IF phase[i] = "up" THEN Enter(i, "closing") ELSE UNCHANGED phase

\* Fault: the callback of server.close is not awaited.
CloseUnawaited(i, idle) == phase[i] = "closing" /\ Enter(i, "disconnecting") /\ UNCHANGED signals

\* server.close calls back when the requests under way are over.
ServerClosed(i, idle) ==
  phase[i] = "closing" /\ idle /\ Enter(i, "disconnecting") /\ UNCHANGED signals

\* It calls back with an error (it was not listening): exit(1), and nothing is
\* disconnected.
CloseFails(i, idle) == phase[i] = "closing" /\ idle /\ Enter(i, "exited") /\ UNCHANGED signals

Disconnect(i) == phase[i] = "disconnecting" /\ Enter(i, "closers") /\ UNCHANGED signals

\* $disconnect throws: exit(1), and Redis is not closed.
DisconnectFails(i) == phase[i] = "disconnecting" /\ Enter(i, "exited") /\ UNCHANGED signals

\* Fault: a closer that never settles.
CloseRedisHangs(i) == phase[i] = "closers" /\ UNCHANGED <<phase, signals>>

\* closeRedis swallows its errors: exit(0).
CloseRedis(i) == phase[i] = "closers" /\ Enter(i, "exited") /\ UNCHANGED signals

Dies(i) == phase[i] # "exited" /\ Enter(i, "exited") /\ UNCHANGED signals

\* The orchestrator starts another process (restart: unless-stopped).
Start(i) == phase[i] = "exited" /\ Enter(i, "up") /\ UNCHANGED signals
=============================================================================
