------------------------------ MODULE Shutdown ------------------------------
(***************************************************************************)
(* The end of the server: Run and shutdown of cmd/server/server.go, over   *)
(* the calls and the pool of Pool.                                         *)
(*                                                                         *)
(* A signal, or a listener that fails, starts the shutdown, once.  It      *)
(* waits for the HTTP requests, then for the gRPC calls, under one common  *)
(* deadline; whoever is under way when it has passed loses his connection, *)
(* which ends his context.  Then the pool is closed: it gives out nothing  *)
(* more, and Close returns when every connection is back.  New HTTP        *)
(* requests are refused from the start, gRPC calls only when their turn    *)
(* has come.                                                               *)
(*                                                                         *)
(* Abstraction: Redis, the tracer and the audit rows of the shutdown, which*)
(* no call waits for; the exit of the process, which would cut short the   *)
(* handlers that are still under way after it.                             *)
(***************************************************************************)
EXTENDS Pool

CONSTANT Rpcs  \* the calls that come over gRPC: CreateWorkflow

ASSUME RpcAssumption == Rpcs \subseteq Calls \ Composed

VARIABLES
  phase,  \* Phase
  late,   \* whether the deadline of the shutdown has passed
  cut,    \* \subseteq Calls: those whose context the shutdown has ended
  exit    \* the exit_reason of the audit row

serverVars == <<phase, late, cut, exit>>

allVars == <<vars, serverVars>>

\* What the server waits for: a signal, the HTTP requests, the gRPC calls, the
\* connections; and the end.
Phase == {"up", "http", "grpc", "pool", "down"}

Exit == {"none", "graceful", "force_kill_timeout"}

Https == Calls \ Rpcs

Active == {r \in Calls : pc[r] \notin {"idle", "done"}}

ShutdownInit ==
  /\ Init
  /\ phase = "up"
  /\ late = FALSE
  /\ cut = {}
  /\ exit = "none"

-----------------------------------------------------------------------------
\* The calls.

\* Who may still come in: grpcServer serves while the HTTP server drains.
Accepts(r) == phase = "up" \/ (phase = "http" /\ r \in Rpcs)

\* CreateWorkflow runs one transaction.
Come(r) ==
  /\ Accepts(r)
  /\ Arrive(r)
  /\ r \in Rpcs => Goto(r, "begin2")
  /\ UNCHANGED serverVars

PoolClosed == phase \in {"pool", "down"}

\* BeginTx on the closed pool fails once a connection would have been free; who
\* waits for one is not woken by Close.
Refused(r) ==
  /\ PoolClosed
  /\ pc[r] \in {"begin1", "begin2"}
  /\ Cardinality(open) < Conns
  /\ Return(r, "error")

Handler(r) ==
  /\ \/ ~PoolClosed /\ (BeginFirst(r) \/ BeginLast(r))
     \/ Found(r) \/ Missing(r) \/ Lock(r) \/ Work(r)
     \/ Refused(r)
  /\ UNCHANGED serverVars

\* The client leaves, or the server's ReadTimeout passes.
Leave(r) == Cancel(r) /\ UNCHANGED serverVars

\* The handler of a connection that the shutdown has closed notices it.
Severed(r) == r \in cut /\ Leave(r)

-----------------------------------------------------------------------------
\* The shutdown.

Move(from, to) == phase = from /\ phase' = to

Signal == Move("up", "http") /\ UNCHANGED <<vars, late, cut, exit>>

\* shutdownCtx ends.
Deadline ==
  /\ phase \in {"http", "grpc", "pool"} /\ ~late
  /\ late' = TRUE
  /\ UNCHANGED <<vars, phase, cut, exit>>

\* Mutant: the connections are left open when the deadline has passed.
Sever_Never(S) == late /\ cut' = cut

\* httpServer.Close and grpcServer.Stop: at the deadline the connections of the
\* calls that are under way are closed.
Sever(S) == late /\ cut' = cut \cup (S \cap Active)

\* Mutant: the HTTP server is closed without waiting for its requests.
HTTPDone_AtOnce == Move("http", "grpc") /\ UNCHANGED <<vars, late, cut, exit>>

\* httpServer.Shutdown returns: no request is under way.
HTTPDone ==
  /\ Move("http", "grpc")
  /\ Https \cap Active = {}
  /\ UNCHANGED <<vars, late, cut, exit>>

HTTPForce == Move("http", "grpc") /\ Sever(Https) /\ UNCHANGED <<vars, late, exit>>

\* GracefulStop returns.
GRPCDone ==
  /\ Move("grpc", "pool")
  /\ Rpcs \cap Active = {}
  /\ UNCHANGED <<vars, late, cut, exit>>

GRPCForce == Move("grpc", "pool") /\ Sever(Rpcs) /\ UNCHANGED <<vars, late, exit>>

\* pgStore.Close returns, and the reason is recorded.
PoolDone ==
  /\ Move("pool", "down")
  /\ open = {}
  /\ exit' = IF late THEN "force_kill_timeout" ELSE "graceful"
  /\ UNCHANGED <<vars, late, cut>>

End == HTTPDone \/ HTTPForce \/ GRPCDone \/ GRPCForce \/ PoolDone

ShutdownNext ==
  \/ \E r \in Calls : Come(r) \/ Handler(r) \/ Leave(r)
  \/ Signal \/ Deadline \/ End

ShutdownSpec == ShutdownInit /\ [][ShutdownNext]_allVars

\* Handlers, PostgreSQL, the clock and the shutdown go on, and a handler notices
\* that its connection is closed.  No signal need come and no client leave.
FairSpec ==
  /\ ShutdownSpec
  /\ \A r \in Calls : WF_allVars(Handler(r)) /\ WF_allVars(Severed(r))
  /\ WF_allVars(Deadline) /\ WF_allVars(End)

-----------------------------------------------------------------------------
(* Properties.                                                             *)

ServerTypeOK ==
  /\ phase \in Phase
  /\ late \in BOOLEAN
  /\ cut \subseteq Calls
  /\ exit \in Exit

\* The pool is closed only under calls whose connection the shutdown has closed
\* before, and it closes none before the deadline; so an exit recorded as graceful
\* has answered every call that came, and none with an error of its own making.
GracefulExit ==
  /\ PoolClosed => Active \subseteq cut
  /\ cut # {} => late
  /\ exit = "graceful" => Active = {} /\ cut = {}

\* A shutdown that has begun ends, even when handlers block each other.
ShutdownEnds == phase = "http" ~> phase = "down"
=============================================================================
