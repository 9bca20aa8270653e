-------------------------------- MODULE MCClient --------------------------------
(***************************************************************************)
(* The background work of the agent in small: the threads across fork      *)
(* (Client), what the thread of the metrics does in one process            *)
(* (Collector), what the spans tell the metrics (Breakdown), and how the   *)
(* worker holds back when the server cannot be reached (Backoff).  They    *)
(* share no state, so only one of them moves in a behaviour.               *)
(***************************************************************************)
EXTENDS Client, Collector, Breakdown, Backoff

VARIABLE focus    \* the part that moves

MCVars == <<vars, collectorVars, breakdownVars, backoffVars, focus>>

MCMaxUpdates == [m \in Metrics |-> CASE m = "timer" -> 2 [] m = "histogram" -> 1
                                     [] OTHER -> 0]

MCInit ==
  /\ focus \in {"client", "collector", "breakdown", "backoff"}
  /\ Init /\ CollectorInit /\ BreakdownInit /\ BackoffInit
  /\ focus # "collector" => given = [recording |-> TRUE, limit |-> 2]
  /\ focus # "breakdown" => ~threads
  /\ focus # "backoff" => up

ClientMoves ==
  /\ focus = "client" /\ Next
  /\ UNCHANGED <<collectorVars, breakdownVars, backoffVars, focus>>
CollectorMoves ==
  /\ focus = "collector" /\ CollectorNext
  /\ UNCHANGED <<vars, breakdownVars, backoffVars, focus>>
BreakdownMoves ==
  /\ focus = "breakdown" /\ BreakdownNext
  /\ UNCHANGED <<vars, collectorVars, backoffVars, focus>>
BackoffMoves ==
  /\ focus = "backoff" /\ BackoffNext
  /\ UNCHANGED <<vars, collectorVars, breakdownVars, focus>>

MCSpec ==
  /\ MCInit
  /\ [][ClientMoves \/ CollectorMoves \/ BreakdownMoves \/ BackoffMoves]_MCVars
  /\ focus = "collector" => CollectorFairness
  /\ focus = "backoff" => BackoffFairness
=============================================================================
