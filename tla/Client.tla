-------------------------------- MODULE Client ------------------------------
(***************************************************************************)
(* The life cycle of the agent's threads (Client.start_threads and close   *)
(* in elasticapm/base.py, with the three thread managers: the metrics      *)
(* collector, the configuration updater and the transport) across os.fork. *)
(*                                                                         *)
(* A process has its own memory, which fork copies; of the threads, fork   *)
(* keeps the one that called it.  The first use of the client in a process *)
(* starts the managers' threads: _pid says for which process that was done *)
(* last, and _thread_starter_lock is held meanwhile.                       *)
(*                                                                         *)
(* The timers are the module Collector's business and the worker is        *)
(* Transport's: here they only are or are not there.  MutantX is X with a  *)
(* bug, for a property to find.                                            *)
(***************************************************************************)
EXTENDS Integers

CONSTANTS
  Processes,
  Main,        \* the process that creates the client
  Threads,     \* the application threads of a process
  None

\* The holder of a lock that was copied while another thread held it.
Orphan == "orphan"

ASSUME ClientAssumption ==
  /\ Main \in Processes
  /\ None \notin Processes \cup Threads
  /\ Orphan \notin Threads

VARIABLES
  alive,    \* the processes that exist
  mem,      \* the memory of each process
  running,  \* how many threads of each kind run in each process
  pc        \* where each application thread is in start_threads or close

vars == <<alive, mem, running, pc>>

(***************************************************************************)
(* mem[p].pid      Client._pid                                             *)
(*       .lock     who holds Client._thread_starter_lock                   *)
(*       .timer    per manager, the IntervalTimer object: None, one whose  *)
(*                 thread runs, or one whose thread fork did not copy      *)
(*       .worker   Transport._thread.pid                                   *)
(*       .closed   Transport._closed                                       *)
(*       .pool     the process that opened the connections in _http        *)
(***************************************************************************)
Managers == {"metrics", "config"}
Memory == [pid : Processes \cup {None},
           lock : Threads \cup {None, Orphan},
           timer : [Managers -> {"none", "runs", "dead"}],
           worker : Processes \cup {None},
           closed : BOOLEAN,
           pool : Processes \cup {None}]

\* What Client.__init__ leaves behind, start_threads at its end included; no
\* request was sent yet.
Constructed == [pid |-> Main, lock |-> None, timer |-> [m \in Managers |-> "runs"],
                worker |-> Main, closed |-> FALSE, pool |-> None]
ThreadCount(n) == [metrics |-> n, config |-> n, worker |-> n]

Init ==
  /\ alive = {Main}
  /\ mem = [p \in Processes |-> Constructed]
  /\ running = [p \in Processes |-> ThreadCount(IF p = Main THEN 1 ELSE 0)]
  /\ pc = [p \in Processes |-> [t \in Threads |-> "idle"]]

At(p, t, l) == p \in alive /\ pc[p][t] = l
Go(p, t, l) == pc' = [pc EXCEPT ![p][t] = l]

\* What the child finds in its memory.
Copied(m) ==
  [m EXCEPT !.lock = IF @ = None THEN None ELSE Orphan,
            !.timer = [g \in Managers |-> IF @[g] = "runs" THEN "dead" ELSE @[g]]]

\* os.fork by a thread that is not in the client.
Fork(p, c, t) ==
  /\ At(p, t, "idle")
  /\ c \notin alive
  /\ alive' = alive \cup {c}
  /\ mem' = [mem EXCEPT ![c] = Copied(mem[p])]
  /\ UNCHANGED <<running, pc>>

(***************************************************************************)
(* start_threads, called by queue().  _pid is tested before the lock is    *)
(* taken and not again under it.                                           *)
(***************************************************************************)
StartThreads(p, t) ==
  /\ At(p, t, "idle")
  /\ mem[p].pid # p
  /\ Go(p, t, "lock")
  /\ UNCHANGED <<alive, mem, running>>

MutantLock(p, t) ==
  /\ At(p, t, "lock")
  /\ Go(p, t, "metrics")
  /\ UNCHANGED <<alive, running, mem>>

Lock(p, t) ==
  /\ At(p, t, "lock")
  /\ mem[p].lock = None
  /\ mem' = [mem EXCEPT ![p].lock = t]
  /\ Go(p, t, "metrics")
  /\ UNCHANGED <<alive, running>>

\* MetricsRegistry.start_thread and VersionedConfig.start_thread: a new timer,
\* whether or not there is one already.
StartTimer(p, t, m, next) ==
  /\ At(p, t, m)
  /\ mem' = [mem EXCEPT ![p].timer[m] = "runs"]
  /\ running' = [running EXCEPT ![p][m] = @ + 1]
  /\ Go(p, t, next)
  /\ UNCHANGED alive

\* Transport.start_thread starts a worker when there is none of this process.
MutantNeedsWorker(p) == ~mem[p].closed
NeedsWorker(p) == mem[p].worker # p /\ ~mem[p].closed

\* handle_fork drops the connections of the parent.
MutantPoolAfterFork(p) == mem[p].pool
PoolAfterFork(p) == None

StartTransport(p, t) ==
  /\ At(p, t, "transport")
  /\ mem' = [mem EXCEPT ![p].pid = p, ![p].lock = None,
               ![p].worker = IF NeedsWorker(p) THEN p ELSE @,
               ![p].pool = IF NeedsWorker(p) THEN PoolAfterFork(p) ELSE @]
  /\ running' = IF NeedsWorker(p) THEN [running EXCEPT ![p].worker = @ + 1]
                                  ELSE running
  /\ Go(p, t, "idle")
  /\ UNCHANGED alive

(***************************************************************************)
(* close: the managers are stopped under the lock, the transport last.     *)
(***************************************************************************)
Close(p, t) ==
  /\ At(p, t, "idle")
  /\ mem[p].lock = None
  /\ mem' = [mem EXCEPT ![p].lock = t]
  /\ Go(p, t, "stop metrics")
  /\ UNCHANGED <<alive, running>>

\* _collect_timer.is_alive(): a timer that fork did not copy is not.
MutantHasCollector(p) == mem[p].timer["metrics"] # "none"
HasCollector(p) == mem[p].timer["metrics"] = "runs"

\* The last collection queues its metrics through Client.queue, which calls
\* start_threads: if that wants the lock, the thread waits for itself.
StopMetrics(p, t) ==
  /\ At(p, t, "stop metrics")
  /\ IF HasCollector(p)
       THEN /\ running' = [running EXCEPT ![p].metrics = @ - 1]
            /\ mem' = [mem EXCEPT ![p].timer["metrics"] = "none"]
            /\ Go(p, t, IF mem[p].pid # p THEN "stuck" ELSE "stop config")
       ELSE Go(p, t, "stop config") /\ UNCHANGED <<mem, running>>
  /\ UNCHANGED alive

StopConfig(p, t) ==
  /\ At(p, t, "stop config")
  /\ running' = IF mem[p].timer["config"] = "runs"
                  THEN [running EXCEPT ![p].config = @ - 1] ELSE running
  /\ mem' = [mem EXCEPT ![p].timer["config"] = "none"]
  /\ Go(p, t, "stop transport")
  /\ UNCHANGED alive

\* Transport.close of transport/http.py: the connections are dropped, "close"
\* is queued and awaited (for at most api_request_time).
StopTransport(p, t) ==
  /\ At(p, t, "stop transport")
  /\ mem' = [mem EXCEPT ![p].lock = None,
               ![p].closed = @ \/ mem[p].worker = p,
               ![p].pool = IF mem[p].worker = p /\ ~mem[p].closed THEN None ELSE @]
  /\ Go(p, t, "idle")
  /\ UNCHANGED <<alive, running>>

(***************************************************************************)
(* The threads that the managers started.                                  *)
(***************************************************************************)
\* The worker gets to "close" and ends.
WorkerEnds(p) ==
  /\ running[p].worker > 0
  /\ mem[p].closed
  /\ running' = [running EXCEPT ![p].worker = @ - 1]
  /\ UNCHANGED <<alive, mem, pc>>

\* The updater's first poll comes a second after its start: start_threads is
\* over by then.
Updates(p) ==
  /\ running[p].config > 0
  /\ \A t \in Threads : pc[p][t] \notin {"config", "transport"}

\* A request of the worker or of the updater opens connections unless there
\* are some.
Connect(p) ==
  /\ running[p].worker > 0 \/ Updates(p)
  /\ mem[p].pool = None
  /\ mem' = [mem EXCEPT ![p].pool = p]
  /\ UNCHANGED <<alive, running, pc>>

Next ==
  \/ \E p, c \in Processes, t \in Threads : Fork(p, c, t)
  \/ \E p \in Processes, t \in Threads :
       \/ StartThreads(p, t)
       \/ Lock(p, t)
       \/ StartTimer(p, t, "metrics", "config")
       \/ StartTimer(p, t, "config", "transport")
       \/ StartTransport(p, t)
       \/ Close(p, t)
       \/ StopMetrics(p, t)
       \/ StopConfig(p, t)
       \/ StopTransport(p, t)
  \/ \E p \in Processes : WorkerEnds(p) \/ Connect(p)

Spec == Init /\ [][Next]_vars

-----------------------------------------------------------------------------
\* Every variable has its type, and only a thread at work holds the lock.
TypeOK ==
  /\ alive \in SUBSET Processes
  /\ mem \in [Processes -> Memory]
  /\ running \in [Processes -> [metrics : Nat, config : Nat, worker : Nat]]
  /\ pc \in [Processes -> [Threads ->
       {"idle", "lock", "metrics", "config", "transport", "stop metrics",
        "stop config", "stop transport", "stuck"}]]
  /\ \A p \in Processes, t \in Threads :
       mem[p].lock = t <=> pc[p][t] \notin {"idle", "lock"}

\* However the threads of a process race to start the managers after a fork,
\* and although _pid is not tested again under the lock, a process has at most
\* one worker: two would take the events out of order and share a buffer's
\* connections.
OneWorker == \A p \in Processes : running[p].worker <= 1

\* No worker sends on a connection that another process opened.
WorkerOwnsPool ==
  \A p \in Processes : running[p].worker > 0 => mem[p].pool \in {None, p}

\* close() never waits for the lock that it holds itself: the last collection
\* of metrics finds the threads of its process started.
CloseNotStuck == \A p \in Processes, t \in Threads : pc[p][t] # "stuck"

\* What the comment at handle_fork says it is for, "to avoid sharing
\* connections with the parent process", for the updater, which asks the
\* transport for its connections too.
UpdaterOwnsPool ==
  \A p \in Processes : Updates(p) => mem[p].pool \in {None, p}
=============================================================================
