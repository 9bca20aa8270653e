------------------------------ MODULE ClientProofs ------------------------------
(***************************************************************************)
(* Proofs about Client, for any number of processes, forked from any other *)
(* at any moment, and any number of threads.  The invariant says of each   *)
(* process what its memory, which may be a copy, tells of its threads: the *)
(* timers and the worker that it knows are its own, and the collector's    *)
(* timer runs only if _pid is right or is about to be.                     *)
(***************************************************************************)
EXTENDS Client, TLAPS

Counts == [metrics : Nat, config : Nat, worker : Nat]
Places == {"idle", "lock", "metrics", "config", "transport", "stop metrics",
           "stop config", "stop transport", "stuck"}
AtWork == Places \ {"idle", "lock"}

\* TypeOK without what it says of the lock.
Types ==
  /\ alive \in SUBSET Processes
  /\ mem \in [Processes -> Memory]
  /\ running \in [Processes -> Counts]
  /\ pc \in [Processes -> [Threads -> Places]]

\* Only a thread at work holds the lock.
Holders(p) == \A t \in Threads : mem[p].lock = t <=> pc[p][t] \in AtWork

\* Nothing happens in a process that does not exist.
Unborn(p) ==
  p \notin alive =>
    /\ running[p] = ThreadCount(0)
    /\ mem[p].lock = None
    /\ \A t \in Threads : pc[p][t] = "idle"

\* A timer that is said to run has a thread.
TimersRun(p) ==
  p \in alive =>
    \A m \in Managers : mem[p].timer[m] = "runs" => running[p][m] > 0

\* Whoever started the collector sets _pid before the lock is free.
CollectorKnown(p) ==
  p \in alive /\ mem[p].timer["metrics"] = "runs" /\ mem[p].pid # p =>
    \E t \in Threads : pc[p][t] \in {"config", "transport"}

\* A worker is the only one of its process, is known to be, and has no
\* connections but its own.
WorkerKnown(p) ==
  running[p].worker > 0 =>
    running[p].worker = 1 /\ mem[p].worker = p /\ mem[p].pool \in {None, p}

NotStuck(p) == \A t \in Threads : pc[p][t] # "stuck"

Timers(p) == TimersRun(p) /\ CollectorKnown(p)
Local(p) == Holders(p) /\ Unborn(p) /\ Timers(p) /\ WorkerKnown(p) /\ NotStuck(p)
Inv == Types /\ \A p \in Processes : Local(p)

-----------------------------------------------------------------------------
\* The properties are parts of the invariant.
LEMMA TypeParts == TypeOK <=> Types /\ \A p \in Processes : Holders(p)
<1>1. Types => \A p \in Processes, t \in Threads : pc[p][t] \in Places
  BY DEF Types
<1>2. QED
  BY <1>1 DEF TypeOK, Types, Holders, Counts, Places, AtWork

LEMMA InvImplies == Inv => TypeOK /\ OneWorker /\ WorkerOwnsPool /\ CloseNotStuck
<1> SUFFICES ASSUME Inv PROVE TypeOK /\ OneWorker /\ WorkerOwnsPool /\ CloseNotStuck
  OBVIOUS
<1>1. TypeOK
  BY TypeParts DEF Inv, Local
<1>2. \A p \in Processes : running[p].worker \in Nat
  BY DEF Inv, Types, Counts
<1>3. OneWorker
  <2>1. ASSUME NEW p \in Processes
        PROVE  running[p].worker <= 1
    <3>1. running[p].worker \in Nat /\ (running[p].worker > 0 => running[p].worker = 1)
      BY <1>2 DEF Inv, Local, WorkerKnown
    <3>2. QED
      BY <3>1
  <2>2. QED
    BY <2>1 DEF OneWorker
<1>4. WorkerOwnsPool /\ CloseNotStuck
  BY DEF Inv, Local, WorkerKnown, NotStuck, WorkerOwnsPool, CloseNotStuck
<1>5. QED
  BY <1>1, <1>3, <1>4

\* Only one thread of a process is at work.
LEMMA OneAtWork ==
  ASSUME NEW p \in Processes, Holders(p), NEW t \in Threads, NEW u \in Threads,
         pc[p][t] \in AtWork, pc[p][u] \in AtWork
  PROVE  t = u
<1>1. mem[p].lock = t /\ mem[p].lock = u
  BY DEF Holders
<1>2. QED
  BY <1>1

\* A step of one process leaves the others as they are.
LEMMA Elsewhere ==
  ASSUME Inv, Types', NEW p \in Processes, Local(p)', UNCHANGED alive,
         \A q \in Processes \ {p} :
           mem'[q] = mem[q] /\ running'[q] = running[q] /\ pc'[q] = pc[q]
  PROVE  Inv'
<1>1. ASSUME NEW q \in Processes, q # p
      PROVE  Local(q)'
  BY <1>1 DEF Inv, Local, Holders, Unborn, Timers, TimersRun, CollectorKnown,
              WorkerKnown, NotStuck
<1>2. QED
  BY <1>1 DEF Inv

LEMMA InitInv == Init => Inv
<1> SUFFICES ASSUME Init PROVE Inv
  OBVIOUS
<1> USE ClientAssumption DEF Init
<1>1. Constructed \in Memory
  BY DEF Constructed, Memory
<1>2. Types
  BY <1>1 DEF Types, Counts, ThreadCount, Places
<1>3. ASSUME NEW p \in Processes PROVE Local(p)
  <2>1. Holders(p)
    BY DEF Holders, Constructed, AtWork
  <2>2. Unborn(p)
    BY DEF Unborn, Constructed
  <2>3. Timers(p)
    BY DEF Timers, TimersRun, CollectorKnown, Constructed, ThreadCount, Managers
  <2>4. WorkerKnown(p)
    BY DEF WorkerKnown, ThreadCount, Constructed
  <2>5. NotStuck(p)
    BY DEF NotStuck
  <2>6. QED
    BY <2>1, <2>2, <2>3, <2>4, <2>5 DEF Local
<1>4. QED
  BY <1>2, <1>3 DEF Inv

\* The fields of a memory.
LEMMA MemoryFields ==
  ASSUME NEW m \in Memory
  PROVE  /\ m.pid \in Processes \cup {None} /\ m.lock \in Threads \cup {None, Orphan}
         /\ m.timer \in [Managers -> {"none", "runs", "dead"}]
         /\ m.worker \in Processes \cup {None} /\ m.closed \in BOOLEAN
         /\ m.pool \in Processes \cup {None}
BY DEF Memory

\* What a child finds: nobody's lock, timers without threads, the other fields.
LEMMA CopiedFields ==
  ASSUME NEW m \in Memory
  PROVE  /\ Copied(m) \in Memory
         /\ Copied(m).lock \in {None, Orphan}
         /\ Copied(m).timer \in [Managers -> {"none", "dead"}]
<1> DEFINE lock == IF m.lock = None THEN None ELSE Orphan
           timer == [g \in Managers |-> IF m.timer[g] = "runs" THEN "dead" ELSE m.timer[g]]
<1>1. m.timer \in [Managers -> {"none", "runs", "dead"}]
  BY MemoryFields
<1>2. timer \in [Managers -> {"none", "dead"}]
  BY <1>1
<1>3. lock \in {None, Orphan}
  OBVIOUS
<1>4. Copied(m) = [m EXCEPT !.lock = lock, !.timer = timer]
  BY DEF Copied
<1> HIDE DEF lock, timer
<1>5. [m EXCEPT !.lock = lock, !.timer = timer] \in Memory
  BY <1>2, <1>3 DEF Memory
<1>6. /\ [m EXCEPT !.lock = lock, !.timer = timer].lock = lock
      /\ [m EXCEPT !.lock = lock, !.timer = timer].timer = timer
  BY DEF Memory
<1>7. QED
  BY <1>2, <1>3, <1>4, <1>5, <1>6

LEMMA ForkInv ==
  ASSUME Inv, NEW p \in Processes, NEW c \in Processes, NEW t \in Threads, Fork(p, c, t)
  PROVE  Inv'
<1> USE DEF Fork
<1>1. c \notin alive /\ alive' = alive \cup {c}
  OBVIOUS
<1>2. mem \in [Processes -> Memory]
  BY DEF Inv, Types
<1>3. mem'[c] = Copied(mem[p]) /\ \A q \in Processes \ {c} : mem'[q] = mem[q]
  BY <1>2
<1>4. /\ mem'[c].lock \in {None, Orphan}
      /\ mem'[c].timer \in [Managers -> {"none", "dead"}]
      /\ mem'[c] \in Memory
  <2>1. mem[p] \in Memory
    BY <1>2
  <2>2. QED
    BY <1>3, <2>1, CopiedFields
<1>5. Types'
  BY <1>1, <1>2, <1>3, <1>4 DEF Inv, Types
<1>6. Local(c)'
  <2>1. running'[c] = ThreadCount(0) /\ \A u \in Threads : pc'[c][u] = "idle"
    BY <1>1 DEF Inv, Local, Unborn
  <2>2. Holders(c)'
    BY <1>4, <2>1, ClientAssumption DEF Holders, AtWork
  <2>3. Unborn(c)'
    BY <1>1 DEF Unborn
  <2>4. Timers(c)'
    BY <1>4 DEF Timers, TimersRun, CollectorKnown, Managers
  <2>5. WorkerKnown(c)'
    BY <2>1 DEF WorkerKnown, ThreadCount
  <2>6. NotStuck(c)'
    BY <2>1 DEF NotStuck
  <2>7. QED
    BY <2>2, <2>3, <2>4, <2>5, <2>6 DEF Local
<1>7. ASSUME NEW q \in Processes, q # c
      PROVE  Local(q)'
  <2>1. mem'[q] = mem[q] /\ (q \in alive' <=> q \in alive)
    BY <1>1, <1>3, <1>7
  <2>2. QED
    BY <2>1 DEF Inv, Local, Holders, Unborn, Timers, TimersRun, CollectorKnown,
                WorkerKnown, NotStuck
<1>8. QED
  BY <1>5, <1>6, <1>7 DEF Inv

-----------------------------------------------------------------------------
\* What a step of the thread t of the process p does to the types.
LEMMA Here ==
  ASSUME Inv, NEW p \in alive, NEW t \in Threads
  PROVE  /\ p \in Processes /\ mem[p] \in Memory /\ running[p] \in Counts
         /\ pc[p] \in [Threads -> Places]
         /\ \A m \in Memory : [mem EXCEPT ![p] = m] \in [Processes -> Memory]
         /\ \A n \in Counts : [running EXCEPT ![p] = n] \in [Processes -> Counts]
         /\ \A l \in Places :
              [pc EXCEPT ![p][t] = l] \in [Processes -> [Threads -> Places]]
BY DEF Inv, Types

\* A thread that starts to wait, or to work without the lock.
LEMMA StartThreadsInv ==
  ASSUME Inv, NEW p \in Processes, NEW t \in Threads, StartThreads(p, t)
  PROVE  Inv'
<1> USE DEF StartThreads, At, Go
<1>1. Types'
  BY Here DEF Inv, Types, Places
<1>2. /\ pc'[p] = [pc[p] EXCEPT ![t] = "lock"] /\ pc[p] \in [Threads -> Places]
      /\ UNCHANGED <<alive, mem, running>>
      /\ \A q \in Processes \ {p} : pc'[q] = pc[q]
  BY DEF Inv, Types
<1>3. Local(p)
  BY DEF Inv
<1>4. Holders(p)'
  BY <1>2, <1>3 DEF Local, Holders, AtWork
<1>5. Unborn(p)' /\ WorkerKnown(p)' /\ NotStuck(p)'
  BY <1>2, <1>3 DEF Local, Unborn, WorkerKnown, NotStuck
<1>6. Timers(p)'
  BY <1>2, <1>3 DEF Local, Timers, TimersRun, CollectorKnown
<1>7. QED
  BY <1>1, <1>2, <1>4, <1>5, <1>6, Elsewhere DEF Local

\* The lock is taken, by start_threads or by close.
LEMMA LockInv ==
  ASSUME Inv, NEW p \in Processes, NEW t \in Threads,
         Lock(p, t) \/ Close(p, t)
  PROVE  Inv'
<1> USE DEF Lock, Close, At, Go
<1> DEFINE place == IF Lock(p, t) THEN "metrics" ELSE "stop metrics"
<1>1. /\ p \in alive /\ mem[p].lock = None
      /\ pc' = [pc EXCEPT ![p][t] = place]
      /\ mem' = [mem EXCEPT ![p].lock = t]
      /\ UNCHANGED <<alive, running>>
  OBVIOUS
<1>2. place \in AtWork \ {"config", "transport", "stuck"}
  BY DEF AtWork, Places
<1> HIDE DEF place, Lock, Close
<1>3. /\ [mem[p] EXCEPT !.lock = t] \in Memory
      /\ mem[p] \in Memory
  <2>1. mem[p] \in Memory
    BY <1>1, Here
  <2>2. QED
    BY <2>1 DEF Memory
<1>4. Types'
  BY <1>1, <1>2, <1>3, Here DEF Inv, Types, AtWork
<1>5. /\ mem'[p] = [mem[p] EXCEPT !.lock = t]
      /\ pc'[p] = [pc[p] EXCEPT ![t] = place]
      /\ pc[p] \in [Threads -> Places]
      /\ \A q \in Processes \ {p} : mem'[q] = mem[q] /\ pc'[q] = pc[q]
  BY <1>1 DEF Inv, Types
<1>6. /\ mem'[p].lock = t /\ mem'[p].timer = mem[p].timer
      /\ mem'[p].pid = mem[p].pid /\ mem'[p].worker = mem[p].worker
      /\ mem'[p].pool = mem[p].pool
  BY <1>3, <1>5 DEF Memory
<1>7. Local(p)
  BY DEF Inv
<1>8. Holders(p)'
  <2>1. \A u \in Threads : pc[p][u] \notin AtWork
    BY <1>1, <1>7, ClientAssumption DEF Local, Holders
  <2>2. QED
    BY <1>2, <1>5, <1>6, <2>1 DEF Holders
<1>9. Unborn(p)' /\ WorkerKnown(p)' /\ NotStuck(p)'
  <2>1. WorkerKnown(p)'
    BY <1>1, <1>6, <1>7 DEF Local, WorkerKnown
  <2>2. place # "stuck" /\ NotStuck(p)
    BY <1>2, <1>7 DEF Local
  <2>3. NotStuck(p)'
    BY <1>5, <2>2 DEF NotStuck
  <2>4. QED
    BY <1>1, <2>1, <2>3 DEF Unborn
<1>10. Timers(p)'
  <2>1. \A u \in Threads : pc[p][u] \notin {"config", "transport"}
    BY <1>1, <1>7, ClientAssumption DEF Local, Holders, AtWork, Places
  <2>2. QED
    BY <1>1, <1>6, <1>7, <2>1 DEF Local, Timers, TimersRun, CollectorKnown
<1>11. QED
  BY <1>1, <1>4, <1>5, <1>8, <1>9, <1>10, Elsewhere DEF Local

\* StartTimer, of either manager.
LEMMA StartTimerInv ==
  ASSUME Inv, NEW p \in Processes, NEW t \in Threads, NEW m \in Managers,
         NEW next \in {"config", "transport"}, StartTimer(p, t, m, next)
  PROVE  Inv'
<1> USE DEF StartTimer, At, Go
<1>1. p \in alive /\ pc[p][t] = m /\ UNCHANGED alive /\ pc[p][t] \in AtWork
  BY DEF AtWork, Places, Managers
<1>2. /\ mem[p] \in Memory
      /\ [mem[p] EXCEPT !.timer[m] = "runs"] \in Memory
  <2>1. mem[p] \in Memory
    BY <1>1, Here
  <2>2. [mem[p].timer EXCEPT ![m] = "runs"] \in [Managers -> {"none", "runs", "dead"}]
    BY <2>1, MemoryFields
  <2>3. QED
    BY <2>1, <2>2 DEF Memory
<1>3. /\ running[p] \in Counts
      /\ [running[p] EXCEPT ![m] = @ + 1] \in Counts
  BY <1>1, Here DEF Counts, Managers
<1>4. /\ mem'[p] = [mem[p] EXCEPT !.timer[m] = "runs"]
      /\ running'[p] = [running[p] EXCEPT ![m] = @ + 1]
      /\ pc'[p] = [pc[p] EXCEPT ![t] = next]
      /\ pc[p] \in [Threads -> Places]
      /\ \A q \in Processes \ {p} :
           mem'[q] = mem[q] /\ running'[q] = running[q] /\ pc'[q] = pc[q]
  BY DEF Inv, Types
<1>5. Types'
  BY <1>1, <1>2, <1>3, Here DEF Inv, Types, Places
<1>6. /\ mem'[p].lock = mem[p].lock /\ mem'[p].pid = mem[p].pid
      /\ mem'[p].worker = mem[p].worker /\ mem'[p].pool = mem[p].pool
      /\ mem'[p].timer = [mem[p].timer EXCEPT ![m] = "runs"]
  BY <1>2, <1>4 DEF Memory
<1>7. /\ running'[p].worker = running[p].worker
      /\ running'[p][m] = running[p][m] + 1
      /\ \A n \in Managers \ {m} : running'[p][n] = running[p][n]
  BY <1>3, <1>4 DEF Counts, Managers
<1>8. Local(p)
  BY DEF Inv
<1>9. Holders(p)'
  <2>1. next \in AtWork
    BY DEF AtWork, Places
  <2>2. QED
    BY <1>1, <1>4, <1>6, <1>8, <2>1 DEF Local, Holders
<1>10. Unborn(p)' /\ WorkerKnown(p)' /\ NotStuck(p)'
  BY <1>1, <1>4, <1>6, <1>7, <1>8 DEF Local, Unborn, WorkerKnown, NotStuck
<1>11. TimersRun(p)'
  <2>1. \A n \in Managers : running[p][n] \in Nat
    BY <1>3 DEF Counts, Managers
  <2>2. mem[p].timer \in [Managers -> {"none", "runs", "dead"}]
    BY <1>2, MemoryFields
  <2>3. QED
    BY <1>1, <1>6, <1>7, <1>8, <2>1, <2>2 DEF Local, Timers, TimersRun
<1>12. CollectorKnown(p)'
  BY <1>1, <1>4 DEF CollectorKnown
<1>13. QED
  BY <1>1, <1>4, <1>5, <1>9, <1>10, <1>11, <1>12, Elsewhere DEF Local, Timers

LEMMA StartTransportInv ==
  ASSUME Inv, NEW p \in Processes, NEW t \in Threads, StartTransport(p, t)
  PROVE  Inv'
<1> DEFINE worker == IF NeedsWorker(p) THEN p ELSE mem[p].worker
           pool == IF NeedsWorker(p) THEN None ELSE mem[p].pool
           count == running[p].worker + IF NeedsWorker(p) THEN 1 ELSE 0
<1>1. /\ p \in alive /\ pc[p][t] = "transport" /\ UNCHANGED alive
      /\ mem' = [mem EXCEPT ![p].pid = p, ![p].lock = None, ![p].worker = worker,
                            ![p].pool = pool]
      /\ pc' = [pc EXCEPT ![p][t] = "idle"]
  BY DEF StartTransport, PoolAfterFork, At, Go
<1>2. /\ mem[p] \in Memory /\ running[p] \in Counts
      /\ worker \in Processes \cup {None} /\ pool \in Processes \cup {None}
  BY <1>1, Here, MemoryFields
<1>3. /\ running[p].worker \in Nat /\ count \in Nat
      /\ running' = [running EXCEPT ![p].worker = count]
  <2>1. running[p].worker \in Nat
    BY <1>2 DEF Counts
  <2>2. running = [running EXCEPT ![p].worker = @]
    BY DEF Inv, Types, Counts
  <2>3. CASE NeedsWorker(p)
    BY <2>1, <2>3 DEF StartTransport
  <2>4. CASE ~NeedsWorker(p)
    BY <2>1, <2>2, <2>4 DEF StartTransport
  <2>5. QED
    BY <2>3, <2>4
<1>4. Local(p)
  BY DEF Inv
<1>5. count > 0 => count = 1 /\ worker = p /\ pool \in {None, p}
  BY <1>3, <1>4 DEF Local, WorkerKnown, NeedsWorker
<1> HIDE DEF worker, pool, count
<1>6. [mem[p] EXCEPT !.pid = p, !.lock = None, !.worker = worker, !.pool = pool] \in Memory
  BY <1>2 DEF Memory
<1>7. [running[p] EXCEPT !.worker = count] \in Counts
  BY <1>2, <1>3 DEF Counts
<1>8. /\ mem'[p] = [mem[p] EXCEPT !.pid = p, !.lock = None, !.worker = worker,
                                  !.pool = pool]
      /\ running'[p] = [running[p] EXCEPT !.worker = count]
      /\ pc'[p] = [pc[p] EXCEPT ![t] = "idle"]
      /\ pc[p] \in [Threads -> Places]
      /\ \A q \in Processes \ {p} :
           mem'[q] = mem[q] /\ running'[q] = running[q] /\ pc'[q] = pc[q]
  BY <1>1, <1>3 DEF Inv, Types
<1>9. Types'
  BY <1>1, <1>6, <1>7, <1>8, <1>3, Here DEF Inv, Types, Places
<1>10. /\ mem'[p].lock = None /\ mem'[p].pid = p /\ mem'[p].worker = worker
       /\ mem'[p].pool = pool /\ mem'[p].timer = mem[p].timer
  BY <1>2, <1>8 DEF Memory
<1>11. /\ running'[p].worker = count
       /\ \A m \in Managers : running'[p][m] = running[p][m]
  BY <1>2, <1>8 DEF Counts, Managers
<1>12. Holders(p)'
  <2>1. \A u \in Threads \ {t} : pc[p][u] \notin AtWork
    BY <1>1, <1>4, OneAtWork DEF Local, AtWork, Places
  <2>2. QED
    BY <1>8, <1>10, <2>1, ClientAssumption DEF Holders, AtWork
<1>13. Unborn(p)' /\ WorkerKnown(p)' /\ NotStuck(p)'
  BY <1>1, <1>4, <1>5, <1>8, <1>10, <1>11 DEF Local, Unborn, WorkerKnown, NotStuck
<1>14. Timers(p)'
  BY <1>1, <1>4, <1>10, <1>11 DEF Local, Timers, TimersRun, CollectorKnown
<1>15. QED
  BY <1>1, <1>8, <1>9, <1>12, <1>13, <1>14, Elsewhere DEF Local

LEMMA OneLess == \A n \in Nat : n > 0 => n - 1 \in Nat
OBVIOUS

\* A timer is stopped: a thread ends only if it runs.
Stops(p, m) ==
  \/ UNCHANGED <<mem, running>>
  \/ /\ mem' = [mem EXCEPT ![p].timer[m] = "none"]
     /\ \/ /\ mem[p].timer[m] = "runs"
           /\ running' = [running EXCEPT ![p][m] = @ - 1]
        \/ UNCHANGED running

LEMMA StopTimerInv ==
  ASSUME Inv, NEW p \in Processes, NEW t \in Threads, NEW m \in Managers,
         NEW next \in {"stop config", "stop transport"},
         p \in alive, UNCHANGED alive,
         pc[p][t] \in {"stop metrics", "stop config"},
         pc' = [pc EXCEPT ![p][t] = next],
         Stops(p, m)
  PROVE  Inv'
<1>1. next \in AtWork /\ pc[p][t] \in AtWork /\ next # "stuck"
  BY DEF AtWork, Places
<1>2. mem[p] \in Memory /\ running[p] \in Counts
  BY Here
<1>3. [mem[p] EXCEPT !.timer[m] = "none"] \in Memory
  <2>1. [mem[p].timer EXCEPT ![m] = "none"] \in [Managers -> {"none", "runs", "dead"}]
    BY <1>2, MemoryFields
  <2>2. QED
    BY <1>2, <2>1 DEF Memory
<1>4. Local(p)
  BY DEF Inv
<1>5. mem[p].timer[m] = "runs" => [running[p] EXCEPT ![m] = @ - 1] \in Counts
  <2>1. mem[p].timer[m] = "runs" => running[p][m] - 1 \in Nat
    <3>1. running[p][m] \in Nat
      BY <1>2 DEF Counts, Managers
    <3>2. mem[p].timer[m] = "runs" => running[p][m] > 0
      BY <1>4 DEF Local, Timers, TimersRun
    <3>3. QED
      BY <3>1, <3>2, OneLess, Zenon
  <2>2. \A n \in Nat : [running[p] EXCEPT ![m] = n] \in Counts
    BY <1>2 DEF Counts, Managers
  <2>3. QED
    BY <2>1, <2>2
<1>6. Types'
  <2>1. mem' \in [Processes -> Memory]
    BY <1>3, Here DEF Inv, Types, Stops
  <2>2. running' \in [Processes -> Counts]
    BY <1>5, Here DEF Inv, Types, Stops
  <2>3. QED
    BY <1>1, <2>1, <2>2, Here DEF Inv, Types, AtWork
<1>7. /\ mem'[p] \in {mem[p], [mem[p] EXCEPT !.timer[m] = "none"]}
      /\ pc'[p][t] = next /\ \A u \in Threads \ {t} : pc'[p][u] = pc[p][u]
      /\ \A q \in Processes \ {p} :
           mem'[q] = mem[q] /\ running'[q] = running[q] /\ pc'[q] = pc[q]
  BY DEF Inv, Types, Stops
<1>8. /\ mem'[p].lock = mem[p].lock /\ mem'[p].pid = mem[p].pid
      /\ mem'[p].worker = mem[p].worker /\ mem'[p].pool = mem[p].pool
      /\ mem'[p].timer \in {mem[p].timer, [mem[p].timer EXCEPT ![m] = "none"]}
  BY <1>2, <1>7 DEF Memory
<1>9. \/ running' = running
      \/ /\ mem'[p].timer = [mem[p].timer EXCEPT ![m] = "none"]
         /\ running'[p] = [running[p] EXCEPT ![m] = @ - 1]
  <2>1. \/ running' = running
        \/ /\ mem' = [mem EXCEPT ![p].timer[m] = "none"]
           /\ running' = [running EXCEPT ![p][m] = @ - 1]
    BY DEF Stops
  <2>2. mem \in [Processes -> Memory] /\ running \in [Processes -> Counts]
    BY DEF Inv, Types
  <2>3. ASSUME mem' = [mem EXCEPT ![p].timer[m] = "none"],
               running' = [running EXCEPT ![p][m] = @ - 1]
        PROVE  /\ mem'[p].timer = [mem[p].timer EXCEPT ![m] = "none"]
               /\ running'[p] = [running[p] EXCEPT ![m] = @ - 1]
    <3>1. mem'[p] = [mem[p] EXCEPT !.timer[m] = "none"]
      BY <2>2, <2>3
    <3>2. mem'[p].timer = [mem[p].timer EXCEPT ![m] = "none"]
      BY <1>2, <3>1 DEF Memory
    <3>3. running'[p] = [running[p] EXCEPT ![m] = @ - 1]
      BY <2>2, <2>3
    <3>4. QED
      BY <3>2, <3>3
  <2>4. QED
    BY <2>1, <2>3
<1>10. /\ running'[p].worker = running[p].worker
       /\ \/ running' = running
          \/ /\ mem'[p].timer = [mem[p].timer EXCEPT ![m] = "none"]
             /\ \A n \in Managers \ {m} : running'[p][n] = running[p][n]
  <2>1. m \in {"metrics", "config"} /\ Managers = {"metrics", "config"}
    BY DEF Managers
  <2>2. [running[p] EXCEPT ![m] = @ - 1].worker = running[p].worker
    BY <1>2, <2>1 DEF Counts
  <2>3. \A n \in Managers \ {m} : [running[p] EXCEPT ![m] = @ - 1][n] = running[p][n]
    BY <1>2, <2>1 DEF Counts
  <2>4. QED
    BY <1>9, <2>2, <2>3
<1>11. Holders(p)'
  <2>1. Holders(p)
    BY <1>4 DEF Local
  <2>2. \A u \in Threads : pc'[p][u] \in AtWork <=> pc[p][u] \in AtWork
    BY <1>1, <1>7
  <2>3. mem'[p].lock = mem[p].lock
    BY <1>8
  <2>4. QED
    BY <2>1, <2>2, <2>3 DEF Holders
<1>12. Unborn(p)' /\ WorkerKnown(p)' /\ NotStuck(p)'
  BY <1>1, <1>4, <1>7, <1>8, <1>10 DEF Local, Unborn, WorkerKnown, NotStuck
<1>13. Timers(p)'
  <2>1. mem[p].timer \in [Managers -> {"none", "runs", "dead"}]
    BY <1>2, MemoryFields
  <2>2. \A n \in Managers : mem'[p].timer[n] = "runs" => mem[p].timer[n] = "runs"
    BY <1>8, <2>1
  <2>3. TimersRun(p)'
    BY <1>4, <1>8, <1>10, <2>1, <2>2 DEF Local, Timers, TimersRun
  <2>4. \A u \in Threads : pc[p][u] \in {"config", "transport"} => u # t
    OBVIOUS
  <2>5. CollectorKnown(p)'
    BY <1>4, <1>7, <1>8, <2>2, <2>4 DEF Local, Timers, CollectorKnown, Managers
  <2>6. QED
    BY <2>3, <2>5 DEF Timers
<1>14. QED
  BY <1>6, <1>7, <1>11, <1>12, <1>13, Elsewhere DEF Local

\* close finds the collector of its process only when _pid is right: whoever
\* started it has gone, since the lock is held.
LEMMA StopMetricsInv ==
  ASSUME Inv, NEW p \in Processes, NEW t \in Threads, StopMetrics(p, t)
  PROVE  Inv'
<1> USE DEF StopMetrics, HasCollector, At, Go
<1>1. mem[p].timer["metrics"] = "runs" => mem[p].pid = p
  <2>1. Holders(p) /\ CollectorKnown(p)
    BY DEF Inv, Local, Timers
  <2>2. pc[p][t] = "stop metrics" /\ pc[p][t] \in AtWork /\ p \in alive
    BY DEF AtWork, Places
  <2>3. \A u \in Threads : pc[p][u] \notin {"config", "transport"}
    BY <2>1, <2>2, OneAtWork DEF AtWork, Places
  <2>4. QED
    BY <2>1, <2>2, <2>3 DEF CollectorKnown
<1>2. "metrics" \in Managers
  BY DEF Managers
<1>3. QED
  BY <1>1, <1>2, StopTimerInv DEF Stops

LEMMA StopConfigInv ==
  ASSUME Inv, NEW p \in Processes, NEW t \in Threads, StopConfig(p, t)
  PROVE  Inv'
<1>1. "config" \in Managers
  BY DEF Managers
<1>2. QED
  BY <1>1, StopTimerInv DEF StopConfig, Stops, At, Go

LEMMA StopTransportInv ==
  ASSUME Inv, NEW p \in Processes, NEW t \in Threads, StopTransport(p, t)
  PROVE  Inv'
<1> DEFINE closed == mem[p].closed \/ mem[p].worker = p
           pool == IF mem[p].worker = p /\ ~mem[p].closed THEN None ELSE mem[p].pool
<1>1. /\ p \in alive /\ pc[p][t] = "stop transport" /\ UNCHANGED <<alive, running>>
      /\ mem' = [mem EXCEPT ![p].lock = None, ![p].closed = closed, ![p].pool = pool]
      /\ pc' = [pc EXCEPT ![p][t] = "idle"]
  BY DEF StopTransport, At, Go
<1>2. /\ mem[p] \in Memory
      /\ closed \in BOOLEAN /\ pool \in Processes \cup {None}
  BY <1>1, Here, MemoryFields
<1>3. pool \in {mem[p].pool, None}
  OBVIOUS
<1> HIDE DEF closed, pool
<1>4. [mem[p] EXCEPT !.lock = None, !.closed = closed, !.pool = pool] \in Memory
  BY <1>2 DEF Memory
<1>5. /\ mem'[p] = [mem[p] EXCEPT !.lock = None, !.closed = closed, !.pool = pool]
      /\ pc'[p][t] = "idle" /\ \A u \in Threads \ {t} : pc'[p][u] = pc[p][u]
      /\ \A q \in Processes \ {p} : mem'[q] = mem[q] /\ pc'[q] = pc[q]
  BY <1>1 DEF Inv, Types
<1>6. Types'
  BY <1>1, <1>4, Here DEF Inv, Types, Places
<1>7. /\ mem'[p].lock = None /\ mem'[p].pid = mem[p].pid
      /\ mem'[p].worker = mem[p].worker /\ mem'[p].pool = pool
      /\ mem'[p].timer = mem[p].timer
  BY <1>2, <1>5 DEF Memory
<1>8. Local(p)
  BY DEF Inv
<1>9. Holders(p)'
  <2>1. \A u \in Threads \ {t} : pc[p][u] \notin AtWork
    BY <1>1, <1>8, OneAtWork DEF Local, AtWork, Places
  <2>2. QED
    BY <1>5, <1>7, <2>1, ClientAssumption DEF Holders, AtWork
<1>10. Unborn(p)' /\ WorkerKnown(p)' /\ NotStuck(p)'
  BY <1>1, <1>3, <1>5, <1>7, <1>8 DEF Local, Unborn, WorkerKnown, NotStuck
<1>11. Timers(p)'
  <2>1. \A u \in Threads : pc[p][u] \in {"config", "transport"} => u # t
    BY <1>1
  <2>2. QED
    BY <1>1, <1>5, <1>7, <1>8, <2>1 DEF Local, Timers, TimersRun, CollectorKnown
<1>12. QED
  BY <1>1, <1>5, <1>6, <1>9, <1>10, <1>11, Elsewhere DEF Local

LEMMA WorkerEndsInv ==
  ASSUME Inv, NEW p \in Processes, WorkerEnds(p)
  PROVE  Inv'
<1> USE DEF WorkerEnds
<1>1. Local(p)
  BY DEF Inv
<1>2. running[p] \in Counts /\ running[p].worker = 1
  BY <1>1 DEF Inv, Types, Local, WorkerKnown
<1>3. [running[p] EXCEPT !.worker = 0] \in Counts
  BY <1>2 DEF Counts
<1>4. /\ running' = [running EXCEPT ![p].worker = 0]
      /\ running'[p] = [running[p] EXCEPT !.worker = 0]
      /\ \A q \in Processes \ {p} : running'[q] = running[q]
  BY <1>2 DEF Inv, Types
<1>5. Types'
  BY <1>3, <1>4 DEF Inv, Types
<1>6. running'[p].worker = 0 /\ \A m \in Managers : running'[p][m] = running[p][m]
  BY <1>2, <1>4 DEF Counts, Managers
<1>7. p \in alive
  BY <1>1, <1>2 DEF Local, Unborn, ThreadCount
<1>8. Holders(p)' /\ NotStuck(p)'
  BY <1>1 DEF Local, Holders, NotStuck
<1>9. Unborn(p)' /\ WorkerKnown(p)'
  BY <1>6, <1>7 DEF Unborn, WorkerKnown
<1>10. Timers(p)'
  BY <1>1, <1>6 DEF Local, Timers, TimersRun, CollectorKnown
<1>11. QED
  BY <1>4, <1>5, <1>8, <1>9, <1>10, Elsewhere DEF Local

LEMMA ConnectInv ==
  ASSUME Inv, NEW p \in Processes, Connect(p)
  PROVE  Inv'
<1> USE DEF Connect
<1>1. Local(p)
  BY DEF Inv
<1>2. mem[p] \in Memory /\ [mem[p] EXCEPT !.pool = p] \in Memory
  <2>1. mem[p] \in Memory
    BY DEF Inv, Types
  <2>2. QED
    BY <2>1 DEF Memory
<1>3. /\ mem'[p] = [mem[p] EXCEPT !.pool = p]
      /\ \A q \in Processes \ {p} : mem'[q] = mem[q]
  BY DEF Inv, Types
<1>4. Types'
  BY <1>2 DEF Inv, Types
<1>5. /\ mem'[p].lock = mem[p].lock /\ mem'[p].pid = mem[p].pid
      /\ mem'[p].worker = mem[p].worker /\ mem'[p].pool = p
      /\ mem'[p].timer = mem[p].timer
  BY <1>2, <1>3 DEF Memory
<1>6. Holders(p)' /\ NotStuck(p)'
  BY <1>1, <1>5 DEF Local, Holders, NotStuck
<1>7. Unborn(p)' /\ WorkerKnown(p)'
  BY <1>1, <1>5 DEF Local, Unborn, WorkerKnown
<1>8. Timers(p)'
  BY <1>1, <1>5 DEF Local, Timers, TimersRun, CollectorKnown
<1>9. QED
  BY <1>3, <1>4, <1>6, <1>7, <1>8, Elsewhere DEF Local

LEMMA NextInv == Inv /\ [Next]_vars => Inv'
<1> SUFFICES ASSUME Inv, [Next]_vars PROVE Inv'
  OBVIOUS
<1>1. ASSUME NEW p \in Processes, NEW c \in Processes, NEW t \in Threads, Fork(p, c, t)
      PROVE  Inv'
  BY <1>1, ForkInv
<1>2. ASSUME NEW p \in Processes, NEW t \in Threads,
             StartTimer(p, t, "metrics", "config") \/ StartTimer(p, t, "config", "transport")
      PROVE  Inv'
  BY <1>2, StartTimerInv DEF Managers
<1>3. ASSUME NEW p \in Processes, NEW t \in Threads,
             \/ StartThreads(p, t) \/ Lock(p, t) \/ StartTransport(p, t)
             \/ Close(p, t) \/ StopMetrics(p, t) \/ StopConfig(p, t)
             \/ StopTransport(p, t)
      PROVE  Inv'
  BY <1>3, StartThreadsInv, LockInv, StartTransportInv, StopMetricsInv,
     StopConfigInv, StopTransportInv
<1>4. ASSUME NEW p \in Processes, WorkerEnds(p) \/ Connect(p)
      PROVE  Inv'
  BY <1>4, WorkerEndsInv, ConnectInv
<1>5. CASE UNCHANGED vars
  BY <1>5 DEF vars, Inv, Types, Local, Holders, Unborn, Timers, TimersRun,
              CollectorKnown, WorkerKnown, NotStuck
<1>6. QED
  BY <1>1, <1>2, <1>3, <1>4, <1>5 DEF Next

-----------------------------------------------------------------------------
\* The memory of every process stays well-formed, and in none of them, forked
\* at whatever moment, does more than one thread hold the lock.
THEOREM LockIsHeld == Spec => []TypeOK
<1>1. QED
  BY InitInv, NextInv, InvImplies, PTL DEF Spec

\* However many threads race to start the managers after a fork, the transport
\* of a process has one worker at most.
THEOREM WorkerIsAlone == Spec => []OneWorker
<1>1. QED
  BY InitInv, NextInv, InvImplies, PTL DEF Spec

\* No worker uses connections that were copied by a fork.
THEOREM WorkerHasItsPool == Spec => []WorkerOwnsPool
<1>1. QED
  BY InitInv, NextInv, InvImplies, PTL DEF Spec

\* close never waits for the lock that it holds, in a forked child neither.
THEOREM CloseReturns == Spec => []CloseNotStuck
<1>1. QED
  BY InitInv, NextInv, InvImplies, PTL DEF Spec

-----------------------------------------------------------------------------
(***************************************************************************)
(* The connections of the updater.  UpdaterOwnsPool does not hold, but     *)
(* only where the client had been closed before the fork.                  *)
(***************************************************************************)
\* close marks a client as closed in the process of its worker: whoever finds it
\* closed with another's worker was forked after that.
ClosedBeforeFork(p) == mem[p].closed /\ mem[p].worker # p

\* No updater sends on a connection that another process opened, unless the
\* client was closed before the fork.
UpdaterOwnsPoolIfOpen ==
  \A p \in Processes :
    Updates(p) => mem[p].pool \in {None, p} \/ ClosedBeforeFork(p)

\* A process whose worker is its own has no connections of others, and the one
\* that starts an updater is on its way to start a worker.
Starting(p) == \E t \in Threads : pc[p][t] = "transport"
PoolKnown(p) ==
  p \in alive =>
    /\ mem[p].worker \in alive
    /\ mem[p].worker = p => mem[p].pool \in {None, p}
    /\ running[p].config > 0 => mem[p].worker = p \/ mem[p].closed \/ Starting(p)
PoolInv == Inv /\ \A p \in Processes : PoolKnown(p)

LEMMA InitPool == Init => PoolInv
<1> SUFFICES ASSUME Init PROVE PoolInv
  OBVIOUS
<1>1. ASSUME NEW p \in Processes PROVE PoolKnown(p)
  BY ClientAssumption DEF Init, PoolKnown, Constructed
<1>2. QED
  BY <1>1, InitInv DEF PoolInv

LEMMA PoolImplies == PoolInv => UpdaterOwnsPoolIfOpen
BY DEF PoolInv, PoolKnown, Starting, UpdaterOwnsPoolIfOpen, ClosedBeforeFork,
       Updates, Inv, Local, Unborn, ThreadCount

\* A step of one process that starts no worker and adds no connections but its own.
LEMMA PoolStays ==
  ASSUME PoolInv, Inv', NEW p \in Processes, UNCHANGED alive,
         \A q \in Processes \ {p} :
           mem'[q] = mem[q] /\ running'[q] = running[q] /\ pc'[q] = pc[q],
         mem'[p].worker = mem[p].worker,
         mem'[p].pool \in {mem[p].pool, None, p},
         mem[p].closed => mem'[p].closed,
         Starting(p) => Starting(p)',
         running'[p].config > 0 => running[p].config > 0 \/ Starting(p)'
  PROVE  PoolInv'
<1>1. ASSUME NEW q \in Processes, q # p
      PROVE  PoolKnown(q)'
  BY <1>1 DEF PoolInv, PoolKnown, Starting
<1>2. PoolKnown(p)'
  BY DEF PoolInv, PoolKnown
<1>3. QED
  BY <1>1, <1>2 DEF PoolInv

LEMMA ForkPool ==
  ASSUME PoolInv, Inv', NEW p \in Processes, NEW c \in Processes, NEW t \in Threads,
         Fork(p, c, t)
  PROVE  PoolInv'
<1>1. /\ c \notin alive /\ p \in alive /\ alive' = alive \cup {c}
      /\ UNCHANGED <<running, pc>>
  BY DEF Fork, At
<1>2. mem \in [Processes -> Memory] /\ mem[p] \in Memory
  BY DEF PoolInv, Inv, Types
<1>3. mem'[c] = Copied(mem[p]) /\ \A q \in Processes \ {c} : mem'[q] = mem[q]
  BY <1>2 DEF Fork
<1>4. mem'[c].worker = mem[p].worker
  BY <1>2, <1>3 DEF Copied, Memory
<1>5. mem[p].worker \in alive
  BY <1>1 DEF PoolInv, PoolKnown
<1>6. PoolKnown(c)'
  <2>1. running'[c].config = 0
    BY <1>1 DEF PoolInv, Inv, Local, Unborn, ThreadCount
  <2>2. QED
    BY <1>1, <1>4, <1>5, <2>1 DEF PoolKnown
<1>7. ASSUME NEW q \in Processes, q # c
      PROVE  PoolKnown(q)'
  BY <1>1, <1>3, <1>7 DEF PoolInv, PoolKnown, Starting
<1>8. QED
  BY <1>6, <1>7 DEF PoolInv

LEMMA StartTransportPool ==
  ASSUME PoolInv, Inv', NEW p \in Processes, NEW t \in Threads, StartTransport(p, t)
  PROVE  PoolInv'
<1> DEFINE worker == IF NeedsWorker(p) THEN p ELSE mem[p].worker
           pool == IF NeedsWorker(p) THEN None ELSE mem[p].pool
<1>1. /\ p \in alive /\ UNCHANGED alive
      /\ mem' = [mem EXCEPT ![p].pid = p, ![p].lock = None, ![p].worker = worker,
                            ![p].pool = pool]
      /\ pc' = [pc EXCEPT ![p][t] = "idle"]
  BY DEF StartTransport, PoolAfterFork, At, Go
<1>2. mem \in [Processes -> Memory] /\ mem[p] \in Memory
  BY DEF PoolInv, Inv, Types
<1>3. /\ worker \in alive
      /\ worker = p => pool \in {None, p}
      /\ worker = p \/ mem[p].closed
  BY <1>1 DEF PoolInv, PoolKnown, NeedsWorker
<1> HIDE DEF worker, pool
<1>4. /\ mem'[p] = [mem[p] EXCEPT !.pid = p, !.lock = None, !.worker = worker,
                                  !.pool = pool]
      /\ \A q \in Processes \ {p} : mem'[q] = mem[q]
  BY <1>1, <1>2
<1>5. mem'[p].worker = worker /\ mem'[p].pool = pool /\ mem'[p].closed = mem[p].closed
  BY <1>2, <1>4 DEF Memory
<1>6. PoolKnown(p)'
  BY <1>1, <1>3, <1>5 DEF PoolKnown
<1>7. ASSUME NEW q \in Processes, q # p
      PROVE  PoolKnown(q)'
  <2>1. running'[q] = running[q] /\ pc'[q] = pc[q]
    BY <1>7 DEF StartTransport, Go, PoolInv, Inv, Types
  <2>2. mem'[q] = mem[q] /\ PoolKnown(q)
    BY <1>4, <1>7 DEF PoolInv
  <2>3. Starting(q)' <=> Starting(q)
    BY <2>1 DEF Starting
  <2>4. UNCHANGED alive
    BY <1>1
  <2>5. QED
    BY <2>1, <2>2, <2>3, <2>4 DEF PoolKnown
<1>8. QED
  BY <1>6, <1>7 DEF PoolInv

\* A thread of p goes from l to next.
LEMMA PoolGo ==
  ASSUME Inv, NEW p \in Processes, NEW t \in Threads, NEW l, NEW next,
         At(p, t, l), Go(p, t, next), l # "transport"
  PROVE  /\ Starting(p) => Starting(p)'
         /\ next = "transport" => Starting(p)'
         /\ \A q \in Processes \ {p} : pc'[q] = pc[q]
<1>1. /\ pc'[p] = [pc[p] EXCEPT ![t] = next] /\ pc[p] \in [Threads -> Places]
      /\ \A q \in Processes \ {p} : pc'[q] = pc[q]
  BY DEF Inv, Types, Go
<1>2. QED
  BY <1>1 DEF Starting, At

LEMMA WaitOrLockPool ==
  ASSUME PoolInv, Inv', NEW p \in Processes, NEW t \in Threads,
         StartThreads(p, t) \/ Lock(p, t) \/ Close(p, t)
  PROVE  PoolInv'
<1>1. Inv /\ mem \in [Processes -> Memory] /\ mem[p] \in Memory
  BY DEF PoolInv, Inv, Types
<1>2. PICK l \in {"idle", "lock"}, next \in {"lock", "metrics", "stop metrics"} :
        At(p, t, l) /\ Go(p, t, next)
  BY DEF StartThreads, Lock, Close
<1>3. /\ Starting(p) => Starting(p)'
      /\ \A q \in Processes \ {p} : pc'[q] = pc[q]
  <2>1. l # "transport"
    OBVIOUS
  <2>2. QED
    BY <1>1, <1>2, <2>1, PoolGo
<1>4. /\ UNCHANGED <<alive, running>>
      /\ mem' \in {mem, [mem EXCEPT ![p].lock = t]}
  BY DEF StartThreads, Lock, Close
<1>5. /\ mem'[p].worker = mem[p].worker /\ mem'[p].pool = mem[p].pool
      /\ mem'[p].closed = mem[p].closed
      /\ \A q \in Processes \ {p} : mem'[q] = mem[q]
  BY <1>1, <1>4 DEF Memory
<1>6. QED
  BY <1>3, <1>4, <1>5, PoolStays

\* Who has started the updater goes on to start the worker.
LEMMA StartTimerPool ==
  ASSUME PoolInv, Inv', NEW p \in Processes, NEW t \in Threads,
         \/ StartTimer(p, t, "metrics", "config")
         \/ StartTimer(p, t, "config", "transport")
  PROVE  PoolInv'
<1>1. /\ Inv /\ mem \in [Processes -> Memory] /\ mem[p] \in Memory
      /\ running \in [Processes -> Counts] /\ running[p] \in Counts
  BY DEF PoolInv, Inv, Types
<1>2. PICK m \in Managers, next \in {"config", "transport"} :
        StartTimer(p, t, m, next) /\ (m = "config" => next = "transport")
  BY DEF Managers
<1>3. /\ Starting(p) => Starting(p)'
      /\ next = "transport" => Starting(p)'
      /\ \A q \in Processes \ {p} : pc'[q] = pc[q]
  <2>1. At(p, t, m) /\ Go(p, t, next) /\ m # "transport"
    BY <1>2 DEF StartTimer, Managers
  <2>2. QED
    BY <1>1, <2>1, PoolGo
<1>4. /\ UNCHANGED alive
      /\ mem' = [mem EXCEPT ![p].timer[m] = "runs"]
      /\ running' = [running EXCEPT ![p][m] = @ + 1]
  BY <1>2 DEF StartTimer
<1>5. /\ mem'[p].worker = mem[p].worker /\ mem'[p].pool = mem[p].pool
      /\ mem'[p].closed = mem[p].closed
      /\ \A q \in Processes \ {p} : mem'[q] = mem[q] /\ running'[q] = running[q]
  BY <1>1, <1>4 DEF Memory
<1>6. m # "config" => running'[p].config = running[p].config
  <2>1. running'[p] = [running[p] EXCEPT ![m] = @ + 1]
    BY <1>1, <1>4
  <2>2. QED
    BY <1>1, <2>1 DEF Counts, Managers
<1>7. QED
  BY <1>2, <1>3, <1>4, <1>5, <1>6, PoolStays

\* What was one more was above zero.
LEMMA LessPositive == \A n \in Nat : n - 1 > 0 => n > 0
OBVIOUS

LEMMA StopPool ==
  ASSUME PoolInv, Inv', NEW p \in Processes, NEW t \in Threads,
         StopMetrics(p, t) \/ StopConfig(p, t)
  PROVE  PoolInv'
<1>1. /\ Inv /\ mem \in [Processes -> Memory] /\ mem[p] \in Memory
      /\ running \in [Processes -> Counts] /\ running[p] \in Counts
  BY DEF PoolInv, Inv, Types
<1>2. PICK l \in {"stop metrics", "stop config"},
           next \in {"stop config", "stop transport", "stuck"} :
        At(p, t, l) /\ Go(p, t, next)
  BY DEF StopMetrics, StopConfig
<1>3. /\ Starting(p) => Starting(p)'
      /\ \A q \in Processes \ {p} : pc'[q] = pc[q]
  <2>1. l # "transport"
    OBVIOUS
  <2>2. QED
    BY <1>1, <1>2, <2>1, PoolGo
<1>4. PICK m \in Managers :
        /\ UNCHANGED alive
        /\ mem' \in {mem, [mem EXCEPT ![p].timer[m] = "none"]}
        /\ running' \in {running, [running EXCEPT ![p][m] = @ - 1]}
  <2>1. StopMetrics(p, t) =>
          /\ UNCHANGED alive
          /\ mem' \in {mem, [mem EXCEPT ![p].timer["metrics"] = "none"]}
          /\ running' \in {running, [running EXCEPT ![p]["metrics"] = @ - 1]}
    BY DEF StopMetrics
  <2>2. StopConfig(p, t) =>
          /\ UNCHANGED alive
          /\ mem' \in {mem, [mem EXCEPT ![p].timer["config"] = "none"]}
          /\ running' \in {running, [running EXCEPT ![p]["config"] = @ - 1]}
    BY DEF StopConfig
  <2>3. QED
    BY <2>1, <2>2 DEF Managers
<1>5. /\ mem'[p].worker = mem[p].worker /\ mem'[p].pool = mem[p].pool
      /\ mem'[p].closed = mem[p].closed
      /\ \A q \in Processes \ {p} : mem'[q] = mem[q] /\ running'[q] = running[q]
  BY <1>1, <1>4 DEF Memory
<1>6. running'[p].config > 0 => running[p].config > 0
  <2>1. running'[p] = running[p] \/ running'[p] = [running[p] EXCEPT ![m] = @ - 1]
    BY <1>1, <1>4
  <2>2. \/ running'[p].config = running[p].config
        \/ running'[p].config = running[p].config - 1
    BY <1>1, <2>1 DEF Counts, Managers
  <2>3. running[p].config \in Nat
    BY <1>1 DEF Counts
  <2>4. QED
    BY <2>2, <2>3, LessPositive, Zenon
<1>7. QED
  BY <1>3, <1>4, <1>5, <1>6, PoolStays

LEMMA StopTransportPool ==
  ASSUME PoolInv, Inv', NEW p \in Processes, NEW t \in Threads, StopTransport(p, t)
  PROVE  PoolInv'
<1> DEFINE closed == mem[p].closed \/ mem[p].worker = p
           pool == IF mem[p].worker = p /\ ~mem[p].closed THEN None ELSE mem[p].pool
<1>1. /\ Inv /\ mem \in [Processes -> Memory] /\ mem[p] \in Memory
  BY DEF PoolInv, Inv, Types
<1>2. /\ UNCHANGED <<alive, running>>
      /\ mem' = [mem EXCEPT ![p].lock = None, ![p].closed = closed, ![p].pool = pool]
      /\ At(p, t, "stop transport") /\ Go(p, t, "idle")
  BY DEF StopTransport
<1>3. pool \in {mem[p].pool, None} /\ (mem[p].closed => closed)
  OBVIOUS
<1> HIDE DEF closed, pool
<1>4. /\ Starting(p) => Starting(p)'
      /\ \A q \in Processes \ {p} : pc'[q] = pc[q]
  BY <1>1, <1>2, PoolGo
<1>5. /\ mem'[p] = [mem[p] EXCEPT !.lock = None, !.closed = closed, !.pool = pool]
      /\ \A q \in Processes \ {p} : mem'[q] = mem[q]
  BY <1>1, <1>2
<1>6. mem'[p].worker = mem[p].worker /\ mem'[p].pool = pool /\ mem'[p].closed = closed
  BY <1>1, <1>5 DEF Memory
<1>7. QED
  BY <1>2, <1>3, <1>4, <1>5, <1>6, PoolStays

LEMMA ThreadsPool ==
  ASSUME PoolInv, Inv', NEW p \in Processes, WorkerEnds(p) \/ Connect(p)
  PROVE  PoolInv'
<1>1. /\ Inv /\ mem \in [Processes -> Memory] /\ mem[p] \in Memory
      /\ running \in [Processes -> Counts] /\ running[p] \in Counts
  BY DEF PoolInv, Inv, Types
<1>2. /\ UNCHANGED <<alive, pc>>
      /\ mem' \in {mem, [mem EXCEPT ![p].pool = p]}
      /\ running' \in {running, [running EXCEPT ![p].worker = @ - 1]}
  BY DEF WorkerEnds, Connect
<1>3. Starting(p) => Starting(p)'
  BY <1>2 DEF Starting
<1>4. /\ mem'[p].worker = mem[p].worker /\ mem'[p].pool \in {mem[p].pool, p}
      /\ mem'[p].closed = mem[p].closed
      /\ running'[p].config = running[p].config
      /\ \A q \in Processes \ {p} : mem'[q] = mem[q] /\ running'[q] = running[q]
  BY <1>1, <1>2 DEF Memory, Counts
<1>5. QED
  BY <1>2, <1>3, <1>4, PoolStays

LEMMA NextPool == PoolInv /\ [Next]_vars => PoolInv'
<1> SUFFICES ASSUME PoolInv, [Next]_vars PROVE PoolInv'
  OBVIOUS
<1>1. Inv'
  BY NextInv DEF PoolInv
<1>2. ASSUME NEW p \in Processes, NEW c \in Processes, NEW t \in Threads, Fork(p, c, t)
      PROVE  PoolInv'
  BY <1>1, <1>2, ForkPool
<1>3. ASSUME NEW p \in Processes, NEW t \in Threads,
             StartThreads(p, t) \/ Lock(p, t) \/ Close(p, t)
      PROVE  PoolInv'
  BY <1>1, <1>3, WaitOrLockPool
<1>4. ASSUME NEW p \in Processes, NEW t \in Threads,
             \/ StartTimer(p, t, "metrics", "config")
             \/ StartTimer(p, t, "config", "transport")
      PROVE  PoolInv'
  BY <1>1, <1>4, StartTimerPool
<1>5. ASSUME NEW p \in Processes, NEW t \in Threads,
             StartTransport(p, t) \/ StopTransport(p, t)
      PROVE  PoolInv'
  BY <1>1, <1>5, StartTransportPool, StopTransportPool
<1>6. ASSUME NEW p \in Processes, NEW t \in Threads,
             StopMetrics(p, t) \/ StopConfig(p, t)
      PROVE  PoolInv'
  BY <1>1, <1>6, StopPool
<1>7. ASSUME NEW p \in Processes, WorkerEnds(p) \/ Connect(p)
      PROVE  PoolInv'
  BY <1>1, <1>7, ThreadsPool
<1>8. CASE UNCHANGED vars
  BY <1>1, <1>8 DEF vars, PoolInv, PoolKnown, Starting
<1>9. QED
  BY <1>2, <1>3, <1>4, <1>5, <1>6, <1>7, <1>8 DEF Next

\* What UpdaterOwnsPool states is true of every process that was forked while the
\* client was open: the updater has no connections of others, since the worker,
\* for whose start handle_fork drops them, is started with it.
THEOREM UpdaterHasItsPool == Spec => []UpdaterOwnsPoolIfOpen
<1>1. QED
  BY InitPool, NextPool, PoolImplies, PTL DEF Spec
=============================================================================
