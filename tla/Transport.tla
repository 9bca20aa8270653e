----------------------------- MODULE Transport ------------------------------
(***************************************************************************)
(* The event transport of the agent (elasticapm/transport/base.py):        *)
(* application threads put messages on a bounded ChilledQueue, one worker  *)
(* thread (_process_queue) collects them in a buffer and sends the buffer  *)
(* to the APM server, and flush() and close() wait on the event _flushed.  *)
(*                                                                         *)
(* A step of a thread is what it does under one lock: Event.clear, a put,  *)
(* a get, Event.set.  What the worker does between two such steps is local *)
(* to it and is part of the step before.  Time is abstracted to what the   *)
(* code compares: due says that max_flush_time has elapsed since           *)
(* _last_flush, the age of the last unchill is a free choice of put, and   *)
(* should_try of a transport in the state ERROR is a free choice (the      *)
(* module Backoff has the clock behind it).                                *)
(*                                                                         *)
(* A definition called MutantX is not part of the specification: it is X   *)
(* with a bug, which a property has to find when it takes the place of X.  *)
(***************************************************************************)
EXTENDS Naturals, SequencesExt

CONSTANTS
  Events,          \* the events the application queues, each one once
  Threads,         \* the application threads
  None,            \* Python's None
  Metadata,        \* the metadata line of a payload
  MaxQueue,        \* maxsize of the queue (10000 in the code)
  ChillUntil,      \* queue_chill_count
  MaxBuffer,       \* api_request_size, in lines; 0 is no limit
  FlushTimes,      \* TRUE: api_request_time may be positive, FALSE: it may be 0
  LocalServer,     \* server_url is local (a Lambda extension)
  Unserializable   \* events on which json_serializer raises

ASSUME TransportAssumption ==
  /\ MaxQueue \in Nat \ {0}
  /\ ChillUntil \in Nat
  /\ MaxBuffer \in Nat
  /\ FlushTimes \in (SUBSET BOOLEAN) \ {{}}
  /\ LocalServer \in BOOLEAN
  /\ Unserializable \subseteq Events
  /\ None \notin Events
  /\ Metadata \notin Events

VARIABLES
  queue,       \* _event_queue: the messages in it
  notified,    \* not_empty was notified while the worker waits on it
  flushed,     \* the flag of the event _flushed
  closed,      \* _closed
  call,        \* the call of queue, flush or close each thread is in
  wpc,         \* where the worker thread is
  buffer,      \* lines written to the gzip buffer
  final,       \* the worker's current round handles "close"
  timed,       \* max_flush_time is not None: get has a timeout
  due,         \* max_flush_time has elapsed since _last_flush
  online,      \* state.status = ONLINE
  used,        \* history: events given to queue()
  accepted,    \* history: events put on the queue, oldest first
  received,    \* history: payloads the server received, oldest first
  lost,        \* history: accepted events that were given up or died with the worker
  beforeClose  \* history: events accepted before "close" was put

workerVars == <<wpc, buffer, final, timed>>
vars == <<queue, notified, flushed, closed, call, wpc, buffer, final, timed,
          due, online, used, accepted, received, lost, beforeClose>>

(***************************************************************************)
(* Messages.                                                               *)
(***************************************************************************)
DataMsg(e, f) == [kind |-> "data", event |-> e, flush |-> f]
FlushMsg == [kind |-> "flush", event |-> None, flush |-> TRUE]
CloseMsg == [kind |-> "close", event |-> None, flush |-> FALSE]

Message == [kind : {"data"}, event : Events, flush : BOOLEAN]
             \cup {FlushMsg, CloseMsg}

\* The messages that are put with chill = False.
Urgent(m) == m.flush \/ m.kind = "close"

\* A "close" was put: it is in the queue or the worker has got it.
CloseOnItsWay ==
  \/ final
  \/ \E i \in DOMAIN queue : queue[i].kind = "close"

Accepted == Range(accepted)
Queued == {queue[i].event : i \in DOMAIN queue} \cap Events
Buffered == Range(buffer) \cap Events
Received == {e \in Events : \E i \in DOMAIN received : e \in Range(received[i])}

\* A call in progress: where it is, what it puts, and two history fields: the
\* events that were on the queue when it began, and whether the worker has set
\* _flushed since the call cleared it.
Call == [at : {"idle", "closing", "put", "wait", "asleep"}, msg : Message,
         pending : SUBSET Events, round : BOOLEAN]

Calling(at, m, p) == [at |-> at, msg |-> m, pending |-> p, round |-> FALSE]
Idle == Calling("idle", FlushMsg, {})

Init ==
  /\ queue = <<>>
  /\ notified = FALSE
  /\ flushed = FALSE
  /\ closed = FALSE
  /\ call = [t \in Threads |-> Idle]
  /\ wpc = "off"
  /\ buffer = <<>>
  /\ final = FALSE
  /\ timed \in FlushTimes
  /\ due = FALSE
  /\ online = TRUE
  /\ used = {}
  /\ accepted = <<>>
  /\ received = <<>>
  /\ lost = {}
  /\ beforeClose = {}

(***************************************************************************)
(* Application threads.  queue() first clears _flushed and then puts.      *)
(***************************************************************************)
MutantClear(t, m, p) ==
  /\ flushed' = flushed
  /\ call' = [call EXCEPT ![t] = Calling("put", m, p)]
  /\ UNCHANGED <<queue, notified, workerVars, due, online, accepted,
                 received, lost, beforeClose>>

Clear(t, m, p) ==
  /\ flushed' = FALSE
  /\ call' = [call EXCEPT ![t] = Calling("put", m, p)]
  /\ UNCHANGED <<queue, notified, workerVars, due, online, accepted,
                 received, lost, beforeClose>>

\* Client.queue(event_type, data, flush); flush is set for an unhandled
\* exception.
QueueEvent(t, e, f) ==
  /\ call[t].at = "idle"
  /\ e \notin used
  /\ used' = used \cup {e}
  /\ Clear(t, DataMsg(e, f), {})
  /\ UNCHANGED closed

Flush(t) ==
  /\ call[t].at = "idle"
  /\ Clear(t, FlushMsg, Queued)
  /\ UNCHANGED <<closed, used>>

\* close() returns at once unless there is a thread and _closed is not set.
CloseCheck(t) ==
  /\ call[t].at = "idle"
  /\ ~closed
  /\ wpc # "off"
  /\ call' = [call EXCEPT ![t] = Calling("closing", CloseMsg, {})]
  /\ UNCHANGED <<queue, notified, flushed, closed, workerVars, due, online,
                 used, accepted, received, lost, beforeClose>>

CloseSet(t) ==
  /\ call[t].at = "closing"
  /\ closed' = TRUE
  /\ Clear(t, CloseMsg, {})
  /\ UNCHANGED used

\* queue() is over; flush() and close() go on to wait.
AfterPut(t) ==
  /\ call[t].at = "put"
  /\ call' = [call EXCEPT ![t] =
                IF @.msg.kind = "data" THEN Idle ELSE [@ EXCEPT !.at = "wait"]]
  /\ UNCHANGED <<flushed, closed, workerVars, due, online, used, received,
                 lost>>

\* _qsize() >= maxsize is what put(block=False) tests.
MutantHasRoom == Len(queue) <= MaxQueue
HasRoom == Len(queue) < MaxQueue

\* The put of m notifies not_empty; cold: more than max_chill_time has passed
\* since the last unchill.
MutantWakes(m, cold) == Len(queue) + 1 > ChillUntil \/ cold
Wakes(m, cold) == Urgent(m) \/ Len(queue) + 1 > ChillUntil \/ cold

\* put raises Full, which queue() logs: the message is dropped.
PutFull(t) ==
  /\ ~HasRoom
  /\ AfterPut(t)
  /\ UNCHANGED <<queue, notified, accepted, beforeClose>>

Put(t) ==
  /\ HasRoom
  /\ AfterPut(t)
  /\ LET m == call[t].msg
     IN  /\ queue' = Append(queue, m)
         /\ \E cold \in BOOLEAN :
              notified' = (notified \/ (Wakes(m, cold) /\ wpc = "waiting"))
         /\ accepted' = IF m.kind = "data" THEN Append(accepted, m.event)
                          ELSE accepted
         /\ beforeClose' = IF m.kind = "close" /\ ~CloseOnItsWay
                             THEN Accepted ELSE beforeClose

\* _flushed.wait returns at once when the flag is set.
WaitCheck(t) ==
  /\ call[t].at = "wait"
  /\ call' = [call EXCEPT ![t] =
                IF flushed THEN Idle ELSE [@ EXCEPT !.at = "asleep"]]
  /\ UNCHANGED <<queue, notified, flushed, closed, workerVars, due, online,
                 used, accepted, received, lost, beforeClose>>

\* The wait times out: flush() raises ValueError, close() logs an error.
WaitTimeout(t) ==
  /\ call[t].at = "asleep"
  /\ call' = [call EXCEPT ![t] = Idle]
  /\ UNCHANGED <<queue, notified, flushed, closed, workerVars, due, online,
                 used, accepted, received, lost, beforeClose>>

\* start_thread: nothing is done when there is a thread or _closed is set.
\* The thread may fail to start, or die before it reaches its loop; _thread
\* stays set all the same.
StartThread ==
  /\ wpc = "off"
  /\ ~closed
  /\ wpc' \in {"loop", "dead"}
  /\ UNCHANGED <<queue, notified, flushed, closed, buffer, final,
                 timed, due, online, call, used, accepted, received,
                 lost, beforeClose>>

(***************************************************************************)
(* The worker thread, _process_queue.                                      *)
(***************************************************************************)
TimePasses ==
  /\ timed
  /\ ~due
  /\ due' = TRUE
  /\ UNCHANGED <<queue, notified, flushed, closed, workerVars, online,
                 call, used, accepted, received, lost, beforeClose>>

\* The end of a round with the buffer b: f is the message's flush flag,
\* timedOut says that the get timed out or was called with timeout 0.
MutantDecide(b, f, timedOut) ==
  /\ buffer' = b
  /\ final' = FALSE
  /\ wpc' = IF f \/ (MaxBuffer > 0 /\ Len(b) > MaxBuffer) THEN "flush" ELSE "loop"

Decide(b, f, timedOut) ==
  /\ buffer' = b
  /\ final' = FALSE
  /\ wpc' = IF f \/ timedOut \/ (MaxBuffer > 0 /\ Len(b) > MaxBuffer)
              THEN IF b # <<>> THEN "flush"
                   ELSE IF f /\ LocalServer THEN "sending" ELSE "finish"
              ELSE "loop"

\* The buffer was closed and sent or dropped: the next round has a new one.
MutantNewBuffer == buffer' = buffer
NewBuffer == buffer' = <<>>

\* The metadata is written just before the first event of a buffer.
MutantWritten(e) == Append(buffer, e)
Written(e) == IF buffer = <<>> THEN <<Metadata, e>> ELSE Append(buffer, e)

MutantHandleClose(m) ==
  /\ m.kind = "close"
  /\ final' = TRUE
  /\ wpc' = "finish"
  /\ UNCHANGED <<buffer, lost>>

HandleClose(m) ==
  /\ m.kind = "close"
  /\ final' = TRUE
  /\ wpc' = IF buffer # <<>> THEN "flush" ELSE "finish"
  /\ UNCHANGED <<buffer, lost>>

HandleFlush(m, timedOut) ==
  /\ m.kind = "flush"
  /\ Decide(buffer, TRUE, timedOut)
  /\ UNCHANGED lost

HandleWrite(m, timedOut) ==
  /\ m.kind = "data"
  /\ m.event \notin Unserializable
  /\ Decide(Written(m.event), m.flush, timedOut)
  /\ UNCHANGED lost

\* A processor returned nothing or raised: the event is dropped, its flush
\* flag is not.
HandleDrop(m, timedOut) ==
  /\ m.kind = "data"
  /\ Decide(buffer, m.flush, timedOut)
  /\ lost' = lost \cup {m.event}

\* json_serializer raises: nothing catches it and the thread dies.  The buffer
\* is a local of _process_queue: the event and the ones in the buffer before it
\* die with the thread, and no line of the log tells of those.
HandleCrash(m) ==
  /\ m.kind = "data"
  /\ m.event \in Unserializable
  /\ wpc' = "dead"
  /\ buffer' = <<>>
  /\ lost' = lost \cup Buffered \cup {m.event}
  /\ UNCHANGED final

Handle(m, timedOut) ==
  /\ queue' = Tail(queue)
  /\ notified' = FALSE
  /\ \/ HandleClose(m)
     \/ HandleFlush(m, timedOut)
     \/ HandleWrite(m, timedOut)
     \/ HandleDrop(m, timedOut)
     \/ HandleCrash(m)
  /\ UNCHANGED <<flushed, closed, timed, due, online, call, used, accepted,
                 received, beforeClose>>

\* get finds an item; its timeout is 0 when the flush is due.
Get ==
  /\ wpc = "loop"
  /\ queue # <<>>
  /\ Handle(Head(queue), due)

\* get finds nothing and waits on not_empty.
Block ==
  /\ wpc = "loop"
  /\ queue = <<>>
  /\ ~due
  /\ wpc' = "waiting"
  /\ UNCHANGED <<queue, notified, flushed, closed, buffer, final,
                 timed, due, online, call, used, accepted, received,
                 lost, beforeClose>>

\* The wait ends, by a notification or by its timeout, and there is an item:
\* get returns it and does not raise Empty.
Wake ==
  /\ wpc = "waiting"
  /\ notified \/ due
  /\ queue # <<>>
  /\ Handle(Head(queue), FALSE)

\* get raises Empty.
GetEmpty ==
  /\ wpc \in {"loop", "waiting"}
  /\ due
  /\ queue = <<>>
  /\ Decide(buffer, FALSE, TRUE)
  /\ notified' = FALSE
  /\ UNCHANGED <<queue, flushed, closed, timed, due, online, call, used, accepted,
                 received, lost, beforeClose>>

\* _flush with state.should_try().
TrySend ==
  /\ wpc = "flush"
  /\ wpc' = "sending"
  /\ UNCHANGED <<queue, notified, flushed, closed, buffer, final,
                 timed, due, online, call, used, accepted, received,
                 lost, beforeClose>>

\* _flush without it: the data is dropped.
BackOff ==
  /\ wpc = "flush"
  /\ ~online
  /\ wpc' = "finish"
  /\ lost' = lost \cup Buffered
  /\ NewBuffer
  /\ UNCHANGED <<queue, notified, flushed, closed, final, timed, due,
                 online, call, used, accepted,
                 received, beforeClose>>

\* The server receives the payload; the empty one carries nothing.
Arrives == received' = IF buffer = <<>> THEN received
                         ELSE Append(received, buffer)

\* send() returns; handle_transport_success.  The empty payload of a forced
\* flush is sent like any other.
SendOk ==
  /\ wpc = "sending"
  /\ wpc' = "finish"
  /\ Arrives
  /\ NewBuffer
  /\ online' = TRUE
  /\ UNCHANGED <<queue, notified, flushed, closed, final, timed, due,
                 call, used, accepted, lost, beforeClose>>

\* send() raises; handle_transport_fail.  The server may have received the
\* payload all the same: a timeout, an error status after the body was read.
SendFail ==
  /\ wpc = "sending"
  /\ wpc' = "finish"
  /\ \/ Arrives /\ UNCHANGED lost
     \/ lost' = lost \cup Buffered /\ UNCHANGED received
  /\ NewBuffer
  /\ online' = FALSE
  /\ UNCHANGED <<queue, notified, flushed, closed, final, timed, due,
                 call, used, accepted, beforeClose>>

\* _last_flush is reset, max_flush_time is read again (api_request_time is a
\* dynamic option: central configuration may have set it to 0) and _flushed is
\* set, which wakes every waiter; after "close" the thread ends.
Finish ==
  /\ wpc = "finish"
  /\ wpc' = IF final THEN "done" ELSE "loop"
  /\ due' = FALSE
  /\ timed' \in FlushTimes
  /\ flushed' = TRUE
  /\ call' = [t \in Threads |->
                IF call[t].at \in {"idle", "asleep"} THEN Idle
                  ELSE [call[t] EXCEPT !.round = TRUE]]
  /\ UNCHANGED <<queue, notified, closed, buffer, final, online, used,
                 accepted, received, lost, beforeClose>>

Worker ==
  \/ Get
  \/ Block
  \/ Wake
  \/ GetEmpty
  \/ TrySend
  \/ BackOff
  \/ SendOk
  \/ SendFail
  \/ Finish

Next ==
  \/ \E t \in Threads, e \in Events, f \in BOOLEAN : QueueEvent(t, e, f)
  \/ \E t \in Threads :
       \/ Flush(t)
       \/ CloseCheck(t)
       \/ CloseSet(t)
       \/ PutFull(t)
       \/ Put(t)
       \/ WaitCheck(t)
       \/ WaitTimeout(t)
  \/ StartThread
  \/ TimePasses
  \/ Worker

Spec == Init /\ [][Next]_vars

(***************************************************************************)
(* Fairness: the interpreter schedules the worker, requests end (they have *)
(* a timeout) and time passes.  Nothing is assumed of the application.     *)
(***************************************************************************)
Fairness == WF_vars(Worker) /\ WF_vars(TimePasses)
FairSpec == Spec /\ Fairness

-----------------------------------------------------------------------------
\* Every variable has its type.
TypeOK ==
  /\ queue \in Seq(Message)
  /\ Len(queue) <= MaxQueue
  /\ notified \in BOOLEAN
  /\ flushed \in BOOLEAN
  /\ closed \in BOOLEAN
  /\ wpc \in {"off", "loop", "waiting", "flush", "sending", "finish", "done",
              "dead"}
  /\ buffer \in Seq(Events \cup {Metadata})
  /\ final \in BOOLEAN
  /\ timed \in BOOLEAN
  /\ due \in BOOLEAN
  /\ online \in BOOLEAN
  /\ call \in [Threads -> Call]
  /\ used \in SUBSET Events
  /\ accepted \in Seq(Events)
  /\ received \in Seq(Seq(Events \cup {Metadata}))
  /\ lost \in SUBSET Events
  /\ beforeClose \in SUBSET Events

\* No accepted event is in two places or in none.
OnePlace ==
  /\ Accepted = Queued \cup Buffered \cup Received \cup lost
  /\ Queued \cap (Buffered \cup Received \cup lost) = {}
  /\ Buffered \cap (Received \cup lost) = {}
  /\ Received \cap lost = {}

\* An accepted event is in exactly one place: on the queue, in the buffer of a
\* worker that lives, at the server, or lost.  Whatever the puts, failed
\* requests, back-offs and the crash of the worker, none is sent twice or kept
\* by a thread that has ended: a crash takes the event in hand and the whole
\* buffer, which nobody logs, and nothing from the queue.
Conservation ==
  /\ OnePlace
  /\ wpc \in {"off", "done", "dead"} => Buffered = {}

\* The chilled queue never leaves the worker asleep when it matters: if it
\* waits on not_empty and has not been notified, the queue holds neither a
\* flush nor a close, and no more than queue_chill_count messages.
NoMissedWakeup ==
  (wpc = "waiting" /\ ~notified) =>
    /\ Len(queue) <= ChillUntil
    /\ \A i \in DOMAIN queue : ~Urgent(queue[i])

\* The worker that ended on "close" has dealt with every event that was
\* accepted before the "close": none is left on the queue or in the buffer.
CloseDrains ==
  wpc = "done" => beforeClose \subseteq (Received \cup lost)

\* Every payload that the server receives is one metadata line followed by at
\* least one event, whichever way the buffer came to be sent.
PayloadsWellFormed ==
  \A i \in DOMAIN received :
    LET p == received[i]
    IN  /\ Len(p) > 1
        /\ \A j \in DOMAIN p : p[j] = Metadata <=> j = 1

\* flush() or close() of the thread t returns because _flushed was set.
Returns(t) ==
  call[t].at \in {"wait", "asleep"} /\ call'[t].at = "idle" /\ flushed'

\* What that return does mean: after the call cleared the flag, the worker
\* completed a round.  No flag that was set earlier is taken for an answer.
ReturnMeansRound ==
  [][\A t \in Threads :
       Returns(t) => call[t].round \/ (wpc = "finish" /\ wpc' # "finish")]_vars

\* What the docstring of flush() says of its return, "only once the queue is
\* empty", in its weakest form: the events that were on the queue when flush()
\* was called have left it.
FlushReturnsDrained ==
  [][\A t \in Threads : Returns(t) => call[t].pending \cap Queued = {}]_vars

-----------------------------------------------------------------------------
\* Transport implements the delivery promise: a request delivers what follows
\* the metadata line of its payload, and what is neither delivered nor given up
\* is in the buffer or on the queue.
Promise == INSTANCE Delivery WITH
  delivered <- [i \in DOMAIN received |-> Tail(received[i])]
ImplementsDelivery == Promise!Spec

\* An accepted event does not wait forever while the worker lives and has a
\* flush time, even if no put ever notifies the worker again.
EventuallySettled ==
  \A e \in Events :
    e \in Accepted ~>
      \/ e \in Received \cup lost
      \/ ~timed
      \/ wpc \in {"off", "dead", "done"}

\* Once "close" is on the queue the worker ends, without the help of a timed
\* flush: the put of "close" is never chilled.
WorkerEnds ==
  CloseOnItsWay ~> wpc \in {"done", "dead"}
=============================================================================
