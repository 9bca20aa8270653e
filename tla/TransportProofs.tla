--------------------------- MODULE TransportProofs --------------------------
(***************************************************************************)
(* Proofs about Transport, for any number of events and threads and any    *)
(* sizes of queue and buffer.                                              *)
(***************************************************************************)
EXTENDS Transport, FiniteSetTheorems, TLAPS

-----------------------------------------------------------------------------
(***************************************************************************)
(* Type correctness.                                                       *)
(***************************************************************************)
\* The messages are of their type, whatever their event.
LEMMA MessageType ==
  /\ \A e \in Events, f \in BOOLEAN : DataMsg(e, f) \in Message
  /\ FlushMsg \in Message
  /\ CloseMsg \in Message
  /\ \A m \in Message :
       /\ m.kind \in {"data", "flush", "close"}
       /\ m.flush \in BOOLEAN
       /\ m.kind = "data" => m.event \in Events
       /\ m.kind # "data" => m.event = None
<1>1. \A e \in Events, f \in BOOLEAN : DataMsg(e, f) \in Message
  BY DEF Message, DataMsg
<1>2. FlushMsg \in Message /\ CloseMsg \in Message
  BY DEF Message
<1>3. ASSUME NEW m \in Message
      PROVE  /\ m.kind \in {"data", "flush", "close"}
             /\ m.flush \in BOOLEAN
             /\ m.kind = "data" => m.event \in Events
             /\ m.kind # "data" => m.event = None
  <2>1. CASE m \in [kind : {"data"}, event : Events, flush : BOOLEAN]
    <3>1. m.kind = "data" /\ m.event \in Events /\ m.flush \in BOOLEAN
      BY <2>1, Zenon
    <3> QED
      BY <3>1
  <2>2. CASE m \in {FlushMsg, CloseMsg}
    <3>1. CASE m = FlushMsg
      BY <3>1, Zenon DEF FlushMsg
    <3>2. CASE m = CloseMsg
      BY <3>2, Zenon DEF CloseMsg
    <3> QED
      BY <2>2, <3>1, <3>2
  <2> QED
    BY <2>1, <2>2 DEF Message
<1> QED
  BY <1>1, <1>2, <1>3

\* What a sequence holds, and what it holds after an append.
LEMMA RangeType ==
  ASSUME NEW S, NEW q \in Seq(S)
  PROVE  Range(q) \subseteq S
<1>1. \A i \in DOMAIN q : q[i] \in S
  OBVIOUS
<1> QED
  BY <1>1 DEF Range

LEMMA RangeAppend ==
  ASSUME NEW S, NEW q \in Seq(S), NEW x \in S
  PROVE  Append(q, x) \in Seq(S) /\ Range(Append(q, x)) = Range(q) \cup {x}
<1> DEFINE r == Append(q, x)
<1>1. DOMAIN q = 1 .. Len(q) /\ Len(q) \in Nat
  OBVIOUS
<1>2. r \in Seq(S)
  OBVIOUS
<1>3. DOMAIN r = 1 .. Len(q) + 1
  OBVIOUS
<1>4. r[Len(q) + 1] = x
  OBVIOUS
<1>5. \A i \in 1 .. Len(q) : r[i] = q[i]
  OBVIOUS
<1> HIDE DEF r
<1>6. Range(r) = Range(q) \cup {x}
  BY <1>1, <1>3, <1>4, <1>5 DEF Range
<1> QED
  BY <1>2, <1>6 DEF r

LEMMA CallType ==
  /\ Idle \in Call
  /\ \A m \in Message, p \in SUBSET Events, at \in {"closing", "put"} :
       Calling(at, m, p) \in Call
  /\ \A c \in Call, at \in {"wait", "asleep"} : [c EXCEPT !.at = at] \in Call
  /\ \A c \in Call : [c EXCEPT !.round = TRUE] \in Call
BY MessageType DEF Call, Calling, Idle

\* The lines of a buffer after an event was written to it.
LEMMA WrittenType ==
  ASSUME TypeOK, NEW e \in Events
  PROVE  Written(e) \in Seq(Events \cup {Metadata})
<1>1. <<Metadata, e>> \in Seq(Events \cup {Metadata})
  OBVIOUS
<1>2. Append(buffer, e) \in Seq(Events \cup {Metadata})
  BY DEF TypeOK
<1> QED
  BY <1>1, <1>2 DEF Written

\* Handling a message keeps the types.
LEMMA HandleType ==
  ASSUME TypeOK, queue # <<>>, NEW timedOut \in BOOLEAN,
         Handle(Head(queue), timedOut)
  PROVE  TypeOK'
<1> DEFINE m == Head(queue)
<1>1. m \in Message /\ queue' \in Seq(Message) /\ Len(queue') <= MaxQueue
  BY TransportAssumption DEF TypeOK, Handle
<1> HIDE DEF m
<1>2. UNCHANGED <<flushed, closed, timed, due, online, call, used, accepted,
                  received, beforeClose>>
  BY DEF Handle
<1>3. notified' \in BOOLEAN
  BY DEF Handle
<1>4. /\ wpc' \in {"loop", "flush", "sending", "finish", "dead"}
      /\ buffer' \in Seq(Events \cup {Metadata})
      /\ final' \in BOOLEAN
      /\ lost' \in SUBSET Events
  <2>1. CASE HandleClose(m)
    BY <2>1 DEF HandleClose, TypeOK
  <2>2. CASE HandleFlush(m, timedOut)
    BY <2>2 DEF HandleFlush, Decide, TypeOK
  <2>3. CASE HandleWrite(m, timedOut)
    BY <2>3, <1>1, MessageType, WrittenType DEF HandleWrite, Decide, TypeOK
  <2>4. CASE HandleDrop(m, timedOut)
    BY <2>4, <1>1, MessageType DEF HandleDrop, Decide, TypeOK
  <2>5. CASE HandleCrash(m)
    BY <2>5, <1>1, MessageType DEF HandleCrash, Buffered, TypeOK
  <2> QED
    BY <2>1, <2>2, <2>3, <2>4, <2>5 DEF Handle, m
<1> QED
  BY <1>1, <1>2, <1>3, <1>4 DEF TypeOK

LEMMA InitType == Init => TypeOK
<1> SUFFICES ASSUME Init
             PROVE  TypeOK
  OBVIOUS
<1>1. queue \in Seq(Message) /\ Len(queue) <= MaxQueue
  BY TransportAssumption DEF Init
<1>2. buffer \in Seq(Events \cup {Metadata})
  BY DEF Init
<1>3. received \in Seq(Seq(Events \cup {Metadata}))
  BY DEF Init
<1>4. timed \in BOOLEAN
  BY TransportAssumption, Zenon DEF Init
<1>5. call \in [Threads -> Call]
  BY CallType DEF Init
<1>6. accepted \in Seq(Events)
  BY DEF Init
<1> QED
  BY <1>1, <1>2, <1>3, <1>4, <1>5, <1>6 DEF Init, TypeOK

LEMMA NextType == TypeOK /\ [Next]_vars => TypeOK'
<1> SUFFICES ASSUME TypeOK, [Next]_vars
             PROVE  TypeOK'
  OBVIOUS
<1>1. ASSUME NEW t \in Threads, NEW e \in Events, NEW f \in BOOLEAN,
             QueueEvent(t, e, f)
      PROVE  TypeOK'
  <2>1. Calling("put", DataMsg(e, f), {}) \in Call
    BY MessageType, CallType
  <2> QED
    BY <1>1, <2>1 DEF QueueEvent, Clear, workerVars, TypeOK
<1>2. ASSUME NEW t \in Threads, Flush(t)
      PROVE  TypeOK'
  <2>1. Calling("put", FlushMsg, Queued) \in Call
    BY MessageType, CallType DEF Queued
  <2> QED
    BY <1>2, <2>1 DEF Flush, Clear, workerVars, TypeOK
<1>3. ASSUME NEW t \in Threads, CloseCheck(t)
      PROVE  TypeOK'
  <2>1. Calling("closing", CloseMsg, {}) \in Call
    BY MessageType, CallType
  <2> QED
    BY <1>3, <2>1 DEF CloseCheck, workerVars, TypeOK
<1>4. ASSUME NEW t \in Threads, CloseSet(t)
      PROVE  TypeOK'
  <2>1. Calling("put", CloseMsg, {}) \in Call
    BY MessageType, CallType
  <2> QED
    BY <1>4, <2>1 DEF CloseSet, Clear, workerVars, TypeOK
<1>5. ASSUME NEW t \in Threads, AfterPut(t)
      PROVE  call' \in [Threads -> Call]
  BY <1>5, CallType DEF AfterPut, TypeOK
<1>6. ASSUME NEW t \in Threads, PutFull(t)
      PROVE  TypeOK'
  BY <1>6, <1>5 DEF PutFull, AfterPut, workerVars, TypeOK
<1>7. ASSUME NEW t \in Threads, Put(t)
      PROVE  TypeOK'
  <2>1. call[t].msg \in Message
    BY DEF TypeOK, Call
  <2>2. queue' \in Seq(Message) /\ Len(queue') <= MaxQueue
    BY <1>7, <2>1, TransportAssumption DEF Put, HasRoom, TypeOK
  <2>3. notified' \in BOOLEAN
    BY <1>7 DEF Put
  <2>4. accepted' \in Seq(Events) /\ beforeClose' \in SUBSET Events
    <3>1. Accepted \subseteq Events
      BY RangeType DEF TypeOK, Accepted
    <3>2. accepted \in Seq(Events) /\ beforeClose \in SUBSET Events
      BY DEF TypeOK
    <3>3. accepted' \in Seq(Events)
      <4>1. CASE call[t].msg.kind = "data"
        BY <1>7, <2>1, <3>2, <4>1, MessageType DEF Put
      <4>2. CASE call[t].msg.kind # "data"
        BY <1>7, <3>2, <4>2 DEF Put
      <4> QED
        BY <4>1, <4>2
    <3>4. beforeClose' \in SUBSET Events
      BY <1>7, <3>1, <3>2 DEF Put
    <3> QED
      BY <3>3, <3>4
  <2> QED
    BY <1>7, <1>5, <2>2, <2>3, <2>4 DEF Put, AfterPut, workerVars, TypeOK
<1>8. ASSUME NEW t \in Threads, WaitCheck(t)
      PROVE  TypeOK'
  BY <1>8, CallType DEF WaitCheck, workerVars, TypeOK
<1>9. ASSUME NEW t \in Threads, WaitTimeout(t)
      PROVE  TypeOK'
  BY <1>9, CallType DEF WaitTimeout, workerVars, TypeOK
<1>10. CASE StartThread
  BY <1>10 DEF StartThread, TypeOK
<1>11. CASE TimePasses
  BY <1>11 DEF TimePasses, workerVars, TypeOK
<1>12. CASE Get
  BY <1>12, HandleType DEF Get, TypeOK
<1>13. CASE Block
  BY <1>13 DEF Block, TypeOK
<1>14. CASE Wake
  BY <1>14, HandleType DEF Wake
<1>15. CASE GetEmpty
  BY <1>15 DEF GetEmpty, Decide, TypeOK
<1>16. CASE TrySend
  BY <1>16 DEF TrySend, TypeOK
<1>17. CASE BackOff
  BY <1>17 DEF BackOff, NewBuffer, Buffered, TypeOK
<1>18. CASE SendOk
  BY <1>18 DEF SendOk, NewBuffer, Arrives, TypeOK
<1>19. CASE SendFail
  <2>1. received' \in Seq(Seq(Events \cup {Metadata}))
    <3>1. /\ received \in Seq(Seq(Events \cup {Metadata}))
          /\ buffer \in Seq(Events \cup {Metadata})
      BY DEF TypeOK
    <3>2. received' \in {received, Append(received, buffer)}
      BY <1>19 DEF SendFail, Arrives
    <3> QED
      BY <3>1, <3>2
  <2>2. lost' \in SUBSET Events
    BY <1>19 DEF SendFail, Buffered, TypeOK
  <2>3. buffer' \in Seq(Events \cup {Metadata})
    BY <1>19 DEF SendFail, NewBuffer
  <2> QED
    BY <1>19, <2>1, <2>2, <2>3 DEF SendFail, TypeOK
<1>20. CASE Finish
  <2>1. call' \in [Threads -> Call]
    BY <1>20, CallType DEF Finish, TypeOK
  <2> QED
    BY <1>20, <2>1, TransportAssumption DEF Finish, TypeOK
<1>21. CASE UNCHANGED vars
  BY <1>21 DEF vars, TypeOK
<1> QED
  BY <1>1, <1>2, <1>3, <1>4, <1>6, <1>7, <1>8, <1>9, <1>10, <1>11, <1>12,
     <1>13, <1>14, <1>15, <1>16, <1>17, <1>18, <1>19, <1>20, <1>21
  DEF Next, Worker

\* Every variable of the transport keeps its type: the queue is never longer
\* than its maxsize and holds messages only.
THEOREM TypeCorrect == Spec => []TypeOK
<1> QED
  BY InitType, NextType, PTL DEF Spec

-----------------------------------------------------------------------------
(***************************************************************************)
(* OnePlace.  An event is put once: that is what keeps the places      *)
(* apart, and it needs to be known of the queue and of the puts to come.   *)
(***************************************************************************)
QueueDistinct ==
  \A i, j \in DOMAIN queue :
    queue[i].event \in Events /\ queue[i].event = queue[j].event => i = j

PutsEvent(t) == call[t].at = "put" /\ call[t].msg.event \in Events

PutsFresh ==
  /\ Accepted \subseteq used
  /\ \A t \in Threads : PutsEvent(t) => call[t].msg.event \in used \ Accepted
  /\ \A t, u \in Threads :
       PutsEvent(t) /\ PutsEvent(u) /\ call[t].msg.event = call[u].msg.event
         => t = u

ConservationInv == TypeOK /\ OnePlace /\ QueueDistinct /\ PutsFresh

LEMMA QueueAppend ==
  ASSUME TypeOK, NEW m \in Message, queue' = Append(queue, m)
  PROVE  Queued' = Queued \cup ({m.event} \cap Events)
<1>1. /\ DOMAIN queue = 1 .. Len(queue)
      /\ DOMAIN queue' = 1 .. Len(queue) + 1
      /\ \A i \in 1 .. Len(queue) : queue'[i] = queue[i]
      /\ queue'[Len(queue) + 1] = m
      /\ Len(queue) \in Nat
  BY DEF TypeOK
<1>2. ASSUME NEW e \in Queued'
      PROVE  e \in Queued \cup ({m.event} \cap Events)
  <2>1. PICK i \in 1 .. Len(queue) + 1 : e = queue'[i].event
    BY <1>1, <1>2 DEF Queued
  <2>2. i \in 1 .. Len(queue) \/ i = Len(queue) + 1
    BY <1>1
  <2> QED
    BY <1>1, <1>2, <2>1, <2>2 DEF Queued
<1>3. ASSUME NEW e \in Queued
      PROVE  e \in Queued'
  <2>1. PICK i \in 1 .. Len(queue) : e = queue[i].event
    BY <1>1, <1>3 DEF Queued
  <2>2. i \in DOMAIN queue' /\ queue'[i] = queue[i]
    BY <1>1
  <2> QED
    BY <1>3, <2>1, <2>2 DEF Queued
<1>4. m.event \in Events => m.event \in Queued'
  <2>1. Len(queue) + 1 \in DOMAIN queue'
    BY <1>1
  <2> QED
    BY <1>1, <2>1 DEF Queued
<1> QED
  BY <1>2, <1>3, <1>4

\* The first message leaves the queue, and its event with it.
LEMMA QueueTail ==
  ASSUME TypeOK, QueueDistinct, queue # <<>>, queue' = Tail(queue)
  PROVE  /\ Queued' = Queued \ {Head(queue).event}
         /\ Head(queue).event \in Events => Head(queue).event \in Queued
         /\ QueueDistinct'
<1>1. /\ Len(queue) \in Nat \ {0}
      /\ DOMAIN queue = 1 .. Len(queue)
      /\ DOMAIN queue' = 1 .. Len(queue) - 1
      /\ \A i \in 1 .. Len(queue) - 1 : queue'[i] = queue[i + 1]
      /\ Head(queue) = queue[1]
  BY DEF TypeOK
<1>2. ASSUME NEW e \in Queued'
      PROVE  e \in Queued \ {Head(queue).event}
  <2>1. PICK i \in 1 .. Len(queue) - 1 : e = queue'[i].event
    BY <1>1, <1>2 DEF Queued
  <2>2. i + 1 \in 1 .. Len(queue) /\ i + 1 # 1 /\ e = queue[i + 1].event
    BY <1>1, <2>1
  <2>3. e \in Events
    BY <1>2 DEF Queued
  <2>4. e # queue[1].event
    BY <1>1, <2>2, <2>3 DEF QueueDistinct
  <2> QED
    BY <1>1, <2>2, <2>3, <2>4 DEF Queued
<1>3. ASSUME NEW e \in Queued \ {Head(queue).event}
      PROVE  e \in Queued'
  <2>1. PICK i \in 1 .. Len(queue) : e = queue[i].event
    BY <1>1, <1>3 DEF Queued
  <2>2. i - 1 \in 1 .. Len(queue) - 1
    BY <1>1, <1>3, <2>1
  <2>3. queue'[i - 1] = queue[i]
    BY <1>1, <2>2
  <2>4. i - 1 \in DOMAIN queue'
    BY <1>1, <2>2
  <2> QED
    BY <1>3, <2>1, <2>3, <2>4 DEF Queued
<1>4. Head(queue).event \in Events => Head(queue).event \in Queued
  BY <1>1 DEF Queued
<1>5. QueueDistinct'
  <2> SUFFICES ASSUME NEW i \in DOMAIN queue', NEW j \in DOMAIN queue',
                      queue'[i].event \in Events,
                      queue'[i].event = queue'[j].event
               PROVE  i = j
    BY DEF QueueDistinct
  <2>1. /\ queue'[i] = queue[i + 1] /\ i + 1 \in DOMAIN queue
        /\ queue'[j] = queue[j + 1] /\ j + 1 \in DOMAIN queue
    BY <1>1
  <2>2. i + 1 = j + 1
    BY <2>1 DEF QueueDistinct
  <2> QED
    BY <1>1, <2>2
<1> QED
  BY <1>2, <1>3, <1>4, <1>5

\* The lines of the buffer after an event was written to it.
LEMMA BufferWrite ==
  ASSUME TypeOK, NEW e \in Events, buffer' = Written(e)
  PROVE  Buffered' = Buffered \cup {e}
<1>1. CASE buffer = <<>>
  <2>1. Range(buffer) = {} /\ Range(buffer') = {Metadata, e}
    BY <1>1 DEF Range, Written
  <2> QED
    BY <2>1, TransportAssumption DEF Buffered
<1>2. CASE buffer # <<>>
  <2>1. buffer \in Seq(Events \cup {Metadata}) /\ buffer' = Append(buffer, e)
    BY <1>2 DEF TypeOK, Written
  <2>2. /\ DOMAIN buffer = 1 .. Len(buffer)
        /\ DOMAIN buffer' = 1 .. Len(buffer) + 1
        /\ \A i \in 1 .. Len(buffer) : buffer'[i] = buffer[i]
        /\ buffer'[Len(buffer) + 1] = e
        /\ Len(buffer) \in Nat
    BY <2>1
  <2>3. Range(buffer') = Range(buffer) \cup {e}
    BY <2>2 DEF Range
  <2> QED
    BY <2>3 DEF Buffered
<1> QED
  BY <1>1, <1>2

LEMMA BufferEmpty ==
  /\ buffer = <<>> => Buffered = {}
  /\ buffer' = <<>> => Buffered' = {}
BY DEF Buffered, Range

LEMMA ArrivesReceived ==
  ASSUME TypeOK, Arrives
  PROVE  Received' = Received \cup Buffered
<1>1. CASE buffer = <<>>
  BY <1>1, BufferEmpty DEF Arrives, Received
<1>2. CASE buffer # <<>>
  <2>1. /\ received \in Seq(Seq(Events \cup {Metadata}))
        /\ buffer \in Seq(Events \cup {Metadata})
        /\ received' = Append(received, buffer)
    BY <1>2 DEF TypeOK, Arrives
  <2>2. /\ DOMAIN received = 1 .. Len(received)
        /\ DOMAIN received' = 1 .. Len(received) + 1
        /\ \A i \in 1 .. Len(received) : received'[i] = received[i]
        /\ received'[Len(received) + 1] = buffer
        /\ Len(received) \in Nat
    BY <2>1
  <2>3. ASSUME NEW x \in Received'
        PROVE  x \in Received \cup Buffered
    <3>1. PICK i \in DOMAIN received' : x \in Range(received'[i])
      BY <2>3 DEF Received
    <3>2. i \in DOMAIN received \/ i = Len(received) + 1
      BY <2>2
    <3>3. x \in Events
      BY <2>3 DEF Received
    <3> QED
      BY <2>2, <3>1, <3>2, <3>3 DEF Received, Buffered
  <2>4. ASSUME NEW x \in Received
        PROVE  x \in Received'
    <3>1. PICK i \in DOMAIN received : x \in Range(received[i])
      BY <2>4 DEF Received
    <3>2. i \in DOMAIN received' /\ received'[i] = received[i]
      BY <2>2
    <3>3. x \in Events
      BY <2>4 DEF Received
    <3> QED
      BY <3>1, <3>2, <3>3 DEF Received
  <2>5. ASSUME NEW x \in Buffered
        PROVE  x \in Received'
    <3>1. Len(received) + 1 \in DOMAIN received'
      BY <2>2
    <3> QED
      BY <2>2, <2>5, <3>1 DEF Received, Buffered
  <2> QED
    BY <2>3, <2>4, <2>5
<1> QED
  BY <1>1, <1>2

\* Handling a message moves its event to the buffer or gives it up.
LEMMA HandleConserves ==
  ASSUME ConservationInv, queue # <<>>, NEW timedOut \in BOOLEAN,
         Handle(Head(queue), timedOut)
  PROVE  OnePlace' /\ QueueDistinct' /\ PutsFresh'
<1> DEFINE m == Head(queue)
<1>1. m \in Message
  BY DEF ConservationInv, TypeOK
<1>2. /\ Queued' = Queued \ {m.event}
      /\ m.event \in Events => m.event \in Queued
      /\ QueueDistinct'
  BY QueueTail DEF Handle, ConservationInv
<1>3. PutsFresh'
  BY DEF Handle, ConservationInv, PutsFresh, PutsEvent, Accepted
<1>4. Accepted' = Accepted /\ Received' = Received
  BY DEF Handle, Received, Accepted
<1> HIDE DEF m
<1>5. OnePlace
  BY DEF ConservationInv
<1>6. TypeOK
  BY DEF ConservationInv
<1>7. CASE m.kind # "data" /\ buffer' = buffer /\ lost' = lost
  <2>1. m.event \notin Events
    BY <1>1, <1>7, MessageType, TransportAssumption
  <2>2. Queued' = Queued /\ Buffered' = Buffered
    BY <1>2, <1>7, <2>1 DEF Queued, Buffered
  <2> QED
    BY <1>2, <1>3, <1>4, <1>5, <1>7, <2>2 DEF OnePlace
<1>8. CASE m.kind = "data" /\ buffer' = Written(m.event) /\ lost' = lost
  <2>1. m.event \in Events /\ m.event \in Queued
    BY <1>1, <1>2, <1>8, MessageType
  <2>2. Buffered' = Buffered \cup {m.event}
    BY <1>6, <1>8, <2>1, BufferWrite
  <2> QED
    BY <1>2, <1>3, <1>4, <1>5, <1>8, <2>1, <2>2 DEF OnePlace
<1>9. CASE /\ m.kind = "data"
           /\ Buffered' = Buffered
           /\ lost' = lost \cup {m.event}
  <2>1. m.event \in Events /\ m.event \in Queued
    BY <1>1, <1>2, <1>9, MessageType
  <2> QED
    BY <1>2, <1>3, <1>4, <1>5, <1>9, <2>1 DEF OnePlace
<1>10. CASE HandleClose(m)
  BY <1>7, <1>10 DEF HandleClose
<1>11. CASE HandleFlush(m, timedOut)
  BY <1>7, <1>11 DEF HandleFlush, Decide
<1>12. CASE HandleWrite(m, timedOut)
  BY <1>8, <1>12 DEF HandleWrite, Decide
<1>13. CASE HandleDrop(m, timedOut)
  BY <1>9, <1>13 DEF HandleDrop, Decide, Buffered
<1>14. CASE HandleCrash(m)
  <2>1. m.event \in Events /\ m.event \in Queued
    BY <1>1, <1>2, <1>14, MessageType DEF HandleCrash
  <2>2. Buffered' = {} /\ lost' = lost \cup Buffered \cup {m.event}
    BY <1>14, BufferEmpty DEF HandleCrash
  <2> QED
    BY <1>2, <1>3, <1>4, <1>5, <2>1, <2>2 DEF OnePlace
<1> QED
  BY <1>10, <1>11, <1>12, <1>13, <1>14 DEF Handle, m

\* A step that moves no event and starts no put keeps the invariant.
LEMMA NothingMoves ==
  ASSUME ConservationInv,
         UNCHANGED <<queue, buffer, received, lost, accepted, used>>,
         \A t \in Threads : PutsEvent(t)' =>
           PutsEvent(t) /\ call'[t].msg = call[t].msg
  PROVE  OnePlace' /\ QueueDistinct' /\ PutsFresh'
<1>1. OnePlace'
  BY DEF ConservationInv, OnePlace, Queued, Buffered, Received, Accepted
<1>2. QueueDistinct'
  BY DEF ConservationInv, QueueDistinct
<1>3. PutsFresh'
  BY DEF ConservationInv, PutsFresh, Accepted
<1> QED
  BY <1>1, <1>2, <1>3

LEMMA InitConserves == Init => OnePlace /\ QueueDistinct /\ PutsFresh
<1> SUFFICES ASSUME Init
             PROVE  OnePlace /\ QueueDistinct /\ PutsFresh
  OBVIOUS
<1>1. Queued = {} /\ Received = {} /\ Accepted = {}
  BY DEF Init, Queued, Received, Accepted, Range
<1>2. Buffered = {}
  BY BufferEmpty DEF Init
<1>3. OnePlace
  BY <1>1, <1>2 DEF Init, OnePlace
<1>4. QueueDistinct
  BY DEF Init, QueueDistinct
<1>5. PutsFresh
  BY <1>1 DEF Init, PutsFresh, PutsEvent, Idle, Calling
<1> QED
  BY <1>3, <1>4, <1>5

\* The events that the messages of the calls carry.
LEMMA CallingFacts ==
  \A at \in {"idle", "closing", "put"}, m \in Message, p \in SUBSET Events :
    Calling(at, m, p).at = at /\ Calling(at, m, p).msg = m
BY DEF Calling

\* What a put adds to the accepted events.
LEMMA PutAccepts ==
  ASSUME TypeOK, NEW t \in Threads, Put(t)
  PROVE  /\ Accepted' = Accepted \cup ({call[t].msg.event} \cap Events)
         /\ accepted' = IF call[t].msg.event \in Events
                          THEN Append(accepted, call[t].msg.event) ELSE accepted
<1>1. call[t].msg \in Message /\ accepted \in Seq(Events)
  BY DEF TypeOK, Call
<1>2. call[t].msg.kind = "data" <=> call[t].msg.event \in Events
  BY <1>1, MessageType, TransportAssumption
<1>3. accepted' = IF call[t].msg.event \in Events
                    THEN Append(accepted, call[t].msg.event) ELSE accepted
  BY <1>2 DEF Put
<1>4. CASE call[t].msg.event \in Events
  <2>1. Range(accepted') = Range(accepted) \cup {call[t].msg.event}
    BY <1>1, <1>3, <1>4, RangeAppend
  <2> QED
    BY <1>3, <1>4, <2>1 DEF Accepted
<1>5. CASE call[t].msg.event \notin Events
  BY <1>3, <1>5 DEF Accepted
<1> QED
  BY <1>4, <1>5

LEMMA PutConserves ==
  ASSUME ConservationInv, NEW t \in Threads, Put(t)
  PROVE  OnePlace' /\ QueueDistinct' /\ PutsFresh'
<1> DEFINE m == call[t].msg
           e == m.event
<1>1. m \in Message /\ TypeOK
  BY DEF ConservationInv, TypeOK, Call
<1>2. /\ call[t].at = "put"
      /\ queue' = Append(queue, m)
      /\ Accepted' = Accepted \cup ({e} \cap Events)
      /\ UNCHANGED <<buffer, received, lost, used>>
  BY <1>1, PutAccepts DEF Put, AfterPut, workerVars
<1>3. Queued' = Queued \cup ({e} \cap Events)
  BY <1>1, <1>2, QueueAppend
<1>4. Buffered' = Buffered /\ Received' = Received
  BY <1>2 DEF Buffered, Received
<1>5. e \in Events => e \in used \ Accepted
  BY <1>2 DEF ConservationInv, PutsFresh, PutsEvent
<1>6. OnePlace'
  BY <1>2, <1>3, <1>4, <1>5 DEF ConservationInv, OnePlace
<1>7. QueueDistinct'
  <2> SUFFICES ASSUME NEW i \in DOMAIN queue', NEW j \in DOMAIN queue',
                      queue'[i].event \in Events,
                      queue'[i].event = queue'[j].event
               PROVE  i = j
    BY DEF QueueDistinct
  <2>1. /\ DOMAIN queue = 1 .. Len(queue)
        /\ DOMAIN queue' = 1 .. Len(queue) + 1
        /\ \A k \in 1 .. Len(queue) : queue'[k] = queue[k]
        /\ queue'[Len(queue) + 1] = m
        /\ Len(queue) \in Nat
    BY <1>1, <1>2 DEF TypeOK
  <2>2. \A k \in DOMAIN queue : queue[k].event \in Events => queue[k].event \in Accepted
    BY DEF ConservationInv, OnePlace, Queued
  <2>3. i \in DOMAIN queue \/ i = Len(queue) + 1
    BY <2>1
  <2>4. j \in DOMAIN queue \/ j = Len(queue) + 1
    BY <2>1
  <2> QED
    BY <1>5, <2>1, <2>2, <2>3, <2>4 DEF ConservationInv, QueueDistinct
<1>8. PutsFresh'
  <2>1. \A u \in Threads : PutsEvent(u)' =>
          PutsEvent(u) /\ u # t /\ call'[u].msg = call[u].msg
    BY DEF Put, AfterPut, PutsEvent, ConservationInv, TypeOK, Idle, Calling
  <2>2. \A u \in Threads : PutsEvent(u)' => call[u].msg.event # e
    <3>1. ASSUME NEW u \in Threads, PutsEvent(u)', call[u].msg.event = e
          PROVE  FALSE
      <4>1. PutsEvent(u) /\ PutsEvent(t) /\ u # t
        BY <1>2, <2>1, <3>1 DEF PutsEvent
      <4> QED
        BY <3>1, <4>1 DEF ConservationInv, PutsFresh
    <3> QED
      BY <3>1
  <2> QED
    BY <1>2, <1>5, <2>1, <2>2 DEF ConservationInv, PutsFresh
<1> QED
  BY <1>6, <1>7, <1>8

LEMMA NextConserves == ConservationInv /\ [Next]_vars => ConservationInv'
<1> SUFFICES ASSUME ConservationInv, [Next]_vars
             PROVE  OnePlace' /\ QueueDistinct' /\ PutsFresh'
  BY NextType DEF ConservationInv
<1> USE DEF PutsEvent
<1>1. ASSUME NEW t \in Threads, NEW e \in Events, NEW f \in BOOLEAN,
             QueueEvent(t, e, f)
      PROVE  OnePlace' /\ QueueDistinct' /\ PutsFresh'
  <2>1. /\ UNCHANGED <<queue, buffer, received, lost, accepted>>
        /\ e \notin used
        /\ used' = used \cup {e}
        /\ call' = [call EXCEPT ![t] = Calling("put", DataMsg(e, f), {})]
    BY <1>1 DEF QueueEvent, Clear, workerVars
  <2>2. call'[t].msg.event = e /\ \A u \in Threads \ {t} : call'[u] = call[u]
    BY <2>1 DEF ConservationInv, TypeOK, Calling, DataMsg
  <2>3. PutsFresh'
    BY <2>1, <2>2 DEF ConservationInv, PutsFresh, Accepted
  <2>4. OnePlace' /\ QueueDistinct'
    BY <2>1 DEF ConservationInv, OnePlace, QueueDistinct, Queued, Buffered, Accepted,
                Received
  <2> QED
    BY <2>3, <2>4
<1>2. ASSUME NEW t \in Threads, Flush(t)
      PROVE  OnePlace' /\ QueueDistinct' /\ PutsFresh'
  BY <1>2, NothingMoves, TransportAssumption
  DEF Flush, Clear, workerVars, Calling, FlushMsg, ConservationInv, TypeOK
<1>3. ASSUME NEW t \in Threads, CloseCheck(t)
      PROVE  OnePlace' /\ QueueDistinct' /\ PutsFresh'
  BY <1>3, NothingMoves
  DEF CloseCheck, workerVars, Calling, ConservationInv, TypeOK
<1>4. ASSUME NEW t \in Threads, CloseSet(t)
      PROVE  OnePlace' /\ QueueDistinct' /\ PutsFresh'
  BY <1>4, NothingMoves, TransportAssumption
  DEF CloseSet, Clear, workerVars, Calling, CloseMsg, ConservationInv, TypeOK
<1>5. ASSUME NEW t \in Threads, PutFull(t)
      PROVE  OnePlace' /\ QueueDistinct' /\ PutsFresh'
  BY <1>5, NothingMoves
  DEF PutFull, AfterPut, workerVars, Idle, Calling, ConservationInv, TypeOK
<1>6. ASSUME NEW t \in Threads, Put(t)
      PROVE  OnePlace' /\ QueueDistinct' /\ PutsFresh'
  BY <1>6, PutConserves
<1>7. ASSUME NEW t \in Threads, WaitCheck(t)
      PROVE  OnePlace' /\ QueueDistinct' /\ PutsFresh'
  BY <1>7, NothingMoves
  DEF WaitCheck, workerVars, Idle, Calling, ConservationInv, TypeOK
<1>8. ASSUME NEW t \in Threads, WaitTimeout(t)
      PROVE  OnePlace' /\ QueueDistinct' /\ PutsFresh'
  BY <1>8, NothingMoves
  DEF WaitTimeout, workerVars, Idle, Calling, ConservationInv, TypeOK
<1>9. CASE StartThread
  BY <1>9, NothingMoves DEF StartThread
<1>10. CASE TimePasses
  BY <1>10, NothingMoves DEF TimePasses, workerVars
<1>11. CASE Get
  BY <1>11, HandleConserves DEF Get, ConservationInv, TypeOK
<1>12. CASE Block
  BY <1>12, NothingMoves DEF Block
<1>13. CASE Wake
  BY <1>13, HandleConserves DEF Wake
<1>14. CASE GetEmpty
  BY <1>14, NothingMoves DEF GetEmpty, Decide
<1>15. CASE TrySend
  BY <1>15, NothingMoves DEF TrySend
<1>16. ASSUME UNCHANGED <<queue, call, accepted, used>>,
              buffer' = <<>>,
              \/ Arrives /\ UNCHANGED lost
              \/ lost' = lost \cup Buffered /\ UNCHANGED received
       PROVE  OnePlace' /\ QueueDistinct' /\ PutsFresh'
  <2>1. Queued' = Queued /\ Buffered' = {}
    BY <1>16, BufferEmpty DEF Queued
  <2>2. \/ Received' = Received \cup Buffered /\ lost' = lost
        \/ Received' = Received /\ lost' = lost \cup Buffered
    BY <1>16, ArrivesReceived DEF Received, ConservationInv
  <2>3. OnePlace'
    BY <1>16, <2>1, <2>2 DEF ConservationInv, OnePlace, Accepted
  <2>4. QueueDistinct' /\ PutsFresh'
    BY <1>16 DEF ConservationInv, QueueDistinct, PutsFresh, Accepted
  <2> QED
    BY <2>3, <2>4
<1>17. CASE BackOff
  BY <1>16, <1>17 DEF BackOff, NewBuffer
<1>18. CASE SendOk
  BY <1>16, <1>18 DEF SendOk, NewBuffer
<1>19. CASE SendFail
  BY <1>16, <1>19 DEF SendFail, NewBuffer
<1>20. CASE Finish
  BY <1>20, NothingMoves, CallType
  DEF Finish, Idle, Calling, ConservationInv, TypeOK, Call
<1>21. CASE UNCHANGED vars
  BY <1>21, NothingMoves DEF vars
<1> QED
  BY <1>1, <1>2, <1>3, <1>4, <1>5, <1>6, <1>7, <1>8, <1>9, <1>10, <1>11,
     <1>12, <1>13, <1>14, <1>15, <1>17, <1>18, <1>19, <1>20, <1>21
  DEF Next, Worker

\* A worker that has ended, or is about to ask whether it ends, has no buffer.
NoBuffer == wpc \in {"off", "finish", "done", "dead"} => buffer = <<>>

LEMMA NextNoBuffer == NoBuffer /\ [Next]_vars => NoBuffer'
<1> SUFFICES ASSUME NoBuffer, [Next]_vars
             PROVE  NoBuffer'
  OBVIOUS
<1>1. ASSUME NEW timedOut, Handle(Head(queue), timedOut)
      PROVE  NoBuffer'
  BY <1>1 DEF Handle, HandleClose, HandleFlush, HandleWrite, HandleDrop,
              HandleCrash, Decide, NoBuffer
<1>2. ASSUME UNCHANGED <<wpc, buffer>>
      PROVE  NoBuffer'
  BY <1>2 DEF NoBuffer
<1>3. ASSUME NEW t \in Threads,
             \/ \E e \in Events, f \in BOOLEAN : QueueEvent(t, e, f)
             \/ Flush(t) \/ CloseCheck(t) \/ CloseSet(t) \/ PutFull(t)
             \/ Put(t) \/ WaitCheck(t) \/ WaitTimeout(t)
      PROVE  UNCHANGED <<wpc, buffer>>
  BY <1>3 DEF QueueEvent, Flush, CloseCheck, CloseSet, Clear, PutFull, Put,
              AfterPut, WaitCheck, WaitTimeout, workerVars
<1>4. CASE StartThread \/ Block \/ GetEmpty \/ TrySend \/ BackOff \/ SendOk
             \/ SendFail \/ Finish
  BY <1>4 DEF StartThread, Block, GetEmpty, Decide, TrySend, BackOff, SendOk,
              SendFail, NewBuffer, Finish, NoBuffer
<1>5. CASE Get
  BY <1>1, <1>5 DEF Get
<1>6. CASE Wake
  BY <1>1, <1>6 DEF Wake
<1>7. CASE TimePasses \/ UNCHANGED vars
  BY <1>2, <1>7 DEF TimePasses, workerVars, vars
<1> QED
  BY <1>2, <1>3, <1>4, <1>5, <1>6, <1>7 DEF Next, Worker

\* No accepted event is ever in two places, in none, or kept by a worker that
\* has ended, whatever the puts of the threads, the failures of the server and
\* the crashes of the worker.
THEOREM EventsConserved == Spec => []Conservation
<1>1. Init => ConservationInv /\ NoBuffer
  BY InitType, InitConserves DEF ConservationInv, Init, NoBuffer
<1>2. ConservationInv /\ NoBuffer => Conservation
  BY BufferEmpty DEF ConservationInv, NoBuffer, Conservation
<1> QED
  BY <1>1, <1>2, NextConserves, NextNoBuffer, PTL DEF Spec

-----------------------------------------------------------------------------
(***************************************************************************)
(* The chilled queue does not miss a wake-up.                              *)
(***************************************************************************)
LEMMA NextWakes == TypeOK /\ NoMissedWakeup /\ [Next]_vars => NoMissedWakeup'
<1> SUFFICES ASSUME TypeOK, NoMissedWakeup, [Next]_vars,
                    wpc' = "waiting", ~notified'
             PROVE  /\ Len(queue') <= ChillUntil
                    /\ \A i \in DOMAIN queue' : ~Urgent(queue'[i])
  BY DEF NoMissedWakeup, Urgent
<1>1. CASE UNCHANGED <<queue, wpc, notified>>
  BY <1>1 DEF NoMissedWakeup
<1>2. ASSUME NEW t \in Threads, Put(t)
      PROVE  /\ Len(queue') <= ChillUntil
             /\ \A i \in DOMAIN queue' : ~Urgent(queue'[i])
  <2>1. /\ queue' = Append(queue, call[t].msg)
        /\ wpc = "waiting"
        /\ ~notified
        /\ ~Urgent(call[t].msg)
        /\ ~(Len(queue) + 1 > ChillUntil)
    BY <1>2 DEF Put, AfterPut, workerVars, Wakes
  <2>2. /\ queue \in Seq(Message)
        /\ call[t].msg \in Message
    BY DEF TypeOK, Call
  <2>3. \A i \in DOMAIN queue' :
          queue'[i] = call[t].msg \/ (i \in DOMAIN queue /\ queue'[i] = queue[i])
    BY <2>1, <2>2
  <2>4. Len(queue') <= ChillUntil
    BY <2>1, <2>2, TransportAssumption
  <2> QED
    BY <2>1, <2>3, <2>4 DEF NoMissedWakeup
<1>3. CASE Block
  BY <1>3, TransportAssumption DEF Block
<1>4. ASSUME NEW m, NEW timedOut \in BOOLEAN, Handle(m, timedOut),
             wpc \in {"loop", "waiting"}
      PROVE  wpc' # "waiting"
  BY <1>4 DEF Handle, HandleClose, HandleFlush, HandleWrite, HandleDrop,
              HandleCrash, Decide
<1>5. ~Get /\ ~Wake
  BY <1>4 DEF Get, Wake, TypeOK
<1>6. ~GetEmpty
  BY DEF GetEmpty, Decide
<1> QED
  BY <1>1, <1>2, <1>3, <1>5, <1>6
  DEF Next, Worker, vars, QueueEvent, Flush, CloseCheck, CloseSet, Clear,
      PutFull, AfterPut, WaitCheck, WaitTimeout, StartThread, TimePasses,
      TrySend, BackOff, SendOk, SendFail, Finish, workerVars

\* The worker is never asleep on a flush, a close or more messages than
\* queue_chill_count without having been notified.
THEOREM WakeupNotMissed == Spec => []NoMissedWakeup
<1>1. Init => NoMissedWakeup
  BY DEF Init, NoMissedWakeup
<1> QED
  BY <1>1, InitType, NextType, NextWakes, PTL DEF Spec
-----------------------------------------------------------------------------
(***************************************************************************)
(* Payloads.  The buffer is empty or a payload that could be sent: a crash *)
(* between the metadata line and the first event takes the buffer with it. *)
(***************************************************************************)
WellFormed(p) ==
  /\ Len(p) > 1
  /\ \A j \in DOMAIN p : p[j] = Metadata <=> j = 1

BufferOK == buffer = <<>> \/ WellFormed(buffer)

PayloadsInv == TypeOK /\ BufferOK /\ PayloadsWellFormed

LEMMA WrittenWellFormed ==
  ASSUME TypeOK, buffer = <<>> \/ WellFormed(buffer), NEW e \in Events
  PROVE  WellFormed(Written(e))
<1>1. e # Metadata
  BY TransportAssumption
<1>2. CASE buffer = <<>>
  <2>1. Written(e) = <<Metadata, e>>
    BY <1>2 DEF Written
  <2> QED
    BY <1>1, <2>1 DEF WellFormed
<1>3. CASE buffer # <<>>
  <2>1. Written(e) = Append(buffer, e) /\ buffer \in Seq(Events \cup {Metadata})
    BY <1>3 DEF Written, TypeOK
  <2>2. /\ Len(buffer) \in Nat
        /\ Len(Written(e)) = Len(buffer) + 1
        /\ DOMAIN Written(e) = 1 .. Len(buffer) + 1
        /\ DOMAIN buffer = 1 .. Len(buffer)
        /\ \A j \in 1 .. Len(buffer) : Written(e)[j] = buffer[j]
        /\ Written(e)[Len(buffer) + 1] = e
    BY <2>1
  <2>3. Len(buffer) > 1 /\ \A j \in 1 .. Len(buffer) : buffer[j] = Metadata <=> j = 1
    BY <1>3, <2>2 DEF WellFormed
  <2>4. ASSUME NEW j \in 1 .. Len(buffer) + 1
        PROVE  Written(e)[j] = Metadata <=> j = 1
    <3>1. CASE j = Len(buffer) + 1
      BY <1>1, <2>2, <2>3, <3>1
    <3>2. CASE j \in 1 .. Len(buffer)
      BY <2>2, <2>3, <3>2
    <3> QED
      BY <2>2, <3>1, <3>2
  <2> QED
    BY <2>2, <2>3, <2>4 DEF WellFormed
<1> QED
  BY <1>2, <1>3

LEMMA HandleBuffer ==
  ASSUME TypeOK, BufferOK, queue # <<>>, NEW timedOut \in BOOLEAN,
         Handle(Head(queue), timedOut)
  PROVE  BufferOK' /\ received' = received
<1> DEFINE m == Head(queue)
<1>1. m \in Message
  BY DEF TypeOK
<1> HIDE DEF m
<1>2. m.kind = "data" => m.event \in Events
  BY <1>1, MessageType
<1>3. CASE HandleWrite(m, timedOut)
  <2>1. buffer' = Written(m.event)
    BY <1>3 DEF HandleWrite, Decide
  <2>2. WellFormed(Written(m.event))
    BY <1>2, <1>3, WrittenWellFormed DEF HandleWrite, BufferOK
  <2> QED
    BY <2>1, <2>2 DEF BufferOK, Handle, m
<1>4. CASE HandleCrash(m)
  BY <1>4 DEF HandleCrash, BufferOK, Handle, m
<1>5. CASE buffer' = buffer
  BY <1>5 DEF BufferOK, Handle, m
<1> QED
  BY <1>3, <1>4, <1>5
  DEF Handle, HandleClose, HandleFlush, HandleDrop, Decide, m

LEMMA ArrivesWellFormed ==
  ASSUME TypeOK, PayloadsWellFormed, buffer = <<>> \/ WellFormed(buffer), Arrives
  PROVE  PayloadsWellFormed'
<1>1. CASE buffer = <<>>
  BY <1>1 DEF Arrives, PayloadsWellFormed
<1>2. CASE buffer # <<>>
  <2>1. received' = Append(received, buffer) /\ WellFormed(buffer)
    BY <1>2 DEF Arrives
  <2>2. ASSUME NEW i \in DOMAIN received'
        PROVE  received'[i] = buffer \/ (i \in DOMAIN received /\ received'[i] = received[i])
    BY <2>1, <2>2 DEF TypeOK
  <2>3. \A i \in DOMAIN received : WellFormed(received[i])
    BY DEF PayloadsWellFormed, WellFormed
  <2>4. \A i \in DOMAIN received' : WellFormed(received'[i])
    BY <2>1, <2>2, <2>3
  <2> QED
    BY <2>4 DEF PayloadsWellFormed, WellFormed
<1> QED
  BY <1>1, <1>2

LEMMA NextPayloads == PayloadsInv /\ [Next]_vars => PayloadsInv'
<1> SUFFICES ASSUME TypeOK, BufferOK, PayloadsWellFormed, [Next]_vars
             PROVE  BufferOK' /\ PayloadsWellFormed'
  BY NextType DEF PayloadsInv
<1>1. ASSUME received' = received
      PROVE  PayloadsWellFormed'
  BY <1>1 DEF PayloadsWellFormed
<1>2. CASE Get \/ Wake
  BY <1>1, <1>2, HandleBuffer DEF Get, Wake, TypeOK
<1>3. CASE BackOff \/ SendOk \/ SendFail
  <2>1. BufferOK'
    BY <1>3 DEF BackOff, SendOk, SendFail, NewBuffer, BufferOK
  <2>2. received' = received \/ Arrives
    BY <1>3 DEF BackOff, SendOk, SendFail
  <2> QED
    BY <1>1, <2>1, <2>2, ArrivesWellFormed DEF BufferOK
<1>4. ASSUME UNCHANGED <<buffer, received>>
      PROVE  BufferOK' /\ PayloadsWellFormed'
  BY <1>1, <1>4 DEF BufferOK
<1>5. ASSUME NEW t \in Threads,
             \/ \E e \in Events, f \in BOOLEAN : QueueEvent(t, e, f)
             \/ Flush(t) \/ CloseCheck(t) \/ CloseSet(t) \/ PutFull(t)
             \/ Put(t) \/ WaitCheck(t) \/ WaitTimeout(t)
      PROVE  UNCHANGED <<buffer, received>>
  BY <1>5 DEF QueueEvent, Flush, CloseCheck, CloseSet, Clear, PutFull, Put,
              AfterPut, WaitCheck, WaitTimeout, workerVars
<1>6. CASE StartThread \/ TimePasses \/ Block \/ GetEmpty \/ TrySend \/ Finish
  BY <1>4, <1>6 DEF StartThread, TimePasses, workerVars, Block, GetEmpty, Decide,
                    TrySend, Finish
<1>7. CASE UNCHANGED vars
  BY <1>4, <1>7 DEF vars
<1> QED
  BY <1>2, <1>3, <1>4, <1>5, <1>6, <1>7 DEF Next, Worker

\* The server only receives payloads of one metadata line and at least one
\* event: the forced flush of an empty buffer and the crash of the worker on
\* its first event send no other.
THEOREM PayloadsAreWellFormed == Spec => []PayloadsWellFormed
<1>1. Init => PayloadsInv
  BY InitType DEF Init, PayloadsInv, BufferOK, PayloadsWellFormed
<1>2. PayloadsInv => PayloadsWellFormed
  BY DEF PayloadsInv
<1> QED
  BY <1>1, <1>2, NextPayloads, PTL DEF Spec

-----------------------------------------------------------------------------
(***************************************************************************)
(* Close.  The queue is read in order: what was accepted before "close" is *)
(* in front of it, and of any later one, and is gone when it is read.      *)
(***************************************************************************)
AheadOfClose ==
  /\ beforeClose \subseteq Accepted
  /\ \A j \in DOMAIN queue : queue[j].event \in beforeClose =>
       /\ ~final
       /\ \A i \in DOMAIN queue : queue[i].kind = "close" => j < i

LastRound ==
  /\ final => wpc \in {"flush", "sending", "finish", "done"}
  /\ final /\ wpc \in {"finish", "done"} => buffer = <<>>
  /\ wpc = "done" => final

CloseInv == ConservationInv /\ AheadOfClose /\ LastRound

LEMMA PutBehind ==
  ASSUME CloseInv, NEW t \in Threads, Put(t)
  PROVE  AheadOfClose'
<1> DEFINE m == call[t].msg
<1>1. TypeOK /\ m \in Message
  BY DEF CloseInv, ConservationInv, TypeOK, Call
<1>2. /\ queue' = Append(queue, m)
      /\ final' = final
      /\ Accepted' = Accepted \cup ({m.event} \cap Events)
      /\ beforeClose' = IF m.kind = "close" /\ ~CloseOnItsWay
                          THEN Accepted ELSE beforeClose
  BY <1>1, PutAccepts DEF Put, AfterPut, workerVars
<1>3. m.event \notin Accepted
  <2>1. CASE m.event \in Events
    BY <2>1 DEF CloseInv, ConservationInv, PutsFresh, PutsEvent, Put, AfterPut
  <2>2. CASE m.event \notin Events
    <3>1. Accepted \subseteq Events
      BY <1>1, RangeType DEF TypeOK, Accepted
    <3> QED
      BY <2>2, <3>1
  <2> QED
    BY <2>1, <2>2
<1>4. beforeClose' \subseteq Accepted
  BY <1>2 DEF CloseInv, AheadOfClose
<1>5. /\ DOMAIN queue = 1 .. Len(queue)
      /\ DOMAIN queue' = 1 .. Len(queue) + 1
      /\ \A i \in 1 .. Len(queue) : queue'[i] = queue[i]
      /\ queue'[Len(queue) + 1] = m
      /\ Len(queue) \in Nat
  BY <1>1, <1>2 DEF TypeOK
<1> HIDE DEF m
<1>6. ASSUME NEW j \in DOMAIN queue', queue'[j].event \in beforeClose'
      PROVE  ~final' /\ \A i \in DOMAIN queue' : queue'[i].kind = "close" => j < i
  <2>1. j \in 1 .. Len(queue) /\ queue'[j] = queue[j]
    BY <1>3, <1>4, <1>5, <1>6
  <2>2. CASE beforeClose' = beforeClose
    <3>1. ~final /\ \A i \in DOMAIN queue : queue[i].kind = "close" => j < i
      BY <1>5, <1>6, <2>1, <2>2 DEF CloseInv, AheadOfClose
    <3> QED
      BY <1>2, <1>5, <2>1, <3>1
  <2>3. CASE ~CloseOnItsWay
    <3>1. ~final /\ \A i \in DOMAIN queue : queue[i].kind # "close"
      BY <2>3 DEF CloseOnItsWay
    <3> QED
      BY <1>2, <1>5, <2>1, <3>1
  <2> QED
    BY <1>2, <2>2, <2>3
<1> QED
  BY <1>2, <1>4, <1>6 DEF AheadOfClose

LEMMA HandleAhead ==
  ASSUME CloseInv, wpc \in {"loop", "waiting"}, queue # <<>>,
         NEW timedOut \in BOOLEAN, Handle(Head(queue), timedOut)
  PROVE  AheadOfClose' /\ LastRound'
<1> DEFINE m == Head(queue)
<1>1. TypeOK
  BY DEF CloseInv, ConservationInv
<1>2. queue' = Tail(queue) /\ UNCHANGED <<accepted, beforeClose>>
  BY DEF Handle
<1>3. /\ Len(queue) \in Nat \ {0}
      /\ DOMAIN queue = 1 .. Len(queue)
      /\ DOMAIN queue' = 1 .. Len(queue) - 1
      /\ \A i \in 1 .. Len(queue) - 1 : queue'[i] = queue[i + 1]
      /\ m = queue[1]
  BY <1>1, <1>2 DEF TypeOK
<1> HIDE DEF m
<1>4. final' => m.kind = "close"
  BY DEF Handle, HandleClose, HandleFlush, HandleWrite, HandleDrop,
         HandleCrash, Decide, CloseInv, LastRound, m
<1>5. ASSUME NEW j \in DOMAIN queue', queue'[j].event \in beforeClose'
      PROVE  ~final' /\ \A i \in DOMAIN queue' : queue'[i].kind = "close" => j < i
  <2>1. j + 1 \in DOMAIN queue /\ queue[j + 1].event \in beforeClose
    BY <1>2, <1>3, <1>5
  <2>2. \A i \in DOMAIN queue : queue[i].kind = "close" => j + 1 < i
    BY <2>1 DEF CloseInv, AheadOfClose
  <2>3. m.kind # "close"
    BY <1>3, <2>1, <2>2
  <2> QED
    BY <1>3, <1>4, <2>1, <2>2, <2>3
<1>6. AheadOfClose'
  BY <1>2, <1>5 DEF AheadOfClose, CloseInv, Accepted
<1>7. LastRound'
  BY DEF LastRound, CloseInv, Handle, HandleClose, HandleFlush, HandleWrite,
         HandleDrop, HandleCrash, Decide
<1> QED
  BY <1>6, <1>7

LEMMA NextCloses == CloseInv /\ [Next]_vars => CloseInv'
<1> SUFFICES ASSUME CloseInv, [Next]_vars
             PROVE  AheadOfClose' /\ LastRound'
  BY NextConserves DEF CloseInv
<1>1. ASSUME UNCHANGED <<queue, accepted, beforeClose>>, final' => final
      PROVE  AheadOfClose'
  BY <1>1 DEF CloseInv, AheadOfClose, Accepted
<1>2. ASSUME UNCHANGED <<wpc, final, buffer>>
      PROVE  LastRound'
  BY <1>2 DEF CloseInv, LastRound
<1>3. ASSUME NEW t \in Threads, Put(t)
      PROVE  AheadOfClose' /\ LastRound'
  BY <1>2, <1>3, PutBehind DEF Put, AfterPut, workerVars
<1>4. CASE Get \/ Wake
  BY <1>4, HandleAhead DEF Get, Wake, CloseInv, ConservationInv, TypeOK
<1>5. CASE StartThread \/ Block \/ GetEmpty \/ TrySend \/ BackOff \/ SendOk
             \/ SendFail \/ Finish
  <2>1. UNCHANGED <<queue, accepted, beforeClose>> /\ (final' => final)
    BY <1>5 DEF StartThread, Block, GetEmpty, Decide, TrySend, BackOff, SendOk,
                SendFail, Finish
  <2>2. LastRound'
    BY <1>5 DEF StartThread, Block, GetEmpty, Decide, TrySend, BackOff, SendOk,
                SendFail, Finish, NewBuffer, CloseInv, LastRound
  <2> QED
    BY <1>1, <2>1, <2>2
<1>6. ASSUME NEW t \in Threads,
             \/ \E e \in Events, f \in BOOLEAN : QueueEvent(t, e, f)
             \/ Flush(t) \/ CloseCheck(t) \/ CloseSet(t) \/ PutFull(t)
             \/ WaitCheck(t) \/ WaitTimeout(t)
      PROVE  UNCHANGED <<queue, accepted, beforeClose, wpc, final, buffer>>
  BY <1>6 DEF QueueEvent, Flush, CloseCheck, CloseSet, Clear, PutFull,
              AfterPut, WaitCheck, WaitTimeout, workerVars
<1>7. CASE TimePasses \/ UNCHANGED vars
  BY <1>1, <1>2, <1>7 DEF TimePasses, workerVars, vars
<1> QED
  BY <1>1, <1>2, <1>3, <1>4, <1>5, <1>6, <1>7 DEF Next, Worker

\* The worker that ended has sent, or given up, every event that was accepted
\* before the first "close", however many threads close and queue at once.
THEOREM CloseHasDrained == Spec => []CloseDrains
<1>1. Init => CloseInv
  BY InitType, InitConserves
  DEF Init, CloseInv, ConservationInv, AheadOfClose, LastRound
<1>2. CloseInv => CloseDrains
  <2> SUFFICES ASSUME CloseInv, wpc = "done", NEW e \in beforeClose
               PROVE  e \in Received \cup lost
    BY DEF CloseDrains
  <2>1. final /\ buffer = <<>>
    BY DEF CloseInv, LastRound
  <2>2. e \in Accepted /\ e \notin Queued
    BY <2>1 DEF CloseInv, AheadOfClose, Queued
  <2>3. e \notin Buffered
    BY <2>1, BufferEmpty
  <2> QED
    BY <2>2, <2>3 DEF CloseInv, ConservationInv, OnePlace
<1> QED
  BY <1>1, <1>2, NextCloses, PTL DEF Spec

-----------------------------------------------------------------------------
(***************************************************************************)
(* What the return of flush() and close() means.                           *)
(***************************************************************************)
FlagIsRecent ==
  flushed => \A t \in Threads :
               call[t].at \in {"put", "wait", "asleep"} => call[t].round

FlagInv == TypeOK /\ FlagIsRecent

LEMMA NextFlags == FlagInv /\ [Next]_vars => FlagInv'
<1> SUFFICES ASSUME TypeOK, FlagIsRecent, [Next]_vars, flushed',
                    NEW u \in Threads, call'[u].at \in {"put", "wait", "asleep"}
             PROVE  call'[u].round
  BY NextType DEF FlagInv, FlagIsRecent
<1>1. call \in [Threads -> Call]
  BY DEF TypeOK
<1>2. CASE Finish
  BY <1>2 DEF Finish, Idle, Calling, Call, TypeOK
<1>3. CASE UNCHANGED <<flushed, call>>
  BY <1>3 DEF FlagIsRecent
<1>4. ASSUME NEW t \in Threads,
             CloseCheck(t) \/ WaitCheck(t) \/ WaitTimeout(t) \/ AfterPut(t)
      PROVE  call'[u].round
  <2>1. flushed' = flushed
    BY <1>4 DEF CloseCheck, WaitCheck, WaitTimeout, AfterPut
  <2>2. CASE u # t
    BY <1>1, <1>4, <2>1, <2>2
    DEF CloseCheck, WaitCheck, WaitTimeout, AfterPut, FlagIsRecent
  <2>3. CASE u = t
    <3>1. Idle.at = "idle" /\ Calling("closing", CloseMsg, {}).at = "closing"
      BY DEF Idle, Calling
    <3>2. \/ call'[t] = [call[t] EXCEPT !.at = "wait"] /\ call[t].at = "put"
          \/ call'[t] = [call[t] EXCEPT !.at = "asleep"] /\ call[t].at = "wait"
      BY <1>1, <1>4, <2>3, <3>1 DEF CloseCheck, WaitCheck, WaitTimeout, AfterPut
    <3>3. call'[t].round = call[t].round
      BY <1>1, <3>2 DEF Call
    <3> QED
      BY <2>1, <2>3, <3>2, <3>3 DEF FlagIsRecent
  <2> QED
    BY <2>2, <2>3
<1> QED
  BY <1>2, <1>3, <1>4
  DEF Next, Worker, vars, QueueEvent, Flush, CloseSet, Clear, PutFull, Put,
      StartThread, TimePasses, Get, Handle, Block, Wake, GetEmpty, TrySend,
      BackOff, SendOk, SendFail

LEMMA NextReturns ==
  FlagInv /\ [Next]_vars =>
    [\A t \in Threads :
       Returns(t) => call[t].round \/ (wpc = "finish" /\ wpc' # "finish")]_vars
<1> SUFFICES ASSUME TypeOK, FlagIsRecent, Next, NEW u \in Threads, Returns(u)
             PROVE  call[u].round \/ (wpc = "finish" /\ wpc' # "finish")
  BY DEF FlagInv
<1>1. CASE Finish
  BY <1>1 DEF Finish
<1>2. CASE flushed' = flushed
  BY <1>2 DEF Returns, FlagIsRecent
<1> QED
  BY <1>1, <1>2
  DEF Next, Worker, Returns, QueueEvent, Flush, CloseCheck, CloseSet, Clear,
      PutFull, Put, AfterPut, WaitCheck, WaitTimeout, StartThread, TimePasses,
      Get, Handle, Block, Wake, GetEmpty, TrySend, BackOff, SendOk, SendFail

\* Whoever returns from flush() or close() without a timeout has seen a round
\* of the worker end after its own call began, however many threads share the
\* one flag.
THEOREM ReturnsMeanRounds == Spec => ReturnMeansRound
<1>1. Init => FlagInv
  BY InitType DEF Init, FlagInv, FlagIsRecent
<1> QED
  BY <1>1, NextFlags, NextReturns, PTL DEF Spec, ReturnMeansRound
-----------------------------------------------------------------------------
(***************************************************************************)
(* The promise.  That a request carries the oldest events in their order   *)
(* needs to be known of what the queue and the buffer hold.                *)
(***************************************************************************)
\* d stands before e in the sequence s.
Before(s, d, e) == \E i, j \in DOMAIN s : i < j /\ s[i] = d /\ s[j] = e

AcceptedOnce ==
  \A i, j \in DOMAIN accepted : accepted[i] = accepted[j] => i = j

BufferOrder ==
  \A i, j \in 2 .. Len(buffer) : i < j => Before(accepted, buffer[i], buffer[j])

QueueOrder ==
  \A i, j \in DOMAIN queue :
    i < j /\ queue[i].event \in Events /\ queue[j].event \in Events
      => Before(accepted, queue[i].event, queue[j].event)

BufferFirst == \A d \in Buffered, e \in Queued : Before(accepted, d, e)

Order == AcceptedOnce /\ BufferOrder /\ QueueOrder /\ BufferFirst

OrderInv == ConservationInv /\ PayloadsInv /\ Order

\* What is appended stands behind the rest.
LEMMA AppendBefore ==
  ASSUME NEW S, NEW s \in Seq(S), NEW e \in S
  PROVE  /\ \A c, d : Before(s, c, d) => Before(Append(s, e), c, d)
         /\ \A d \in Range(s) : Before(Append(s, e), d, e)
<1> DEFINE r == Append(s, e)
<1>1. /\ DOMAIN s = 1 .. Len(s)
      /\ Len(s) \in Nat
      /\ DOMAIN r = 1 .. Len(s) + 1
      /\ r[Len(s) + 1] = e
      /\ \A i \in 1 .. Len(s) : r[i] = s[i]
  OBVIOUS
<1> HIDE DEF r
<1>2. ASSUME NEW c, NEW d, Before(s, c, d)
      PROVE  Before(r, c, d)
  <2>1. PICK i \in DOMAIN s, j \in DOMAIN s : i < j /\ s[i] = c /\ s[j] = d
    BY <1>2 DEF Before
  <2>2. i \in DOMAIN r /\ j \in DOMAIN r /\ r[i] = c /\ r[j] = d
    BY <1>1, <2>1
  <2> QED
    BY <2>1, <2>2 DEF Before
<1>3. ASSUME NEW d \in Range(s)
      PROVE  Before(r, d, e)
  <2>1. PICK i \in DOMAIN s : s[i] = d
    BY <1>3 DEF Range
  <2>2. /\ i \in DOMAIN r /\ Len(s) + 1 \in DOMAIN r
        /\ i < Len(s) + 1 /\ r[i] = d
    BY <1>1, <2>1
  <2> QED
    BY <1>1, <2>2 DEF Before
<1> QED
  BY <1>2, <1>3 DEF r

LEMMA InitOrder == Init => Order
BY BufferEmpty
DEF Init, Order, AcceptedOnce, BufferOrder, QueueOrder, BufferFirst

\* Steps that accept nothing and write nothing keep the order.
LEMMA StillOrdered ==
  ASSUME Order, UNCHANGED <<queue, accepted>>, buffer' = buffer \/ buffer' = <<>>
  PROVE  Order'
<1>1. AcceptedOnce' /\ QueueOrder'
  BY DEF Order, AcceptedOnce, QueueOrder
<1>2. CASE buffer' = buffer
  BY <1>1, <1>2 DEF Order, BufferOrder, BufferFirst, Buffered, Queued
<1>3. CASE buffer' = <<>>
  <2>1. Buffered' = {} /\ 2 .. Len(buffer') = {}
    BY <1>3, BufferEmpty
  <2> QED
    BY <1>1, <2>1 DEF Order, BufferOrder, BufferFirst
<1> QED
  BY <1>2, <1>3

LEMMA PutOrder ==
  ASSUME OrderInv, NEW t \in Threads, Put(t)
  PROVE  Order'
<1> DEFINE m == call[t].msg
           e == m.event
<1>1. m \in Message /\ TypeOK /\ Order /\ OnePlace /\ accepted \in Seq(Events)
  BY DEF OrderInv, ConservationInv, TypeOK, Call
<1>2. /\ call[t].at = "put"
      /\ queue' = Append(queue, m)
      /\ accepted' = IF e \in Events THEN Append(accepted, e) ELSE accepted
      /\ buffer' = buffer
  BY <1>1, PutAccepts DEF Put, AfterPut, workerVars
<1>3. e \in Events => e \notin Accepted
  BY <1>2 DEF OrderInv, ConservationInv, PutsFresh, PutsEvent
<1>4. Queued' = Queued \cup ({e} \cap Events)
  BY <1>1, <1>2, QueueAppend
<1>5. /\ DOMAIN queue = 1 .. Len(queue)
      /\ DOMAIN queue' = 1 .. Len(queue) + 1
      /\ \A k \in 1 .. Len(queue) : queue'[k] = queue[k]
      /\ queue'[Len(queue) + 1] = m
      /\ Len(queue) \in Nat
  BY <1>1, <1>2 DEF TypeOK
<1>6. Buffered' = Buffered /\ Buffered \subseteq Accepted /\ Queued \subseteq Accepted
  BY <1>1, <1>2 DEF Buffered, OnePlace
<1> HIDE DEF m, e
<1>7. /\ \A c, d : Before(accepted, c, d) => Before(accepted', c, d)
      /\ e \in Events => \A d \in Accepted : Before(accepted', d, e)
  <2>1. CASE e \in Events
    BY <1>1, <1>2, <2>1, AppendBefore DEF Accepted
  <2>2. CASE e \notin Events
    BY <1>2, <2>2
  <2> QED
    BY <2>1, <2>2
<1>8. AcceptedOnce'
  <2>1. CASE e \in Events
    <3>1. /\ DOMAIN accepted = 1 .. Len(accepted)
          /\ Len(accepted) \in Nat
          /\ DOMAIN accepted' = 1 .. Len(accepted) + 1
          /\ accepted'[Len(accepted) + 1] = e
          /\ \A i \in 1 .. Len(accepted) : accepted'[i] = accepted[i]
      BY <1>1, <1>2, <2>1
    <3>2. \A i \in 1 .. Len(accepted) : accepted[i] # e
      BY <1>3, <2>1, <3>1 DEF Accepted, Range
    <3>3. \A i, j \in 1 .. Len(accepted) : accepted[i] = accepted[j] => i = j
      BY <1>1, <3>1 DEF Order, AcceptedOnce
    <3>4. ASSUME NEW i \in 1 .. Len(accepted) + 1, NEW j \in 1 .. Len(accepted) + 1,
                 accepted'[i] = accepted'[j]
          PROVE  i = j
      <4>1. i \in 1 .. Len(accepted) \/ i = Len(accepted) + 1
        BY <3>1
      <4>2. j \in 1 .. Len(accepted) \/ j = Len(accepted) + 1
        BY <3>1
      <4> QED
        BY <3>1, <3>2, <3>3, <3>4, <4>1, <4>2
    <3> QED
      BY <3>1, <3>4 DEF AcceptedOnce
  <2>2. CASE e \notin Events
    BY <1>1, <1>2, <2>2 DEF Order, AcceptedOnce
  <2> QED
    BY <2>1, <2>2
<1>9. BufferOrder'
  BY <1>1, <1>2, <1>7 DEF Order, BufferOrder
<1>10. ASSUME NEW i \in DOMAIN queue', NEW j \in DOMAIN queue', i < j,
              queue'[i].event \in Events, queue'[j].event \in Events
       PROVE  Before(accepted', queue'[i].event, queue'[j].event)
  <2>1. i \in DOMAIN queue /\ queue'[i] = queue[i]
    BY <1>5, <1>10
  <2>2. queue[i].event \in Queued
    BY <1>10, <2>1 DEF Queued
  <2>3. CASE j \in DOMAIN queue
    <3>1. queue'[j] = queue[j]
      BY <1>5, <2>3
    <3>2. Before(accepted, queue[i].event, queue[j].event)
      BY <1>1, <1>10, <2>1, <2>3, <3>1 DEF Order, QueueOrder
    <3> QED
      BY <1>7, <2>1, <3>1, <3>2
  <2>4. CASE j = Len(queue) + 1
    BY <1>5, <1>6, <1>7, <1>10, <2>1, <2>2, <2>4 DEF e
  <2> QED
    BY <1>5, <2>3, <2>4
<1>11. QueueOrder'
  BY <1>10 DEF QueueOrder
<1>12. BufferFirst'
  BY <1>1, <1>4, <1>6, <1>7 DEF Order, BufferFirst
<1> QED
  BY <1>8, <1>9, <1>11, <1>12 DEF Order

\* The message that is handled is the oldest: what it writes stands behind the
\* buffer and before the queue.
LEMMA HandleOrder ==
  ASSUME OrderInv, queue # <<>>, NEW timedOut \in BOOLEAN,
         Handle(Head(queue), timedOut)
  PROVE  Order'
<1> DEFINE m == Head(queue)
<1>1. TypeOK /\ Order /\ m \in Message
  BY DEF OrderInv, ConservationInv, TypeOK
<1>2. /\ Queued' = Queued \ {m.event}
      /\ m.event \in Events => m.event \in Queued
      /\ accepted' = accepted
  BY <1>1, QueueTail DEF Handle, OrderInv, ConservationInv
<1>3. /\ Len(queue) \in Nat \ {0}
      /\ DOMAIN queue = 1 .. Len(queue)
      /\ DOMAIN queue' = 1 .. Len(queue) - 1
      /\ \A i \in 1 .. Len(queue) - 1 : queue'[i] = queue[i + 1]
      /\ m = queue[1]
  BY <1>1 DEF TypeOK, Handle
<1> HIDE DEF m
<1>4. AcceptedOnce'
  BY <1>1, <1>2 DEF Order, AcceptedOnce
<1>5. QueueOrder'
  <2> SUFFICES ASSUME NEW i \in DOMAIN queue', NEW j \in DOMAIN queue', i < j,
                      queue'[i].event \in Events, queue'[j].event \in Events
               PROVE  Before(accepted', queue'[i].event, queue'[j].event)
    BY DEF QueueOrder
  <2>1. /\ i + 1 \in DOMAIN queue /\ j + 1 \in DOMAIN queue /\ i + 1 < j + 1
        /\ queue'[i] = queue[i + 1] /\ queue'[j] = queue[j + 1]
    BY <1>3
  <2> QED
    BY <1>1, <1>2, <2>1 DEF Order, QueueOrder
<1>6. m.event \in Events =>
        \A d \in Queued' : Before(accepted, m.event, d)
  <2> SUFFICES ASSUME m.event \in Events, NEW d \in Queued'
               PROVE  Before(accepted, m.event, d)
    OBVIOUS
  <2>1. PICK i \in DOMAIN queue' : d = queue'[i].event /\ d \in Events
    BY DEF Queued
  <2>2. /\ 1 \in DOMAIN queue /\ i + 1 \in DOMAIN queue /\ 1 < i + 1
        /\ queue'[i] = queue[i + 1]
    BY <1>3
  <2>3. queue[1].event \in Events /\ queue[i + 1].event \in Events
    BY <1>3, <2>1, <2>2
  <2>4. Before(accepted, queue[1].event, queue[i + 1].event)
    BY <1>1, <2>2, <2>3 DEF Order, QueueOrder
  <2> QED
    BY <1>3, <2>1, <2>2, <2>4
<1>7. CASE m.kind = "data" /\ buffer' = Written(m.event)
  <2>1. m.event \in Events /\ m.event \in Queued
    BY <1>1, <1>2, <1>7, MessageType
  <2>2. Buffered' = Buffered \cup {m.event}
    BY <1>1, <1>7, <2>1, BufferWrite
  <2>3. \A d \in Buffered : Before(accepted, d, m.event)
    BY <1>1, <2>1 DEF Order, BufferFirst
  <2>4. BufferFirst'
    BY <1>1, <1>2, <1>6, <2>1, <2>2, <2>3 DEF Order, BufferFirst
  <2>5. CASE buffer = <<>>
    <3>1. Len(buffer') = 2
      BY <1>7, <2>5 DEF Written
    <3>2. BufferOrder'
      BY <3>1 DEF BufferOrder
    <3> QED
      BY <1>4, <1>5, <2>4, <3>2 DEF Order
  <2>6. CASE buffer # <<>>
    <3>1. buffer' = Append(buffer, m.event) /\ buffer \in Seq(Events \cup {Metadata})
      BY <1>1, <1>7, <2>6 DEF Written, TypeOK
    <3>2. /\ Len(buffer) \in Nat
          /\ Len(buffer') = Len(buffer) + 1
          /\ DOMAIN buffer = 1 .. Len(buffer)
          /\ \A i \in 1 .. Len(buffer) : /\ buffer'[i] = buffer[i]
                                         /\ buffer[i] \in Events \cup {Metadata}
          /\ buffer'[Len(buffer) + 1] = m.event
      BY <2>1, <3>1
    <3>3. \A i \in 2 .. Len(buffer) : buffer[i] \in Buffered
      <4>1. \A i \in 2 .. Len(buffer) : buffer[i] # Metadata
        BY <2>6, <3>2 DEF OrderInv, PayloadsInv, BufferOK, WellFormed
      <4> QED
        BY <3>2, <4>1 DEF Buffered, Range
    <3>4. ASSUME NEW i \in 2 .. Len(buffer'), NEW j \in 2 .. Len(buffer'), i < j
          PROVE  Before(accepted', buffer'[i], buffer'[j])
      <4>1. i \in 2 .. Len(buffer) /\ buffer'[i] = buffer[i]
        BY <3>2, <3>4
      <4>2. CASE j \in 2 .. Len(buffer)
        <5>1. buffer'[j] = buffer[j]
          BY <3>2, <4>2
        <5> QED
          BY <1>1, <1>2, <3>4, <4>1, <4>2, <5>1 DEF Order, BufferOrder
      <4>3. CASE j = Len(buffer) + 1
        BY <1>2, <2>3, <3>2, <3>3, <4>1, <4>3
      <4> QED
        BY <3>2, <4>2, <4>3
    <3>5. BufferOrder'
      BY <3>4 DEF BufferOrder
    <3> QED
      BY <1>4, <1>5, <2>4, <3>5 DEF Order
  <2> QED
    BY <2>5, <2>6
<1>8. CASE buffer' = buffer
  BY <1>1, <1>2, <1>4, <1>5, <1>8 DEF Order, BufferOrder, BufferFirst, Buffered
<1>9. CASE buffer' = <<>>
  <2>1. Buffered' = {} /\ 2 .. Len(buffer') = {}
    BY <1>9, BufferEmpty
  <2> QED
    BY <1>4, <1>5, <2>1 DEF Order, BufferOrder, BufferFirst
<1> QED
  BY <1>7, <1>8, <1>9
  DEF Handle, HandleClose, HandleFlush, HandleWrite, HandleDrop, HandleCrash,
      Decide, m

LEMMA NextOrder == OrderInv /\ [Next]_vars => OrderInv'
<1> SUFFICES ASSUME OrderInv, [Next]_vars
             PROVE  Order'
  BY NextConserves, NextPayloads DEF OrderInv
<1>1. Order
  BY DEF OrderInv
<1>2. ASSUME NEW t \in Threads,
             \/ \E e \in Events, f \in BOOLEAN : QueueEvent(t, e, f)
             \/ Flush(t) \/ CloseCheck(t) \/ CloseSet(t) \/ PutFull(t)
             \/ WaitCheck(t) \/ WaitTimeout(t)
      PROVE  UNCHANGED <<queue, accepted, buffer>>
  BY <1>2 DEF QueueEvent, Flush, CloseCheck, CloseSet, Clear, PutFull,
              AfterPut, WaitCheck, WaitTimeout, workerVars
<1>3. CASE StartThread \/ TimePasses \/ Block \/ GetEmpty \/ TrySend \/ BackOff
             \/ SendOk \/ SendFail \/ Finish
  <2>1. UNCHANGED <<queue, accepted>> /\ (buffer' = buffer \/ buffer' = <<>>)
    BY <1>3 DEF StartThread, TimePasses, workerVars, Block, GetEmpty, Decide,
                TrySend, BackOff, SendOk, SendFail, NewBuffer, Finish
  <2> QED
    BY <1>1, <2>1, StillOrdered
<1>4. CASE Get \/ Wake
  BY <1>4, HandleOrder DEF Get, Wake, OrderInv, ConservationInv, TypeOK
<1>5. CASE UNCHANGED vars
  BY <1>1, <1>5, StillOrdered DEF vars
<1> QED
  BY <1>1, <1>2, <1>3, <1>4, <1>5, PutOrder, StillOrdered DEF Next, Worker

(***************************************************************************)
(* The steps of the promise.                                               *)
(***************************************************************************)
\* What follows the metadata line of a payload are its events.
LEMMA TailEvents ==
  ASSUME NEW p \in Seq(Events \cup {Metadata}), WellFormed(p)
  PROVE  /\ Tail(p) \in Seq(Events)
         /\ DOMAIN Tail(p) = 1 .. Len(p) - 1
         /\ \A i \in 1 .. Len(p) - 1 : Tail(p)[i] = p[i + 1]
         /\ Range(Tail(p)) = Range(p) \cap Events
<1>1. /\ Len(p) \in Nat /\ Len(p) > 1 /\ DOMAIN p = 1 .. Len(p)
      /\ \A i \in 1 .. Len(p) : p[i] \in Events \cup {Metadata}
      /\ \A i \in 1 .. Len(p) : p[i] = Metadata <=> i = 1
  BY DEF WellFormed
<1> DEFINE q == Tail(p)
<1>2. /\ DOMAIN q = 1 .. Len(p) - 1
      /\ Len(q) = Len(p) - 1
      /\ \A i \in 1 .. Len(p) - 1 : q[i] = p[i + 1]
      /\ q \in Seq(Events \cup {Metadata})
  BY <1>1
<1> HIDE DEF q
<1>3. ASSUME NEW i \in 1 .. Len(p) - 1
      PROVE  q[i] \in Events
  <2>1. i + 1 \in 1 .. Len(p) /\ i + 1 # 1
    BY <1>1
  <2> QED
    BY <1>1, <1>2, <2>1
<1>4. q \in Seq(Events)
  BY <1>1, <1>2, <1>3
<1>5. Range(q) \subseteq Range(p) \cap Events
  <2>1. \A i \in 1 .. Len(p) - 1 : i + 1 \in 1 .. Len(p)
    BY <1>1
  <2> QED
    BY <1>1, <1>2, <1>3, <2>1 DEF Range
<1>6. ASSUME NEW e \in Range(p) \cap Events
      PROVE  e \in Range(q)
  <2>1. PICK i \in 1 .. Len(p) : p[i] = e
    BY <1>1, <1>6 DEF Range
  <2>2. i # 1
    BY <1>1, <1>6, <2>1, TransportAssumption
  <2>3. i - 1 \in 1 .. Len(p) - 1 /\ q[i - 1] = p[i]
    BY <1>1, <1>2, <2>1, <2>2
  <2> QED
    BY <1>2, <2>1, <2>3 DEF Range
<1> QED
  BY <1>2, <1>4, <1>5, <1>6 DEF q

\* The events of the promise that wait are those on the queue and in the
\* buffer.
LEMMA PendingEvents ==
  ASSUME OrderInv
  PROVE  /\ Promise!Settled = lost \cup Received
         /\ Promise!Pending = Queued \cup Buffered
<1>1. TypeOK /\ OnePlace /\ PayloadsWellFormed
  BY DEF OrderInv, ConservationInv, PayloadsInv
<1> DEFINE batches == [i \in DOMAIN received |-> Tail(received[i])]
<1>2. ASSUME NEW i \in DOMAIN received
      PROVE  Range(batches[i]) = Range(received[i]) \cap Events
  <2>1. received[i] \in Seq(Events \cup {Metadata})
    BY <1>1, <1>2 DEF TypeOK
  <2>2. WellFormed(received[i])
    BY <1>1, <1>2 DEF PayloadsWellFormed, WellFormed
  <2>3. Range(Tail(received[i])) = Range(received[i]) \cap Events
    BY <2>1, <2>2, TailEvents
  <2> QED
    BY <1>2, <2>3
<1>3. DOMAIN batches = DOMAIN received
  OBVIOUS
<1>4. Promise!Settled = lost \cup UNION {Range(batches[i]) : i \in DOMAIN batches}
  BY DEF Promise!Settled, Promise!Range, Range
<1> HIDE DEF batches
<1>5. UNION {Range(batches[i]) : i \in DOMAIN batches} = Received
  BY <1>2, <1>3 DEF Received
<1>6. Promise!Pending = Accepted \ Promise!Settled
  BY DEF Promise!Pending, Promise!Range, Accepted, Range
<1> QED
  BY <1>1, <1>4, <1>5, <1>6 DEF OnePlace

LEMMA PromiseInit == Init => Promise!Init
BY DEF Init, Promise!Init

\* A put is the acceptance of its event, or nothing.
LEMMA PutPromise ==
  ASSUME OrderInv, NEW t \in Threads, Put(t)
  PROVE  Promise!Next \/ UNCHANGED Promise!vars
<1> DEFINE e == call[t].msg.event
<1>1. /\ accepted' = IF e \in Events THEN Append(accepted, e) ELSE accepted
      /\ UNCHANGED <<received, lost>>
  BY PutAccepts DEF Put, AfterPut, OrderInv, ConservationInv
<1>2. e \in Events => e \notin Range(accepted)
  BY DEF OrderInv, ConservationInv, PutsFresh, PutsEvent, Accepted, Put, AfterPut
<1> HIDE DEF e
<1>3. CASE e \in Events
  <2>1. Promise!Accept(e)
    BY <1>1, <1>2, <1>3 DEF Promise!Accept, Promise!Range, Range
  <2> QED
    BY <1>3, <2>1 DEF Promise!Next
<1>4. CASE e \notin Events
  BY <1>1, <1>4 DEF Promise!vars
<1> QED
  BY <1>3, <1>4

\* Whatever gives up events that wait gives them up in the promise.
LEMMA LosePromise ==
  ASSUME OrderInv, UNCHANGED <<accepted, received>>,
         NEW S \in SUBSET (Queued \cup Buffered), lost' = lost \cup S
  PROVE  Promise!Next
<1>1. S \in SUBSET Promise!Pending
  BY PendingEvents
<1>2. Promise!Lose(S)
  BY DEF Promise!Lose
<1> QED
  BY <1>1, <1>2 DEF Promise!Next

\* As many different elements of a sequence as there are in another one cannot
\* outnumber its positions.
LEMMA NoLonger ==
  ASSUME NEW S, NEW s \in Seq(S), NEW n \in Nat, NEW f \in [1 .. n -> Range(s)],
         \A i, j \in 1 .. n : f[i] = f[j] => i = j
  PROVE  n <= Len(s)
<1> DEFINE at == [i \in 1 .. n |-> CHOOSE k \in DOMAIN s : s[k] = f[i]]
<1>1. DOMAIN s = 1 .. Len(s) /\ Len(s) \in Nat
  OBVIOUS
<1>2. ASSUME NEW i \in 1 .. n
      PROVE  at[i] \in 1 .. Len(s) /\ s[at[i]] = f[i]
  <2>1. \E k \in DOMAIN s : s[k] = f[i]
    BY DEF Range
  <2> QED
    BY <1>1, <2>1
<1>3. at \in [1 .. n -> 1 .. Len(s)]
  BY <1>2
<1> HIDE DEF at
<1>4. \A i, j \in 1 .. n : at[i] = at[j] => i = j
  BY <1>2
<1>5. /\ IsFiniteSet(1 .. n) /\ IsFiniteSet(1 .. Len(s))
      /\ Cardinality(1 .. n) = n /\ Cardinality(1 .. Len(s)) = Len(s)
  <2>1. \A k \in Nat : IsFiniteSet(1 .. k) /\ Cardinality(1 .. k) = k
    BY FS_Interval
  <2> QED
    BY <1>1, <2>1
<1>6. CASE n > Len(s)
  <2>1. Cardinality(1 .. Len(s)) < Cardinality(1 .. n)
    BY <1>1, <1>5, <1>6
  <2>2. \E i, j \in 1 .. n : i # j /\ at[i] = at[j]
    BY <1>3, <1>5, <2>1, FS_PigeonHole
  <2> QED
    BY <1>4, <2>2
<1> QED
  BY <1>1, <1>6

\* A payload that arrives delivers the oldest events that wait, in order.
LEMMA ArrivesPromise ==
  ASSUME OrderInv, buffer # <<>>, Arrives,
         UNCHANGED <<accepted, lost>>
  PROVE  Promise!Next
<1>0. PICK batch, n : batch = Tail(buffer) /\ n = Len(buffer) - 1
  OBVIOUS
<1>1. /\ TypeOK /\ Order /\ OnePlace /\ WellFormed(buffer)
      /\ buffer \in Seq(Events \cup {Metadata})
      /\ received \in Seq(Seq(Events \cup {Metadata}))
      /\ accepted \in Seq(Events)
      /\ received' = Append(received, buffer)
  BY DEF OrderInv, ConservationInv, PayloadsInv, BufferOK, TypeOK, Arrives
<1>2. /\ Len(buffer) \in Nat /\ Len(buffer) > 1
      /\ DOMAIN buffer = 1 .. Len(buffer)
  BY <1>1 DEF WellFormed
<1>3. /\ batch \in Seq(Events)
      /\ DOMAIN batch = 1 .. n
      /\ \A i \in 1 .. n : batch[i] = buffer[i + 1]
      /\ Range(batch) = Buffered
  BY <1>0, <1>1, TailEvents DEF Buffered
<1>4. n \in Nat /\ n > 0
  BY <1>0, <1>2
<1>5. ASSUME NEW i \in DOMAIN batch, NEW j \in DOMAIN batch, i < j
      PROVE  Before(accepted, batch[i], batch[j])
  <2>1. i + 1 \in 2 .. Len(buffer) /\ j + 1 \in 2 .. Len(buffer) /\ i + 1 < j + 1
    BY <1>0, <1>2, <1>3, <1>5
  <2>2. Before(accepted, buffer[i + 1], buffer[j + 1])
    BY <1>1, <2>1 DEF Order, BufferOrder
  <2> QED
    BY <1>3, <2>2
<1>6. \A d \in Range(batch), e \in Promise!Pending \ Range(batch) :
        Before(accepted, d, e)
  BY <1>1, <1>3, PendingEvents DEF Order, BufferFirst
<1>7. \A d, e : Before(accepted, d, e) <=> Promise!Earlier(d, e)
  BY DEF Before, Promise!Earlier
<1>8. /\ \A i, j \in DOMAIN batch : i < j => Promise!Earlier(batch[i], batch[j])
      /\ \A d \in Promise!Range(batch), e \in Promise!Pending \ Promise!Range(batch) :
           Promise!Earlier(d, e)
  <2>1. Promise!Range(batch) = Range(batch)
    BY DEF Promise!Range, Range
  <2> QED
    BY <1>5, <1>6, <1>7, <2>1
<1>9. [i \in DOMAIN received |-> Tail(received[i])]'
        = Append([i \in DOMAIN received |-> Tail(received[i])], batch)
  <2> DEFINE old == [i \in DOMAIN received |-> Tail(received[i])]
             new == [i \in DOMAIN received' |-> Tail(received'[i])]
  <2>1. /\ DOMAIN received = 1 .. Len(received) /\ Len(received) \in Nat
        /\ DOMAIN received' = 1 .. Len(received) + 1
        /\ \A i \in 1 .. Len(received) : received'[i] = received[i]
        /\ received'[Len(received) + 1] = buffer
    BY <1>1
  <2>2. old \in Seq(Seq(Events)) /\ Len(old) = Len(received)
    <3>1. ASSUME NEW i \in DOMAIN received
          PROVE  Tail(received[i]) \in Seq(Events)
      <4>1. received[i] \in Seq(Events \cup {Metadata})
        BY <1>1, <3>1
      <4>2. WellFormed(received[i])
        BY <3>1 DEF OrderInv, PayloadsInv, PayloadsWellFormed, WellFormed
      <4> QED
        BY <4>1, <4>2, TailEvents
    <3> QED
      BY <2>1, <3>1
  <2>3. /\ DOMAIN new = 1 .. Len(received) + 1
        /\ \A i \in 1 .. Len(received) : new[i] = old[i]
        /\ new[Len(received) + 1] = batch
    BY <1>0, <2>1
  <2> HIDE DEF old
  <2> DEFINE longer == Append(old, batch)
  <2>4. /\ longer \in Seq(Seq(Events))
        /\ DOMAIN longer = 1 .. Len(received) + 1
        /\ \A i \in 1 .. Len(received) : longer[i] = old[i]
        /\ longer[Len(received) + 1] = batch
    BY <1>3, <2>2
  <2>5. longer = [i \in DOMAIN longer |-> longer[i]]
    <3> HIDE DEF longer
    <3>1. longer \in [1 .. Len(longer) -> Seq(Events)]
      BY <2>4
    <3> QED
      BY <3>1
  <2>6. new = [i \in DOMAIN new |-> new[i]]
    OBVIOUS
  <2> HIDE DEF longer, new
  <2>7. DOMAIN new = DOMAIN longer
    BY <2>3, <2>4
  <2>8. \A i \in DOMAIN new : new[i] = longer[i]
    BY <2>1, <2>3, <2>4
  <2>9. new = longer
    BY <2>5, <2>6, <2>7, <2>8
  <2> QED
    BY <2>9 DEF old, new, longer
<1>10. Promise!Deliver(batch)
  BY <1>8, <1>9 DEF Promise!Deliver
<1>11. batch \in [1 .. n -> Promise!Pending]
  <2>1. \A i \in 1 .. n : batch[i] \in Promise!Pending
    BY <1>3, PendingEvents DEF Range
  <2> QED
    BY <1>3, <2>1
<1>12. n \in 1 .. Len(accepted)
  <2>1. Promise!Pending \subseteq Range(accepted)
    BY DEF Promise!Pending, Promise!Range, Range
  <2>2. batch \in [1 .. n -> Range(accepted)]
    BY <1>11, <2>1
  <2>3. ASSUME NEW i \in 1 .. n, NEW j \in 1 .. n, batch[i] = batch[j]
        PROVE  i = j
    <3>1. ~ Before(accepted, batch[i], batch[i])
      BY <1>1 DEF Before, Order, AcceptedOnce
    <3>2. ~ (i < j) /\ ~ (j < i)
      BY <1>3, <1>5, <2>3, <3>1
    <3> QED
      BY <1>4, <3>2
  <2>4. n <= Len(accepted)
    BY <1>1, <1>4, <2>2, <2>3, NoLonger
  <2> QED
    BY <1>1, <1>4, <2>4
<1>13. \E k \in 1 .. Len(accepted) :
         \E b \in [1 .. k -> Promise!Pending] : Promise!Deliver(b)
  BY <1>10, <1>11, <1>12
<1> QED
  BY <1>13 DEF Promise!Next

\* A message that is handled is given up or goes on to wait in the buffer.
LEMMA HandlePromise ==
  ASSUME OrderInv, queue # <<>>, NEW timedOut \in BOOLEAN,
         Handle(Head(queue), timedOut)
  PROVE  Promise!Next \/ UNCHANGED Promise!vars
<1>0. PICK m : m = Head(queue)
  OBVIOUS
<1>1. UNCHANGED <<accepted, received>>
  BY DEF Handle
<1>2. CASE lost' = lost
  BY <1>1, <1>2 DEF Promise!vars
<1>3. CASE /\ m.kind = "data"
           /\ \/ lost' = lost \cup {m.event}
              \/ lost' = lost \cup (Buffered \cup {m.event})
  <2>1. m \in Message /\ m.event \in Events
    BY <1>0, <1>3, MessageType DEF OrderInv, ConservationInv, TypeOK
  <2>2. m.event \in Queued
    BY <1>0, <2>1, QueueTail DEF Handle, OrderInv, ConservationInv
  <2>3. \E S \in SUBSET (Queued \cup Buffered) : lost' = lost \cup S
    <3>1. CASE lost' = lost \cup {m.event}
      BY <2>2, <3>1
    <3>2. CASE lost' = lost \cup (Buffered \cup {m.event})
      BY <2>2, <3>2
    <3> QED
      BY <1>3, <3>1, <3>2
  <2> QED
    BY <1>1, <2>3, LosePromise
<1> QED
  BY <1>0, <1>2, <1>3
  DEF Handle, HandleClose, HandleFlush, HandleWrite, HandleDrop, HandleCrash

LEMMA NextPromise ==
  ASSUME OrderInv, [Next]_vars
  PROVE  Promise!Next \/ UNCHANGED Promise!vars
<1>1. ASSUME UNCHANGED <<accepted, received, lost>>
      PROVE  UNCHANGED Promise!vars
  BY <1>1 DEF Promise!vars
<1>2. ASSUME NEW t \in Threads,
             \/ \E e \in Events, f \in BOOLEAN : QueueEvent(t, e, f)
             \/ Flush(t) \/ CloseCheck(t) \/ CloseSet(t) \/ PutFull(t)
             \/ WaitCheck(t) \/ WaitTimeout(t)
      PROVE  UNCHANGED <<accepted, received, lost>>
  BY <1>2 DEF QueueEvent, Flush, CloseCheck, CloseSet, Clear, PutFull,
              AfterPut, WaitCheck, WaitTimeout, workerVars
<1>3. CASE StartThread \/ TimePasses \/ Block \/ GetEmpty \/ TrySend \/ Finish
  <2>1. UNCHANGED <<accepted, received, lost>>
    BY <1>3 DEF StartThread, TimePasses, workerVars, Block, GetEmpty, TrySend, Finish
  <2> QED
    BY <1>1, <2>1
<1>4. CASE Get \/ Wake
  BY <1>4, HandlePromise DEF Get, Wake, OrderInv, ConservationInv, TypeOK
<1>5. ASSUME UNCHANGED <<accepted, received>>, lost' = lost \cup Buffered
      PROVE  Promise!Next
  <2>1. \E S \in SUBSET (Queued \cup Buffered) : lost' = lost \cup S
    BY <1>5
  <2> QED
    BY <1>5, <2>1, LosePromise
<1>6. CASE BackOff
  BY <1>5, <1>6 DEF BackOff
<1>7. ASSUME Arrives, UNCHANGED <<accepted, lost>>
      PROVE  Promise!Next \/ UNCHANGED Promise!vars
  <2>1. CASE buffer = <<>>
    BY <1>1, <1>7, <2>1 DEF Arrives
  <2>2. CASE buffer # <<>>
    BY <1>7, <2>2, ArrivesPromise
  <2> QED
    BY <2>1, <2>2
<1>8. CASE SendOk
  BY <1>7, <1>8 DEF SendOk
<1>9. CASE SendFail
  BY <1>5, <1>7, <1>9 DEF SendFail
<1>10. CASE UNCHANGED vars
  BY <1>1, <1>10 DEF vars
<1> QED
  BY <1>1, <1>2, <1>3, <1>4, <1>6, <1>8, <1>9, <1>10, PutPromise DEF Next, Worker

\* Transport implements Delivery: whatever the threads put, the server answers
\* and the worker suffers, an accepted event reaches the server at most once, in
\* a request that carries the oldest ones that wait in the order in which they
\* were accepted, or it is given up.
THEOREM ImplementsThePromise == Spec => ImplementsDelivery
<1>1. Init => OrderInv
  BY InitType, InitConserves, InitOrder
  DEF OrderInv, ConservationInv, PayloadsInv, Init, BufferOK, PayloadsWellFormed
<1>2. OrderInv /\ [Next]_vars => [Promise!Next]_(Promise!vars)
  BY NextPromise
<1> QED
  BY <1>1, <1>2, NextOrder, PromiseInit, PTL DEF Spec, ImplementsDelivery, Promise!Spec
=============================================================================
