------------------------------ MODULE Tracing -------------------------------
(***************************************************************************)
(* One transaction and its spans (elasticapm/traces.py), with the execution*)
(* contexts that share it: the one that began the transaction and those    *)
(* that were started with a copy of its context variables, asyncio tasks   *)
(* or threads.                                                             *)
(*                                                                         *)
(* A span is settled when it ends or later, while it waits in the          *)
(* compression buffer of its parent: it is sent, merged into a similar     *)
(* sibling, discarded because it was short, or cancelled.  The transaction *)
(* counts its spans and sends the counts when it ends.                     *)
(*                                                                         *)
(* Of what is known of a span only what decides about that is here: its    *)
(* class.  Whether two spans are similar, and whether a span is short, are *)
(* free choices.  (MutantX is X with a bug, for a property to find.)       *)
(***************************************************************************)
EXTENDS Integers, SequencesExt, FiniteSetsExt

CONSTANTS
  Contexts,      \* the execution contexts
  Main,          \* the one that begins and ends the transaction
  MaxBegun,      \* bound: how many spans are begun
  Limits,        \* what transaction_max_spans may be, 0 is no limit
  DropsShort,    \* exit_span_min_duration is positive
  Preemption,    \* TRUE: contexts may be threads, FALSE: they may be tasks
  Tx,            \* the transaction
  None

Spans == 1 .. MaxBegun

ASSUME TracingAssumption ==
  /\ Main \in Contexts
  /\ MaxBegun \in Nat
  /\ Limits \in (SUBSET Nat) \ {{}}
  /\ DropsShort \in BOOLEAN
  /\ Preemption \in (SUBSET BOOLEAN) \ {{}}
  /\ Tx \notin Spans /\ None \notin Spans \cup {Tx}

VARIABLES
  preemptive,  \* the contexts are threads
  limit,       \* config_transaction_max_spans, read when it begins
  running,     \* the contexts that have the transaction
  stack,       \* elasticapm_spans_var of each context
  op,          \* the call that each context is in, and of which span
  begun,       \* how many spans there are
  span,        \* the spans
  tx,          \* "open", "ending" or "ended"
  buffer,      \* compression_buffer of the spans and the transaction
  counter,     \* _span_counter
  dropped,     \* dropped_spans
  counts,      \* the counts that were sent with the transaction
  fate,        \* history: how each span was settled, each time
  late,        \* history: the parents of a child that ended after them
  stale,       \* history: spans that ended out of turn, or whose end raised
  strays       \* history: active spans that the end of another one removed

config == <<preemptive, limit>>
order == <<stale, strays>>
vars == <<config, running, stack, op, begun, span, tx, buffer, counter,
          dropped, counts, fate, late, order>>

\* exit: a leaf that succeeded and that no other service knows of; such a span
\* may be compressed and, if it is short, discarded.  An instrumentation may
\* cancel any span before it ends, and the one of Kafka cancels leaves.
Classes(leaf) == {"plain", "cancelled"}
                   \cup IF leaf THEN {"exit", "cancelled exit"} ELSE {}

Span(kind, parent, leaf, owner) ==
  [kind |-> kind, parent |-> parent, leaf |-> leaf, owner |-> owner,
   class |-> "plain", state |-> IF kind = "none" THEN "none" ELSE "open"]
Unused == Span("none", Tx, FALSE, Main)

Real(s) == s # Tx => span[s].kind = "real"
Eligible(s) == span[s].class = "exit"
Discardable(s) == span[s].class \in {"exit", "cancelled exit"}
Cancelled(s) == span[s].class \in {"cancelled", "cancelled exit"}

At(l, s, leaf) == [at |-> l, of |-> s, leaf |-> leaf]
Idle == At("idle", None, FALSE)

Init ==
  /\ preemptive \in Preemption
  /\ limit \in Limits
  /\ running = {Main}
  /\ stack = [c \in Contexts |-> <<>>]
  /\ op = [c \in Contexts |-> Idle]
  /\ begun = 0
  /\ span = [s \in Spans |-> Unused]
  /\ tx = "open"
  /\ buffer = [s \in Spans \cup {Tx} |-> None]
  /\ counter = 0
  /\ dropped = 0
  /\ counts = None
  /\ fate = [s \in Spans |-> <<>>]
  /\ late = {}
  /\ stale = {}
  /\ strays = {}

\* No other context is in the middle of a call.
Alone(c) == \A d \in Contexts \ {c} : op[d] = Idle

\* The context c may start a call: tasks do not interrupt each other.
Ready(c) == c \in running /\ op[c] = Idle /\ (preemptive \/ Alone(c))

\* x += n is a load and a store: if another thread is in a call, part of it
\* may be overwritten.
Plus(c, x, n) ==
  {x + k : k \in IF Alone(c) THEN {n} ELSE (n .. 0) \cup (0 .. n)}

\* A task or thread starts with a copy of the context of c.
Spawn(c, d) ==
  /\ Ready(c)
  /\ d \notin running /\ d # Main
  /\ running' = running \cup {d}
  /\ stack' = [stack EXCEPT ![d] = stack[c]]
  /\ UNCHANGED <<config, op, begun, span, tx, buffer, counter, dropped,
                 counts, fate, late, order>>

(***************************************************************************)
(* _begin_span.                                                            *)
(***************************************************************************)
MutantParent(c) == IF stack[c] = <<>> THEN None ELSE Last(stack[c])
Parent(c) == IF stack[c] = <<>> THEN Tx ELSE Last(stack[c])

Activate(c, sp) ==
  /\ begun < MaxBegun
  /\ begun' = begun + 1
  /\ span' = [span EXCEPT ![begun'] = sp]
  /\ stack' = [stack EXCEPT ![c] = Append(@, begun')]

MutantUnderLeaf(c) == FALSE
UnderLeaf(c) == stack[c] # <<>> /\ span[Last(stack[c])].leaf
MutantOverLimit == limit > 0 /\ counter > limit
OverLimit == limit > 0 /\ counter > limit - 1

\* A leaf has no children: what begins under it is a DroppedSpan.
BeginUnderLeaf(c) ==
  /\ Ready(c)
  /\ UnderLeaf(c)
  /\ Activate(c, Span("dropped", Parent(c), TRUE, c))
  /\ UNCHANGED <<config, running, op, tx, buffer, counter, dropped,
                 counts, fate, late, order>>

\* The limit is reached: a DroppedSpan that is not a leaf.
BeginOverLimit(c) ==
  /\ Ready(c)
  /\ ~UnderLeaf(c) /\ OverLimit
  /\ Activate(c, Span("dropped", Parent(c), FALSE, c))
  /\ dropped' \in Plus(c, dropped, 1)
  /\ UNCHANGED <<config, running, op, tx, buffer, counter, counts, fate,
                 late, order>>

\* The limit is not reached; the span is counted after it was created and its
\* frames were collected.
BeginCheck(c, leaf) ==
  /\ Ready(c)
  /\ begun < MaxBegun
  /\ ~UnderLeaf(c) /\ ~OverLimit
  /\ op' = [op EXCEPT ![c] = At("create", None, leaf)]
  /\ UNCHANGED <<config, running, stack, begun, span, tx, buffer, counter,
                 dropped, counts, fate, late, order>>

Create(c) ==
  /\ op[c].at = "create"
  /\ Activate(c, Span("real", Parent(c), op[c].leaf, c))
  /\ counter' \in Plus(c, counter, 1)
  /\ op' = [op EXCEPT ![c] = Idle]
  /\ UNCHANGED <<config, running, tx, buffer, dropped, counts, fate, late,
                 order>>

(***************************************************************************)
(* How a span is settled.  f says for each span of a set what becomes of   *)
(* it: report() chooses among Outcomes, try_to_compress merges, and what   *)
(* ends under a DroppedSpan is lost.                                       *)
(***************************************************************************)
Fates == {"sent", "discarded", "cancelled", "merged", "lost"}

Outcomes(s) ==
  (IF DropsShort /\ Discardable(s) THEN {"discarded"} ELSE {})
    \cup {IF Cancelled(s) THEN "cancelled" ELSE "sent"}
Reports(S) == {f \in [S -> Fates] : \A s \in S : f[s] \in Outcomes(s)}

MutantUncounted == {"cancelled"}
Uncounted == {"cancelled", "merged"}

Settle(c, f) ==
  /\ fate' = [s \in Spans |-> IF s \in DOMAIN f THEN Append(fate[s], f[s])
                                                ELSE fate[s]]
  /\ counter' \in
       Plus(c, counter, -Cardinality({s \in DOMAIN f : f[s] \in Uncounted}))
  /\ dropped' \in
       Plus(c, dropped, Cardinality({s \in DOMAIN f : f[s] = "discarded"}))

\* BaseSpan.child_ended, under compression_buffer_lock; DroppedSpan.child_ended
\* does nothing.
MutantReplaced(b) == {}
Replaced(b) == {b} \ {None}

ChildEnded(c, s, p) ==
  LET b == buffer[p]
      Buffer(x) == buffer' = [buffer EXCEPT ![p] = x]
  IN  \/ /\ ~Real(p)
         /\ Settle(c, [x \in {s} |-> "lost"])
         /\ UNCHANGED buffer
      \/ /\ Real(p) /\ ~Eligible(s)
         /\ \E f \in Reports(Replaced(b) \cup {s}) : Settle(c, f)
         /\ Buffer(None)
      \/ /\ Real(p) /\ Eligible(s)
         /\ \E f \in Reports(Replaced(b)) : Settle(c, f)
         /\ Buffer(s)
      \/ /\ Real(p) /\ Eligible(s) /\ b # None
         /\ Settle(c, [x \in {s} |-> "merged"])
         /\ UNCHANGED buffer

(***************************************************************************)
(* end().                                                                  *)
(***************************************************************************)
Active(c) == IF stack[c] = <<>> THEN {} ELSE {Last(stack[c])}

\* execution_context.unset_span.
Unset(c) == IF stack[c] = <<>> THEN stack ELSE [stack EXCEPT ![c] = Front(@)]

\* Span.end deactivates the span if it is the active one.
MutantPop(c, s) == stack
Pop(c, s) == IF s \in Active(c) THEN Unset(c) ELSE stack

\* A context ends each of the spans that it began once, in any order: most are
\* ended as the active span, but an end() may come out of turn.  A span whose
\* end raised is still active, and the next end_span() ends it again.
Ends(c, s) == span[s].owner = c /\ span[s].state \in {"open", "ending"}

OutOfTurn(c, s) == {s} \ Active(c)

\* DroppedSpan.end deactivates what is active, whichever span that is.
EndDropped(c, s) ==
  /\ Ready(c)
  /\ Ends(c, s)
  /\ ~Real(s)
  /\ span' = [span EXCEPT ![s].state = "ended"]
  /\ stack' = Unset(c)
  /\ stale' = stale \cup OutOfTurn(c, s)
  /\ strays' = strays \cup (Active(c) \ {s})
  /\ UNCHANGED <<config, running, op, begun, tx, buffer, counter, dropped,
                 counts, fate, late>>

\* BaseSpan.end looks at the compression buffer without the lock.
AfterEnd(s, l) == At(IF buffer[s] # None THEN "flush" ELSE l, s, FALSE)

End(c, s, k) ==
  /\ Ready(c)
  /\ Ends(c, s)
  /\ Real(s)
  /\ k \in Classes(span[s].leaf)
  /\ span' = [span EXCEPT ![s].state = "ending", ![s].class = k]
  /\ op' = [op EXCEPT ![c] = AfterEnd(s, "parent")]
  /\ UNCHANGED <<config, running, stack, begun, tx, buffer, counter,
                 dropped, counts, fate, late, order>>

EndTransaction(c) ==
  /\ c = Main
  /\ Ready(c)
  /\ tx = "open"
  /\ tx' = "ending"
  /\ running' = running \ {c}
  /\ op' = [op EXCEPT ![c] = AfterEnd(Tx, "queue")]
  /\ UNCHANGED <<config, stack, begun, span, buffer, counter, dropped,
                 counts, fate, late, order>>

Flush(c) ==
  /\ op[c].at = "flush"
  /\ buffer[op[c].of] # None
  /\ \E f \in Reports({buffer[op[c].of]}) : Settle(c, f)
  /\ op' = [op EXCEPT ![c].at = "clear"]
  /\ UNCHANGED <<config, running, stack, begun, span, tx, buffer, counts,
                 late, order>>

\* A child took the buffer away: None has no report(), and the exception goes
\* to the application.  The rest of end() is skipped: the span stays active and
\* its parent is not told; the transaction, which has left its context, is not
\* queued.
FlushRaises(c) ==
  /\ op[c].at = "flush"
  /\ buffer[op[c].of] = None
  /\ op' = [op EXCEPT ![c] = Idle]
  /\ stale' = stale \cup ({op[c].of} \ {Tx})
  /\ UNCHANGED <<config, running, stack, begun, span, tx, buffer, counter,
                 dropped, counts, fate, late, strays>>

ClearBuffer(c) ==
  /\ op[c].at = "clear"
  /\ buffer' = [buffer EXCEPT ![op[c].of] = None]
  /\ op' = [op EXCEPT ![c].at = IF op[c].of = Tx THEN "queue" ELSE "parent"]
  /\ UNCHANGED <<config, running, stack, begun, span, tx, counter, dropped,
                 counts, fate, late, order>>

\* The rest of Span.end: the span is no longer active and its parent is told.
ToParent(c) ==
  /\ op[c].at = "parent"
  /\ LET s == op[c].of
         p == span[s].parent
     IN  /\ ChildEnded(c, s, p)
         /\ stack' = Pop(c, s)
         /\ stale' = stale \cup OutOfTurn(c, s)
         /\ span' = [span EXCEPT ![s].state = "ended"]
         /\ late' = IF (IF p = Tx THEN tx ELSE span[p].state) # "open"
                      THEN late \cup {p} ELSE late
  /\ op' = [op EXCEPT ![c] = Idle]
  /\ UNCHANGED <<config, running, begun, tx, counts, strays>>

\* The transaction is serialised and queued.
QueueTransaction(c) ==
  /\ op[c].at = "queue"
  /\ counts' = [started |-> counter, dropped |-> dropped]
  /\ tx' = "ended"
  /\ op' = [op EXCEPT ![c] = Idle]
  /\ UNCHANGED <<config, running, stack, begun, span, buffer, counter,
                 dropped, fate, late, order>>

\* A transaction whose name is to be ignored, or that is not sampled, is not
\* queued; its spans were all the same.
IgnoreTransaction(c) ==
  /\ op[c].at = "queue"
  /\ tx' = "ended"
  /\ op' = [op EXCEPT ![c] = Idle]
  /\ UNCHANGED <<config, running, stack, begun, span, buffer, counter, dropped,
                 counts, fate, late, order>>

Next ==
  \E c \in Contexts :
    \/ \E d \in Contexts : Spawn(c, d)
    \/ BeginUnderLeaf(c)
    \/ BeginOverLimit(c)
    \/ \E leaf \in BOOLEAN : BeginCheck(c, leaf)
    \/ Create(c)
    \/ \E s \in Spans : EndDropped(c, s)
    \/ \E s \in Spans, k \in Classes(TRUE) : End(c, s, k)
    \/ EndTransaction(c)
    \/ Flush(c)
    \/ FlushRaises(c)
    \/ ClearBuffer(c)
    \/ ToParent(c)
    \/ QueueTransaction(c)
    \/ IgnoreTransaction(c)

Spec == Init /\ [][Next]_vars

-----------------------------------------------------------------------------
\* Every variable has its type.
TypeOK ==
  /\ preemptive \in BOOLEAN
  /\ limit \in Limits
  /\ running \in SUBSET Contexts
  /\ \A c \in Contexts : Range(stack[c]) \subseteq 1 .. begun
  /\ \A c \in Contexts :
       /\ op[c].at \in {"idle", "create", "flush", "clear", "parent", "queue"}
       /\ op[c].of \in Spans \cup {Tx, None}
  /\ begun \in 0 .. MaxBegun
  /\ span \in [Spans ->
       [kind : {"none", "real", "dropped"}, parent : Spans \cup {Tx},
        leaf : BOOLEAN, owner : Contexts, class : Classes(TRUE),
        state : {"none", "open", "ending", "ended"}]]
  /\ tx \in {"open", "ending", "ended"}
  /\ buffer \in [Spans \cup {Tx} -> Spans \cup {None}]
  /\ counter \in Int
  /\ dropped \in Nat
  /\ \A s \in Spans : Range(fate[s]) \subseteq Fates
  /\ late \in SUBSET (Spans \cup {Tx})
  /\ stale \in SUBSET Spans
  /\ strays \in SUBSET Spans

Begun == 1 .. begun
Settled(h) == {s \in Begun : h \in Range(fate[s])}
StateOf(s) == IF s = Tx THEN tx ELSE span[s].state

\* Between its calls a context keeps its own open spans active, and only those:
\* one that is over stays on the stack only if it was ended out of turn or its
\* end raised, and an open one is missing only if the end of a DroppedSpan that
\* was out of turn removed it.  In particular a context that ends its spans in
\* turn, and none raising, hangs no new span below one that is over.
ActiveSpanOpen ==
  \A c \in Contexts, s \in Begun :
    op[c] = Idle /\ span[s].owner = c =>
      /\ s \in Range(stack[c]) => span[s].state = "open" \/ s \in stale
      /\ span[s].state = "open" => s \in Range(stack[c]) \/ s \in strays

\* A span is settled once, when it ended or later, and until then it waits in
\* the buffer of its parent; a parent that ended has an empty buffer.  This
\* holds below every parent whose children end before it does, also if they
\* end at the same time in several threads.
SettledOnce ==
  \A p \in Spans \cup {Tx} :
    p \notin late /\ Real(p) =>
      /\ \A s \in Begun :
           Real(s) /\ span[s].parent = p =>
             /\ span[s].state # "ended" => fate[s] = <<>>
             /\ span[s].state = "ended" /\ fate[s] = <<>> => buffer[p] = s
             /\ fate[s] # <<>> =>
                  /\ Len(fate[s]) = 1
                  /\ buffer[p] = s =>
                       \E c \in Contexts : op[c] = At("clear", p, FALSE)
      /\ StateOf(p) = "ended" => buffer[p] = None

\* Each span has ended and none did after its parent: the structured case.
AllEnded == late = {} /\ \A s \in Begun : span[s].state = "ended"
DroppedByLimit == {s \in Begun : ~Real(s) /\ ~span[s].leaf}

\* The counts that a transaction of tasks sends are those of its spans: what
\* was merged or cancelled is not in them, and what was discarded is in both.
CountsHonest ==
  [][counts' # counts /\ AllEnded /\ ~preemptive =>
       /\ counts'.started = Cardinality(
            Settled("sent") \cup Settled("discarded") \cup Settled("lost"))
       /\ counts'.dropped =
            Cardinality(DroppedByLimit \cup Settled("discarded"))]_vars

\* transaction_max_spans is kept among tasks, although merging and cancelling
\* make room for more spans.
SpanLimit ==
  limit > 0 /\ ~preemptive => Cardinality(Settled("sent")) <= limit

\* The documentation of transaction_max_spans does not except threads: it
\* "limits the amount of spans that are recorded per transaction".
SpanLimitOfThreads ==
  limit > 0 => Cardinality(Settled("sent")) <= limit

\* The trace is not broken: the parent of a span that was sent is sent too when
\* it ends in time.  Only cancelling and the limit may take away a parent, not
\* compression and not exit_span_min_duration.
BelowLimit(s) == span[s].parent # Tx /\ ~Real(span[s].parent)

ParentsArrive ==
  late = {} =>
    \A s \in Settled("sent") :
      LET p == span[s].parent
      IN  \/ p = Tx
          \/ span[p].state # "ended"
          \/ p \in Settled("sent") \cup Settled("cancelled")
          \/ BelowLimit(p)

\* The docstring of cancel(): "Cancelled spans don't count towards started
\* spans nor dropped spans".
CancelledNotCounted ==
  [][counts' # counts /\ AllEnded /\ ~preemptive =>
       counts'.started + counts'.dropped <=
         Cardinality({s \in Begun : ~Cancelled(s)})
           + Cardinality({s \in Settled("discarded") : ~Cancelled(s)})]_vars
=============================================================================
