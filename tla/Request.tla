-------------------------------- MODULE Request --------------------------------
(***************************************************************************)
(* One request to an instrumented service, from the headers it came with   *)
(* to the events that are reported: an integration begins and ends the     *)
(* transaction (Integrations), the application calls instrumented          *)
(* libraries, which may call each other (Packages), exceptions are raised  *)
(* and caught, and other services are told of the trace (TraceContext).    *)
(*                                                                         *)
(* Everything happens in one execution context.  Several of them, and the  *)
(* compression buffer, are in Tracing; here an exit span of which nothing  *)
(* is to be kept is sent, merged or discarded by a free choice.            *)
(***************************************************************************)
EXTENDS TraceContext, Packages, Integrations, FiniteSetsExt

CONSTANT
  Scenarios      \* what services there may be, see RequestAssumption: a sequence

\* The identifiers of the transaction and of the span of the caller; those of
\* the spans are their numbers.
Tx == 0
Caller == -1

\* A service has a configuration, an integration out of some and calls some
\* instrumented libraries.  Bounds: how many spans are begun, how many
\* instrumented functions are active, and how many errors are captured.
ASSUME RequestAssumption ==
  \A n \in DOMAIN Scenarios :
    LET s == Scenarios[n]
    IN  /\ s.strategy \in Strategies /\ s.rate \in Rates /\ s.limit \in Nat
        /\ s.new \in BOOLEAN    \* the server is of version 8 or later
        /\ s.ignored \in BOOLEAN    \* by transactions_ignore_patterns
        /\ s.frameworks \subseteq HttpIntegrations \cup OtherIntegrations
        /\ s.libraries \subseteq Libraries
        /\ s.raises \subseteq {"Exception", "BaseException"}
        /\ s.filters \in BOOLEAN    \* whether filter_exception_types has them
        /\ s.upstreams # {}     \* the headers that requests come with
        /\ s.spans \in Nat /\ s.depth \in Nat /\ s.errors \in Nat

\* The headers of strangers, who cannot know the identifier of a trace that is
\* only begun here.  A message of Kafka has them in binary: from_binary does not
\* check the version, but to_binary never writes one that is none.
ASSUME CallerAssumption ==
  \A n \in DOMAIN Scenarios : \A up \in Scenarios[n].upstreams :
    /\ {up.traceparent, up.legacy} \ {None} \subseteq
         {text \in Texts : text.trace_id # "own"}
    /\ up.tracestate \in Seq(Tracestates)
    /\ (\E i \in Scenarios[n].frameworks : i.carrier = "binary")
         /\ up.traceparent # None =>
             up.traceparent.version \notin {NotANumber, 255}

\* None is neither an exception nor an outcome.
ASSUME ExceptionAssumption ==
  None \notin [tag : Nat \cup {None}, class : {"Exception", "BaseException"}]
ASSUME OutcomeAssumption ==
  None \notin {"success", "failure", "unknown", "status", ""}

VARIABLES
  service,    \* the number of the service
  phase,      \* "idle", "handler", "steps", "done" or "failed"
  request,    \* where the trace parent came from; whether it is traced; how the
              \* handler ended and whether its integration is one for HTTP
  todo,       \* the steps that the integration has to take
  tx,         \* the transaction
  spans,      \* the spans that were begun
  stack,      \* elasticapm_spans_var
  frames,     \* the instrumented functions that are active
  exc,        \* the exception that is raised, with its _elastic_apm_span_id,
              \* and its class
  sent,       \* what other services were told
  errors,     \* the errors that were queued
  queued      \* the transactions that were queued

vars == <<service, phase, request, todo, tx, spans, stack, frames, exc, sent,
          errors, queued>>

conf == Scenarios[service]
Carriers == {i.carrier : i \in conf.frameworks}

NoTransaction ==
  [state |-> "none", tp |-> None, sampled |-> FALSE, rate |-> None,
   outcome |-> None, links |-> {}, counter |-> 0, dropped |-> 0, stats |-> 0]

Init ==
  /\ service \in DOMAIN Scenarios
  /\ phase = "idle"
  /\ request = [carrier |-> None, traced |-> FALSE, ending |-> None,
                http |-> FALSE]
  /\ todo = <<>>
  /\ tx = NoTransaction
  /\ spans = <<>> /\ stack = <<>> /\ frames = <<>>
  /\ exc = None
  /\ sent = {} /\ errors = {} /\ queued = <<>>

(***************************************************************************)
(* The request begins.                                                     *)
(***************************************************************************)
\* gRPC: the name of the header is taken for its value.
MetadataState(up) ==
  IF up.tracestate = <<>> THEN None ELSE Tracestate(None, TRUE, FALSE)

BinaryOf(text) ==
  [length |-> IF text.parts < 4 THEN 28 ELSE 29, ids |-> <<0, 1, 2>>,
   version |-> text.version, trace_id |-> text.trace_id,
   span_id |-> text.span_id, flags |-> text.flags]

\* No pair of an ASGI scope equals the name of a header.
Extract(carrier, up) ==
  LET text == up.traceparent
  IN  IF carrier = "headers" THEN FromHeaders(up)
        ELSE IF carrier \in {"pairs", "links", "none"} \/ text = None THEN None
        ELSE CASE carrier = "context" -> FromContext(up)
               [] carrier = "metadata" -> FromString(text, MetadataState(up))
               [] carrier = "string" -> FromString(text, None)
               [] carrier = "binary" -> FromBinary(BinaryOf(text))

Raises(carrier, up) ==
  /\ carrier \in {"headers", "context"}
  /\ Extract(carrier, up) # None
  /\ ParseRaises(Merge(up.tracestate))

BeginTransaction(carrier, up) ==
  LET tp0 == Extract(carrier, up)
      tp == Continued(conf.strategy, tp0)
  IN  \E sampled \in Decisions(tp, conf.rate) :
        LET rate == SampleRate(tp, conf.rate, sampled)
        IN  tx' = [NoTransaction EXCEPT
              !.state = "open", !.sampled = sampled, !.rate = rate,
              !.tp = TransactionParent(tp, "own", Tx, conf.rate, sampled),
              !.links = Links(conf.strategy, tp0)
                          \cup IF carrier = "links" /\ up.traceparent # None
                                 THEN {FromString(up.traceparent, None)} \ {None}
                                 ELSE {}]

Begin(carrier, up) ==
  /\ phase = "idle"
  /\ carrier # "none"
  /\ ~Raises(carrier, up)
  /\ BeginTransaction(carrier, up)
  /\ phase' = "handler"
  /\ request' = [request EXCEPT !.carrier = carrier, !.traced = TRUE]
  /\ UNCHANGED <<service, todo, spans, stack, frames, exc, sent, errors, queued>>

\* The exception goes to the server, before the handler was called.
BeginRaises(carrier, up) ==
  /\ phase = "idle"
  /\ Raises(carrier, up)
  /\ phase' = "failed"
  /\ request' = [request EXCEPT !.carrier = carrier]
  /\ UNCHANGED <<service, todo, tx, spans, stack, frames, exc, sent, errors, queued>>

\* No transaction: the URL or topic is ignored, or none is ever begun.
BeginUntraced(carrier) ==
  /\ phase = "idle"
  /\ \E i \in conf.frameworks :
       i.carrier = carrier /\ (i.ignores \/ carrier = "none")
  /\ phase' = "handler"
  /\ request' = [request EXCEPT !.carrier = carrier]
  /\ UNCHANGED <<service, todo, tx, spans, stack, frames, exc, sent, errors, queued>>

(***************************************************************************)
(* capture_span.handle_enter and _begin_span.                              *)
(***************************************************************************)
Real(s) == spans[s].kind = "real"
Active == IF stack = <<>> THEN None ELSE Last(stack)
InLeaf == Active # None /\ spans[Active].leaf
InTransaction == tx.state = "open"
Sampling == InTransaction /\ tx.sampled
OverLimit == conf.limit > 0 /\ tx.counter > conf.limit - 1

Span(kind, w, leaf, resource) ==
  [kind |-> kind, bridge |-> w.span = "bridge",
   parent |-> IF Active = None THEN Tx ELSE Active, leaf |-> leaf,
   resource |-> resource, marked |-> FALSE, outcome |-> None, ended |-> FALSE,
   fate |-> "open"]

\* autofill_resource_context derives the resource of a span that is not dropped.
Resource(w) == IF w.resource = "none" THEN "none" ELSE "own"
DroppedResource(w) == IF w.resource = "own" THEN "own" ELSE "none"

MutantNewSpan(w) ==
  IF InLeaf THEN Span("dropped", w, TRUE, DroppedResource(w))
    ELSE IF OverLimit THEN Span("dropped", w, FALSE, DroppedResource(w))
    ELSE Span("real", w, w.span = "exit", Resource(w))
NewSpan(w) ==
  IF InLeaf THEN Span("dropped", w, TRUE, "none")
    ELSE IF OverLimit THEN Span("dropped", w, FALSE, DroppedResource(w))
    ELSE Span("real", w, w.span = "exit", Resource(w))

\* What counts a span that begins.
Counted(s) == IF s.kind = "real" THEN [tx EXCEPT !.counter = @ + 1]
              ELSE IF s.leaf THEN tx ELSE [tx EXCEPT !.dropped = @ + 1]

(***************************************************************************)
(* The services that are called are told of the trace: of the span of the  *)
(* library or, when that was dropped, of what its fallback is.             *)
(***************************************************************************)
IsReal(ss, s) == s # Tx /\ ss[s].kind = "real"
Enclosing(ss, s) ==
  LET above[t \in 0 .. Len(ss)] ==
        IF t = Tx \/ IsReal(ss, t) THEN t ELSE above[ss[t].parent]
  IN  above[s]

Told(w, ss, s) ==
  IF s # None /\ IsReal(ss, s) THEN s
    ELSE CASE w.fallback = "enclosing" -> Enclosing(ss, s)
           [] w.fallback = "transaction" -> Tx
           [] w.fallback = "upstream" -> tx.tp.span_id
           [] w.fallback = "none" -> None

\* An HTTP client says that the trace is recorded, the others what the caller
\* of this service said, or its own decision.
Message(w, id, options) ==
  [carrier |-> w.carrier, marks |-> w.marks, tp |-> CopyFrom(tx.tp, id, options)]

Inform(w, ss, s) ==
  LET id == Told(w, ss, s)
      options == IF w.carrier = "headers" THEN Options(TRUE) ELSE None
      message == Message(w, id, options)
  IN  IF w.carrier = "none" \/ id = None THEN {sent}
        ELSE {sent \cup {message}} \cup (IF w.full THEN {sent} ELSE {})

Mark(w, ss, s) ==
  LET id == Told(w, ss, s)
  IN  IF w.marks /\ id \in 1 .. Len(ss) THEN [ss EXCEPT ![id].marked = TRUE]
                                        ELSE ss

\* mutate_unsampled_call_args; a task of Celery is told what this service was.
MutantInformUnsampled(w) ==
  IF ~w.unsampled THEN sent
    ELSE sent \cup {Message(w, Tx, Options(TRUE))}
InformUnsampled(w) ==
  IF ~w.unsampled THEN sent
    ELSE IF w.fallback = "upstream" /\ w.span = "none"
      THEN sent \cup {Message(w, None, None)}
      ELSE sent \cup {Message(w, Tx, Options(FALSE))}

(***************************************************************************)
(* An instrumented function is called: call_if_sampling and the start of   *)
(* the wrapper.                                                            *)
(***************************************************************************)
Frame(w, s) == [wrapper |-> w, span |-> s]
Callable ==
  IF phase = "handler" /\ exc = None /\ Len(frames) < conf.depth
    THEN conf.libraries ELSE {}

\* (What the bridge begins without a sampled transaction is not modelled.)
CallUntraced(w) ==
  /\ ~Sampling /\ w.span \notin {"bridge", "otel"}
  /\ frames' = Append(frames, Frame(w, None))
  /\ sent' = IF InTransaction THEN InformUnsampled(w) ELSE sent
  /\ UNCHANGED <<service, phase, request, todo, tx, spans, stack, exc, errors, queued>>

CallThrough(w) ==
  /\ Sampling /\ w.span = "none"
  /\ frames' = Append(frames, Frame(w, None))
  /\ sent' \in Inform(w, spans, None)
  /\ spans' = IF w.describes /\ Active # None /\ Real(Active)
                THEN [spans EXCEPT ![Active].resource = "own"] ELSE spans
  /\ UNCHANGED <<service, phase, request, todo, tx, stack, exc, errors, queued>>

CallTraced(w) ==
  /\ Sampling /\ w.span # "none"
  /\ Len(spans) < conf.spans
  /\ w.span = "otel" => NewSpan(w).kind = "real"
  /\ LET ss == Append(spans, NewSpan(w))
         s == Len(ss)
     IN  /\ spans' = Mark(w, ss, s)
         /\ stack' = Append(stack, s)
         /\ frames' = Append(frames, Frame(w, s))
         /\ tx' = Counted(ss[s])
         /\ sent' \in Inform(w, ss, s)
  /\ UNCHANGED <<service, phase, request, todo, exc, errors, queued>>

(***************************************************************************)
(* The active span ends, which is not always the one of the function that  *)
(* returns; only OpenTelemetry ends its own.  What ends under a            *)
(* DroppedSpan is lost.                                                    *)
(***************************************************************************)
MutantDiscardable(s) == s.leaf /\ s.outcome = "success"
Discardable(s) == s.leaf /\ ~s.marked /\ s.outcome = "success"

Siblings(t) ==
  {s \in 1 .. Len(spans) :
     s # t /\ spans[s].ended /\ spans[s].parent = spans[t].parent
       /\ Real(s) /\ Discardable(spans[s])}

Fates(t, span, cancelled) ==
  IF span.parent # Tx /\ ~Real(span.parent) THEN {"lost"}
    ELSE {IF cancelled THEN "cancelled" ELSE "sent"}
           \cup (IF Discardable(span) THEN {"discarded"} ELSE {})
           \cup (IF Discardable(span) /\ ~cancelled /\ Siblings(t) # {}
                   THEN {"merged"} ELSE {})

AfterFate(fate, span) ==
  CASE fate \in {"cancelled", "merged"} -> [tx EXCEPT !.counter = @ - 1]
    [] fate = "discarded" ->
         [tx EXCEPT !.dropped = @ + 1,
                    !.stats = IF span.resource = "own" THEN @ + 1 ELSE @]
    [] OTHER -> tx

\* end_span: the outcome is only set if there is none yet.
EndSpan(t, ss, outcome, cancelled) ==
  LET span == [ss[t] EXCEPT !.ended = TRUE,
                            !.outcome = IF @ = None THEN outcome ELSE @]
  IN  IF span.kind = "dropped"
        THEN /\ spans' = [ss EXCEPT ![t] = span]
             /\ stack' = Front(stack)
             /\ tx' = IF span.resource = "own"
                        THEN [tx EXCEPT !.stats = @ + 1] ELSE tx
        ELSE \E fate \in Fates(t, span, cancelled) :
               /\ spans' = [ss EXCEPT ![t] = [span EXCEPT !.fate = fate]]
               /\ stack' = IF Active = t THEN Front(stack) ELSE stack
               /\ tx' = AfterFate(fate, span)

Innermost == Last(frames)
Ending(f) == IF f.wrapper.span = "otel" THEN f.span ELSE Active
OutcomeOf(f, outcome) ==
  CASE f.wrapper.span = "bridge" -> "unknown"
    [] f.wrapper.span = "otel" -> IF outcome = "failure" THEN outcome ELSE None
    [] OTHER -> outcome
Pop == frames' = Front(frames)

\* The function had no span, or it is the one of a bridge and was dropped: the
\* bridge does not end it.
MutantNothingToEnd(f) == IF f.span = None THEN TRUE ELSE ~Real(f.span)
NothingToEnd(f) ==
  IF f.span = None THEN TRUE
    ELSE stack = <<>> \/ (f.wrapper.span = "bridge" /\ ~Real(f.span))

\* The library returns; its response may tell the outcome.
Return ==
  /\ phase = "handler" /\ exc = None /\ frames # <<>>
  /\ ~NothingToEnd(Innermost)
  /\ LET s == Innermost.span
         w == Innermost.wrapper
     IN  \E failed \in BOOLEAN, cancelled \in BOOLEAN :
           /\ failed => w.status
           /\ cancelled => w.cancels /\ Real(s)
           /\ EndSpan(Ending(Innermost),
                [spans EXCEPT ![s].outcome =
                   IF w.status THEN IF failed THEN "failure" ELSE "success"
                               ELSE @],
                OutcomeOf(Innermost, "success"), cancelled)
  /\ Pop
  /\ UNCHANGED <<service, phase, request, todo, exc, sent, errors, queued>>

ReturnUntraced ==
  /\ phase = "handler" /\ exc = None /\ frames # <<>>
  /\ NothingToEnd(Innermost)
  /\ Pop
  /\ UNCHANGED <<service, phase, request, todo, tx, spans, stack, exc, sent,
                 errors, queued>>

(***************************************************************************)
(* Exceptions.  On its way through capture_span an exception is tagged with *)
(* the span that ends, if there is one.                                    *)
(***************************************************************************)
Raise ==
  /\ phase = "handler" /\ exc = None
  /\ \E class \in conf.raises : exc' = [tag |-> None, class |-> class]
  /\ UNCHANGED <<service, phase, request, todo, tx, spans, stack, frames, sent,
                 errors, queued>>

\* capture_exception: the parent is the span of the tag, which is taken off, or
\* the active span that is not dropped, or the transaction.
MutantErrorParent ==
  IF ~InTransaction THEN None ELSE IF Active = None THEN Tx ELSE Active
ErrorParent ==
  IF ~InTransaction THEN None
    ELSE IF Active = None THEN Tx ELSE Enclosing(spans, Active)

Error(e) ==
  [parent |-> IF e.tag # None THEN e.tag ELSE ErrorParent,
   trace_id |-> IF InTransaction THEN tx.tp.trace_id ELSE None,
   in_exit |-> InLeaf]

\* Exception.capture.  What an exception was caused by, which it looks through
\* too, is not raised any more.
Untagged(e) == [e EXCEPT !.tag = None]

\* _filter_exception_type comes after that.
CaptureException ==
  /\ errors' = IF conf.filters THEN errors ELSE errors \cup {Error(exc)}
  /\ exc' = Untagged(exc)

\* start_span of OpenTelemetry notes the kind of the span in its context, which a
\* DroppedSpan does not have: the application gets an exception.
OTelRaises(w) ==
  /\ Sampling /\ w.span = "otel" /\ tx.dropped < conf.spans
  /\ NewSpan(w).kind = "dropped"
  /\ tx' = Counted(NewSpan(w))
  /\ exc' = [tag |-> None, class |-> "Exception"]
  /\ UNCHANGED <<service, phase, request, todo, spans, stack, frames, sent, errors,
                 queued>>

Unwind ==
  /\ phase = "handler" /\ exc # None /\ frames # <<>>
  /\ ~NothingToEnd(Innermost)
  /\ \E cancelled \in BOOLEAN :
       /\ cancelled => Innermost.wrapper.cancels /\ Real(Innermost.span)
       /\ EndSpan(Ending(Innermost), spans, OutcomeOf(Innermost, "failure"),
                  cancelled)
  /\ IF Innermost.wrapper.span = "otel" /\ exc.class = "Exception"
       THEN CaptureException
       ELSE /\ exc' = IF Real(Active) /\ Innermost.wrapper.span \notin {"bridge", "otel"}
                        THEN [exc EXCEPT !.tag = Active] ELSE exc
            /\ UNCHANGED errors
  /\ Pop
  /\ UNCHANGED <<service, phase, request, todo, sent, queued>>

UnwindUntraced ==
  /\ phase = "handler" /\ exc # None /\ frames # <<>>
  /\ NothingToEnd(Innermost)
  /\ Pop
  /\ UNCHANGED <<service, phase, request, todo, tx, spans, stack, exc, sent,
                 errors, queued>>

\* The application catches the exception; it may capture it and raise it again.
Catch ==
  /\ phase = "handler" /\ exc # None
  /\ exc' = None
  /\ UNCHANGED <<service, phase, request, todo, tx, spans, stack, frames, sent,
                 errors, queued>>

CatchAndCapture ==
  /\ phase = "handler" /\ exc # None
  /\ Cardinality(errors) < conf.errors
  /\ CaptureException
  /\ UNCHANGED <<service, phase, request, todo, tx, spans, stack, frames, sent,
                 queued>>

(***************************************************************************)
(* The handler ends, and the integration, which only now makes a difference *)
(* to others with the same carrier, takes its steps.                       *)
(***************************************************************************)
EndingsOf(e) ==
  CASE e = None -> {"ok", "failed"}
    [] e # None /\ e.class = "BaseException" -> {"killed"}
    [] OTHER -> {"thrown ok", "thrown failed", "error", "broken"}

Finish(i, ending) ==
  /\ phase = "handler" /\ frames = <<>>
  /\ i.carrier = request.carrier
  /\ request.traced \/ i.ignores \/ i.carrier = "none"
  /\ ending \in EndingsOf(exc)
  /\ ending = "broken" => i \in Streaming
  /\ phase' = "steps"
  /\ todo' = IF request.traced THEN i.traced[ending] ELSE i.untraced[ending]
  /\ request' = [request EXCEPT !.ending = ending,
                                !.http = i \in HttpIntegrations]
  /\ UNCHANGED <<service, tx, spans, stack, frames, exc, sent, errors, queued>>

Steps(names) == phase = "steps" /\ todo # <<>> /\ Head(todo).do \in names
Taken == todo' = Tail(todo)

\* Functions that are instrumented themselves run for sampled transactions only.
Skip ==
  /\ Steps({"sampled capture", "sampled outcome"})
  /\ ~Sampling
  /\ Taken
  /\ UNCHANGED <<service, phase, request, tx, spans, stack, frames, exc, sent,
                 errors, queued>>

\* set_transaction_outcome
SetOutcome ==
  /\ Steps({"outcome", "sampled outcome"})
  /\ Head(todo).do = "sampled outcome" => Sampling
  /\ LET step == Head(todo)
         outcome == IF step.outcome = "status" THEN StatusOf(request.ending)
                                               ELSE step.outcome
     IN  tx' = IF InTransaction /\ (tx.outcome = None \/ step.flag)
                 THEN [tx EXCEPT !.outcome = outcome] ELSE tx
  /\ Taken
  /\ UNCHANGED <<service, phase, request, spans, stack, frames, exc, sent,
                 errors, queued>>

CaptureStep ==
  /\ Steps({"capture", "sampled capture"})
  /\ Head(todo).do = "sampled capture" => Sampling
  /\ CaptureException
  /\ Taken
  /\ UNCHANGED <<service, phase, request, tx, spans, stack, frames, sent, queued>>

\* Tracer.end_transaction: one with a name to be ignored ends all the same, and
\* an unsampled one is of no use to a new server.
MutantQueues == tx.sampled \/ ~conf.new
Queues == ~conf.ignored /\ (tx.sampled \/ ~conf.new)

\* to_dict.  The rate is what the caller said, which may not be a number.
Document ==
  [outcome |-> tx.outcome, sampled |-> tx.sampled, rate |-> tx.rate,
   trace_id |-> tx.tp.trace_id, links |-> tx.links,
   parent |-> IF tx.tp.span_id = Tx THEN None ELSE tx.tp.span_id,
   started |-> tx.counter, dropped |-> tx.dropped, stats |-> tx.stats]
DocumentRaises == tx.rate \notin Rates \cup {None}

EndTransaction ==
  /\ Steps({"end"})
  /\ IF InTransaction /\ Queues
       THEN IF DocumentRaises THEN phase' = "failed" /\ UNCHANGED queued
              ELSE queued' = Append(queued, Document) /\ UNCHANGED phase
       ELSE UNCHANGED <<phase, queued>>
  /\ tx' = IF InTransaction THEN [tx EXCEPT !.state = "ended"] ELSE tx
  /\ Taken
  /\ UNCHANGED <<service, request, spans, stack, frames, exc, sent, errors>>

Done ==
  /\ phase = "steps" /\ todo = <<>>
  /\ phase' = "done"
  /\ UNCHANGED <<service, request, todo, tx, spans, stack, frames, exc, sent,
                 errors, queued>>

Next ==
  \/ \E c \in Carriers, up \in conf.upstreams : Begin(c, up) \/ BeginRaises(c, up)
  \/ \E c \in Carriers : BeginUntraced(c)
  \/ \E w \in Callable :
       CallUntraced(w) \/ CallThrough(w) \/ CallTraced(w) \/ OTelRaises(w)
  \/ Return \/ ReturnUntraced
  \/ Raise \/ Unwind \/ UnwindUntraced
  \/ Catch \/ CatchAndCapture
  \/ \E i \in conf.frameworks, e \in Endings : Finish(i, e)
  \/ Skip \/ SetOutcome \/ CaptureStep \/ EndTransaction
  \/ Done

Spec == Init /\ [][Next]_vars

-----------------------------------------------------------------------------
\* The bridge may have left a span on the stack.
Leaked == \E s \in 1 .. Len(spans) : spans[s].bridge /\ ~Real(s)

Reported(id) == id \in 1 .. Len(spans) => spans[id].fate = "sent"
Kept(id) == id \in 1 .. Len(spans) => spans[id].fate \in {"sent", "cancelled"}

\* A broken trace: when all spans of a transaction have ended, every span that
\* another service was told of by a library that marks what it tells was sent,
\* if it was not cancelled: neither compression nor exit_span_min_duration took
\* it away.
NamesReported ==
  phase = "done" /\ ~Leaked =>
    \A m \in sent : m.marks => Kept(m.tp.span_id)

\* The documentation of exit_span_min_duration does not speak of marks: "if a
\* span propagates distributed tracing IDs, it will not be ignored, even if it
\* is shorter than the configured threshold."
NoOrphans ==
  phase = "done" => \A m \in sent : Reported(m.tp.span_id)

\* A service that is called over HTTP finds the trace, the decision and the rate
\* of this service in the headers, names a span or transaction of it as parent
\* and continues a trace that began here also if it restarts those of strangers.
OneDecision ==
  \A m \in sent :
    m.carrier = "headers" =>
      LET tp == FromHeaders(ToHeaders(m.tp, FALSE))
      IN  /\ tp.trace_id = tx.tp.trace_id
          /\ Decisions(tp, conf.rate) = {tx.sampled}
          /\ SampleRate(tp, conf.rate, tx.sampled) = tx.rate
          /\ tp.span_id = Tx \/ Real(tp.span_id)
          /\ tp.trace_id = "own" => Continued("restart_external", tp) = tp

\* The span that an error names as its parent is sent if it is not cancelled,
\* unless the error was captured in the middle of an exit span, which may yet
\* succeed.
ErrorParentReported ==
  phase = "done" /\ ~Leaked =>
    \A e \in errors :
      ~e.in_exit /\ e.parent # None => Kept(e.parent)

\* The transaction of a request that had a response, or whose handler raised
\* before there was one, tells so when it is queued: whichever handlers and
\* middleware ran, and whatever they had set before.  What it should tell of an
\* exception that stands for a response, or that breaks one, nothing says: the
\* integrations differ, Starlette keeps to the status that was sent and ASGI
\* replaces it.
OutcomeAgrees ==
  \A t \in Range(queued) :
    request.http /\ request.ending \in {"ok", "failed", "error"} =>
      t.outcome = StatusOf(request.ending)

\* A transaction is queued once, also if several handlers end it: unless its
\* name is to be ignored, it is of no use to the server, or what the caller sent
\* made its beginning or its serialisation raise.  In each case the next request
\* on this thread finds neither a transaction nor spans; a request that was
\* killed, and spans that the bridge left behind, are excepted.
Unwanted == conf.ignored \/ (conf.new /\ ~tx.sampled)
Over ==
  \/ phase = "failed"
  \/ phase = "done" /\ request.http /\ request.ending # "killed"

EndedOnce ==
  Over =>
    /\ ~InTransaction
    /\ ~Leaked => stack = <<>>
    /\ Len(queued) = IF phase = "done" /\ request.traced /\ ~Unwanted THEN 1 ELSE 0

\* Statistics are only kept of spans that are counted as dropped.
StatsWithinDropped == tx.stats <= tx.dropped

\* The instrumented functions of a context end the spans that they began, each
\* its own: when none is active all have ended, and none of them was lost by
\* ending under a DroppedSpan, although merging makes room for more spans.
SpansSettled ==
  frames = <<>> /\ ~Leaked =>
    \A s \in 1 .. Len(spans) :
      spans[s].ended /\ spans[s].fate # "lost"
=============================================================================
