----------------------------- MODULE TraceContext ------------------------------
(***************************************************************************)
(* What services tell each other of a trace (elasticapm/utils/disttracing) *)
(* and what the tracer makes of it when a transaction begins.              *)
(*                                                                         *)
(* The identifiers are opaque.  The text of a header is a record of the    *)
(* fields it splits into, NotANumber where it should be one; that of a     *)
(* tracestate tells the entry of Elastic, a function from keys to values,  *)
(* from everything else in it.                                             *)
(***************************************************************************)
EXTENDS Integers, SequencesExt

CONSTANT None

ASSUME NoneAssumption == None \notin Int

(***************************************************************************)
(* TracingOptions: a byte, of which the last bit says "recorded".          *)
(***************************************************************************)
Byte(n) == n % 256
Recorded(options) == options % 2 = 1
Options(recorded) == IF recorded THEN 1 ELSE 0

(***************************************************************************)
(* Tracestate.  es is None if it has no entry of Elastic; others says      *)
(* whether it has entries of other vendors, and lookalike whether one of   *)
(* these contains "es=", at the end of its key for instance.               *)
(***************************************************************************)
Rates == {"0", "0.5", "1.0"}   \* transaction_sample_rate

\* The rate, which may be any text, and what this agent does not know.
Values == Rates \cup STRING
Entries ==
  [{} -> Values] \cup [{"s"} -> Values] \cup [{"other"} -> Values]
    \cup [{"s", "other"} -> Values]
Tracestates == [es : Entries \cup {None}, others : BOOLEAN, lookalike : BOOLEAN]

Tracestate(es, others, lookalike) ==
  [es |-> es, others |-> others, lookalike |-> lookalike /\ others]

\* merge_duplicate_headers: several headers of this name are one list.
Merge(states) ==
  IF states = <<>> THEN None ELSE
    LET es == {i \in DOMAIN states : states[i].es # None}
    IN  Tracestate(IF es = {} THEN None ELSE states[Min(es)].es,
                   \E s \in Range(states) : s.others,
                   \E s \in Range(states) : s.lookalike)

\* _parse_tracestate.  The pattern that finds the entry finds nothing when
\* "es=" occurs elsewhere only, and the exception of that is not caught.
ParseRaises(state) == state # None /\ state.es = None /\ state.lookalike
Empty == [k \in {} |-> None]
ParseTracestate(state) ==
  IF state = None \/ state.es = None THEN Empty ELSE state.es

(***************************************************************************)
(* TraceParent.                                                            *)
(***************************************************************************)
Traces == {"own"} \cup STRING   \* that of this service, and others
TraceParents ==
  [version : Int, trace_id : Traces, span_id : Int, options : Int,
   state : Tracestates \cup {None}, dict : Entries]

CurrentVersion == 0
NotANumber == -1

TraceParent(version, trace, span, options, state) ==
  [version |-> version, trace_id |-> trace, span_id |-> span,
   options |-> options, state |-> state, dict |-> ParseTracestate(state)]

\* x or self.x for every argument; a version of 0 is an argument not given.
CopyFrom(tp, span, options) ==
  TraceParent(tp.version, tp.trace_id, IF span = None THEN tp.span_id ELSE span,
              IF options = None THEN tp.options ELSE options, tp.state)

New(trace, span, sampled) ==
  TraceParent(CurrentVersion, trace, span, Options(sampled), None)

\* add_tracestate and _set_tracestate: the entry of Elastic is taken out and
\* added again with the key; what other vendors said stays.
AddTracestate(tp, key, val) ==
  LET dict == [k \in DOMAIN tp.dict \cup {key} |-> IF k = key THEN val
                                                   ELSE tp.dict[k]]
  IN  [tp EXCEPT !.dict = dict,
                 !.state = IF tp.state = None
                             THEN Tracestate(dict, FALSE, FALSE)
                             ELSE [tp.state EXCEPT !.es = dict]]

(***************************************************************************)
(* The three forms in which it travels.                                    *)
(***************************************************************************)
Texts ==
  [parts : Int, version : Int, trace_id : Traces, span_id : Int, flags : Int]

\* What is there is something.
ASSUME HeaderAssumption ==
  /\ None \notin Entries
  /\ None \notin Tracestates
  /\ None \notin Texts
  /\ None \notin TraceParents

Text(tp) ==
  [parts |-> 4, version |-> tp.version, trace_id |-> tp.trace_id,
   span_id |-> tp.span_id, flags |-> tp.options]

FromString(text, state) ==
  IF text.parts < 4 \/ text.version \in {NotANumber, 255} \/ text.flags = NotANumber
    THEN None
    ELSE TraceParent(text.version, text.trace_id, text.span_id,
                     Byte(text.flags), state)

ToHeaders(tp, legacy) ==
  [traceparent |-> Text(tp), legacy |-> IF legacy THEN Text(tp) ELSE None,
   tracestate |-> IF tp.state = None THEN <<>> ELSE <<tp.state>>]

FromHeaders(headers) ==
  LET state == Merge(headers.tracestate)
  IN  IF headers.traceparent # None THEN FromString(headers.traceparent, state)
        ELSE IF headers.legacy # None THEN FromString(headers.legacy, state)
        ELSE None

\* 29 bytes with the identifiers 0, 1 and 2 of the fields, and no tracestate.
ToBinary(tp) ==
  [length |-> 29, ids |-> <<0, 1, 2>>, version |-> tp.version,
   trace_id |-> tp.trace_id, span_id |-> tp.span_id, flags |-> tp.options]

FromBinary(data) ==
  IF data.length # 29 \/ data.ids # <<0, 1, 2>> THEN None
    ELSE TraceParent(data.version, data.trace_id, data.span_id, data.flags, None)

\* get_traceparent of the bridge for OpenTelemetry, whose library has parsed the
\* headers and keeps of the flags whether the trace is recorded.
FromContext(headers) ==
  LET text == headers.traceparent
  IN  IF text = None THEN None
        ELSE IF FromString(text, None) = None THEN None
        ELSE TraceParent(CurrentVersion, text.trace_id, text.span_id,
                         Options(Recorded(text.flags)), Merge(headers.tracestate))

(***************************************************************************)
(* Tracer.begin_transaction: whether the trace of the caller goes on, and  *)
(* whether the transaction is sampled.  A trace that is not continued is   *)
(* linked.                                                                 *)
(***************************************************************************)
Strategies == {"continue", "restart", "restart_external"}

Restarted(strategy, tp) ==
  /\ tp # None
  /\ \/ strategy = "restart"
     \/ strategy = "restart_external" /\ DOMAIN tp.dict = {}

Continued(strategy, tp) ==
  IF Restarted(strategy, tp) THEN None ELSE tp

Links(strategy, tp) == IF Restarted(strategy, tp) THEN {tp} ELSE {}

\* What the sampling decision may be, and the rate that it is reported with.
Decisions(tp, rate) ==
  IF tp # None THEN {Recorded(tp.options)}
    ELSE (IF rate # "0" THEN {TRUE} ELSE {})
           \cup (IF rate # "1.0" THEN {FALSE} ELSE {})

SampleRate(tp, rate, sampled) ==
  IF tp # None THEN IF "s" \in DOMAIN tp.dict THEN tp.dict["s"] ELSE None
    ELSE IF sampled THEN rate ELSE "0"

\* The trace parent of the transaction tx: the one it continues, or that of a
\* trace of its own, whose tracestate tells the rate.
TransactionParent(tp, trace, tx, rate, sampled) ==
  IF tp # None THEN tp
    ELSE AddTracestate(New(trace, tx, sampled), "s",
                       SampleRate(None, rate, sampled))
=============================================================================
