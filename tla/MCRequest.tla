------------------------------- MODULE MCRequest -------------------------------
(***************************************************************************)
(* Requests in small: the headers that may come with them, configurations   *)
(* that differ in what they decide, all integrations, and instrumented      *)
(* libraries of every behaviour.                                            *)
(***************************************************************************)
EXTENDS Request

Trace(parts, flags) ==
  [parts |-> parts, version |-> 0, trace_id |-> "theirs", span_id |-> Caller,
   flags |-> flags]
Headers(trace, states) ==
  [traceparent |-> trace, legacy |-> None, tracestate |-> states]

Elastic(rate) == Tracestate("s" :> rate, FALSE, FALSE)
Stranger == Tracestate(None, TRUE, FALSE)
Lookalike == Tracestate(None, TRUE, TRUE)

MCUpstreams ==
  {Headers(None, <<>>),
   Headers(Trace(2, 1), <<>>),
   Headers(Trace(4, 1), <<Stranger>>),
   Headers(Trace(4, 1), <<Lookalike>>),
   Headers(Trace(4, 0), <<Stranger, Elastic("0")>>),
   Headers(Trace(4, 1), <<Elastic("many")>>),
   [Headers(None, <<Elastic("0.5")>>) EXCEPT !.legacy = Trace(4, 257)]}

Scenario(strategy, rate, limit, new) ==
  [strategy |-> strategy, rate |-> rate, limit |-> limit, new |-> new,
   ignored |-> FALSE, frameworks |-> {Flask}, libraries |-> {Urllib3},
   upstreams |-> {Headers(None, <<>>)}, raises |-> {"Exception"},
   filters |-> FALSE, spans |-> 2, depth |-> 2, errors |-> 1]

\* All integrations and headers, with a few libraries.
Trigger(s) ==
  [s EXCEPT !.frameworks = HttpIntegrations \cup OtherIntegrations,
            !.libraries = {Urllib3, CeleryPublish},
            !.upstreams = MCUpstreams, !.spans = 1, !.depth = 1,
            !.raises = @ \cup {"BaseException"}]
\* All libraries, two at a time.
Pairs(s) ==
  [s EXCEPT !.libraries = Libraries, !.errors = 0, !.filters = TRUE, !.raises = {},
            !.frameworks = {OTelRoot}]
\* Three calls, and errors between two, of libraries that disturb each other.
Nested(s) ==
  [s EXCEPT !.libraries = {Urllib3, KafkaReceive, SQLiteConnection},
            !.frameworks = {AioHttp}, !.spans = 3, !.errors = 0, !.filters = TRUE]
Bridged(s) ==
  [Nested(s) EXCEPT !.libraries = {Urllib3, OTSpan, OTelSpan}, !.depth = 3,
                    !.limit = 1]
Failing(s) ==
  [Nested(s) EXCEPT !.libraries = @ \cup {OTelSpan}, !.spans = 2, !.errors = 1,
                    !.filters = FALSE, !.ignored = TRUE]

MCScenarios ==
  <<Trigger(Scenario("continue", "0.5", 1, TRUE)),
    Trigger(Scenario("restart_external", "1.0", 0, FALSE)),
    Trigger(Scenario("restart", "0", 0, FALSE)),
    Pairs(Scenario("continue", "1.0", 1, TRUE)),
    Nested(Scenario("continue", "1.0", 2, TRUE)),
    Bridged(Scenario("continue", "1.0", 2, TRUE)),
    Failing(Scenario("continue", "1.0", 1, TRUE))>>
=============================================================================
