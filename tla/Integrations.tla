----------------------------- MODULE Integrations ------------------------------
(***************************************************************************)
(* The integrations with frameworks (elasticapm/contrib, and the packages  *)
(* that begin transactions).  An integration begins a transaction for a    *)
(* request, a task, a message or an invocation.  The application's handler *)
(* ends in one of these ways,                                              *)
(*                                                                         *)
(*   ok, failed    it returns, with a status below 500 or not,             *)
(*   thrown ok, thrown failed                                              *)
(*                 it raises an exception that stands for a response,      *)
(*   error         it raises another Exception,                            *)
(*   broken        it does so when the response has begun, with a status   *)
(*                 below 500,                                              *)
(*   killed        it raises a BaseException that is none: SystemExit, the *)
(*                 cancellation of a task,                                 *)
(*                                                                         *)
(* and the integration takes some steps, not all of them in one function:  *)
(* signal handlers, middleware and finally clauses in the order in which   *)
(* the framework runs them.  Names, results and contexts are left out.     *)
(***************************************************************************)
EXTENDS SequencesExt

Endings ==
  {"ok", "failed", "thrown ok", "thrown failed", "error", "broken", "killed"}
StatusOf(ending) ==
  IF ending \in {"ok", "thrown ok", "broken"} THEN "success" ELSE "failure"

(***************************************************************************)
(* The steps.  override tells whether an outcome replaces the one that is  *)
(* there; "status" is the outcome that the status of the response gives.   *)
(***************************************************************************)
Step(do, outcome, flag) == [do |-> do, outcome |-> outcome, flag |-> flag]
Outcome(outcome, override) == Step("outcome", outcome, override)
Keep(outcome) == Outcome(outcome, FALSE)
Set(outcome) == Outcome(outcome, TRUE)
Capture(handled) == Step("capture", "", handled)
End == Step("end", "", FALSE)

(***************************************************************************)
(* carrier: where the trace parent is taken from, "headers", the pairs of  *)
(* an ASGI scope, the context of OpenTelemetry, gRPC metadata, a string    *)
(* without a tracestate or binary; "links" if traces are only linked,      *)
(* "none" if the integration begins no transaction and only captures       *)
(* exceptions.  ignores: there are requests that it begins no transaction  *)
(* for, and then the steps are untraced.                                   *)
(***************************************************************************)
Integration(carrier, ignores, traced, untraced) ==
  [carrier |-> carrier, ignores |-> ignores, traced |-> traced,
   untraced |-> untraced]

\* A framework that makes a response of the exceptions that stand for one.
Responding(returned, error, killed) ==
  [e \in Endings |-> CASE e \in {"error", "broken"} -> error
                       [] e = "killed" -> killed
                       [] OTHER -> returned]

Flask ==
  LET traced == Responding(<<Keep("status"), End>>,
                  <<Capture(FALSE), Keep("failure"), End,    \* the signal
                    Keep("status"), End>>, <<>>)             \* the response
  IN  Integration("headers", TRUE, traced, traced)

Django(carrier) ==
  LET traced == Responding(<<Keep("status"), End>>,
                  <<Capture(FALSE), Keep("status"), End>>, <<>>)
  IN  Integration(carrier, TRUE, traced, traced)
DjangoWSGI == Django("headers")
DjangoASGI == Django("pairs")

MutantStarlette ==
  LET traced == Responding(<<Keep("success"), Keep("status"), End>>,
                  <<Capture(TRUE), Keep("failure"), End>>, <<End>>)
  IN  Integration("headers", TRUE, traced, traced)
\* The inner middleware takes the steps before the outer one ends.  The outcome
\* of a response is kept when it breaks.
Starlette ==
  LET traced == [Responding(<<Keep("status"), Keep("success"), End>>,
                   <<Capture(TRUE), Keep("failure"), End>>, <<End>>)
                 EXCEPT !["broken"] = <<Keep("status"), Capture(TRUE),
                                        Keep("failure"), End>>]
      untraced == [e \in Endings |-> <<End>>]
  IN  Integration("headers", TRUE, traced, untraced)

ASGI ==
  LET traced == [Responding(<<Keep("status"), Keep("success"), End>>,
                   <<Capture(TRUE), Set("failure"), End>>, <<End>>)
                 EXCEPT !["broken"] = <<Keep("status"), Capture(TRUE),
                                        Set("failure"), End>>]
  IN  Integration("headers", TRUE, traced, traced)

\* The handler of errors makes the response, which the second part is about.
\* Exceptions that stand for a response are errors to it.
Sanic ==
  LET returned == <<Keep("status"), End>>
      error == <<Capture(TRUE), Keep("failure"), End, Keep("status"), End>>
      traced == [e \in Endings |->
                   CASE e \in {"ok", "failed"} -> returned
                     [] e = "killed" -> <<>>
                     [] OTHER -> error]
  IN  Integration("headers", TRUE, traced, traced)

AioHttp ==
  LET traced == [e \in Endings |->
                   CASE e = "thrown failed" -> <<Keep("status"), Capture(TRUE), End>>
                     [] e \in {"error", "broken"} ->
                          <<Keep("failure"), Capture(TRUE), End>>
                     [] e = "killed" -> <<End>>
                     [] OTHER -> <<Keep("status"), End>>]
      untraced == [traced EXCEPT !["thrown ok"] = <<End>>]
  IN  Integration("headers", TRUE, traced, untraced)

\* The handler of exceptions is an instrumented function of a module that
\* creates no transactions: it runs for sampled transactions only.  What stands
\* for a response is HTTPError, or Finish, which is not an error.
SampledSet(outcome) == Step("sampled outcome", outcome, TRUE)
SampledCapture(handled) == Step("sampled capture", "", handled)
Tornado(finishes) ==
  LET returned == <<Set("status"), End>>
      error == <<SampledCapture(TRUE), SampledSet("failure"), Set("status"), End>>
      traced == [e \in Endings |->
                   CASE e \in {"ok", "failed"} -> returned
                     [] e \in {"thrown ok", "thrown failed"} /\ finishes -> returned
                     [] e = "killed" -> <<>>
                     [] OTHER -> error]
      untraced == [e \in Endings |-> <<>>]
  IN  Integration("headers", TRUE, traced, untraced)

\* A status other than OK that the service sets is the outcome; abort() raises.
\* What is streamed is not traced.
GRPC ==
  LET traced == [e \in Endings |->
                   CASE e \in {"ok", "failed"} ->
                          <<Set("status"), Keep("success"), End>>
                     [] e = "killed" -> <<End>>
                     [] OTHER -> <<Set("failure"), Capture(FALSE), End>>]
      untraced == [e \in Endings |-> <<>>]
  IN  Integration("metadata", TRUE, traced, untraced)

(***************************************************************************)
(* Tasks and messages.                                                     *)
(***************************************************************************)
Celery ==
  LET traced == [e \in Endings |->
                   CASE e \in {"error", "broken"} ->
                          <<Capture(FALSE), Keep("failure"), End>>
                     [] e = "thrown failed" -> <<Keep("failure"), End>>  \* Retry
                     [] e = "thrown ok" -> <<Keep("unknown"), End>>      \* Ignore
                     [] e = "killed" -> <<>>
                     [] OTHER -> <<Keep("success"), End>>]
  IN  Integration("string", FALSE, traced, traced)

\* The transaction of a message ends when the consumer asks for the next one,
\* and whatever else happened to the handler is not its business.
KafkaConsumer ==
  LET traced == [e \in Endings |-> IF e \in {"ok", "failed"} THEN <<End>>
                                                             ELSE <<>>]
  IN  Integration("binary", TRUE, traced, traced)

(***************************************************************************)
(* Serverless functions.                                                   *)
(***************************************************************************)
AWS(http) ==
  LET raised == <<Capture(FALSE), Keep("failure"), End>>
      traced == [e \in Endings |->
                   CASE e = "ok" -> <<End>>
                     [] e = "failed" -> <<Keep("failure"), End>>
                     [] OTHER -> raised]
  IN  Integration(IF http THEN "headers" ELSE "links", FALSE, traced, traced)

\* There is a hook for the return of the function and none for an exception.
AzureFunctions ==
  LET traced == [e \in Endings |-> IF e \in {"ok", "failed"}
                                     THEN <<Set("status"), End>> ELSE <<>>]
  IN  Integration("headers", FALSE, traced, traced)

(***************************************************************************)
(* The bridges: a span that is begun without a transaction becomes one.    *)
(***************************************************************************)
\* use_span of OpenTelemetry.
OTelRoot ==
  LET traced == [e \in Endings |->
                   CASE e \in {"ok", "failed", "killed"} -> <<End>>
                     [] OTHER -> <<Capture(FALSE), Set("failure"), End>>]
  IN  Integration("context", FALSE, traced, traced)

\* The scope of a span of OpenTracing logs an exception of any kind (log_kv).
OTRoot ==
  LET traced == [e \in Endings |-> IF e \in {"ok", "failed"} THEN <<End>>
                                     ELSE <<Capture(TRUE), End>>]
  IN  Integration("headers", FALSE, traced, traced)

(***************************************************************************)
(* Integrations that only capture the exception.                           *)
(***************************************************************************)
Captures(handled) ==
  LET steps == [e \in Endings |->
                  IF e \in {"ok", "failed", "killed"} THEN <<>>
                                                      ELSE <<Capture(handled)>>]
  IN  Integration("none", FALSE, steps, steps)
WSGIMiddleware == Captures(FALSE)
RQ == Captures(TRUE)
Twisted == Captures(FALSE)

\* Those that make something of the way the handler ended.
HttpIntegrations ==
  {Flask, DjangoWSGI, DjangoASGI, Starlette, ASGI, Sanic, AioHttp,
   Tornado(FALSE), Tornado(TRUE), GRPC}
OtherIntegrations ==
  {Celery, KafkaConsumer, AWS(TRUE), AWS(FALSE), AzureFunctions, OTelRoot, OTRoot,
   WSGIMiddleware, RQ, Twisted}

\* Those whose handlers may begin the response before the transaction ends.
Streaming == {Starlette, ASGI, AioHttp, Tornado(FALSE), Tornado(TRUE)}
=============================================================================
