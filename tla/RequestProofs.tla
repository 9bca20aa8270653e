---------------------------- MODULE RequestProofs -----------------------------
(***************************************************************************)
(* Proofs about Request, for any services: any configuration, any of the   *)
(* integrations and instrumented libraries, any number of spans and of     *)
(* active functions.                                                       *)
(***************************************************************************)
EXTENDS Request, FiniteSetTheorems, WellFoundedInduction, TLAPS

-----------------------------------------------------------------------------
(***************************************************************************)
(* The libraries.                                                          *)
(***************************************************************************)
WrapperType ==
  [span : {"exit", "inner", "none", "bridge", "otel"},
   resource : {"own", "derived", "none"}, describes : BOOLEAN,
   carrier : {"none", "headers", "message", "metadata", "string"},
   full : BOOLEAN, fallback : {"none", "enclosing", "transaction", "upstream"},
   marks : BOOLEAN, unsampled : BOOLEAN, status : BOOLEAN, cancels : BOOLEAN]

\* A library that marks what it tells, or tells it in the headers of a request, names
\* a span of its own or, when that was dropped, one that encloses it.
MarksItsOwn(w) ==
  w.marks \/ w.carrier = "headers" => w.fallback = "enclosing" /\ w.span = "exit"

LEMMA WrapperFacts ==
  \A span \in {"exit", "inner", "none", "bridge", "otel"},
     resource \in {"own", "derived", "none"} :
    Wrapper(span, resource) \in WrapperType /\ MarksItsOwn(Wrapper(span, resource))
BY DEF Wrapper, WrapperType, MarksItsOwn

LEMMA LibraryType ==
  \A w \in Libraries : w \in WrapperType /\ MarksItsOwn(w)
<1> DEFINE Good == {w \in WrapperType : MarksItsOwn(w)}
<1>1. /\ Inner \in Good /\ Through \in Good
      /\ Exit("own") \in Good /\ Exit("derived") \in Good /\ Exit("none") \in Good
      /\ OTSpan \in Good /\ OTelSpan \in Good /\ SQLiteConnection \in Good
  BY WrapperFacts DEF Inner, Through, Exit, OTSpan, OTelSpan, SQLiteConnection
<1>2. ASSUME NEW w \in Good
      PROVE  /\ [w EXCEPT !.describes = TRUE] \in Good
             /\ [w EXCEPT !.status = TRUE] \in Good
             /\ [w EXCEPT !.cancels = TRUE] \in Good
             /\ [w EXCEPT !.carrier = "metadata"] \in Good
  <2>1. w \in WrapperType /\ MarksItsOwn(w)
    OBVIOUS
  <2>2. [w EXCEPT !.describes = TRUE] \in Good
    BY <2>1 DEF WrapperType, MarksItsOwn
  <2>3. [w EXCEPT !.status = TRUE] \in Good
    BY <2>1 DEF WrapperType, MarksItsOwn
  <2>4. [w EXCEPT !.cancels = TRUE] \in Good
    BY <2>1 DEF WrapperType, MarksItsOwn
  <2>5. [w EXCEPT !.carrier = "metadata"] \in Good
    <3>1. PICK v : v = [w EXCEPT !.carrier = "metadata"]
      OBVIOUS
    <3>2. /\ v \in WrapperType /\ v.carrier = "metadata" /\ v.marks = w.marks
          /\ v.fallback = w.fallback /\ v.span = w.span
      BY <2>1, <3>1 DEF WrapperType
    <3> QED
      BY <2>1, <3>1, <3>2 DEF MarksItsOwn
  <2> QED
    BY <2>2, <2>3, <2>4, <2>5
<1>3. HttpClient \in Good
  BY <1>1, <1>2 DEF HttpClient
<1>4. Propagating(TRUE) \in Good /\ Propagating(FALSE) \in Good
  BY DEF Propagating, HttpClient, Exit, Wrapper, WrapperType, MarksItsOwn
<1>5. KafkaSend \in Good /\ SqsSend \in Good /\ CeleryPublish \in Good
  BY DEF KafkaSend, SqsSend, CeleryPublish, Botocore, Through, Exit, Wrapper,
         WrapperType, MarksItsOwn
<1>6. HttpClients \subseteq Good
  BY <1>3, <1>4
  DEF HttpClients, Urllib3, Urllib, Httplib2, HTTPCore, HTTPCoreAsync,
      AioHttpClient, Requests, HttpxClient, HttpxAsyncClient
<1>7. Messaging \subseteq Good
  BY <1>1, <1>2, <1>5
  DEF Messaging, KafkaPoll, KafkaReceive, S3, DynamoDB, SNS, AWSDefault, SqsReceive,
      Botocore, AioBotocore, Azure, AzureBlob, AzureQueue, AzureTable, AzureFile,
      AzureOther, GrpcClient
<1>8. Databases \subseteq Good
  BY <1>1, <1>2
  DEF Databases, CursorProxy, AsyncCursorProxy, SQLiteConnect,
      PsycopgConnect, Psycopg2Connect, AsyncPsycopgConnect, Psycopg2Extensions,
      ProxyConnect, AioPG, AsyncPG, AioMySQL, PyMongo, PyMongoBulk, PyMongoCursor,
      Cassandra, PyMemcache, PythonMemcached, PyLibMc, Redis, RedisPipeline,
      RedisConnection, AioRedis, AioRedisPipeline, AioRedisConnection,
      RedisAsyncio, RedisAsyncioPipeline, ElasticsearchTransport,
      ElasticsearchConnection, ElasticsearchAsyncTransport,
      ElasticsearchAsyncConnection
<1>9. InProcess \subseteq Good
  BY <1>1
  DEF InProcess, DjangoTemplate, Jinja2, TornadoRender, GraphQLExecutor,
      GraphQLScalar, GraphQLBackend, ZLib, AsyncIOSleep
<1> QED
  BY <1>1, <1>6, <1>7, <1>8, <1>9 DEF Libraries

-----------------------------------------------------------------------------
(***************************************************************************)
(* The integrations.  Each of the lists of steps is looked at once: Tame    *)
(* says that none captures an exception that there is not, Conclusive that  *)
(* those of an integration for HTTP end the transaction with an outcome     *)
(* that is true.                                                            *)
(***************************************************************************)
StepType ==
  [do : {"outcome", "sampled outcome", "capture", "sampled capture", "end"},
   outcome : {"success", "failure", "unknown", "status", ""}, flag : BOOLEAN]

CapturesIn(steps) ==
  \E k \in DOMAIN steps : steps[k].do \in {"capture", "sampled capture"}
Sets(step, e) == IF step.outcome = "status" THEN StatusOf(e) ELSE step.outcome
Outcomes == {"outcome", "sampled outcome"}
\* An outcome is there when the step k is taken, which agrees with it.
Sure(steps, set, k) == set \/ \E j \in 1 .. k - 1 : steps[j].do = "outcome"
Fits(step, sure, e) ==
  /\ step.do \in Outcomes /\ Sets(step, e) # StatusOf(e) => ~step.flag /\ sure
  /\ step.do = "end" => sure
Agreeing(steps, set, e) ==
  \A k \in DOMAIN steps : Fits(steps[k], Sure(steps, set, k), e)

\* Steps for a handler that ended as e: an exception is captured only if there is
\* one.
Plain(steps, e) ==
  /\ steps \in Seq(StepType)
  /\ e \in {"ok", "failed"} => ~CapturesIn(steps)

\* They end the transaction, and what they tell of the response is true.
Concluding(steps, e) ==
  /\ \E k \in DOMAIN steps : steps[k].do = "end"
  /\ e \in {"ok", "failed", "error"} => Agreeing(steps, FALSE, e)

Tame(i) ==
  \A e \in Endings : Plain(i.traced[e], e) /\ Plain(i.untraced[e], e)
Conclusive(i) ==
  \A e \in Endings \ {"killed"} : Concluding(i.traced[e], e)

Quiet == {s \in StepType : s.do \notin {"capture", "sampled capture"}}
Errors == Endings \ {"ok", "failed"}

LEMMA StepFacts ==
  /\ \A o \in {"success", "failure", "unknown", "status"} :
       Keep(o) \in Quiet /\ Set(o) \in Quiet /\ SampledSet(o) \in Quiet
  /\ End \in Quiet
  /\ Quiet \subseteq StepType
  /\ \A h \in BOOLEAN : Capture(h) \in StepType /\ SampledCapture(h) \in StepType
BY DEF Keep, Set, Outcome, SampledSet, Capture, SampledCapture, End, Step, StepType,
       Quiet

LEMMA Tuples ==
  ASSUME NEW S
  PROVE  /\ <<>> \in Seq(S)
         /\ \A a \in S : <<a>> \in Seq(S)
         /\ \A a, b \in S : <<a, b>> \in Seq(S)
         /\ \A a, b, c \in S : <<a, b, c>> \in Seq(S)
         /\ \A a, b, c, d \in S : <<a, b, c, d>> \in Seq(S)
         /\ \A a, b, c, d, e \in S : <<a, b, c, d, e>> \in Seq(S)
OBVIOUS

LEMMA QuietSteps ==
  ASSUME NEW steps \in Seq(Quiet), NEW e
  PROVE  Plain(steps, e)
<1>1. \A k \in DOMAIN steps : steps[k] \in Quiet
  OBVIOUS
<1>2. steps \in Seq(StepType)
  BY StepFacts
<1> QED
  BY <1>1, <1>2 DEF Plain, CapturesIn, Quiet

LEMMA AnySteps ==
  ASSUME NEW steps \in Seq(StepType), NEW e \in Errors
  PROVE  Plain(steps, e)
BY DEF Plain, Errors

LEMMA TameResponding ==
  ASSUME NEW a \in Seq(Quiet), NEW b \in Seq(StepType), NEW c \in Seq(StepType),
         NEW e \in Endings
  PROVE  Plain(Responding(a, b, c)[e], e)
<1>1. /\ e \in {"error", "broken"} => Responding(a, b, c)[e] = b
      /\ e = "killed" => Responding(a, b, c)[e] = c
      /\ e \notin {"error", "broken", "killed"} => Responding(a, b, c)[e] = a
  BY DEF Responding
<1>2. {"error", "broken", "killed"} \subseteq Errors
  BY DEF Errors, Endings
<1> QED
  BY <1>1, <1>2, QuietSteps, AnySteps

LEMMA ConclusiveResponding ==
  ASSUME NEW a, NEW b, NEW c, NEW e \in Endings \ {"killed"},
         Concluding(a, e), e \in {"error", "broken"} => Concluding(b, e)
  PROVE  Concluding(Responding(a, b, c)[e], e)
BY DEF Responding


Tells(step, e) == step.do = "outcome" /\ Sets(step, e) = StatusOf(e)
TellsSampled(step, e) ==
  step.do = "sampled outcome" /\ Sets(step, e) = StatusOf(e)
Captured(step) == step.do \in {"capture", "sampled capture"}

LEMMA Indices ==
  /\ \A k \in 1 .. 2 : k \in {1, 2}
  /\ \A k \in 1 .. 3 : k \in {1, 2, 3}
  /\ \A k \in 1 .. 4 : k \in {1, 2, 3, 4}
  /\ \A k \in 1 .. 5 : k \in {1, 2, 3, 4, 5}
OBVIOUS

LEMMA Before ==
  /\ 1 \in 1 .. 2 - 1 /\ 1 \in 1 .. 3 - 1 /\ 2 \in 1 .. 3 - 1 /\ 3 \in 1 .. 4 - 1
  /\ 4 \in 1 .. 5 - 1 /\ 2 \in Nat /\ 3 \in Nat /\ 4 \in Nat /\ 5 \in Nat
OBVIOUS

LEMMA Four ==
  ASSUME NEW a, NEW b, NEW c, NEW d, NEW s, s = <<a, b, c, d>>
  PROVE  DOMAIN s = 1 .. 4 /\ s[1] = a /\ s[2] = b /\ s[3] = c /\ s[4] = d
OBVIOUS

\* What one of them must be for all of them to agree.
LEMMA SureFacts ==
  ASSUME NEW steps, NEW k \in Nat, NEW j \in 1 .. k - 1, steps[j].do = "outcome"
  PROVE  Sure(steps, FALSE, k)
BY DEF Sure

LEMMA FitsFacts ==
  ASSUME NEW step, NEW e, NEW sure
  PROVE  /\ Captured(step) => Fits(step, sure, e)
         /\ Tells(step, e) => Fits(step, sure, e)
         /\ TellsSampled(step, e) => Fits(step, sure, e)
         /\ sure /\ step.do = "end" => Fits(step, sure, e)
         /\ sure /\ step.do = "outcome" /\ ~step.flag => Fits(step, sure, e)
BY DEF Captured, Tells, TellsSampled, Fits, Outcomes

LEMMA TwoSteps ==
  ASSUME NEW e, NEW a, NEW b, b.do = "end",
         e \in {"ok", "failed", "error"} => Tells(a, e)
  PROVE  Concluding(<<a, b>>, e)
<1>1. PICK s : s = <<a, b>>
  OBVIOUS
<1>2. DOMAIN s = 1 .. 2 /\ s[1] = a /\ s[2] = b
  BY <1>1
<1>3. \E k \in DOMAIN s : s[k].do = "end"
  BY <1>2
<1>4. ASSUME e \in {"ok", "failed", "error"}
      PROVE  Agreeing(s, FALSE, e)
  <2>1. Sure(s, FALSE, 2)
    BY <1>2, <1>4, Before, SureFacts DEF Tells
  <2>2. Fits(s[1], Sure(s, FALSE, 1), e) /\ Fits(s[2], Sure(s, FALSE, 2), e)
    BY <1>2, <1>4, <2>1, FitsFacts
  <2> QED
    BY <1>2, <2>2, Indices DEF Agreeing
<1> QED
  BY <1>1, <1>3, <1>4 DEF Concluding

LEMMA ThreeSteps ==
  ASSUME NEW e, NEW a, NEW b, NEW c, c.do = "end",
         e \in {"ok", "failed", "error"} =>
           \/ Tells(a, e) /\ (Captured(b) \/ (b.do = "outcome" /\ ~b.flag))
           \/ Captured(a) /\ Tells(b, e)
  PROVE  Concluding(<<a, b, c>>, e)
<1>1. PICK s : s = <<a, b, c>>
  OBVIOUS
<1>2. DOMAIN s = 1 .. 3 /\ s[1] = a /\ s[2] = b /\ s[3] = c
  BY <1>1
<1>3. \E k \in DOMAIN s : s[k].do = "end"
  BY <1>2
<1>4. ASSUME e \in {"ok", "failed", "error"}
      PROVE  Agreeing(s, FALSE, e)
  <2>1. Tells(a, e) => Sure(s, FALSE, 2) /\ Sure(s, FALSE, 3)
    BY <1>2, Before, SureFacts DEF Tells
  <2>2. Tells(b, e) => Sure(s, FALSE, 3)
    BY <1>2, Before, SureFacts DEF Tells
  <2>3. /\ Fits(a, Sure(s, FALSE, 1), e) /\ Fits(b, Sure(s, FALSE, 2), e)
        /\ Fits(c, Sure(s, FALSE, 3), e)
    BY <1>4, <2>1, <2>2, FitsFacts
  <2> QED
    BY <1>2, <2>3, Indices DEF Agreeing
<1> QED
  BY <1>1, <1>3, <1>4 DEF Concluding

LEMMA SampledSteps ==
  ASSUME NEW e, NEW a, NEW b, NEW c, NEW d, d.do = "end",
         e \in {"ok", "failed", "error"} =>
           Captured(a) /\ TellsSampled(b, e) /\ Tells(c, e)
  PROVE  Concluding(<<a, b, c, d>>, e)
<1>1. PICK s : s = <<a, b, c, d>>
  OBVIOUS
<1>2. DOMAIN s = 1 .. 4 /\ s[1] = a /\ s[2] = b /\ s[3] = c /\ s[4] = d
  BY <1>1, Four
<1>3. \E k \in DOMAIN s : s[k].do = "end"
  BY <1>2
<1>4. ASSUME e \in {"ok", "failed", "error"}
      PROVE  Agreeing(s, FALSE, e)
  <2>1. Sure(s, FALSE, 4)
    BY <1>2, <1>4, Before, SureFacts DEF Tells
  <2>2. /\ Fits(a, Sure(s, FALSE, 1), e) /\ Fits(b, Sure(s, FALSE, 2), e)
        /\ Fits(c, Sure(s, FALSE, 3), e) /\ Fits(d, Sure(s, FALSE, 4), e)
    BY <1>4, <2>1, FitsFacts
  <2> QED
    BY <1>2, <2>2, Indices DEF Agreeing
<1> QED
  BY <1>1, <1>3, <1>4 DEF Concluding

LEMMA StepsOfTwoHandlers ==
  ASSUME NEW e, NEW a, NEW b, NEW c, NEW d, NEW f, f.do = "end",
         e \in {"ok", "failed", "error"} =>
           Captured(a) /\ Tells(b, e) /\ c.do = "end" /\ Tells(d, e)
  PROVE  Concluding(<<a, b, c, d, f>>, e)
<1>1. PICK s : s = <<a, b, c, d, f>>
  OBVIOUS
<1>2. /\ DOMAIN s = 1 .. 5 /\ s[1] = a /\ s[2] = b /\ s[3] = c
      /\ s[4] = d /\ s[5] = f
  BY <1>1
<1>3. \E k \in DOMAIN s : s[k].do = "end"
  BY <1>2
<1>4. ASSUME e \in {"ok", "failed", "error"}
      PROVE  Agreeing(s, FALSE, e)
  <2>1. Sure(s, FALSE, 3) /\ Sure(s, FALSE, 5)
    BY <1>2, <1>4, Before, SureFacts DEF Tells
  <2>2. /\ Fits(a, Sure(s, FALSE, 1), e) /\ Fits(b, Sure(s, FALSE, 2), e)
        /\ Fits(c, Sure(s, FALSE, 3), e) /\ Fits(d, Sure(s, FALSE, 4), e)
        /\ Fits(f, Sure(s, FALSE, 5), e)
    BY <1>4, <2>1, FitsFacts
  <2> QED
    BY <1>2, <2>2, Indices DEF Agreeing
<1> QED
  BY <1>1, <1>3, <1>4 DEF Concluding

LEMMA TellFacts ==
  ASSUME NEW e \in Endings
  PROVE  /\ Tells(Keep("status"), e) /\ Tells(Set("status"), e)
         /\ e = "error" => /\ Tells(Keep("failure"), e) /\ Tells(Set("failure"), e)
                           /\ TellsSampled(SampledSet("failure"), e)
         /\ \A h \in BOOLEAN : Captured(Capture(h)) /\ Captured(SampledCapture(h))
         /\ End.do = "end" /\ Keep("success").do = "outcome" /\ ~Keep("success").flag
BY DEF Tells, TellsSampled, Captured, Keep, Set, Outcome, SampledSet, Capture,
       SampledCapture, End, Step, Sets, StatusOf, Endings

LEMMA EndingCases ==
  \A e \in Endings : /\ e \in {"ok", "failed"} \/ e \in Errors
                     /\ e \in Errors => e \notin {"ok", "failed"}
BY DEF Errors

LEMMA TameFlask == Tame(Flask) /\ Conclusive(Flask)
<1>1. PICK a \in Seq(Quiet) : a = <<Keep("status"), End>>
  BY StepFacts, Tuples
<1>2. PICK b \in Seq(StepType) :
        b = <<Capture(FALSE), Keep("failure"), End, Keep("status"), End>>
  BY StepFacts, Tuples
<1>3. PICK c \in Seq(StepType) : c = <<>>
  BY StepFacts, Tuples
<1>4. Flask.traced = Responding(a, b, c)
  BY <1>1, <1>2, <1>3 DEF Flask, Integration
<1>5. Flask.untraced = Responding(a, b, c)
  BY <1>1, <1>2, <1>3 DEF Flask, Integration
<1>7. Tame(Flask)
  BY <1>4, <1>5, TameResponding DEF Tame
<1>8. ASSUME NEW e \in Endings
      PROVE  /\ Concluding(a, e)
             /\ e \in {"error", "broken"} => Concluding(b, e)
  BY <1>1, <1>2, TellFacts, StepsOfTwoHandlers, TwoSteps
<1>9. Conclusive(Flask)
  BY <1>4, <1>8, ConclusiveResponding DEF Conclusive
<1> QED
  BY <1>7, <1>9

LEMMA TameDjangoWSGI == Tame(DjangoWSGI) /\ Conclusive(DjangoWSGI)
<1>1. PICK a \in Seq(Quiet) : a = <<Keep("status"), End>>
  BY StepFacts, Tuples
<1>2. PICK b \in Seq(StepType) : b = <<Capture(FALSE), Keep("status"), End>>
  BY StepFacts, Tuples
<1>3. PICK c \in Seq(StepType) : c = <<>>
  BY StepFacts, Tuples
<1>4. DjangoWSGI.traced = Responding(a, b, c)
  BY <1>1, <1>2, <1>3 DEF DjangoWSGI, Django, Integration
<1>5. DjangoWSGI.untraced = Responding(a, b, c)
  BY <1>1, <1>2, <1>3 DEF DjangoWSGI, Django, Integration
<1>7. Tame(DjangoWSGI)
  BY <1>4, <1>5, TameResponding DEF Tame
<1>8. ASSUME NEW e \in Endings
      PROVE  /\ Concluding(a, e)
             /\ e \in {"error", "broken"} => Concluding(b, e)
  BY <1>1, <1>2, TellFacts, ThreeSteps, TwoSteps
<1>9. Conclusive(DjangoWSGI)
  BY <1>4, <1>8, ConclusiveResponding DEF Conclusive
<1> QED
  BY <1>7, <1>9

LEMMA TameDjangoASGI == Tame(DjangoASGI) /\ Conclusive(DjangoASGI)
<1>1. PICK a \in Seq(Quiet) : a = <<Keep("status"), End>>
  BY StepFacts, Tuples
<1>2. PICK b \in Seq(StepType) : b = <<Capture(FALSE), Keep("status"), End>>
  BY StepFacts, Tuples
<1>3. PICK c \in Seq(StepType) : c = <<>>
  BY StepFacts, Tuples
<1>4. DjangoASGI.traced = Responding(a, b, c)
  BY <1>1, <1>2, <1>3 DEF DjangoASGI, Django, Integration
<1>5. DjangoASGI.untraced = Responding(a, b, c)
  BY <1>1, <1>2, <1>3 DEF DjangoASGI, Django, Integration
<1>7. Tame(DjangoASGI)
  BY <1>4, <1>5, TameResponding DEF Tame
<1>8. ASSUME NEW e \in Endings
      PROVE  /\ Concluding(a, e)
             /\ e \in {"error", "broken"} => Concluding(b, e)
  BY <1>1, <1>2, TellFacts, ThreeSteps, TwoSteps
<1>9. Conclusive(DjangoASGI)
  BY <1>4, <1>8, ConclusiveResponding DEF Conclusive
<1> QED
  BY <1>7, <1>9

LEMMA TameStarlette == Tame(Starlette) /\ Conclusive(Starlette)
<1>1. PICK a \in Seq(Quiet) : a = <<Keep("status"), Keep("success"), End>>
  BY StepFacts, Tuples
<1>2. PICK b \in Seq(StepType) : b = <<Capture(TRUE), Keep("failure"), End>>
  BY StepFacts, Tuples
<1>3. PICK c \in Seq(StepType) : c = <<End>>
  BY StepFacts, Tuples
<1>4. PICK d \in Seq(StepType) :
        d = <<Keep("status"), Capture(TRUE), Keep("failure"), End>>
  BY StepFacts, Tuples
<1>5. ASSUME NEW e \in Endings
      PROVE  Starlette.traced[e] = IF e = "broken" THEN d ELSE Responding(a, b, c)[e]
  BY <1>1, <1>2, <1>3, <1>4 DEF Starlette, Integration, Responding
<1>6. ASSUME NEW e \in Endings
      PROVE  Starlette.untraced[e] \in {Starlette.traced[e], <<End>>}
  BY DEF Starlette, Integration
<1>7. Tame(Starlette)
  <2>1. \A e \in Endings : Plain(<<End>>, e)
    BY StepFacts, Tuples, QuietSteps
  <2>2. "broken" \in Errors
    BY DEF Errors, Endings
  <2> QED
    BY <1>5, <1>6, <2>1, <2>2, AnySteps, TameResponding DEF Tame
<1>8. ASSUME NEW e \in Endings
      PROVE  /\ Concluding(a, e)
             /\ e \in {"error", "broken"} => Concluding(b, e)
  BY <1>1, <1>2, TellFacts, ThreeSteps
<1>9. Concluding(d, "broken")
  <2>1. "broken" \in Endings
    BY DEF Endings
  <2>2. End.do = "end"
    BY <2>1, TellFacts
  <2>3. 4 \in DOMAIN d /\ d[4] = End
    BY <1>4, Four
  <2> QED
    BY <2>2, <2>3 DEF Concluding
<1>10. Conclusive(Starlette)
  BY <1>5, <1>8, <1>9, ConclusiveResponding DEF Conclusive
<1> QED
  BY <1>7, <1>10

LEMMA TameASGI == Tame(ASGI) /\ Conclusive(ASGI)
<1>1. PICK a \in Seq(Quiet) : a = <<Keep("status"), Keep("success"), End>>
  BY StepFacts, Tuples
<1>2. PICK b \in Seq(StepType) : b = <<Capture(TRUE), Set("failure"), End>>
  BY StepFacts, Tuples
<1>3. PICK c \in Seq(StepType) : c = <<End>>
  BY StepFacts, Tuples
<1>4. PICK d \in Seq(StepType) :
        d = <<Keep("status"), Capture(TRUE), Set("failure"), End>>
  BY StepFacts, Tuples
<1>5. ASSUME NEW e \in Endings
      PROVE  ASGI.traced[e] = IF e = "broken" THEN d ELSE Responding(a, b, c)[e]
  BY <1>1, <1>2, <1>3, <1>4 DEF ASGI, Integration, Responding
<1>6. ASSUME NEW e \in Endings
      PROVE  ASGI.untraced[e] \in {ASGI.traced[e], <<End>>}
  BY DEF ASGI, Integration
<1>7. Tame(ASGI)
  <2>1. \A e \in Endings : Plain(<<End>>, e)
    BY StepFacts, Tuples, QuietSteps
  <2>2. "broken" \in Errors
    BY DEF Errors, Endings
  <2> QED
    BY <1>5, <1>6, <2>1, <2>2, AnySteps, TameResponding DEF Tame
<1>8. ASSUME NEW e \in Endings
      PROVE  /\ Concluding(a, e)
             /\ e \in {"error", "broken"} => Concluding(b, e)
  BY <1>1, <1>2, TellFacts, ThreeSteps
<1>9. Concluding(d, "broken")
  <2>1. "broken" \in Endings
    BY DEF Endings
  <2>2. End.do = "end"
    BY <2>1, TellFacts
  <2>3. 4 \in DOMAIN d /\ d[4] = End
    BY <1>4, Four
  <2> QED
    BY <2>2, <2>3 DEF Concluding
<1>10. Conclusive(ASGI)
  BY <1>5, <1>8, <1>9, ConclusiveResponding DEF Conclusive
<1> QED
  BY <1>7, <1>10

LEMMA TameSanic == Tame(Sanic) /\ Conclusive(Sanic)
<1>1. PICK a \in Seq(Quiet) : a = <<Keep("status"), End>>
  BY StepFacts, Tuples
<1>2. PICK b \in Seq(StepType) :
        b = <<Capture(TRUE), Keep("failure"), End, Keep("status"), End>>
  BY StepFacts, Tuples
<1>3. PICK c \in Seq(Quiet) : c = <<>>
  BY StepFacts, Tuples
<1>4. ASSUME NEW e \in Endings
      PROVE  /\ e \in {"ok", "failed"} => Sanic.traced[e] = a
             /\ e = "killed" => Sanic.traced[e] = c
             /\ e \in Errors \ {"killed"} => Sanic.traced[e] = b
  BY <1>1, <1>2, <1>3 DEF Sanic, Integration, Endings, Errors
<1>5. Sanic.untraced = Sanic.traced
  BY DEF Sanic, Integration
<1>6. ASSUME NEW e \in Endings
      PROVE  Plain(Sanic.traced[e], e)
  BY <1>4, EndingCases, QuietSteps, AnySteps DEF Endings, Errors
<1>7. Tame(Sanic)
  BY <1>5, <1>6 DEF Tame
<1>8. ASSUME NEW e \in Endings \ {"killed"}
      PROVE  Concluding(Sanic.traced[e], e)
  <2>1. Concluding(a, e)
    BY <1>1, TellFacts, TwoSteps
  <2>2. e \notin {"ok", "failed"} => Concluding(b, e)
    BY <1>2, TellFacts, StepsOfTwoHandlers
  <2> QED
    BY <1>4, <2>1, <2>2 DEF Endings, Errors
<1> QED
  BY <1>7, <1>8 DEF Conclusive

LEMMA TameAioHttp == Tame(AioHttp) /\ Conclusive(AioHttp)
<1>1. PICK a \in Seq(Quiet) : a = <<Keep("status"), End>>
  BY StepFacts, Tuples
<1>2. PICK b \in Seq(StepType) : b = <<Keep("failure"), Capture(TRUE), End>>
  BY StepFacts, Tuples
<1>3. PICK c \in Seq(StepType) : c = <<Keep("status"), Capture(TRUE), End>>
  BY StepFacts, Tuples
<1>4. PICK d \in Seq(Quiet) : d = <<End>>
  BY StepFacts, Tuples
<1>5. ASSUME NEW e \in Endings
      PROVE  /\ e \in {"ok", "failed", "thrown ok"} => AioHttp.traced[e] = a
             /\ e \in {"error", "broken"} => AioHttp.traced[e] = b
             /\ e = "thrown failed" => AioHttp.traced[e] = c
             /\ e = "killed" => AioHttp.traced[e] = d
  BY <1>1, <1>2, <1>3, <1>4 DEF AioHttp, Integration, Endings
<1>6. ASSUME NEW e \in Endings
      PROVE  AioHttp.untraced[e] \in {AioHttp.traced[e], <<End>>}
  BY <1>1, <1>2, <1>3, <1>4, <1>5 DEF AioHttp, Integration, Endings
<1>7. ASSUME NEW e \in Endings
      PROVE  Plain(AioHttp.traced[e], e)
  BY <1>5, EndingCases, QuietSteps, AnySteps DEF Endings, Errors
<1>8. Tame(AioHttp)
  BY <1>6, <1>7, QuietSteps, Tuples, StepFacts DEF Tame
<1>9. ASSUME NEW e \in Endings \ {"killed"}
      PROVE  Concluding(AioHttp.traced[e], e)
  <2>1. Concluding(a, e)
    BY <1>1, TellFacts, TwoSteps
  <2>2. e \in {"error", "broken"} => Concluding(b, e)
    BY <1>2, TellFacts, ThreeSteps
  <2>3. Concluding(c, e)
    BY <1>3, TellFacts, ThreeSteps
  <2> QED
    BY <1>5, <2>1, <2>2, <2>3 DEF Endings
<1> QED
  BY <1>8, <1>9 DEF Conclusive

LEMMA TameTornado ==
  ASSUME NEW finishes \in BOOLEAN
  PROVE  Tame(Tornado(finishes)) /\ Conclusive(Tornado(finishes))
<1> DEFINE i == Tornado(finishes)
<1>1. PICK a \in Seq(Quiet) : a = <<Set("status"), End>>
  BY StepFacts, Tuples
<1>2. PICK b \in Seq(StepType) :
        b = <<SampledCapture(TRUE), SampledSet("failure"), Set("status"), End>>
  BY StepFacts, Tuples
<1>3. PICK c \in Seq(Quiet) : c = <<>>
  BY StepFacts, Tuples
<1>4. ASSUME NEW e \in Endings
      PROVE  /\ e \in {"ok", "failed"} => i.traced[e] = a
             /\ e = "killed" => i.traced[e] = c
             /\ e \in Errors \ {"killed"} =>
                  i.traced[e] = b \/ (finishes /\ i.traced[e] = a)
  BY <1>1, <1>2, <1>3 DEF Tornado, Integration, Endings, Errors
<1>5. ASSUME NEW e \in Endings
      PROVE  i.untraced[e] = <<>>
  BY <1>1, <1>2, <1>3, <1>4 DEF Tornado, Integration, Endings
<1>6. ASSUME NEW e \in Endings
      PROVE  Plain(i.traced[e], e)
  BY <1>4, EndingCases, QuietSteps, AnySteps DEF Endings, Errors
<1>7. Tame(i)
  BY <1>5, <1>6, QuietSteps, Tuples, StepFacts DEF Tame
<1>8. ASSUME NEW e \in Endings \ {"killed"}
      PROVE  Concluding(i.traced[e], e)
  <2>1. Concluding(a, e)
    BY <1>1, TellFacts, TwoSteps
  <2>2. e \notin {"ok", "failed"} => Concluding(b, e)
    BY <1>2, TellFacts, SampledSteps
  <2> QED
    BY <1>4, <2>1, <2>2 DEF Endings, Errors
<1> QED
  BY <1>7, <1>8 DEF Conclusive

LEMMA TameGRPC == Tame(GRPC) /\ Conclusive(GRPC)
<1>1. PICK a \in Seq(Quiet) : a = <<Set("status"), Keep("success"), End>>
  BY StepFacts, Tuples
<1>2. PICK b \in Seq(StepType) : b = <<Set("failure"), Capture(FALSE), End>>
  BY StepFacts, Tuples
<1>3. PICK c \in Seq(Quiet) : c = <<End>>
  BY StepFacts, Tuples
<1>4. ASSUME NEW e \in Endings
      PROVE  /\ e \in {"ok", "failed"} => GRPC.traced[e] = a
             /\ e = "killed" => GRPC.traced[e] = c
             /\ e \in Errors \ {"killed"} => GRPC.traced[e] = b
  BY <1>1, <1>2, <1>3 DEF GRPC, Integration, Endings, Errors
<1>5. ASSUME NEW e \in Endings
      PROVE  GRPC.untraced[e] = <<>>
  BY DEF GRPC, Integration
<1>6. ASSUME NEW e \in Endings
      PROVE  Plain(GRPC.traced[e], e)
  BY <1>4, EndingCases, QuietSteps, AnySteps DEF Endings, Errors
<1>7. Tame(GRPC)
  BY <1>5, <1>6, QuietSteps, Tuples, StepFacts DEF Tame
<1>8. ASSUME NEW e \in Endings \ {"killed"}
      PROVE  Concluding(GRPC.traced[e], e)
  <2>1. Concluding(a, e)
    BY <1>1, TellFacts, ThreeSteps
  <2>2. e \notin {"ok", "failed"} => Concluding(b, e)
    BY <1>2, TellFacts, ThreeSteps
  <2> QED
    BY <1>4, <2>1, <2>2 DEF Endings, Errors
<1> QED
  BY <1>7, <1>8 DEF Conclusive

LEMMA TameCelery == Tame(Celery)
<1>1. PICK a \in Seq(Quiet) : a = <<Keep("success"), End>>
  BY StepFacts, Tuples
<1>2. PICK b \in Seq(StepType) : b = <<Capture(FALSE), Keep("failure"), End>>
  BY StepFacts, Tuples
<1>3. PICK c \in Seq(Quiet) : c = <<Keep("failure"), End>>
  BY StepFacts, Tuples
<1>4. PICK d \in Seq(Quiet) : d = <<Keep("unknown"), End>>
  BY StepFacts, Tuples
<1>5. PICK f \in Seq(Quiet) : f = <<>>
  BY StepFacts, Tuples
<1>6. ASSUME NEW e \in Endings
      PROVE  /\ e \in {"ok", "failed"} => Celery.traced[e] = a
             /\ e \in {"error", "broken"} => Celery.traced[e] = b
             /\ e = "thrown failed" => Celery.traced[e] = c
             /\ e = "thrown ok" => Celery.traced[e] = d
             /\ e = "killed" => Celery.traced[e] = f
  BY <1>1, <1>2, <1>3, <1>4, <1>5 DEF Celery, Integration, Endings
<1>7. Celery.untraced = Celery.traced
  BY DEF Celery, Integration
<1>8. ASSUME NEW e \in Endings
      PROVE  Plain(Celery.traced[e], e)
  BY <1>6, EndingCases, QuietSteps, AnySteps DEF Endings, Errors
<1>9. Tame(Celery)
  BY <1>7, <1>8 DEF Tame
<1> QED
  BY <1>9

LEMMA TameKafkaConsumer == Tame(KafkaConsumer)
<1>1. PICK a \in Seq(Quiet) : a = <<End>>
  BY StepFacts, Tuples
<1>2. PICK b \in Seq(Quiet) : b = <<>>
  BY StepFacts, Tuples
<1>3. ASSUME NEW e \in Endings
      PROVE  /\ e \in {"ok", "failed"} => KafkaConsumer.traced[e] = a
             /\ e \in Errors => KafkaConsumer.traced[e] = b
  BY <1>1, <1>2 DEF KafkaConsumer, Integration, Endings, Errors
<1>4. KafkaConsumer.untraced = KafkaConsumer.traced
  BY DEF KafkaConsumer, Integration
<1>5. ASSUME NEW e \in Endings
      PROVE  Plain(KafkaConsumer.traced[e], e)
  BY <1>3, EndingCases, QuietSteps, AnySteps DEF Endings, Errors
<1>6. Tame(KafkaConsumer)
  BY <1>4, <1>5 DEF Tame
<1> QED
  BY <1>6

LEMMA TameAWSTRUE == Tame(AWS(TRUE))
<1>1. PICK a \in Seq(Quiet) : a = <<End>>
  BY StepFacts, Tuples
<1>2. PICK b \in Seq(Quiet) : b = <<Keep("failure"), End>>
  BY StepFacts, Tuples
<1>3. PICK c \in Seq(StepType) : c = <<Capture(FALSE), Keep("failure"), End>>
  BY StepFacts, Tuples
<1>4. ASSUME NEW e \in Endings
      PROVE  /\ e = "ok" => AWS(TRUE).traced[e] = a
             /\ e = "failed" => AWS(TRUE).traced[e] = b
             /\ e \in Errors => AWS(TRUE).traced[e] = c
  BY <1>1, <1>2, <1>3 DEF AWS, Integration, Endings, Errors
<1>5. AWS(TRUE).untraced = AWS(TRUE).traced
  BY DEF AWS, Integration
<1>6. ASSUME NEW e \in Endings
      PROVE  Plain(AWS(TRUE).traced[e], e)
  BY <1>4, EndingCases, QuietSteps, AnySteps DEF Endings, Errors
<1>7. Tame(AWS(TRUE))
  BY <1>5, <1>6 DEF Tame
<1> QED
  BY <1>7

LEMMA TameAWSFALSE == Tame(AWS(FALSE))
<1>1. PICK a \in Seq(Quiet) : a = <<End>>
  BY StepFacts, Tuples
<1>2. PICK b \in Seq(Quiet) : b = <<Keep("failure"), End>>
  BY StepFacts, Tuples
<1>3. PICK c \in Seq(StepType) : c = <<Capture(FALSE), Keep("failure"), End>>
  BY StepFacts, Tuples
<1>4. ASSUME NEW e \in Endings
      PROVE  /\ e = "ok" => AWS(FALSE).traced[e] = a
             /\ e = "failed" => AWS(FALSE).traced[e] = b
             /\ e \in Errors => AWS(FALSE).traced[e] = c
  BY <1>1, <1>2, <1>3 DEF AWS, Integration, Endings, Errors
<1>5. AWS(FALSE).untraced = AWS(FALSE).traced
  BY DEF AWS, Integration
<1>6. ASSUME NEW e \in Endings
      PROVE  Plain(AWS(FALSE).traced[e], e)
  BY <1>4, EndingCases, QuietSteps, AnySteps DEF Endings, Errors
<1>7. Tame(AWS(FALSE))
  BY <1>5, <1>6 DEF Tame
<1> QED
  BY <1>7

LEMMA TameAzureFunctions == Tame(AzureFunctions)
<1>1. PICK a \in Seq(Quiet) : a = <<Set("status"), End>>
  BY StepFacts, Tuples
<1>2. PICK b \in Seq(Quiet) : b = <<>>
  BY StepFacts, Tuples
<1>3. ASSUME NEW e \in Endings
      PROVE  /\ e \in {"ok", "failed"} => AzureFunctions.traced[e] = a
             /\ e \in Errors => AzureFunctions.traced[e] = b
  BY <1>1, <1>2 DEF AzureFunctions, Integration, Endings, Errors
<1>4. AzureFunctions.untraced = AzureFunctions.traced
  BY DEF AzureFunctions, Integration
<1>5. ASSUME NEW e \in Endings
      PROVE  Plain(AzureFunctions.traced[e], e)
  BY <1>3, EndingCases, QuietSteps, AnySteps DEF Endings, Errors
<1>6. Tame(AzureFunctions)
  BY <1>4, <1>5 DEF Tame
<1> QED
  BY <1>6

LEMMA TameOTelRoot == Tame(OTelRoot)
<1>1. PICK a \in Seq(Quiet) : a = <<End>>
  BY StepFacts, Tuples
<1>2. PICK b \in Seq(StepType) : b = <<Capture(FALSE), Set("failure"), End>>
  BY StepFacts, Tuples
<1>3. ASSUME NEW e \in Endings
      PROVE  /\ e \in {"ok", "failed", "killed"} => OTelRoot.traced[e] = a
             /\ e \in Errors \ {"killed"} => OTelRoot.traced[e] = b
  BY <1>1, <1>2 DEF OTelRoot, Integration, Endings, Errors
<1>4. OTelRoot.untraced = OTelRoot.traced
  BY DEF OTelRoot, Integration
<1>5. ASSUME NEW e \in Endings
      PROVE  Plain(OTelRoot.traced[e], e)
  BY <1>3, EndingCases, QuietSteps, AnySteps DEF Endings, Errors
<1>6. Tame(OTelRoot)
  BY <1>4, <1>5 DEF Tame
<1> QED
  BY <1>6

LEMMA TameOTRoot == Tame(OTRoot)
<1>1. PICK a \in Seq(Quiet) : a = <<End>>
  BY StepFacts, Tuples
<1>2. PICK b \in Seq(StepType) : b = <<Capture(TRUE), End>>
  BY StepFacts, Tuples
<1>3. ASSUME NEW e \in Endings
      PROVE  /\ e \in {"ok", "failed"} => OTRoot.traced[e] = a
             /\ e \in Errors => OTRoot.traced[e] = b
  BY <1>1, <1>2 DEF OTRoot, Integration, Endings, Errors
<1>4. OTRoot.untraced = OTRoot.traced
  BY DEF OTRoot, Integration
<1>5. ASSUME NEW e \in Endings
      PROVE  Plain(OTRoot.traced[e], e)
  BY <1>3, EndingCases, QuietSteps, AnySteps DEF Endings, Errors
<1>6. Tame(OTRoot)
  BY <1>4, <1>5 DEF Tame
<1> QED
  BY <1>6

LEMMA TameCapturesTRUE == Tame(Captures(TRUE))
<1>1. PICK a \in Seq(Quiet) : a = <<>>
  BY StepFacts, Tuples
<1>2. PICK b \in Seq(StepType) : b = <<Capture(TRUE)>>
  BY StepFacts, Tuples
<1>3. ASSUME NEW e \in Endings
      PROVE  /\ e \in {"ok", "failed", "killed"} => Captures(TRUE).traced[e] = a
             /\ e \in Errors \ {"killed"} => Captures(TRUE).traced[e] = b
  BY <1>1, <1>2 DEF Captures, Integration, Endings, Errors
<1>4. Captures(TRUE).untraced = Captures(TRUE).traced
  BY DEF Captures, Integration
<1>5. ASSUME NEW e \in Endings
      PROVE  Plain(Captures(TRUE).traced[e], e)
  BY <1>3, EndingCases, QuietSteps, AnySteps DEF Endings, Errors
<1>6. Tame(Captures(TRUE))
  BY <1>4, <1>5 DEF Tame
<1> QED
  BY <1>6

LEMMA TameCapturesFALSE == Tame(Captures(FALSE))
<1>1. PICK a \in Seq(Quiet) : a = <<>>
  BY StepFacts, Tuples
<1>2. PICK b \in Seq(StepType) : b = <<Capture(FALSE)>>
  BY StepFacts, Tuples
<1>3. ASSUME NEW e \in Endings
      PROVE  /\ e \in {"ok", "failed", "killed"} => Captures(FALSE).traced[e] = a
             /\ e \in Errors \ {"killed"} => Captures(FALSE).traced[e] = b
  BY <1>1, <1>2 DEF Captures, Integration, Endings, Errors
<1>4. Captures(FALSE).untraced = Captures(FALSE).traced
  BY DEF Captures, Integration
<1>5. ASSUME NEW e \in Endings
      PROVE  Plain(Captures(FALSE).traced[e], e)
  BY <1>3, EndingCases, QuietSteps, AnySteps DEF Endings, Errors
<1>6. Tame(Captures(FALSE))
  BY <1>4, <1>5 DEF Tame
<1> QED
  BY <1>6

LEMMA IntegrationTables ==
  /\ \A i \in HttpIntegrations \cup OtherIntegrations : Tame(i)
  /\ \A i \in HttpIntegrations : Conclusive(i)
BY TameFlask, TameDjangoWSGI, TameDjangoASGI, TameStarlette, TameASGI, TameSanic,
   TameAioHttp, TameTornado, TameGRPC, TameCelery, TameKafkaConsumer, TameAWSTRUE,
   TameAWSFALSE, TameAzureFunctions, TameOTelRoot, TameOTRoot, TameCapturesTRUE,
   TameCapturesFALSE
DEF HttpIntegrations, OtherIntegrations, WSGIMiddleware, RQ, Twisted

-----------------------------------------------------------------------------
(***************************************************************************)
(* Types, and what the spans are to each other from their beginning.       *)
(***************************************************************************)
Ids == 1 .. Len(spans)

SpanType ==
  [kind : {"real", "dropped"}, bridge : BOOLEAN, parent : Nat, leaf : BOOLEAN,
   resource : {"own", "none"}, marked : BOOLEAN,
   outcome : {"success", "failure", "unknown", None}, ended : BOOLEAN,
   fate : {"open", "lost", "sent", "cancelled", "discarded", "merged"}]

FrameType == [wrapper : Libraries, span : Nat \cup {None}]

ExcType == [tag : Nat \cup {None}, class : {"Exception", "BaseException"}]

\* t is a record with the fields of a transaction.
IsTx(t) ==
  /\ t = [state |-> t.state, tp |-> t.tp, sampled |-> t.sampled, rate |-> t.rate,
          outcome |-> t.outcome, links |-> t.links, counter |-> t.counter,
          dropped |-> t.dropped, stats |-> t.stats]
  /\ t.counter \in Int /\ t.dropped \in Int /\ t.stats \in Int

Types ==
  /\ service \in DOMAIN Scenarios
  /\ spans \in Seq(SpanType)
  /\ stack \in Seq(Ids)
  /\ frames \in Seq(FrameType)
  /\ \A i \in DOMAIN frames : frames[i].span \in Ids \cup {None}
  /\ exc # None => exc \in ExcType
  /\ IsTx(tx)

Blank ==
  phase = "idle" =>
    /\ spans = <<>> /\ stack = <<>> /\ frames = <<>>
    /\ exc = None /\ sent = {} /\ errors = {}

\* There is an exception if one is to be captured.
Phases ==
  /\ phase \in {"steps", "done", "failed"} => frames = <<>>
  /\ phase = "steps" =>
       /\ todo \in Seq(StepType)
       /\ exc = None => ~CapturesIn(todo)

\* What is called is on top of what calls it, and what an exit span encloses is
\* dropped as one.
Tree ==
  /\ \A i, j \in DOMAIN stack : i < j => stack[i] < stack[j]
  /\ \A s \in Ids : spans[s].parent < s
  /\ \A s \in Ids :
       spans[s].parent # Tx /\ spans[spans[s].parent].leaf =>
         spans[s].leaf /\ ~Real(s)
  /\ \A i \in DOMAIN frames :
       frames[i].wrapper.span = "otel" /\ frames[i].span # None => Real(frames[i].span)

Base == Types /\ Blank /\ Phases /\ Tree

LEMMA ConfType ==
  ASSUME service \in DOMAIN Scenarios
  PROVE  /\ conf.libraries \subseteq Libraries
         /\ conf.frameworks \subseteq HttpIntegrations \cup OtherIntegrations
         /\ conf.raises \subseteq {"Exception", "BaseException"}
         /\ conf.limit \in Nat
BY RequestAssumption DEF conf

LEMMA InitBase == Init => Base
<1> SUFFICES ASSUME Init
             PROVE  Base
  OBVIOUS
<1>1. IsTx(tx)
  BY DEF Init, NoTransaction, IsTx
<1> QED
  BY <1>1 DEF Init, Base, Types, Blank, Phases, Tree, Ids

\* The top of the stack.
LEMMA ActiveFacts ==
  ASSUME Base
  PROVE  /\ stack = <<>> => Active = None
         /\ stack # <<>> =>
              /\ Active \in Ids /\ Active # None
              /\ Active = stack[Len(stack)] /\ Len(stack) \in Nat \ {0}
              /\ Front(stack) \in Seq(Ids)
              /\ DOMAIN Front(stack) = 1 .. Len(stack) - 1
              /\ \A i \in 1 .. Len(stack) - 1 : Front(stack)[i] = stack[i]
              /\ Range(Front(stack)) = Range(stack) \ {Active}
              /\ \A s \in Range(stack) : s <= Active
<1>1. CASE stack = <<>>
  BY <1>1 DEF Active
<1>2. CASE stack # <<>>
  <2>1. /\ stack \in Seq(Ids) /\ Len(stack) \in Nat \ {0}
        /\ DOMAIN stack = 1 .. Len(stack)
        /\ \A i \in 1 .. Len(stack) : stack[i] \in Ids
    BY <1>2 DEF Base, Types
  <2>2. Active = stack[Len(stack)] /\ Active \in Ids
    BY <1>2, <2>1 DEF Active, Last
  <2>3. Active # None
    BY <2>2, NoneAssumption DEF Ids
  <2>4. Front(stack) = [i \in 1 .. Len(stack) - 1 |-> stack[i]]
    BY <2>1 DEF Front
  <2>5. Front(stack) \in Seq(Ids)
    BY <2>1, <2>4
  <2>6. \A i \in 1 .. Len(stack) - 1 : stack[i] < stack[Len(stack)]
    BY <2>1 DEF Base, Tree
  <2>7. \A i \in 1 .. Len(stack) : i \in 1 .. Len(stack) - 1 \/ i = Len(stack)
    <3>1. \A n \in Nat : \A i \in 1 .. n : i \in 1 .. n - 1 \/ i = n
      OBVIOUS
    <3>2. Len(stack) \in Nat
      BY <2>1
    <3> QED
      BY <3>1, <3>2
  <2>8. Range(Front(stack)) = Range(stack) \ {Active}
    <3>1. Range(Front(stack)) = {stack[i] : i \in 1 .. Len(stack) - 1}
      BY <2>4 DEF Range
    <3>2. Range(stack) = {stack[i] : i \in 1 .. Len(stack)}
      BY <2>1 DEF Range
    <3>3. \A i \in 1 .. Len(stack) - 1 : i \in 1 .. Len(stack) /\ stack[i] # Active
      BY <2>1, <2>2, <2>6 DEF Ids
    <3> QED
      BY <2>2, <2>7, <3>1, <3>2, <3>3
  <2>9. \A s \in Range(stack) : s <= Active
    BY <2>1, <2>2, <2>6, <2>7 DEF Range, Ids
  <2> QED
    BY <1>2, <2>1, <2>2, <2>3, <2>4, <2>5, <2>8, <2>9
<1> QED
  BY <1>1, <1>2

\* A span that begins.
LEMMA NewSpanFacts ==
  ASSUME Base, NEW w \in Libraries
  PROVE  /\ NewSpan(w) \in SpanType
         /\ NewSpan(w).parent = IF Active = None THEN Tx ELSE Active
         /\ NewSpan(w).parent \in 0 .. Len(spans)
         /\ ~NewSpan(w).ended /\ NewSpan(w).outcome = None /\ NewSpan(w).fate = "open"
         /\ NewSpan(w).bridge = (w.span = "bridge")
         /\ NewSpan(w).kind = "real" <=> ~InLeaf /\ ~OverLimit
         /\ InLeaf => NewSpan(w).leaf /\ NewSpan(w).resource = "none"
         /\ NewSpan(w).leaf /\ ~InLeaf => NewSpan(w).kind = "real"
<1>1. w \in WrapperType
  BY LibraryType
<1>2. (IF Active = None THEN Tx ELSE Active) \in 0 .. Len(spans)
  <2>1. Len(spans) \in Nat
    BY DEF Base, Types
  <2>2. Active = None \/ Active \in Ids
    BY ActiveFacts
  <2> QED
    BY <2>1, <2>2 DEF Tx, Ids
<1>3. Resource(w) \in {"own", "none"} /\ DroppedResource(w) \in {"own", "none"}
  BY DEF Resource, DroppedResource
<1>5. CASE InLeaf
  <2>1. NewSpan(w) = Span("dropped", w, TRUE, "none")
    BY <1>5 DEF NewSpan
  <2>2. /\ NewSpan(w) \in SpanType
        /\ NewSpan(w).parent = IF Active = None THEN Tx ELSE Active
        /\ ~NewSpan(w).ended /\ NewSpan(w).outcome = None /\ NewSpan(w).fate = "open"
        /\ NewSpan(w).bridge = (w.span = "bridge")
        /\ NewSpan(w).kind = "dropped" /\ NewSpan(w).leaf /\ NewSpan(w).resource = "none"
    BY <1>2, <2>1 DEF Span, SpanType
  <2> QED
    BY <1>2, <1>5, <2>2
<1>6. CASE ~InLeaf /\ OverLimit
  <2>1. NewSpan(w) = Span("dropped", w, FALSE, DroppedResource(w))
    BY <1>6 DEF NewSpan
  <2>2. DroppedResource(w) \in {"own", "none"} /\ FALSE \in BOOLEAN
    BY <1>3
  <2>3. /\ NewSpan(w) \in SpanType
        /\ NewSpan(w).parent = IF Active = None THEN Tx ELSE Active
        /\ ~NewSpan(w).ended /\ NewSpan(w).outcome = None /\ NewSpan(w).fate = "open"
        /\ NewSpan(w).bridge = (w.span = "bridge")
        /\ NewSpan(w).kind = "dropped" /\ NewSpan(w).leaf = FALSE
    BY <1>2, <2>1, <2>2 DEF Span, SpanType
  <2> QED
    BY <1>2, <1>6, <2>3
<1>7. CASE ~InLeaf /\ ~OverLimit
  <2>1. NewSpan(w) = Span("real", w, w.span = "exit", Resource(w))
    BY <1>7 DEF NewSpan
  <2>2. Resource(w) \in {"own", "none"} /\ (w.span = "exit") \in BOOLEAN
    BY <1>3
  <2>3. /\ NewSpan(w) \in SpanType
        /\ NewSpan(w).parent = IF Active = None THEN Tx ELSE Active
        /\ ~NewSpan(w).ended /\ NewSpan(w).outcome = None /\ NewSpan(w).fate = "open"
        /\ NewSpan(w).bridge = (w.span = "bridge")
        /\ NewSpan(w).kind = "real"
    BY <1>2, <2>1, <2>2 DEF Span, SpanType
  <2> QED
    BY <1>2, <1>7, <2>3
<1> QED
  BY <1>5, <1>6, <1>7

LEMMA CountedFacts ==
  ASSUME IsTx(tx), NEW s \in SpanType
  PROVE  LET t == Counted(s)
         IN  /\ IsTx(t) /\ t.stats = tx.stats
             /\ s.kind = "real" => t.counter = tx.counter + 1 /\ t.dropped = tx.dropped
             /\ s.kind # "real" => t.counter = tx.counter
             /\ s.kind # "real" /\ s.leaf => t.dropped = tx.dropped
             /\ s.kind # "real" /\ ~s.leaf => t.dropped = tx.dropped + 1
             /\ t.state = tx.state /\ t.outcome = tx.outcome /\ t.sampled = tx.sampled
             /\ t.tp = tx.tp /\ t.rate = tx.rate
BY DEF Counted, IsTx

\* What ending does to the transaction.
LEMMA AfterFateFacts ==
  ASSUME IsTx(tx), NEW span \in SpanType, NEW fate
  PROVE  LET t == AfterFate(fate, span)
         IN  /\ IsTx(t)
             /\ t.counter \in {tx.counter, tx.counter - 1}
             /\ t.stats - tx.stats \in {0, t.dropped - tx.dropped}
             /\ t.dropped - tx.dropped \in {0, 1}
             /\ t.state = tx.state /\ t.outcome = tx.outcome /\ t.sampled = tx.sampled
             /\ t.tp = tx.tp /\ t.rate = tx.rate
<1>1. CASE fate \in {"cancelled", "merged"}
  <2>1. AfterFate(fate, span) = [tx EXCEPT !.counter = @ - 1]
    BY <1>1 DEF AfterFate
  <2> QED
    BY <2>1 DEF IsTx
<1>2. CASE fate = "discarded"
  <2>1. AfterFate(fate, span)
          = [tx EXCEPT !.dropped = @ + 1,
                       !.stats = IF span.resource = "own" THEN @ + 1 ELSE @]
    BY <1>2 DEF AfterFate
  <2>2. CASE span.resource = "own"
    <3> DEFINE t == AfterFate(fate, span)
    <3>1. t = [tx EXCEPT !.dropped = @ + 1, !.stats = @ + 1]
      BY <2>1, <2>2
    <3> HIDE DEF t
    <3>2. /\ t.counter = tx.counter /\ t.dropped = tx.dropped + 1 /\ t.stats = tx.stats + 1
          /\ t.state = tx.state /\ t.outcome = tx.outcome /\ t.sampled = tx.sampled
          /\ t.tp = tx.tp /\ t.rate = tx.rate
      BY <3>1 DEF IsTx
    <3>3. tx.counter \in Int /\ tx.dropped \in Int /\ tx.stats \in Int
      BY DEF IsTx
    <3>4. t.counter \in Int /\ t.dropped \in Int /\ t.stats \in Int
      BY <3>2, <3>3
    <3>5. IsTx(t)
      BY <3>1, <3>4 DEF IsTx
    <3> QED
      BY <3>2, <3>3, <3>5 DEF t
  <2>3. CASE span.resource # "own"
    <3> DEFINE t == AfterFate(fate, span)
    <3>1. t = [tx EXCEPT !.dropped = @ + 1, !.stats = @]
      BY <2>1, <2>3
    <3> HIDE DEF t
    <3>2. /\ t.counter = tx.counter /\ t.dropped = tx.dropped + 1 /\ t.stats = tx.stats
          /\ t.state = tx.state /\ t.outcome = tx.outcome /\ t.sampled = tx.sampled
          /\ t.tp = tx.tp /\ t.rate = tx.rate
      BY <3>1 DEF IsTx
    <3>3. tx.counter \in Int /\ tx.dropped \in Int /\ tx.stats \in Int
      BY DEF IsTx
    <3>4. t.counter \in Int /\ t.dropped \in Int /\ t.stats \in Int
      BY <3>2, <3>3
    <3>5. IsTx(t)
      BY <3>1, <3>4 DEF IsTx
    <3> QED
      BY <3>2, <3>3, <3>5 DEF t
  <2> QED
    BY <2>2, <2>3
<1>3. CASE fate \notin {"cancelled", "merged", "discarded"}
  <2>1. AfterFate(fate, span) = tx
    BY <1>3 DEF AfterFate
  <2> QED
    BY <2>1 DEF IsTx
<1> QED
  BY <1>1, <1>2, <1>3

\* Only what the span is decides whether it may not be kept.
LEMMA FatesFacts ==
  ASSUME NEW t \in Ids, NEW span \in SpanType, NEW cancelled \in BOOLEAN,
         NEW fate \in Fates(t, span, cancelled)
  PROVE  /\ fate \in {"lost", "sent", "cancelled", "discarded", "merged"}
         /\ span.parent = Tx \/ Real(span.parent) => fate # "lost"
         /\ span.parent # Tx /\ ~Real(span.parent) => fate = "lost"
         /\ ~Discardable(span) => fate \in {"lost", "sent", "cancelled"}
BY DEF Fates

\* What never changes about a span.
Kin(a, b) ==
  /\ a.kind = b.kind /\ a.bridge = b.bridge /\ a.parent = b.parent
  /\ a.leaf = b.leaf
  /\ a.kind = "dropped" => a.resource = b.resource

\* The span t ends.  ss are the spans, one of which was given an outcome.
Ends(t, ss, outcome) ==
  /\ spans' \in Seq(SpanType) /\ Len(spans') = Len(spans)
  /\ \A s \in Ids \ {t} : spans'[s] = ss[s]
  /\ spans'[t] \in SpanType
  /\ \E fate \in {"open", "lost", "sent", "cancelled", "discarded", "merged"} :
       spans'[t] = [ss[t] EXCEPT !.ended = TRUE, !.fate = fate,
                      !.outcome = IF @ = None THEN outcome ELSE @]
  /\ ss[t].kind = "dropped" =>
       /\ spans'[t].fate = ss[t].fate
       /\ stack' = Front(stack)
       /\ tx' = IF ss[t].resource = "own" THEN [tx EXCEPT !.stats = @ + 1] ELSE tx
  /\ ss[t].kind = "real" =>
       /\ stack' = IF Active = t THEN Front(stack) ELSE stack
       /\ ss[t].parent = Tx \/ Real(ss[t].parent) => spans'[t].fate # "lost"
       /\ ~Discardable(spans'[t]) => spans'[t].fate \in {"lost", "sent", "cancelled"}
       /\ \E fate : tx' = AfterFate(fate, [ss[t] EXCEPT !.ended = TRUE,
                              !.outcome = IF @ = None THEN outcome ELSE @])

LEMMA EndSpanFacts ==
  ASSUME Base, NEW t \in Ids, NEW ss \in Seq(SpanType), Len(ss) = Len(spans),
         NEW outcome \in {"success", "failure", "unknown", None},
         NEW cancelled \in BOOLEAN, EndSpan(t, ss, outcome, cancelled)
  PROVE  Ends(t, ss, outcome)
<1> DEFINE span == [ss[t] EXCEPT !.ended = TRUE,
                                 !.outcome = IF @ = None THEN outcome ELSE @]
<1>1. /\ ss[t] \in SpanType /\ t \in 1 .. Len(ss) /\ Len(ss) \in Nat
      /\ DOMAIN ss = 1 .. Len(ss)
  BY DEF Ids
<1>2. span \in SpanType
  BY <1>1 DEF SpanType
<1>3. /\ span.kind = ss[t].kind /\ span.parent = ss[t].parent /\ span.fate = ss[t].fate
      /\ span.resource = ss[t].resource
  BY <1>1 DEF SpanType
<1>4. ASSUME NEW v \in SpanType
      PROVE  /\ [ss EXCEPT ![t] = v] \in Seq(SpanType)
             /\ Len([ss EXCEPT ![t] = v]) = Len(spans)
             /\ [ss EXCEPT ![t] = v][t] = v
             /\ \A s \in Ids \ {t} : [ss EXCEPT ![t] = v][s] = ss[s]
  BY <1>1 DEF Ids
<1>5. CASE span.kind = "dropped"
  <2>1. /\ spans' = [ss EXCEPT ![t] = span]
        /\ stack' = Front(stack)
        /\ tx' = IF span.resource = "own" THEN [tx EXCEPT !.stats = @ + 1] ELSE tx
    BY <1>5 DEF EndSpan
  <2>2. /\ spans' \in Seq(SpanType) /\ Len(spans') = Len(spans)
        /\ \A s \in Ids \ {t} : spans'[s] = ss[s]
        /\ spans'[t] = span
    <3> HIDE DEF span
    <3> QED
      BY <1>2, <1>4, <2>1
  <2>3. span = [ss[t] EXCEPT !.ended = TRUE, !.fate = ss[t].fate,
                             !.outcome = IF @ = None THEN outcome ELSE @]
    BY <1>1 DEF SpanType
  <2>4. ss[t].fate \in {"open", "lost", "sent", "cancelled", "discarded", "merged"}
    BY <1>1 DEF SpanType
  <2>5. ss[t].kind = "dropped"
    BY <1>3, <1>5
  <2> HIDE DEF span
  <2>6. \E fate \in {"open", "lost", "sent", "cancelled", "discarded", "merged"} :
              spans'[t] = [ss[t] EXCEPT !.ended = TRUE, !.fate = fate,
                             !.outcome = IF @ = None THEN outcome ELSE @]
    BY <2>2, <2>3, <2>4
  <2> QED
    BY <1>2, <1>3, <1>5, <2>1, <2>2, <2>5, <2>6 DEF Ends
<1>6. CASE span.kind = "real"
  <2>1. PICK fate \in Fates(t, span, cancelled) :
          /\ spans' = [ss EXCEPT ![t] = [span EXCEPT !.fate = fate]]
          /\ stack' = IF Active = t THEN Front(stack) ELSE stack
          /\ tx' = AfterFate(fate, span)
    BY <1>6 DEF EndSpan
  <2>2. /\ fate \in {"lost", "sent", "cancelled", "discarded", "merged"}
        /\ span.parent = Tx \/ Real(span.parent) => fate # "lost"
        /\ ~Discardable(span) => fate \in {"lost", "sent", "cancelled"}
    BY <1>2, FatesFacts
  <2>3. /\ [span EXCEPT !.fate = fate] \in SpanType
        /\ [span EXCEPT !.fate = fate].fate = fate
        /\ Discardable([span EXCEPT !.fate = fate]) <=> Discardable(span)
    <3>1. /\ [span EXCEPT !.fate = fate].fate = fate
          /\ [span EXCEPT !.fate = fate].leaf = span.leaf
          /\ [span EXCEPT !.fate = fate].marked = span.marked
          /\ [span EXCEPT !.fate = fate].outcome = span.outcome
      BY <1>2 DEF SpanType
    <3>2. [span EXCEPT !.fate = fate] \in SpanType
      BY <1>2, <2>2 DEF SpanType
    <3> QED
      BY <3>1, <3>2 DEF Discardable
  <2>4. /\ spans' \in Seq(SpanType) /\ Len(spans') = Len(spans)
        /\ \A s \in Ids \ {t} : spans'[s] = ss[s]
        /\ spans'[t] = [span EXCEPT !.fate = fate]
    <3> DEFINE settled == [span EXCEPT !.fate = fate]
    <3>1. settled \in SpanType /\ spans' = [ss EXCEPT ![t] = settled]
      BY <2>1, <2>3
    <3> HIDE DEF settled
    <3>2. /\ spans' \in Seq(SpanType) /\ Len(spans') = Len(spans)
          /\ \A s \in Ids \ {t} : spans'[s] = ss[s]
          /\ spans'[t] = settled
      BY <1>4, <3>1
    <3> QED
      BY <3>2 DEF settled
  <2>5. [span EXCEPT !.fate = fate]
          = [ss[t] EXCEPT !.ended = TRUE, !.fate = fate,
                          !.outcome = IF @ = None THEN outcome ELSE @]
    BY <1>1 DEF SpanType
  <2>6. ss[t].kind = "real"
    BY <1>3, <1>6
  <2>7. \E f : tx' = AfterFate(f, [ss[t] EXCEPT !.ended = TRUE,
                                     !.outcome = IF @ = None THEN outcome ELSE @])
    BY <2>1
  <2> HIDE DEF span
  <2>8. \E f \in {"open", "lost", "sent", "cancelled", "discarded", "merged"} :
              spans'[t] = [ss[t] EXCEPT !.ended = TRUE, !.fate = f,
                             !.outcome = IF @ = None THEN outcome ELSE @]
    BY <2>2, <2>4, <2>5
  <2> QED
    BY <1>3, <2>1, <2>2, <2>3, <2>4, <2>6, <2>7, <2>8 DEF Ends
<1>7. span.kind \in {"real", "dropped"}
  BY <1>2 DEF SpanType
<1> QED
  BY <1>5, <1>6, <1>7

\* The innermost function returns or is left by an exception, and t is the span
\* that ends.
Settles(t) ==
  /\ spans' \in Seq(SpanType) /\ Len(spans') = Len(spans)
  /\ \A s \in Ids : Kin(spans[s], spans'[s]) /\ spans'[s].marked = spans[s].marked
  /\ \A s \in Ids \ {t} :
       spans'[s].ended = spans[s].ended /\ spans'[s].fate = spans[s].fate
  /\ \A s \in Ids \ {t, Innermost.span} : spans'[s].outcome = spans[s].outcome
  /\ spans'[t].ended
  /\ ~Real(t) =>
       /\ spans'[t].fate = spans[t].fate
       /\ stack' = Front(stack)
       /\ tx' = IF spans[t].resource = "own" THEN [tx EXCEPT !.stats = @ + 1] ELSE tx
  /\ Real(t) =>
       /\ stack' = IF Active = t THEN Front(stack) ELSE stack
       /\ spans[t].parent = Tx \/ Real(spans[t].parent) => spans'[t].fate # "lost"
       /\ ~Discardable(spans'[t]) => spans'[t].fate \in {"lost", "sent", "cancelled"}
       /\ tx'.counter \in {tx.counter, tx.counter - 1}
       /\ tx'.stats - tx.stats \in {0, tx'.dropped - tx.dropped}
       /\ tx'.dropped - tx.dropped \in {0, 1}
  /\ IsTx(tx')
  /\ tx'.state = tx.state /\ tx'.outcome = tx.outcome /\ tx'.sampled = tx.sampled
  /\ tx'.tp = tx.tp /\ tx'.rate = tx.rate

LEMMA InnermostFacts ==
  ASSUME Base, frames # <<>>
  PROVE  /\ Innermost = frames[Len(frames)] /\ Len(frames) \in Nat \ {0}
         /\ Innermost \in FrameType /\ Innermost.wrapper \in Libraries
         /\ Innermost.span \in Ids \cup {None}
         /\ Front(frames) \in Seq(FrameType)
         /\ DOMAIN Front(frames) = 1 .. Len(frames) - 1
         /\ \A i \in 1 .. Len(frames) - 1 : Front(frames)[i] = frames[i]
<1>1. /\ frames \in Seq(FrameType) /\ Len(frames) \in Nat \ {0}
      /\ DOMAIN frames = 1 .. Len(frames)
      /\ \A i \in 1 .. Len(frames) : frames[i] \in FrameType
  BY DEF Base, Types
<1>2. Innermost = frames[Len(frames)]
  BY DEF Innermost, Last
<1>3. Len(frames) \in 1 .. Len(frames)
  BY <1>1
<1>4. Innermost \in FrameType
  BY <1>1, <1>2, <1>3
<1>5. Innermost.wrapper \in Libraries
  BY <1>4 DEF FrameType
<1>6. Innermost.span \in Ids \cup {None}
  BY <1>1, <1>2, <1>3 DEF Base, Types
<1>7. Front(frames) = [i \in 1 .. Len(frames) - 1 |-> frames[i]]
  BY <1>1 DEF Front
<1>8. Front(frames) \in Seq(FrameType)
  BY <1>1, <1>7
<1> QED
  BY <1>1, <1>2, <1>4, <1>5, <1>6, <1>7, <1>8

LEMMA EndingFacts ==
  ASSUME Base, frames # <<>>, ~NothingToEnd(Innermost)
  PROVE  /\ Innermost.span \in Ids
         /\ stack # <<>>
         /\ Ending(Innermost) \in Ids
         /\ Innermost.wrapper.span # "otel" => Ending(Innermost) = Active
         /\ Innermost.wrapper.span = "otel" => Ending(Innermost) = Innermost.span
         /\ Innermost.wrapper.span = "otel" => Real(Innermost.span)
<1>1. Innermost.span # None /\ stack # <<>>
  BY DEF NothingToEnd
<1>2. Innermost.span \in Ids
  BY <1>1, InnermostFacts
<1>3. Active \in Ids
  BY <1>1, ActiveFacts
<1>4. Innermost.wrapper.span = "otel" => Real(Innermost.span)
  <2>1. Innermost = frames[Len(frames)] /\ Len(frames) \in DOMAIN frames
    BY InnermostFacts DEF Base, Types
  <2> QED
    BY <1>1, <2>1 DEF Base, Tree
<1> QED
  BY <1>1, <1>2, <1>3, <1>4 DEF Ending

LEMMA SettlesFacts ==
  ASSUME Base, NEW t \in Ids, NEW ss \in Seq(SpanType), Len(ss) = Len(spans),
         Innermost.span \in Ids,
         \A s \in Ids : /\ Kin(spans[s], ss[s]) /\ ss[s].marked = spans[s].marked
                        /\ ss[s].ended = spans[s].ended /\ ss[s].fate = spans[s].fate
                        /\ ss[s].resource = spans[s].resource,
         \A s \in Ids \ {Innermost.span} : ss[s].outcome = spans[s].outcome,
         NEW outcome \in {"success", "failure", "unknown", None},
         NEW cancelled \in BOOLEAN, EndSpan(t, ss, outcome, cancelled)
  PROVE  /\ Settles(t)
         /\ ss[t].outcome # None => spans'[t].outcome = ss[t].outcome
         /\ ss[t].outcome = None => spans'[t].outcome = outcome
<1>e. Ends(t, ss, outcome)
  BY EndSpanFacts
<1>1. /\ spans' \in Seq(SpanType) /\ Len(spans') = Len(spans)
      /\ \A s \in Ids \ {t} : spans'[s] = ss[s]
      /\ spans'[t] \in SpanType
  BY <1>e DEF Ends
<1>2. \E fate \in {"open", "lost", "sent", "cancelled", "discarded", "merged"} :
              spans'[t] = [ss[t] EXCEPT !.ended = TRUE, !.fate = fate,
                             !.outcome = IF @ = None THEN outcome ELSE @]
  BY <1>e DEF Ends
<1>3. /\ ss[t] \in SpanType /\ spans[t] \in SpanType
      /\ Kin(spans[t], ss[t]) /\ ss[t].marked = spans[t].marked
      /\ ss[t].fate = spans[t].fate /\ ss[t].resource = spans[t].resource
  BY DEF Base, Types, Ids
<1>4. /\ Kin(ss[t], spans'[t]) /\ spans'[t].marked = ss[t].marked /\ spans'[t].ended
      /\ ss[t].outcome # None => spans'[t].outcome = ss[t].outcome
      /\ ss[t].outcome = None => spans'[t].outcome = outcome
  BY <1>2, <1>3 DEF Kin, SpanType
<1>5. Kin(spans[t], spans'[t]) /\ spans'[t].marked = spans[t].marked
  BY <1>3, <1>4 DEF Kin
<1>6. /\ \A s \in Ids : Kin(spans[s], spans'[s]) /\ spans'[s].marked = spans[s].marked
      /\ \A s \in Ids \ {t} :
           spans'[s].ended = spans[s].ended /\ spans'[s].fate = spans[s].fate
      /\ \A s \in Ids \ {t, Innermost.span} : spans'[s].outcome = spans[s].outcome
  BY <1>1, <1>5
<1>7. IsTx(tx)
  BY DEF Base, Types
<1>8. CASE ~Real(t)
  <2>1. ss[t].kind = "dropped"
    BY <1>3, <1>8 DEF Real, Kin, SpanType
  <2>2. /\ spans'[t].fate = spans[t].fate
        /\ stack' = Front(stack)
        /\ tx' = IF spans[t].resource = "own" THEN [tx EXCEPT !.stats = @ + 1] ELSE tx
    BY <1>3, <1>e, <2>1 DEF Ends
  <2>3. /\ IsTx(tx') /\ tx'.state = tx.state /\ tx'.outcome = tx.outcome
        /\ tx'.sampled = tx.sampled /\ tx'.tp = tx.tp /\ tx'.rate = tx.rate
    BY <1>7, <2>2 DEF IsTx
  <2> QED
    BY <1>1, <1>4, <1>6, <1>8, <2>2, <2>3 DEF Settles
<1>9. CASE Real(t)
  <2>1. ss[t].kind = "real"
    BY <1>3, <1>9 DEF Real, Kin, SpanType
  <2>2. /\ stack' = IF Active = t THEN Front(stack) ELSE stack
        /\ ss[t].parent = Tx \/ Real(ss[t].parent) => spans'[t].fate # "lost"
        /\ ~Discardable(spans'[t]) => spans'[t].fate \in {"lost", "sent", "cancelled"}
    BY <1>e, <2>1 DEF Ends
  <2>3. spans[t].parent = Tx \/ Real(spans[t].parent) => spans'[t].fate # "lost"
    BY <1>3, <2>2 DEF Kin
  <2> DEFINE span == [ss[t] EXCEPT !.ended = TRUE,
                                   !.outcome = IF @ = None THEN outcome ELSE @]
  <2>4. span \in SpanType
    BY <1>3 DEF SpanType
  <2>5. PICK fate : tx' = AfterFate(fate, span)
    BY <1>e, <2>1 DEF Ends
  <2> HIDE DEF span
  <2>6. /\ IsTx(tx')
        /\ tx'.counter \in {tx.counter, tx.counter - 1}
        /\ tx'.stats - tx.stats \in {0, tx'.dropped - tx.dropped}
        /\ tx'.dropped - tx.dropped \in {0, 1}
        /\ tx'.state = tx.state /\ tx'.outcome = tx.outcome /\ tx'.sampled = tx.sampled
        /\ tx'.tp = tx.tp /\ tx'.rate = tx.rate
    BY <1>7, <2>4, <2>5, AfterFateFacts
  <2> QED
    BY <1>1, <1>4, <1>6, <1>9, <2>2, <2>3, <2>6 DEF Settles
<1> QED
  BY <1>4, <1>8, <1>9

LEMMA ReturnFacts ==
  ASSUME Base, Return
  PROVE  /\ Settles(Ending(Innermost)) /\ Ending(Innermost) \in Ids
         /\ frames # <<>> /\ frames' = Front(frames)
         /\ phase = "handler" /\ exc = None
<1>1. /\ phase = "handler" /\ exc = None /\ frames # <<>> /\ frames' = Front(frames)
      /\ ~NothingToEnd(Innermost)
  BY DEF Return, Pop
<1> DEFINE s == Innermost.span
           w == Innermost.wrapper
<1>2. PICK failed \in BOOLEAN, cancelled \in BOOLEAN :
        EndSpan(Ending(Innermost),
                [spans EXCEPT ![s].outcome =
                   IF w.status THEN IF failed THEN "failure" ELSE "success"
                               ELSE @],
                OutcomeOf(Innermost, "success"), cancelled)
  BY DEF Return
<1>3. s \in Ids /\ Ending(Innermost) \in Ids
  BY <1>1, EndingFacts
<1>4. PICK o : o = IF w.status THEN IF failed THEN "failure" ELSE "success"
                               ELSE spans[s].outcome
  OBVIOUS
<1>5. PICK ss : ss = [spans EXCEPT ![s] = [@ EXCEPT !.outcome = o]]
  OBVIOUS
<1>6. EndSpan(Ending(Innermost), ss, OutcomeOf(Innermost, "success"), cancelled)
  BY <1>2, <1>4, <1>5
<1>7. spans \in Seq(SpanType) /\ \A q \in Ids : spans[q] \in SpanType
  BY DEF Base, Types, Ids
<1>8. o \in {"success", "failure", "unknown", None}
  BY <1>3, <1>4, <1>7 DEF SpanType
<1>9. [spans[s] EXCEPT !.outcome = o] \in SpanType
  BY <1>3, <1>7, <1>8 DEF SpanType
<1>10. /\ ss \in Seq(SpanType) /\ Len(ss) = Len(spans)
       /\ ss[s] = [spans[s] EXCEPT !.outcome = o]
       /\ \A q \in Ids \ {s} : ss[q] = spans[q]
  <2>1. PICK v \in SpanType : v = [spans[s] EXCEPT !.outcome = o]
    BY <1>9
  <2>2. ss = [spans EXCEPT ![s] = v]
    BY <1>5, <2>1
  <2>3. /\ ss \in Seq(SpanType) /\ Len(ss) = Len(spans) /\ ss[s] = v
        /\ \A q \in Ids \ {s} : ss[q] = spans[q]
    BY <1>3, <1>7, <2>2 DEF Ids
  <2> QED
    BY <2>1, <2>3
<1>11. \A q \in Ids : /\ Kin(spans[q], ss[q]) /\ ss[q].marked = spans[q].marked
                      /\ ss[q].ended = spans[q].ended /\ ss[q].fate = spans[q].fate
                      /\ ss[q].resource = spans[q].resource
  <2>1. /\ ss[s].kind = spans[s].kind /\ ss[s].bridge = spans[s].bridge
        /\ ss[s].parent = spans[s].parent /\ ss[s].leaf = spans[s].leaf
        /\ ss[s].marked = spans[s].marked /\ ss[s].ended = spans[s].ended
        /\ ss[s].fate = spans[s].fate /\ ss[s].resource = spans[s].resource
    BY <1>3, <1>7, <1>10 DEF SpanType
  <2>2. \A q \in Ids \ {s} : ss[q] = spans[q]
    BY <1>10
  <2> QED
    BY <2>1, <2>2 DEF Kin
<1>12. \A q \in Ids \ {s} : ss[q].outcome = spans[q].outcome
  BY <1>10
<1>13. OutcomeOf(Innermost, "success") \in {"success", "failure", "unknown", None}
  BY DEF OutcomeOf
<1>14. Settles(Ending(Innermost))
  BY <1>3, <1>6, <1>10, <1>11, <1>12, <1>13, SettlesFacts
<1> QED
  BY <1>1, <1>3, <1>14

\* The exception names the span that ended as failed by it.
LEMMA UnwindFacts ==
  ASSUME Base, Unwind, NEW t, t = Ending(Innermost)
  PROVE  /\ Settles(t) /\ t \in Ids
         /\ frames # <<>> /\ frames' = Front(frames)
         /\ phase = "handler" /\ exc \in ExcType /\ exc' \in ExcType
         /\ exc'.tag # exc.tag =>
              \/ exc'.tag = None
              \/ /\ exc'.tag = t /\ Real(t)
                 /\ spans[t].outcome = None => spans'[t].outcome = "failure"
         /\ errors' \in {errors, errors \cup {Error(exc)}}
<1>1. /\ phase = "handler" /\ exc # None /\ frames # <<>> /\ frames' = Front(frames)
      /\ ~NothingToEnd(Innermost)
  BY DEF Unwind, Pop
<1>2. PICK cancelled \in BOOLEAN :
        EndSpan(t, spans, OutcomeOf(Innermost, "failure"), cancelled)
  BY DEF Unwind
<1>3. Innermost.span \in Ids /\ t \in Ids
  BY <1>1, EndingFacts
<1>4. OutcomeOf(Innermost, "failure") \in {"success", "failure", "unknown", None}
  BY DEF OutcomeOf
<1>5. spans \in Seq(SpanType)
  BY DEF Base, Types
<1>6. \A q \in Ids : Kin(spans[q], spans[q])
  BY DEF Kin
<1>7. /\ Settles(t)
      /\ spans[t].outcome = None =>
           spans'[t].outcome = OutcomeOf(Innermost, "failure")
  BY <1>2, <1>3, <1>4, <1>5, <1>6, SettlesFacts
<1>8. exc \in ExcType
  BY <1>1 DEF Base, Types
<1>9. CASE Innermost.wrapper.span = "otel" /\ exc.class = "Exception"
  <2>1. /\ errors' \in {errors, errors \cup {Error(exc)}}
        /\ exc' = [exc EXCEPT !.tag = None]
    BY <1>9 DEF Unwind, CaptureException, Untagged
  <2>2. exc' \in ExcType /\ exc'.tag = None
    BY <1>8, <2>1 DEF ExcType
  <2> QED
    BY <1>1, <1>3, <1>7, <1>8, <2>1, <2>2
<1>10. CASE ~(Innermost.wrapper.span = "otel" /\ exc.class = "Exception")
  <2>1. /\ exc' = IF Real(Active) /\ Innermost.wrapper.span \notin {"bridge", "otel"}
                    THEN [exc EXCEPT !.tag = Active] ELSE exc
        /\ errors' = errors
    BY <1>10 DEF Unwind
  <2>2. CASE Real(Active) /\ Innermost.wrapper.span \notin {"bridge", "otel"}
    <3>1. t = Active
      BY <2>2 DEF Ending
    <3>2. exc' = [exc EXCEPT !.tag = t]
      BY <2>1, <2>2, <3>1
    <3>3. t \in Nat
      BY <1>3 DEF Ids
    <3>4. exc' \in ExcType /\ exc'.tag = t
      BY <1>8, <3>2, <3>3 DEF ExcType
    <3>5. OutcomeOf(Innermost, "failure") = "failure"
      BY <2>2 DEF OutcomeOf
    <3> QED
      BY <1>1, <1>3, <1>7, <1>8, <2>1, <2>2, <3>1, <3>4, <3>5
  <2>3. CASE ~(Real(Active) /\ Innermost.wrapper.span \notin {"bridge", "otel"})
    BY <1>1, <1>3, <1>7, <1>8, <2>1, <2>3
  <2> QED
    BY <2>2, <2>3
<1> QED
  BY <1>9, <1>10

\* The function of w is called, and its span is n.  ss are the spans before one of
\* them is marked.
Called(w, n, ss) ==
  /\ ss \in Seq(SpanType) /\ Len(ss) = n /\ ss[n] = NewSpan(w)
  /\ \A s \in Ids : ss[s] = spans[s]
  /\ spans' \in Seq(SpanType) /\ Len(spans') = n /\ n \in Nat
  /\ \A s \in 1 .. n :
       /\ Kin(ss[s], spans'[s]) /\ spans'[s].ended = ss[s].ended
       /\ spans'[s].outcome = ss[s].outcome /\ spans'[s].fate = ss[s].fate
       /\ ss[s].marked => spans'[s].marked
       /\ spans'[s].marked # ss[s].marked => w.marks /\ s = Told(w, ss, n)
  /\ w.marks /\ Told(w, ss, n) \in 1 .. n => spans'[Told(w, ss, n)].marked
  /\ stack' = Append(stack, n)
  /\ frames' = Append(frames, Frame(w, n))
  /\ tx' = Counted(NewSpan(w))
  /\ sent' \in Inform(w, ss, n)
  /\ w.span = "otel" => NewSpan(w).kind = "real"

LEMMA CallFacts ==
  ASSUME Base, NEW w \in Libraries, CallTraced(w),
         NEW n, n = Len(spans) + 1, NEW ss, ss = Append(spans, NewSpan(w))
  PROVE  Called(w, n, ss)
<1>1. spans \in Seq(SpanType) /\ Len(spans) \in Nat
  BY DEF Base, Types
<1>2. PICK v \in SpanType : v = NewSpan(w)
  BY NewSpanFacts
<1>3. ss = Append(spans, v)
  BY <1>2
<1>4. /\ ss \in Seq(SpanType) /\ Len(ss) = n /\ ss[n] = v /\ n \in Nat
      /\ \A s \in Ids : ss[s] = spans[s]
  BY <1>1, <1>3 DEF Ids
<1>5. /\ spans' = Mark(w, ss, n)
      /\ stack' = Append(stack, n)
      /\ frames' = Append(frames, Frame(w, n))
      /\ tx' = Counted(ss[n])
      /\ sent' \in Inform(w, ss, n)
      /\ w.span = "otel" => NewSpan(w).kind = "real"
  BY <1>4 DEF CallTraced
<1>6. PICK id : id = Told(w, ss, n)
  OBVIOUS
<1>7. CASE w.marks /\ id \in 1 .. n
  <2>1. spans' = [ss EXCEPT ![id] = [@ EXCEPT !.marked = TRUE]]
    BY <1>4, <1>5, <1>6, <1>7 DEF Mark
  <2>2. ss[id] \in SpanType
    BY <1>4, <1>7
  <2>3. PICK u \in SpanType : u = [ss[id] EXCEPT !.marked = TRUE]
    BY <2>2 DEF SpanType
  <2>4. spans' = [ss EXCEPT ![id] = u]
    BY <2>1, <2>3
  <2>5. /\ spans' \in Seq(SpanType) /\ Len(spans') = n /\ spans'[id] = u
        /\ \A s \in (1 .. n) \ {id} : spans'[s] = ss[s]
    <3>1. DOMAIN ss = 1 .. n /\ ss \in Seq(SpanType) /\ Len(ss) = n /\ n \in Nat
      BY <1>4
    <3>2. spans' \in Seq(SpanType) /\ Len(spans') = n
      BY <1>7, <2>4, <3>1
    <3> QED
      BY <1>7, <2>4, <3>1, <3>2
  <2>6. /\ Kin(ss[id], u) /\ u.ended = ss[id].ended /\ u.outcome = ss[id].outcome
        /\ u.fate = ss[id].fate /\ u.marked
    BY <2>2, <2>3 DEF Kin, SpanType
  <2>7. \A s \in 1 .. n : Kin(ss[s], ss[s])
    BY DEF Kin
  <2> QED
    BY <1>2, <1>4, <1>5, <1>6, <1>7, <2>5, <2>6, <2>7 DEF Called
<1>8. CASE ~(w.marks /\ id \in 1 .. n)
  <2>1. spans' = ss
    BY <1>4, <1>5, <1>6, <1>8 DEF Mark
  <2>2. \A s \in 1 .. n : Kin(ss[s], ss[s])
    BY DEF Kin
  <2> QED
    BY <1>2, <1>4, <1>5, <1>6, <1>8, <2>1, <2>2 DEF Called
<1> QED
  BY <1>7, <1>8

-----------------------------------------------------------------------------
(***************************************************************************)
(* Base is an invariant.                                                   *)
(***************************************************************************)
LEMMA StillBase ==
  ASSUME Base, UNCHANGED <<service, spans, stack, frames>>, IsTx(tx'),
         phase' # "idle", exc' # None => exc' \in ExcType, Phases'
  PROVE  Base'
<1>1. Types'
  BY DEF Base, Types, Ids
<1>2. Blank'
  BY DEF Blank
<1>3. Tree'
  BY DEF Base, Tree, Ids, Real
<1> QED
  BY <1>1, <1>2, <1>3 DEF Base

LEMMA TailFacts ==
  ASSUME NEW steps \in Seq(StepType), steps # <<>>
  PROVE  /\ Tail(steps) \in Seq(StepType)
         /\ CapturesIn(Tail(steps)) => CapturesIn(steps)
         /\ Head(steps) \in StepType
         /\ Head(steps).do \in {"capture", "sampled capture"} => CapturesIn(steps)
         /\ Len(Tail(steps)) = Len(steps) - 1
         /\ \A k \in 1 .. Len(steps) - 1 : Tail(steps)[k] = steps[k + 1]
         /\ Head(steps) = steps[1]
<1>1. /\ Tail(steps) \in Seq(StepType) /\ Len(Tail(steps)) = Len(steps) - 1
      /\ \A k \in 1 .. Len(steps) - 1 : Tail(steps)[k] = steps[k + 1]
      /\ Head(steps) = steps[1] /\ Head(steps) \in StepType
      /\ 1 \in DOMAIN steps
  OBVIOUS
<1>2. DOMAIN Tail(steps) = 1 .. Len(steps) - 1
  BY <1>1
<1>3. \A k \in 1 .. Len(steps) - 1 : k + 1 \in DOMAIN steps
  OBVIOUS
<1> QED
  BY <1>1, <1>2, <1>3 DEF CapturesIn

LEMMA UntaggedFacts ==
  ASSUME exc \in ExcType
  PROVE  /\ Untagged(exc) \in ExcType /\ Untagged(exc).tag = None
         /\ Untagged(exc).class = exc.class /\ Untagged(exc) # None
<1>1. Untagged(exc) \in ExcType /\ Untagged(exc).tag = None
      /\ Untagged(exc).class = exc.class
  BY DEF Untagged, ExcType
<1> QED
  BY <1>1, ExceptionAssumption DEF ExcType

\* The steps that leave the spans alone.
LEMMA BeginBase ==
  ASSUME Base, NEW c, NEW up,
         Begin(c, up) \/ BeginRaises(c, up) \/ BeginUntraced(c)
  PROVE  Base'
<1>1. /\ UNCHANGED <<service, spans, stack, frames, exc>>
      /\ phase = "idle" /\ phase' \in {"handler", "failed"}
  BY DEF Begin, BeginRaises, BeginUntraced
<1>2. IsTx(tx')
  <2>1. CASE Begin(c, up)
    <3>1. BeginTransaction(c, up)
      BY <2>1 DEF Begin
    <3>2. PICK sampled :
            tx' = [NoTransaction EXCEPT
              !.state = "open", !.sampled = sampled,
              !.rate = SampleRate(Continued(conf.strategy, Extract(c, up)),
                                  conf.rate, sampled),
              !.tp = TransactionParent(Continued(conf.strategy, Extract(c, up)),
                                       "own", Tx, conf.rate, sampled),
              !.links = Links(conf.strategy, Extract(c, up))
                          \cup IF c = "links" /\ up.traceparent # None
                                 THEN {FromString(up.traceparent, None)} \ {None}
                                 ELSE {}]
      BY <3>1, Zenon DEF BeginTransaction
    <3>3. PICK rate, tp, links :
            tx' = [state |-> "open", tp |-> tp, sampled |-> sampled, rate |-> rate,
                   outcome |-> None, links |-> links, counter |-> 0, dropped |-> 0,
                   stats |-> 0]
      BY <3>2 DEF NoTransaction
    <3> QED
      BY <3>3 DEF IsTx
  <2>2. CASE ~Begin(c, up)
    BY <2>2 DEF Base, Types, BeginRaises, BeginUntraced
  <2> QED
    BY <2>1, <2>2
<1>3. Phases'
  BY <1>1 DEF Base, Blank, Phases
<1>4. exc' # None => exc' \in ExcType
  BY <1>1 DEF Base, Types
<1> QED
  BY <1>1, <1>2, <1>3, <1>4, StillBase

LEMMA RaiseBase ==
  ASSUME Base, Raise \/ Catch \/ CatchAndCapture
  PROVE  Base'
<1>1. /\ UNCHANGED <<service, spans, stack, frames, tx, phase>>
      /\ phase = "handler"
  BY DEF Raise, Catch, CatchAndCapture
<1>2. exc' # None => exc' \in ExcType
  <2>1. CASE Raise
    <3>1. PICK class \in conf.raises : exc' = [tag |-> None, class |-> class]
      BY <2>1 DEF Raise
    <3>2. class \in {"Exception", "BaseException"}
      BY <3>1, ConfType DEF Base, Types
    <3> QED
      BY <3>1, <3>2 DEF ExcType
  <2>2. CASE Catch
    BY <2>2 DEF Catch
  <2>3. CASE CatchAndCapture
    <3>1. exc \in ExcType /\ exc' = Untagged(exc)
      BY <2>3 DEF CatchAndCapture, CaptureException, Base, Types
    <3> QED
      BY <3>1, UntaggedFacts
  <2> QED
    BY <2>1, <2>2, <2>3
<1>3. IsTx(tx') /\ Phases' /\ phase' # "idle"
  BY <1>1 DEF Base, Types, Phases
<1> QED
  BY <1>1, <1>2, <1>3, StillBase

LEMMA OTelRaisesBase ==
  ASSUME Base, NEW w \in Callable, OTelRaises(w)
  PROVE  Base'
<1>1. w \in Libraries /\ phase = "handler"
  BY ConfType DEF Base, Types, Callable
<1>2. /\ UNCHANGED <<service, spans, stack, frames, phase>>
      /\ exc' = [tag |-> None, class |-> "Exception"]
      /\ tx' = Counted(NewSpan(w))
  BY DEF OTelRaises
<1>3. exc' \in ExcType
  BY <1>2 DEF ExcType
<1>4. IsTx(tx')
  <2>1. IsTx(tx) /\ NewSpan(w) \in SpanType
    BY <1>1, NewSpanFacts DEF Base, Types
  <2> QED
    BY <1>2, <2>1, CountedFacts
<1>5. Phases' /\ phase' # "idle"
  BY <1>1, <1>2 DEF Phases
<1> QED
  BY <1>2, <1>3, <1>4, <1>5, StillBase

LEMMA FinishBase ==
  ASSUME Base, NEW i \in conf.frameworks, NEW e \in Endings, Finish(i, e)
  PROVE  Base'
<1>1. /\ UNCHANGED <<service, spans, stack, frames, tx, exc>>
      /\ phase' = "steps" /\ frames = <<>>
      /\ todo' = IF request.traced THEN i.traced[e] ELSE i.untraced[e]
      /\ e \in EndingsOf(exc)
  BY DEF Finish
<1>2. Tame(i)
  BY ConfType, IntegrationTables DEF Base, Types
<1>3. Plain(todo', e)
  BY <1>1, <1>2 DEF Tame
<1>4. exc = None => e \in {"ok", "failed"}
  BY <1>1 DEF EndingsOf
<1>5. Phases'
  BY <1>1, <1>3, <1>4 DEF Phases, Plain
<1>6. IsTx(tx') /\ (exc' # None => exc' \in ExcType) /\ phase' # "idle"
  BY <1>1 DEF Base, Types
<1> QED
  BY <1>1, <1>5, <1>6, StillBase

LEMMA StepBase ==
  ASSUME Base, Skip \/ SetOutcome \/ CaptureStep \/ EndTransaction \/ Done
  PROVE  Base'
<1>1. /\ UNCHANGED <<service, spans, stack, frames>>
      /\ phase = "steps" /\ phase' \in {"steps", "failed", "done"}
      /\ frames = <<>>
  BY DEF Skip, SetOutcome, CaptureStep, EndTransaction, Done, Steps, Base, Phases
<1>2. todo \in Seq(StepType) /\ (exc = None => ~CapturesIn(todo))
  BY <1>1 DEF Base, Phases
<1>3. CASE CaptureStep
  <2>1. /\ todo # <<>> /\ todo' = Tail(todo) /\ exc' = Untagged(exc) /\ tx' = tx
        /\ Head(todo).do \in {"capture", "sampled capture"}
    BY <1>3 DEF CaptureStep, Steps, Taken, CaptureException
  <2>2. CapturesIn(todo) /\ todo' \in Seq(StepType)
    BY <1>2, <2>1, TailFacts
  <2>3. exc' \in ExcType /\ exc' # None
    BY <1>2, <2>1, <2>2, UntaggedFacts DEF Base, Types
  <2>4. IsTx(tx') /\ Phases' /\ phase' # "idle"
    BY <1>1, <2>1, <2>2, <2>3 DEF Base, Types, Phases
  <2> QED
    BY <1>1, <2>3, <2>4, StillBase
<1>4. CASE ~CaptureStep
  <2>1. /\ exc' = exc
        /\ phase' = "steps" => todo # <<>> /\ todo' = Tail(todo)
    BY <1>4 DEF Skip, SetOutcome, EndTransaction, Done, Steps, Taken
  <2>2. IsTx(tx')
    <3>1. IsTx(tx)
      BY DEF Base, Types
    <3>2. \/ tx' = tx
          \/ \E o : tx' = [tx EXCEPT !.outcome = o]
          \/ tx' = [tx EXCEPT !.state = "ended"]
      BY <1>4 DEF Skip, SetOutcome, EndTransaction, Done
    <3> QED
      BY <3>1, <3>2 DEF IsTx
  <2>3. Phases'
    BY <1>1, <1>2, <2>1, TailFacts DEF Phases
  <2>4. (exc' # None => exc' \in ExcType) /\ phase' # "idle"
    BY <1>1, <2>1 DEF Base, Types
  <2> QED
    BY <1>1, <2>2, <2>3, <2>4, StillBase
<1> QED
  BY <1>3, <1>4

\* The tree stays if no span becomes another and the stack only shrinks.
LEMMA TreeKept ==
  ASSUME Base, spans' \in Seq(SpanType), Len(spans') = Len(spans),
         \A s \in Ids : Kin(spans[s], spans'[s]),
         stack' = stack \/ (stack # <<>> /\ stack' = Front(stack)),
         \A i \in DOMAIN frames' :
           frames'[i].span # None /\ frames'[i].wrapper.span = "otel" =>
             frames'[i].span \in Ids /\ Real(frames'[i].span)
  PROVE  stack' \in Seq(Ids') /\ Tree' /\ Ids' = Ids
<1>1. Ids' = Ids
  BY DEF Ids
<1>2. /\ stack' \in Seq(Ids)
      /\ \A i, j \in DOMAIN stack' : i < j => stack'[i] < stack'[j]
  <2>1. CASE stack' = stack
    BY <2>1 DEF Base, Types, Tree
  <2>2. CASE stack # <<>> /\ stack' = Front(stack)
    <3>1. /\ stack' \in Seq(Ids) /\ DOMAIN stack' = 1 .. Len(stack) - 1
          /\ \A i \in 1 .. Len(stack) - 1 : stack'[i] = stack[i]
      BY <2>2, ActiveFacts
    <3>2. \A i \in 1 .. Len(stack) - 1 : i \in DOMAIN stack
      BY <2>2 DEF Base, Types
    <3> QED
      BY <3>1, <3>2 DEF Base, Tree
  <2> QED
    BY <2>1, <2>2
<1>3. \A s \in Ids : /\ spans'[s].parent = spans[s].parent
                     /\ spans'[s].leaf = spans[s].leaf
                     /\ spans'[s].kind = spans[s].kind
  BY DEF Kin
<1>4. \A s \in Ids : spans[s].parent # Tx => spans[s].parent \in Ids
  <2>1. \A s \in Ids : spans[s].parent \in Nat /\ spans[s].parent < s
    <3>1. \A s \in Ids : spans[s] \in SpanType
      BY DEF Base, Types, Ids
    <3> QED
      BY <3>1 DEF Base, Tree, SpanType
  <2>2. Len(spans) \in Nat
    BY DEF Base, Types
  <2> QED
    BY <2>1, <2>2 DEF Ids, Tx
<1>5. \A s \in Ids : spans'[s].parent < s
  BY <1>3 DEF Base, Tree
<1>6. \A s \in Ids : spans'[s].parent # Tx /\ spans'[spans'[s].parent].leaf =>
                     spans'[s].leaf /\ spans'[s].kind # "real"
  BY <1>3, <1>4 DEF Base, Tree, Real
<1>7. \A i \in DOMAIN frames' :
        frames'[i].wrapper.span = "otel" /\ frames'[i].span # None =>
          spans'[frames'[i].span].kind = "real"
  BY <1>3 DEF Real
<1> QED
  BY <1>1, <1>2, <1>5, <1>6, <1>7 DEF Tree, Real

LEMMA PopFacts ==
  ASSUME Base, frames # <<>>, frames' = Front(frames)
  PROVE  /\ frames' \in Seq(FrameType)
         /\ \A i \in DOMAIN frames' : frames'[i].span \in Ids \cup {None}
         /\ \A i \in DOMAIN frames' :
              frames'[i].span # None /\ frames'[i].wrapper.span = "otel" =>
                frames'[i].span \in Ids /\ Real(frames'[i].span)
         /\ \A i \in DOMAIN frames' : i \in DOMAIN frames /\ frames'[i] = frames[i]
<1>1. /\ frames' \in Seq(FrameType) /\ DOMAIN frames' = 1 .. Len(frames) - 1
      /\ \A i \in 1 .. Len(frames) - 1 : frames'[i] = frames[i]
  BY InnermostFacts
<1>2. \A i \in 1 .. Len(frames) - 1 : i \in DOMAIN frames
  BY DEF Base, Types
<1>3. \A i \in DOMAIN frames : frames[i].span \in Ids \cup {None}
  BY DEF Base, Types
<1>4. \A i \in DOMAIN frames :
        frames[i].wrapper.span = "otel" /\ frames[i].span # None => Real(frames[i].span)
  BY DEF Base, Tree
<1> QED
  BY <1>1, <1>2, <1>3, <1>4

LEMMA EndBase ==
  ASSUME Base, Return \/ Unwind
  PROVE  Base'
<1>1. PICK t : t = Ending(Innermost)
  OBVIOUS
<1>2. /\ Settles(t) /\ t \in Ids /\ frames # <<>> /\ frames' = Front(frames)
      /\ phase = "handler" /\ (exc' # None => exc' \in ExcType)
      /\ stack # <<>>
  <2>1. CASE Return
    <3>1. /\ Settles(t) /\ t \in Ids /\ frames # <<>> /\ frames' = Front(frames)
          /\ phase = "handler"
      BY <1>1, <2>1, ReturnFacts
    <3>2. exc' = exc /\ ~NothingToEnd(Innermost)
      BY <2>1 DEF Return
    <3>3. exc' # None => exc' \in ExcType
      BY <3>2 DEF Base, Types
    <3> QED
      BY <3>1, <3>2, <3>3, EndingFacts
  <2>2. CASE Unwind
    <3>1. /\ Settles(t) /\ t \in Ids /\ frames # <<>> /\ frames' = Front(frames)
          /\ phase = "handler" /\ exc' \in ExcType
      BY <1>1, <2>2, UnwindFacts
    <3>2. ~NothingToEnd(Innermost)
      BY <2>2 DEF Unwind
    <3> QED
      BY <3>1, <3>2, EndingFacts
  <2> QED
    BY <2>1, <2>2
<1>3. UNCHANGED <<service, phase>>
  BY DEF Return, Unwind
<1>4. /\ spans' \in Seq(SpanType) /\ Len(spans') = Len(spans)
      /\ \A s \in Ids : Kin(spans[s], spans'[s])
      /\ stack' = stack \/ (stack # <<>> /\ stack' = Front(stack))
      /\ IsTx(tx')
  BY <1>2 DEF Settles
<1>5. /\ frames' \in Seq(FrameType)
      /\ \A i \in DOMAIN frames' : frames'[i].span \in Ids \cup {None}
      /\ \A i \in DOMAIN frames' :
           frames'[i].span # None /\ frames'[i].wrapper.span = "otel" =>
             frames'[i].span \in Ids /\ Real(frames'[i].span)
  BY <1>2, PopFacts
<1>6. stack' \in Seq(Ids') /\ Tree' /\ Ids' = Ids
  BY <1>4, <1>5, TreeKept
<1>7. Types'
  BY <1>2, <1>3, <1>4, <1>5, <1>6 DEF Base, Types
<1>8. Blank' /\ Phases'
  BY <1>2, <1>3 DEF Blank, Phases
<1> QED
  BY <1>6, <1>7, <1>8 DEF Base

LEMMA PopBase ==
  ASSUME Base, ReturnUntraced \/ UnwindUntraced
  PROVE  Base'
<1>1. /\ frames # <<>> /\ frames' = Front(frames) /\ phase = "handler"
      /\ UNCHANGED <<service, phase, tx, spans, stack, exc>>
  BY DEF ReturnUntraced, UnwindUntraced, Pop
<1>2. /\ frames' \in Seq(FrameType)
      /\ \A i \in DOMAIN frames' : frames'[i].span \in Ids \cup {None}
      /\ \A i \in DOMAIN frames' :
           frames'[i].span # None /\ frames'[i].wrapper.span = "otel" =>
             frames'[i].span \in Ids /\ Real(frames'[i].span)
  BY <1>1, PopFacts
<1>3. \A s \in Ids : Kin(spans[s], spans'[s])
  BY <1>1 DEF Kin
<1>4. spans' \in Seq(SpanType) /\ Len(spans') = Len(spans) /\ stack' = stack
  BY <1>1 DEF Base, Types
<1>5. stack' \in Seq(Ids') /\ Tree' /\ Ids' = Ids
  BY <1>2, <1>3, <1>4, TreeKept
<1>6. Types' /\ Blank' /\ Phases'
  BY <1>1, <1>2, <1>4, <1>5 DEF Base, Types, Blank, Phases
<1> QED
  BY <1>5, <1>6 DEF Base

\* A function that is called and has no span.
LEMMA PlainCallFacts ==
  ASSUME Base, NEW w \in Callable, CallUntraced(w) \/ CallThrough(w)
  PROVE  /\ w \in Libraries /\ phase = "handler" /\ exc = None
         /\ UNCHANGED <<service, phase, request, todo, tx, stack, exc, errors, queued>>
         /\ frames' = Append(frames, Frame(w, None))
         /\ spans' \in Seq(SpanType) /\ Len(spans') = Len(spans)
         /\ \A s \in Ids : /\ Kin(spans[s], spans'[s])
                           /\ spans'[s].marked = spans[s].marked
                           /\ spans'[s].outcome = spans[s].outcome
                           /\ spans'[s].ended = spans[s].ended
                           /\ spans'[s].fate = spans[s].fate
<1>1. /\ w \in Libraries /\ phase = "handler" /\ exc = None
      /\ UNCHANGED <<service, phase, request, todo, tx, stack, exc, errors, queued>>
      /\ frames' = Append(frames, Frame(w, None))
  BY ConfType DEF Base, Types, Callable, CallUntraced, CallThrough
<1>2. /\ spans \in Seq(SpanType)
      /\ \A s \in Ids : spans[s] \in SpanType /\ Kin(spans[s], spans[s])
  BY DEF Base, Types, Ids, Kin
<1>3. CASE spans' = spans
  BY <1>1, <1>2, <1>3
<1>4. CASE spans' # spans
  <2>1. /\ Active # None /\ Real(Active)
        /\ spans' = [spans EXCEPT ![Active].resource = "own"]
    BY <1>4 DEF CallUntraced, CallThrough
  <2>2. PICK a \in Ids : a = Active
    BY <2>1, ActiveFacts
  <2>3. PICK v : v = [spans[a] EXCEPT !.resource = "own"]
    OBVIOUS
  <2>4. spans' = [spans EXCEPT ![a] = v]
    BY <2>1, <2>2, <2>3
  <2>5. /\ v \in SpanType /\ v.marked = spans[a].marked /\ v.outcome = spans[a].outcome
        /\ v.ended = spans[a].ended /\ v.fate = spans[a].fate /\ v.kind = spans[a].kind
        /\ v.bridge = spans[a].bridge /\ v.parent = spans[a].parent
        /\ v.leaf = spans[a].leaf
    BY <1>2, <2>3 DEF SpanType
  <2>6. Kin(spans[a], v)
    BY <2>1, <2>2, <2>5 DEF Kin, Real
  <2>7. /\ spans' \in Seq(SpanType) /\ Len(spans') = Len(spans) /\ spans'[a] = v
        /\ \A s \in Ids \ {a} : spans'[s] = spans[s]
    BY <1>2, <2>4, <2>5 DEF Ids
  <2> QED
    BY <1>1, <1>2, <2>5, <2>6, <2>7
<1> QED
  BY <1>3, <1>4

LEMMA PushFacts ==
  ASSUME Base, NEW w \in Libraries, NEW s \in Nat \cup {None},
         frames' = Append(frames, Frame(w, s))
  PROVE  /\ frames' \in Seq(FrameType)
         /\ Len(frames') = Len(frames) + 1 /\ Len(frames) \in Nat
         /\ \A i \in 1 .. Len(frames) : frames'[i] = frames[i]
         /\ frames'[Len(frames) + 1] = Frame(w, s)
         /\ Frame(w, s).wrapper = w /\ Frame(w, s).span = s
         /\ \A i \in DOMAIN frames' : i \in DOMAIN frames \/ i = Len(frames) + 1
<1>1. PICK f \in FrameType : f = Frame(w, s)
  BY DEF Frame, FrameType
<1>2. frames \in Seq(FrameType)
  BY DEF Base, Types
<1>3. /\ frames' \in Seq(FrameType)
      /\ Len(frames') = Len(frames) + 1 /\ Len(frames) \in Nat
      /\ \A i \in 1 .. Len(frames) : frames'[i] = frames[i]
      /\ frames'[Len(frames) + 1] = f
  BY <1>1, <1>2
<1>4. \A i \in DOMAIN frames' : i \in DOMAIN frames \/ i = Len(frames) + 1
  BY <1>2, <1>3
<1> QED
  BY <1>1, <1>3, <1>4 DEF Frame

LEMMA PlainCallBase ==
  ASSUME Base, NEW w \in Callable, CallUntraced(w) \/ CallThrough(w)
  PROVE  Base'
<1>1. /\ w \in Libraries /\ phase = "handler" /\ exc = None
      /\ UNCHANGED <<service, phase, tx, stack, exc>>
      /\ frames' = Append(frames, Frame(w, None))
      /\ spans' \in Seq(SpanType) /\ Len(spans') = Len(spans)
      /\ \A s \in Ids : Kin(spans[s], spans'[s])
  BY PlainCallFacts
<1>2. /\ frames' \in Seq(FrameType)
      /\ \A i \in 1 .. Len(frames) : frames'[i] = frames[i]
      /\ frames'[Len(frames) + 1].span = None
      /\ \A i \in DOMAIN frames' : i \in DOMAIN frames \/ i = Len(frames) + 1
      /\ DOMAIN frames = 1 .. Len(frames)
  <2>1. None \in Nat \cup {None} /\ DOMAIN frames = 1 .. Len(frames)
    BY DEF Base, Types
  <2>2. frames' \in Seq(FrameType) /\ \A i \in 1 .. Len(frames) : frames'[i] = frames[i]
    BY <1>1, <2>1, PushFacts
  <2>3. frames'[Len(frames) + 1].span = None
    <3>1. frames'[Len(frames) + 1] = Frame(w, None)
      BY <1>1, <2>1, PushFacts
    <3> QED
      BY <3>1 DEF Frame
  <2>4. \A i \in DOMAIN frames' : i \in DOMAIN frames \/ i = Len(frames) + 1
    BY <1>1, <2>1, PushFacts
  <2> QED
    BY <2>1, <2>2, <2>3, <2>4
<1>3. \A i \in DOMAIN frames' : frames'[i].span \in Ids \cup {None}
  BY <1>2 DEF Base, Types
<1>4. \A i \in DOMAIN frames' :
        frames'[i].span # None /\ frames'[i].wrapper.span = "otel" =>
          frames'[i].span \in Ids /\ Real(frames'[i].span)
  BY <1>2, <1>3 DEF Base, Tree
<1>5. stack' \in Seq(Ids') /\ Tree' /\ Ids' = Ids
  BY <1>1, <1>4, TreeKept
<1>6. Types' /\ Blank' /\ Phases'
  BY <1>1, <1>2, <1>3, <1>5 DEF Base, Types, Blank, Phases
<1> QED
  BY <1>5, <1>6 DEF Base

LEMMA CallBase ==
  ASSUME Base, NEW w \in Callable, CallTraced(w)
  PROVE  Base'
<1>1. w \in Libraries /\ phase = "handler" /\ exc = None
  BY ConfType DEF Base, Types, Callable
<1>2. PICK n : n = Len(spans) + 1
  OBVIOUS
<1>3. PICK new : new = NewSpan(w)
  OBVIOUS
<1>4. /\ spans' \in Seq(SpanType) /\ Len(spans') = n /\ n \in Nat
      /\ \A s \in Ids : Kin(spans[s], spans'[s])
      /\ Kin(new, spans'[n])
      /\ stack' = Append(stack, n)
      /\ frames' = Append(frames, Frame(w, n))
      /\ tx' = Counted(new)
      /\ w.span = "otel" => new.kind = "real"
  <2>1. PICK ss : ss = Append(spans, NewSpan(w))
    OBVIOUS
  <2>c. Called(w, n, ss)
    BY <1>1, <1>2, <2>1, CallFacts
  <2>2. n \in 1 .. n /\ \A s \in Ids : s \in 1 .. n
    BY <1>2 DEF Base, Types, Ids
  <2>3. \A s \in 1 .. n : Kin(ss[s], spans'[s])
    BY <2>c DEF Called
  <2>4. /\ spans' \in Seq(SpanType) /\ Len(spans') = n /\ n \in Nat
        /\ ss[n] = new /\ \A s \in Ids : ss[s] = spans[s]
        /\ stack' = Append(stack, n)
        /\ frames' = Append(frames, Frame(w, n))
        /\ tx' = Counted(new)
        /\ w.span = "otel" => new.kind = "real"
    BY <1>3, <2>c DEF Called
  <2> QED
    BY <2>2, <2>3, <2>4
<1>5. UNCHANGED <<service, phase, exc>>
  BY DEF CallTraced
<1>6. /\ new \in SpanType /\ new.parent = IF Active = None THEN Tx ELSE Active
      /\ new.parent < n /\ new.parent \in Nat
      /\ InLeaf => new.leaf /\ new.kind # "real"
  <2>1. new.parent \in 0 .. Len(spans) /\ Len(spans) \in Nat
    BY <1>1, <1>3, NewSpanFacts DEF Base, Types
  <2> QED
    BY <1>1, <1>2, <1>3, <2>1, NewSpanFacts
<1>7. Ids' = Ids \cup {n} /\ Ids \subseteq 1 .. n - 1 /\ n \notin Ids
  BY <1>2, <1>4 DEF Ids, Base, Types
<1>8. IsTx(tx')
  BY <1>4, <1>6, CountedFacts DEF Base, Types
<1>9. /\ frames' \in Seq(FrameType)
      /\ \A i \in 1 .. Len(frames) : frames'[i] = frames[i]
      /\ frames'[Len(frames) + 1].span = n /\ frames'[Len(frames) + 1].wrapper = w
      /\ \A i \in DOMAIN frames' : i \in DOMAIN frames \/ i = Len(frames) + 1
      /\ DOMAIN frames = 1 .. Len(frames)
  BY <1>1, <1>4, PushFacts DEF Base, Types
<1>10. /\ stack' \in Seq(Ids')
       /\ \A i, j \in DOMAIN stack' : i < j => stack'[i] < stack'[j]
  <2>1. stack \in Seq(Ids) /\ DOMAIN stack = 1 .. Len(stack) /\ Len(stack) \in Nat
    BY DEF Base, Types
  <2>2. stack' \in Seq(Ids')
    BY <1>4, <1>7, <2>1
  <2>3. /\ \A i \in 1 .. Len(stack) : stack'[i] = stack[i] /\ stack[i] < n
        /\ stack'[Len(stack) + 1] = n
        /\ DOMAIN stack' = 1 .. Len(stack) + 1
    <3>1. \A i \in 1 .. Len(stack) : stack[i] \in 1 .. n - 1
      <4>1. \A i \in 1 .. Len(stack) : stack[i] \in Ids
        BY <2>1
      <4> QED
        BY <1>7, <4>1
    <3>2. /\ \A i \in 1 .. Len(stack) : stack'[i] = stack[i]
          /\ stack'[Len(stack) + 1] = n
          /\ Len(stack') = Len(stack) + 1
      BY <1>4, <2>1
    <3>3. DOMAIN stack' = 1 .. Len(stack')
      BY <2>2
    <3> QED
      BY <1>4, <3>1, <3>2, <3>3
  <2>4. \A i, j \in 1 .. Len(stack) + 1 : i < j =>
          i \in 1 .. Len(stack) /\ (j \in 1 .. Len(stack) \/ j = Len(stack) + 1)
    BY <2>1
  <2> QED
    BY <2>1, <2>2, <2>3, <2>4 DEF Base, Tree
<1>11. Types'
  <2>1. \A i \in DOMAIN frames' : frames'[i].span \in Ids' \cup {None}
    BY <1>7, <1>9 DEF Base, Types
  <2> QED
    BY <1>1, <1>4, <1>5, <1>8, <1>9, <1>10, <2>1 DEF Base, Types
<1>12. Blank' /\ Phases'
  BY <1>1, <1>5 DEF Blank, Phases
<1>13. /\ \A s \in Ids : /\ spans'[s].parent = spans[s].parent
                        /\ spans'[s].leaf = spans[s].leaf
                        /\ spans'[s].kind = spans[s].kind
       /\ spans'[n].parent = new.parent /\ spans'[n].leaf = new.leaf
       /\ spans'[n].kind = new.kind
  BY <1>4 DEF Kin
<1>14. \A s \in Ids' : spans'[s].parent < s
  BY <1>6, <1>7, <1>13 DEF Base, Tree
<1>15. \A s \in Ids' : spans'[s].parent # Tx /\ spans'[spans'[s].parent].leaf =>
                      spans'[s].leaf /\ spans'[s].kind # "real"
  <2>1. ASSUME NEW s \in Ids, spans'[s].parent # Tx, spans'[spans'[s].parent].leaf
        PROVE  spans'[s].leaf /\ spans'[s].kind # "real"
    <3>1. spans[s].parent \in Nat /\ spans[s].parent < s /\ spans[s].parent # Tx
      <4>1. spans[s] \in SpanType
        BY DEF Base, Types, Ids
      <4> QED
        BY <1>13, <2>1, <4>1 DEF Base, Tree, SpanType
    <3>2. spans[s].parent \in Ids
      BY <3>1 DEF Base, Types, Ids, Tx
    <3> QED
      BY <1>13, <2>1, <3>1, <3>2 DEF Base, Tree, Real
  <2>2. ASSUME spans'[n].parent # Tx, spans'[spans'[n].parent].leaf
        PROVE  spans'[n].leaf /\ spans'[n].kind # "real"
    <3>1. Active # None /\ new.parent = Active
      BY <1>6, <1>13, <2>2
    <3>2. Active \in Ids
      BY <3>1, ActiveFacts
    <3>3. InLeaf
      BY <1>13, <2>2, <3>1, <3>2 DEF InLeaf
    <3> QED
      BY <1>6, <1>13, <3>3
  <2> QED
    BY <1>7, <2>1, <2>2
<1>16. \A i \in DOMAIN frames' :
         frames'[i].wrapper.span = "otel" /\ frames'[i].span # None =>
           spans'[frames'[i].span].kind = "real"
  <2>1. \A i \in DOMAIN frames :
          /\ frames[i].span \in Ids \cup {None}
          /\ frames[i].wrapper.span = "otel" /\ frames[i].span # None =>
               spans[frames[i].span].kind = "real"
    BY DEF Base, Types, Tree, Real
  <2>2. ASSUME NEW i \in DOMAIN frames, frames'[i].wrapper.span = "otel",
               frames'[i].span # None
        PROVE  spans'[frames'[i].span].kind = "real"
    <3>1. frames'[i] = frames[i]
      BY <1>9
    <3> QED
      BY <1>13, <2>1, <2>2, <3>1
  <2>3. w.span = "otel" => spans'[n].kind = "real"
    BY <1>4, <1>13
  <2> QED
    BY <1>9, <2>2, <2>3
<1> QED
  BY <1>10, <1>11, <1>12, <1>14, <1>15, <1>16 DEF Base, Tree, Real

LEMMA StepKeepsBase == Base /\ [Next]_vars => Base'
<1> SUFFICES ASSUME Base, [Next]_vars
             PROVE  Base'
  OBVIOUS
<1>1. ASSUME NEW c \in Carriers, NEW up \in conf.upstreams,
             Begin(c, up) \/ BeginRaises(c, up)
      PROVE  Base'
  BY <1>1, BeginBase
<1>2. ASSUME NEW c \in Carriers, BeginUntraced(c)
      PROVE  Base'
  BY <1>2, BeginBase
<1>3. ASSUME NEW w \in Callable,
             CallUntraced(w) \/ CallThrough(w) \/ CallTraced(w) \/ OTelRaises(w)
      PROVE  Base'
  BY <1>3, PlainCallBase, CallBase, OTelRaisesBase
<1>4. ASSUME NEW i \in conf.frameworks, NEW e \in Endings, Finish(i, e)
      PROVE  Base'
  BY <1>4, FinishBase
<1>5. CASE Return \/ ReturnUntraced \/ Unwind \/ UnwindUntraced
  BY <1>5, EndBase, PopBase
<1>6. CASE Raise \/ Catch \/ CatchAndCapture
  BY <1>6, RaiseBase
<1>7. CASE Skip \/ SetOutcome \/ CaptureStep \/ EndTransaction \/ Done
  BY <1>7, StepBase
<1>8. CASE UNCHANGED vars
  BY <1>8 DEF vars, Base, Types, Blank, Phases, Tree, Ids, Real
<1> QED
  BY <1>1, <1>2, <1>3, <1>4, <1>5, <1>6, <1>7, <1>8 DEF Next

\* Whatever libraries the service calls and however they nest, raise and end: every
\* variable has its type, what is on a stack was begun, a span is the child of an
\* earlier one or of the transaction, and a phase has only the state that fits it.
THEOREM SpansHaveTypes == Spec => []Base
<1>1. Init => Base
  BY InitBase
<1>2. Base /\ [Next]_vars => Base'
  BY StepKeepsBase
<1> QED
  BY <1>1, <1>2, PTL DEF Spec

-----------------------------------------------------------------------------
(***************************************************************************)
(* Statistics.  A dropped span of a resource that is still active was       *)
(* counted as dropped, and its statistics are owed.                        *)
(***************************************************************************)
OwesOf(ss, active) == {s \in active : ss[s].kind # "real" /\ ss[s].resource = "own"}
Owing == OwesOf(spans, Range(stack))

StatsOwed ==
  /\ IsFiniteSet(Range(stack))
  /\ tx.stats + Cardinality(Owing) <= tx.dropped

LEMMA OwingFacts ==
  ASSUME StatsOwed, Base
  PROVE  /\ IsFiniteSet(Owing) /\ Cardinality(Owing) \in Nat
         /\ tx.stats \in Int /\ tx.dropped \in Int
<1>1. Owing \subseteq Range(stack)
  BY DEF Owing, OwesOf
<1>2. IsFiniteSet(Owing)
  BY <1>1, FS_Subset DEF StatsOwed
<1> QED
  BY <1>2, FS_CardinalityType DEF Base, Types, IsTx

LEMMA Kinds ==
  ASSUME Base, NEW s \in Ids
  PROVE  spans[s] \in SpanType /\ spans[s].kind \in {"real", "dropped"}
<1>1. spans[s] \in SpanType
  BY DEF Base, Types, Ids
<1> QED
  BY <1>1 DEF SpanType

\* The spans that owe are the same if those of the stack are.
LEMMA OwingSame ==
  ASSUME Base, stack' = stack,
         \A s \in Ids : Kin(spans[s], spans'[s])
  PROVE  Owing' = Owing
<1>1. \A s \in Range(stack) : s \in Ids
  BY DEF Base, Types, Range
<1>2. \A s \in Ids : spans[s].kind \in {"real", "dropped"}
  BY Kinds
<1>3. \A s \in Range(stack) :
        spans'[s].kind # "real" /\ spans'[s].resource = "own"
          <=> spans[s].kind # "real" /\ spans[s].resource = "own"
  BY <1>1, <1>2 DEF Kin
<1> QED
  BY <1>3 DEF Owing, OwesOf

LEMMA InitStats == Init => StatsOwed
<1> SUFFICES ASSUME Init
             PROVE  StatsOwed
  OBVIOUS
<1>1. Range(stack) = {}
  BY DEF Init, Range
<1>2. Owing = {}
  BY <1>1 DEF Owing, OwesOf
<1>3. tx.stats = 0 /\ tx.dropped = 0
  BY DEF Init, NoTransaction
<1>4. IsFiniteSet(Range(stack)) /\ Cardinality(Owing) = 0
  BY <1>1, <1>2, FS_EmptySet
<1> QED
  BY <1>3, <1>4 DEF StatsOwed

LEMMA EndStats ==
  ASSUME Base, StatsOwed, Return \/ Unwind
  PROVE  StatsOwed'
<1>1. PICK t : t = Ending(Innermost)
  OBVIOUS
<1>2. /\ Settles(t) /\ t \in Ids /\ stack # <<>>
      /\ t = Active \/ Real(t)
  <2>1. /\ Settles(t) /\ t \in Ids /\ frames # <<>>
    BY <1>1, ReturnFacts, UnwindFacts
  <2>2. ~NothingToEnd(Innermost)
    BY DEF Return, Unwind
  <2>3. /\ stack # <<>>
        /\ Innermost.wrapper.span # "otel" => t = Active
        /\ Innermost.wrapper.span = "otel" => t = Innermost.span /\ Real(Innermost.span)
    BY <1>1, <2>1, <2>2, EndingFacts
  <2> QED
    BY <2>1, <2>3
<1>3. /\ IsFiniteSet(Owing) /\ Cardinality(Owing) \in Nat
      /\ tx.stats \in Int /\ tx.dropped \in Int
  BY OwingFacts
<1>4. /\ \A s \in Ids : Kin(spans[s], spans'[s])
      /\ tx'.stats \in Int /\ tx'.dropped \in Int
  BY <1>2 DEF Settles, IsTx
<1>5. /\ Range(Front(stack)) = Range(stack) \ {Active} /\ Range(stack) \subseteq Ids
      /\ Active \in Range(stack)
  <2>1. \A s \in Range(stack) : s \in Ids
    BY DEF Base, Types, Range
  <2>2. Active = stack[Len(stack)] /\ Len(stack) \in DOMAIN stack
    BY <1>2, ActiveFacts DEF Base, Types
  <2> QED
    BY <1>2, <2>1, <2>2, ActiveFacts DEF Range
<1>6. \A s \in Range(stack) :
        spans'[s].kind # "real" /\ spans'[s].resource = "own"
          <=> spans[s].kind # "real" /\ spans[s].resource = "own"
  <2>1. \A s \in Ids : spans[s].kind \in {"real", "dropped"}
    BY Kinds
  <2> QED
    BY <1>4, <1>5, <2>1 DEF Kin
<1>7. CASE Real(t)
  <2>1. /\ tx'.stats - tx.stats \in {0, tx'.dropped - tx.dropped}
        /\ tx'.dropped - tx.dropped \in {0, 1}
        /\ stack' = stack \/ stack' = Front(stack)
    BY <1>2, <1>7 DEF Settles
  <2>2. Owing' \subseteq Owing /\ IsFiniteSet(Range(stack'))
    <3>1. Range(stack') \subseteq Range(stack)
      BY <1>5, <2>1
    <3>2. IsFiniteSet(Range(stack'))
      BY <3>1, FS_Subset DEF StatsOwed
    <3> QED
      BY <1>6, <3>1, <3>2 DEF Owing, OwesOf
  <2>3. Cardinality(Owing') <= Cardinality(Owing) /\ Cardinality(Owing') \in Nat
    BY <1>3, <2>2, FS_Subset, FS_CardinalityType
  <2>4. tx'.stats + Cardinality(Owing') <= tx'.dropped
    BY <1>3, <1>4, <2>1, <2>3 DEF StatsOwed
  <2> QED
    BY <2>2, <2>4 DEF StatsOwed
<1>8. CASE ~Real(t)
  <2>1. /\ t = Active /\ stack' = Front(stack)
        /\ tx' = IF spans[t].resource = "own" THEN [tx EXCEPT !.stats = @ + 1] ELSE tx
    BY <1>2, <1>8 DEF Settles
  <2>2. Owing' = Owing \ {t}
    BY <1>5, <1>6, <2>1 DEF Owing, OwesOf
  <2>3. IsFiniteSet(Range(stack'))
    BY <1>5, <2>1, FS_Subset DEF StatsOwed
  <2>4. tx'.dropped = tx.dropped /\
        tx'.stats = IF spans[t].resource = "own" THEN tx.stats + 1 ELSE tx.stats
    BY <2>1 DEF Base, Types, IsTx
  <2>5. t \in Owing <=> spans[t].resource = "own"
    BY <1>5, <1>8, <2>1 DEF Owing, OwesOf, Real
  <2>6. Cardinality(Owing') = IF t \in Owing THEN Cardinality(Owing) - 1 ELSE Cardinality(Owing)
    BY <1>3, <2>2, FS_RemoveElement
  <2>7. tx'.stats + Cardinality(Owing') <= tx'.dropped
    BY <1>3, <2>4, <2>5, <2>6 DEF StatsOwed
  <2> QED
    BY <2>3, <2>7 DEF StatsOwed
<1> QED
  BY <1>7, <1>8

LEMMA CallStats ==
  ASSUME Base, StatsOwed, NEW w \in Callable, CallTraced(w)
  PROVE  StatsOwed'
<1>1. w \in Libraries
  BY ConfType DEF Base, Types, Callable
<1>2. PICK n : n = Len(spans) + 1
  OBVIOUS
<1>3. PICK new : new = NewSpan(w)
  OBVIOUS
<1>4. /\ \A s \in Ids : Kin(spans[s], spans'[s])
      /\ Kin(new, spans'[n])
      /\ stack' = Append(stack, n) /\ n \in Nat
      /\ tx' = Counted(new)
  <2>1. PICK ss : ss = Append(spans, NewSpan(w))
    OBVIOUS
  <2>c. Called(w, n, ss)
    BY <1>1, <1>2, <2>1, CallFacts
  <2>2. n \in 1 .. n /\ \A s \in Ids : s \in 1 .. n
    BY <1>2 DEF Base, Types, Ids
  <2>3. \A s \in 1 .. n : Kin(ss[s], spans'[s])
    BY <2>c DEF Called
  <2>4. /\ ss[n] = new /\ (\A s \in Ids : ss[s] = spans[s]) /\ n \in Nat
        /\ stack' = Append(stack, n) /\ tx' = Counted(new)
    BY <1>3, <2>c DEF Called
  <2> QED
    BY <2>2, <2>3, <2>4
<1>5. /\ new \in SpanType
      /\ new.leaf /\ new.kind # "real" => new.resource = "none"
  BY <1>1, <1>3, NewSpanFacts
<1>6. /\ tx'.stats = tx.stats
      /\ new.kind = "real" => tx'.dropped = tx.dropped
      /\ new.kind # "real" /\ new.leaf => tx'.dropped = tx.dropped
      /\ new.kind # "real" /\ ~new.leaf => tx'.dropped = tx.dropped + 1
  BY <1>4, <1>5, CountedFacts DEF Base, Types
<1>7. /\ IsFiniteSet(Owing) /\ Cardinality(Owing) \in Nat
      /\ tx.stats \in Int /\ tx.dropped \in Int
  BY OwingFacts
<1>8. Range(stack') = Range(stack) \cup {n} /\ Range(stack) \subseteq Ids /\ n \notin Ids
  <2>1. stack \in Seq(Ids) /\ DOMAIN stack = 1 .. Len(stack) /\ Len(stack) \in Nat
    BY DEF Base, Types
  <2>2. /\ \A i \in 1 .. Len(stack) : stack'[i] = stack[i]
        /\ stack'[Len(stack) + 1] = n
        /\ DOMAIN stack' = 1 .. Len(stack) + 1
    BY <1>4, <2>1
  <2>3. \A i \in 1 .. Len(stack) + 1 : i \in 1 .. Len(stack) \/ i = Len(stack) + 1
    BY <2>1
  <2>4. Len(stack) + 1 \in 1 .. Len(stack) + 1 /\ 1 .. Len(stack) \subseteq 1 .. Len(stack) + 1
    BY <2>1
  <2>5. Range(stack) \subseteq Ids
    BY <2>1 DEF Range
  <2>6. n \notin Ids
    BY <1>2 DEF Ids, Base, Types
  <2> QED
    BY <2>1, <2>2, <2>3, <2>4, <2>5, <2>6 DEF Range
<1>9. IsFiniteSet(Range(stack'))
  BY <1>8, FS_AddElement DEF StatsOwed
<1>10. \A s \in Range(stack) :
        spans'[s].kind # "real" /\ spans'[s].resource = "own"
          <=> spans[s].kind # "real" /\ spans[s].resource = "own"
  <2>1. \A s \in Ids : spans[s].kind \in {"real", "dropped"}
    BY Kinds
  <2> QED
    BY <1>4, <1>8, <2>1 DEF Kin
<1>11. CASE new.kind # "real" /\ new.resource = "own"
  <2>1. Owing' \subseteq Owing \cup {n}
    BY <1>8, <1>10 DEF Owing, OwesOf
  <2>2. /\ IsFiniteSet(Owing \cup {n})
        /\ Cardinality(Owing \cup {n}) <= Cardinality(Owing) + 1
        /\ Cardinality(Owing \cup {n}) \in Nat
    <3>1. IsFiniteSet(Owing)
      BY <1>7
    <3>2. /\ IsFiniteSet(Owing \cup {n})
          /\ Cardinality(Owing \cup {n})
               = IF n \in Owing THEN Cardinality(Owing) ELSE Cardinality(Owing) + 1
      BY <3>1, FS_AddElement
    <3> QED
      BY <1>7, <3>2
  <2>3. Cardinality(Owing') <= Cardinality(Owing \cup {n}) /\ Cardinality(Owing') \in Nat
    BY <2>1, <2>2, FS_Subset, FS_CardinalityType
  <2>4. tx'.dropped = tx.dropped + 1
    BY <1>5, <1>6, <1>11
  <2>5. tx'.stats + Cardinality(Owing') <= tx'.dropped
    BY <1>6, <1>7, <2>2, <2>3, <2>4 DEF StatsOwed
  <2> QED
    BY <1>9, <2>5 DEF StatsOwed
<1>12. CASE ~(new.kind # "real" /\ new.resource = "own")
  <2>1. ~(spans'[n].kind # "real" /\ spans'[n].resource = "own")
    BY <1>4, <1>5, <1>12 DEF Kin, SpanType
  <2>2. Owing' = Owing
    BY <1>8, <1>10, <2>1 DEF Owing, OwesOf
  <2>3. tx'.dropped = tx.dropped \/ tx'.dropped = tx.dropped + 1
    BY <1>5, <1>6 DEF SpanType
  <2>4. tx'.stats + Cardinality(Owing') <= tx'.dropped
    BY <1>6, <1>7, <2>2, <2>3 DEF StatsOwed
  <2> QED
    BY <1>9, <2>4 DEF StatsOwed
<1> QED
  BY <1>11, <1>12

LEMMA StepKeepsStats == Base /\ StatsOwed /\ [Next]_vars => StatsOwed'
<1> SUFFICES ASSUME Base, StatsOwed, [Next]_vars
             PROVE  StatsOwed'
  OBVIOUS
<1>1. ASSUME stack' = stack, \A s \in Ids : Kin(spans[s], spans'[s]),
             tx'.stats = tx.stats,
             tx'.dropped = tx.dropped \/ tx'.dropped = tx.dropped + 1
      PROVE  StatsOwed'
  <2>1. Owing' = Owing
    BY <1>1, OwingSame
  <2> QED
    BY <1>1, <2>1, OwingFacts DEF StatsOwed
<1>2. \A s \in Ids : Kin(spans[s], spans[s])
  BY DEF Kin
<1>3. ASSUME NEW c \in Carriers, NEW up \in conf.upstreams, Begin(c, up)
      PROVE  StatsOwed'
  <2>1. UNCHANGED <<spans, stack>> /\ stack = <<>>
    BY <1>3 DEF Begin, Base, Blank
  <2>2. Range(stack) = {} /\ Owing' = {} /\ Cardinality({}) = 0
    BY <2>1, FS_EmptySet DEF Range, Owing, OwesOf
  <2>3. tx'.stats = 0 /\ tx'.dropped = 0
    <3>1. BeginTransaction(c, up)
      BY <1>3 DEF Begin
    <3> QED
      BY <3>1 DEF BeginTransaction, NoTransaction
  <2> QED
    BY <2>1, <2>2, <2>3, FS_EmptySet DEF StatsOwed
<1>4. ASSUME NEW w \in Callable, OTelRaises(w)
      PROVE  StatsOwed'
  <2>1. w \in Libraries /\ IsTx(tx)
    BY ConfType DEF Base, Types, Callable
  <2>2. UNCHANGED <<spans, stack>> /\ tx' = Counted(NewSpan(w))
    BY <1>4 DEF OTelRaises
  <2>3. PICK new \in SpanType : new = NewSpan(w)
    BY <2>1, NewSpanFacts
  <2>4. tx'.stats = tx.stats /\ (tx'.dropped = tx.dropped \/ tx'.dropped = tx.dropped + 1)
    <3>1. tx' = Counted(new)
      BY <2>2, <2>3
    <3> QED
      BY <2>1, <3>1, CountedFacts
  <2> QED
    BY <1>1, <1>2, <2>2, <2>4
<1>5. ASSUME NEW w \in Callable, CallUntraced(w) \/ CallThrough(w)
      PROVE  StatsOwed'
  <2>1. UNCHANGED <<tx, stack>> /\ \A s \in Ids : Kin(spans[s], spans'[s])
    BY <1>5, PlainCallFacts
  <2> QED
    BY <1>1, <2>1
<1>6. ASSUME NEW w \in Callable, CallTraced(w)
      PROVE  StatsOwed'
  BY <1>6, CallStats
<1>7. CASE Return \/ Unwind
  BY <1>7, EndStats
<1>8. CASE SetOutcome \/ EndTransaction
  <2>1. UNCHANGED <<spans, stack>>
    BY <1>8 DEF SetOutcome, EndTransaction
  <2>2. \/ tx' = tx
        \/ \E o : tx' = [tx EXCEPT !.outcome = o]
        \/ tx' = [tx EXCEPT !.state = "ended"]
    BY <1>8 DEF SetOutcome, EndTransaction
  <2>3. tx'.stats = tx.stats /\ tx'.dropped = tx.dropped
    BY <2>2 DEF Base, Types, IsTx
  <2> QED
    BY <1>1, <1>2, <2>1, <2>3
<1>9. ASSUME UNCHANGED <<spans, stack, tx>>
      PROVE  StatsOwed'
  BY <1>1, <1>2, <1>9
<1>10. ASSUME NEW c \in Carriers, NEW up, BeginRaises(c, up) \/ BeginUntraced(c)
       PROVE  UNCHANGED <<spans, stack, tx>>
  BY <1>10 DEF BeginRaises, BeginUntraced
<1>11. ASSUME NEW i \in conf.frameworks, NEW e \in Endings, Finish(i, e)
       PROVE  UNCHANGED <<spans, stack, tx>>
  BY <1>11 DEF Finish
<1>12. CASE ReturnUntraced \/ UnwindUntraced
  BY <1>9, <1>12 DEF ReturnUntraced, UnwindUntraced
<1>13. CASE Raise \/ Catch \/ CatchAndCapture
  BY <1>9, <1>13 DEF Raise, Catch, CatchAndCapture
<1>14. CASE Skip \/ CaptureStep \/ Done
  BY <1>9, <1>14 DEF Skip, CaptureStep, Done
<1>15. CASE UNCHANGED vars
  BY <1>9, <1>15 DEF vars
<1> QED
  BY <1>3, <1>4, <1>5, <1>6, <1>7, <1>8, <1>9, <1>10, <1>11, <1>12, <1>13, <1>14, <1>15
  DEF Next

\* Statistics are only kept of spans that are counted as dropped.
THEOREM StatisticsAreOfDropped == Spec => []StatsWithinDropped
<1>1. Init => Base /\ StatsOwed
  BY InitBase, InitStats
<1>2. (Base /\ StatsOwed) /\ [Next]_vars => (Base /\ StatsOwed)'
  BY StepKeepsBase, StepKeepsStats
<1>3. Base /\ StatsOwed => StatsWithinDropped
  <2> SUFFICES ASSUME Base, StatsOwed
               PROVE  StatsWithinDropped
    OBVIOUS
  <2>1. /\ Cardinality(Owing) \in Nat /\ tx.stats \in Int /\ tx.dropped \in Int
    BY OwingFacts
  <2> QED
    BY <2>1 DEF StatsOwed, StatsWithinDropped
<1> QED
  BY <1>1, <1>2, <1>3, PTL DEF Spec

-----------------------------------------------------------------------------
(***************************************************************************)
(* The span that encloses a dropped one.  Enclosing is a recursive          *)
(* function: it is one because a parent is older than its children.        *)
(***************************************************************************)
\* There is a least one in every set of numbers.
LEMMA Least ==
  ASSUME NEW T \in SUBSET Nat, T # {}
  PROVE  \E x \in T : \A y \in T : x <= y
<1>1. PICK x \in T : \A y \in T : ~ (<<y, x>> \in OpToRel(<, Nat))
  BY NatLessThanWellFounded, WFMin
<1>2. \A a, b \in Nat : a < b => <<a, b>> \in OpToRel(<, Nat)
  BY DEF OpToRel
<1>3. \A y \in T : ~ (y < x)
  BY <1>1, <1>2
<1> QED
  BY <1>3

\* Induction, with a set for the property.
LEMMA SetInduction ==
  ASSUME NEW T \in SUBSET Nat, 0 \in T, \A n \in T : n + 1 \in T
  PROVE  T = Nat
<1>1. CASE T # Nat
  <2>1. PICK x \in Nat \ T : \A y \in Nat \ T : x <= y
    BY <1>1, Least
  <2>2. x # 0
    OBVIOUS
  <2>3. x - 1 \in T
    BY <2>1, <2>2
  <2> QED
    BY <2>3
<1> QED
  BY <1>1

\* Every span of ss is younger than its parent.
Older(ss) ==
  /\ ss \in Seq(SpanType)
  /\ \A t \in 1 .. Len(ss) : ss[t].parent < t

\* f is above on the spans up to n.
IsAbove(f, ss, n) ==
  f = [t \in 0 .. n |-> IF t = Tx \/ IsReal(ss, t) THEN t ELSE f[ss[t].parent]]

LEMMA AboveExists ==
  ASSUME NEW ss, Older(ss)
  PROVE  \E f : IsAbove(f, ss, Len(ss))
<1>1. Len(ss) \in Nat
  BY DEF Older
<1> DEFINE T == {n \in Nat : n <= Len(ss) => \E f : IsAbove(f, ss, n)}
<1>2. 0 \in T
  <2>1. \A t \in 0 .. 0 : t = Tx
    BY DEF Tx
  <2>2. IsAbove([t \in 0 .. 0 |-> t], ss, 0)
    BY <2>1 DEF IsAbove
  <2> QED
    BY <2>2
<1>3. ASSUME NEW n \in T
      PROVE  n + 1 \in T
  <2>1. SUFFICES ASSUME n + 1 <= Len(ss)
                 PROVE  \E f : IsAbove(f, ss, n + 1)
    OBVIOUS
  <2>2. n \in Nat /\ n <= Len(ss)
    BY <1>1, <2>1
  <2>3. PICK f : IsAbove(f, ss, n)
    BY <2>2
  <2>4. PICK top : top = IF IsReal(ss, n + 1) THEN n + 1 ELSE f[ss[n + 1].parent]
    OBVIOUS
  <2>5. PICK g : g = [t \in 0 .. n + 1 |-> IF t = n + 1 THEN top ELSE f[t]]
    OBVIOUS
  <2>6. \A t \in 0 .. n : g[t] = f[t]
    BY <2>2, <2>5
  <2>7. g[n + 1] = top
    BY <2>2, <2>5
  <2>8. \A t \in 1 .. n + 1 : ss[t].parent \in 0 .. n /\ ss[t].parent < t
    <3>1. \A t \in 1 .. n + 1 : t \in 1 .. Len(ss)
      BY <1>1, <2>1, <2>2
    <3>2. \A t \in 1 .. n + 1 : ss[t] \in SpanType
      BY <3>1 DEF Older
    <3>3. \A t \in 1 .. n + 1 : ss[t].parent \in Nat
      BY <3>2 DEF SpanType
    <3> QED
      BY <2>2, <3>1, <3>3 DEF Older
  <2>9. \A t \in 0 .. n : f[t] = IF t = Tx \/ IsReal(ss, t) THEN t ELSE f[ss[t].parent]
    BY <2>3 DEF IsAbove
  <2>10. ASSUME NEW t \in 0 .. n + 1
         PROVE  g[t] = IF t = Tx \/ IsReal(ss, t) THEN t ELSE g[ss[t].parent]
    <3>1. CASE t = n + 1
      <4>1. t # Tx /\ t \in 1 .. n + 1
        BY <2>2, <3>1 DEF Tx
      <4>2. g[ss[t].parent] = f[ss[t].parent]
        BY <2>6, <2>8, <4>1
      <4> QED
        BY <2>4, <2>7, <3>1, <4>1, <4>2
    <3>2. CASE t \in 0 .. n
      <4>1. t # Tx => g[ss[t].parent] = f[ss[t].parent]
        <5>1. t # Tx => t \in 1 .. n + 1
          BY <2>2, <3>2 DEF Tx
        <5> QED
          BY <2>6, <2>8, <5>1
      <4> QED
        BY <2>6, <2>9, <3>2, <4>1
    <3> QED
      BY <2>2, <3>1, <3>2
  <2>11. IsAbove(g, ss, n + 1)
    <3>1. PICK h : h = [t \in 0 .. n + 1 |->
                          IF t = Tx \/ IsReal(ss, t) THEN t ELSE g[ss[t].parent]]
      OBVIOUS
    <3>2. DOMAIN g = 0 .. n + 1 /\ DOMAIN h = 0 .. n + 1
      BY <2>5, <3>1
    <3>3. \A t \in 0 .. n + 1 : g[t] = h[t]
      BY <2>10, <3>1
    <3>4. g = h
      BY <2>5, <3>1, <3>3
    <3> QED
      BY <3>1, <3>4 DEF IsAbove
  <2> QED
    BY <2>11
<1> HIDE DEF T
<1>4. T = Nat
  <2>1. T \in SUBSET Nat
    BY DEF T
  <2> QED
    BY <1>2, <1>3, <2>1, SetInduction
<1> QED
  BY <1>1, <1>4 DEF T

LEMMA EnclosingAbove ==
  ASSUME NEW ss, Older(ss)
  PROVE  \E f : /\ IsAbove(f, ss, Len(ss))
                /\ \A s : Enclosing(ss, s) = f[s]
<1> DEFINE F == CHOOSE f : IsAbove(f, ss, Len(ss))
<1>1. IsAbove(F, ss, Len(ss))
  BY AboveExists
<1>2. \A s : Enclosing(ss, s) = F[s]
  BY DEF Enclosing, IsAbove
<1> QED
  BY <1>1, <1>2

\* The span that encloses one of C was not dropped and is one of C if C has the
\* parents of its dropped spans.
LEMMA EnclosingFacts ==
  ASSUME NEW ss, Older(ss), NEW C \in SUBSET (0 .. Len(ss)),
         \A t \in C : t # Tx /\ ~IsReal(ss, t) => ss[t].parent \in C,
         NEW s \in C
  PROVE  /\ Enclosing(ss, s) \in C
         /\ Enclosing(ss, s) = Tx \/ IsReal(ss, Enclosing(ss, s))
<1>1. PICK f : IsAbove(f, ss, Len(ss)) /\ \A t : Enclosing(ss, t) = f[t]
  BY EnclosingAbove
<1> DEFINE Good(t) == f[t] \in C /\ (f[t] = Tx \/ IsReal(ss, f[t]))
           B == {t \in C : ~Good(t)}
<1>2. \A t \in C : f[t] = IF t = Tx \/ IsReal(ss, t) THEN t ELSE f[ss[t].parent]
  BY <1>1 DEF IsAbove
<1>3. B = {}
  <2>1. SUFFICES ASSUME B # {}
                 PROVE  FALSE
    OBVIOUS
  <2>2. Len(ss) \in Nat
    BY DEF Older
  <2>3. B \in SUBSET Nat
    <3>1. 0 .. Len(ss) \subseteq Nat
      BY <2>2
    <3>2. B \subseteq C
      OBVIOUS
    <3> QED
      BY <3>1, <3>2
  <2>4. PICK t \in B : \A u \in B : t <= u
    BY <2>1, <2>3, Least
  <2>5. t \in C /\ ~Good(t)
    OBVIOUS
  <2> HIDE DEF Good
  <2>6. t # Tx /\ ~IsReal(ss, t)
    BY <1>2, <2>5 DEF Good
  <2>7. t \in 1 .. Len(ss) /\ ss[t].parent \in C
    BY <2>2, <2>5, <2>6 DEF Tx
  <2>8. ss[t].parent < t
    BY <2>7 DEF Older
  <2>9. f[t] = f[ss[t].parent]
    BY <1>2, <2>5, <2>6
  <2>10. ~Good(ss[t].parent)
    BY <2>5, <2>9 DEF Good
  <2>11. ss[t].parent \in B
    BY <2>7, <2>10
  <2>12. t <= ss[t].parent
    BY <2>4, <2>11
  <2>13. ss[t].parent \in Nat /\ t \in Nat
    BY <2>3, <2>5, <2>11
  <2> QED
    BY <2>8, <2>12, <2>13
<1> QED
  BY <1>1, <1>3

-----------------------------------------------------------------------------
(***************************************************************************)
(* What holds unless the bridge has left a span on the stack.              *)
(***************************************************************************)
FrameSpans == {frames[i].span : i \in DOMAIN frames} \ {None}

\* The spans of the stack are those of the active functions, in their order, and
\* all others have ended.
Matched ==
  /\ Range(stack) = FrameSpans
  /\ \A i, j \in DOMAIN frames :
       i < j /\ frames[i].span # None /\ frames[j].span # None
         => frames[i].span < frames[j].span
  /\ \A i \in DOMAIN frames :
       frames[i].span # None =>
         (spans[frames[i].span].bridge <=> frames[i].wrapper.span = "bridge")
  /\ \A s \in Ids : spans[s].ended <=> s \notin Range(stack)
  /\ \A s \in Ids : ~spans[s].ended => spans[s].outcome = None

\* Nothing is begun for real under a dropped span.
Dropping ==
  /\ \A s, t \in Range(stack) : s < t /\ ~Real(s) => ~Real(t)
  /\ \A s, t \in Range(stack) : s < t /\ spans[s].leaf => spans[t].leaf /\ ~Real(t)
  /\ \A s \in Range(stack) : ~Real(s) => spans[s].leaf \/ OverLimit
  /\ \A s \in Ids : Real(s) /\ spans[s].parent # Tx => Real(spans[s].parent)
  /\ \A s \in Range(stack) :
       spans[s].parent # Tx => spans[s].parent \in Range(stack)

Fated ==
  /\ \A s \in Ids : spans[s].fate # "lost"
  /\ \A s \in Ids :
       Real(s) /\ spans[s].ended /\ ~Discardable(spans[s]) => Kept(s)

\* What another service was told, what an exception is tagged with and what an
\* error names.
ToldOf(m) ==
  m.marks =>
    \/ m.tp.span_id = Tx
    \/ m.tp.span_id \in Ids /\ Real(m.tp.span_id) /\ spans[m.tp.span_id].marked
Tagged(id) == id \in Ids /\ Real(id) /\ spans[id].ended /\ Kept(id)
Named(e) ==
  ~e.in_exit /\ e.parent # None =>
    \/ e.parent = Tx
    \/ /\ e.parent \in Ids /\ Real(e.parent)
       /\ ~spans[e.parent].leaf \/ Tagged(e.parent)

Names ==
  /\ \A m \in sent : ToldOf(m)
  /\ exc # None /\ exc.tag # None => Tagged(exc.tag)
  /\ \A e \in errors : Named(e)

Sound == Matched /\ Dropping /\ Fated /\ Names
Clean == ~Leaked => Sound

LEMMA InitClean == Init => Clean
BY DEF Init, Clean, Sound, Matched, Dropping, Fated, Names, FrameSpans, Ids, Range

LEMMA NeverTold == Tx \notin Ids /\ None \notin Ids
BY NoneAssumption DEF Tx, Ids

LEMMA StackIds ==
  ASSUME Base
  PROVE  /\ Range(stack) \subseteq Ids
         /\ stack # <<>> => Active \in Range(stack)
         /\ \A s \in Range(stack) : stack # <<>> /\ (s = Active \/ s < Active)
<1>1. Range(stack) \subseteq Ids
  BY DEF Base, Types, Range
<1>2. stack # <<>> => Active \in Range(stack)
  <2>1. stack # <<>> => Active = stack[Len(stack)] /\ Len(stack) \in DOMAIN stack
    BY ActiveFacts DEF Base, Types
  <2> QED
    BY <2>1 DEF Range
<1>3. ASSUME NEW s \in Range(stack)
      PROVE  stack # <<>> /\ (s = Active \/ s < Active)
  <2>1. stack # <<>>
    BY DEF Range
  <2>2. s <= Active /\ s \in Nat /\ Active \in Nat
    BY <1>1, <2>1, ActiveFacts DEF Ids
  <2> QED
    BY <2>1, <2>2
<1> QED
  BY <1>1, <1>2, <1>3

\* The innermost function ends its own span.
LEMMA EndsItsOwn ==
  ASSUME Base, Matched, frames # <<>>, ~NothingToEnd(Innermost)
  PROVE  Innermost.span = Active /\ Ending(Innermost) = Active
<1>1. /\ Innermost.span \in Ids /\ stack # <<>>
      /\ Innermost.wrapper.span # "otel" => Ending(Innermost) = Active
      /\ Innermost.wrapper.span = "otel" => Ending(Innermost) = Innermost.span
  BY EndingFacts
<1>2. /\ Innermost = frames[Len(frames)] /\ Len(frames) \in Nat \ {0}
      /\ DOMAIN frames = 1 .. Len(frames)
  BY InnermostFacts DEF Base, Types
<1>3. Innermost.span # None
  BY <1>1, NeverTold
<1>4. Active \in FrameSpans
  BY <1>1, StackIds DEF Matched
<1>5. PICK i \in DOMAIN frames : frames[i].span = Active /\ Active # None
  BY <1>4 DEF FrameSpans
<1>6. Innermost.span \in Range(stack)
  BY <1>2, <1>3 DEF Matched, FrameSpans
<1>7. Innermost.span = Active \/ Innermost.span < Active
  BY <1>6, StackIds
<1>8. i < Len(frames) => Active < Innermost.span
  BY <1>2, <1>3, <1>5 DEF Matched
<1>9. i < Len(frames) \/ i = Len(frames)
  BY <1>2, <1>5
<1>10. Active \in Nat /\ Innermost.span \in Nat
  BY <1>1, ActiveFacts DEF Ids
<1>11. Innermost.span = Active
  BY <1>2, <1>5, <1>7, <1>8, <1>9, <1>10
<1> QED
  BY <1>1, <1>11

\* The enclosing span of an error is not one that may not be kept.
LEMMA ErrorFacts ==
  ASSUME Base, Sound, exc \in ExcType
  PROVE  Named(Error(exc))
<1>1. exc # None
  BY ExceptionAssumption DEF ExcType
<1>2. /\ Error(exc).parent = IF exc.tag # None THEN exc.tag ELSE ErrorParent
      /\ Error(exc).in_exit = InLeaf
  BY DEF Error
<1>3. CASE exc.tag # None
  <2>1. Tagged(exc.tag)
    BY <1>1, <1>3 DEF Sound, Names
  <2> QED
    BY <1>2, <1>3, <2>1 DEF Named, Tagged
<1>4. CASE exc.tag = None
  <2>1. SUFFICES ASSUME ~InLeaf, ErrorParent # None
                 PROVE  \/ ErrorParent = Tx
                        \/ ErrorParent \in Ids /\ Real(ErrorParent) /\ ~spans[ErrorParent].leaf
    BY <1>2, <1>4, <2>1 DEF Named
  <2>2. CASE Active = None
    BY <2>1, <2>2 DEF ErrorParent
  <2>3. CASE Active # None
    <3>1. ErrorParent = Enclosing(spans, Active)
      BY <2>1, <2>3 DEF ErrorParent
    <3>2. Active \in Ids /\ ~spans[Active].leaf
      BY <2>1, <2>3, ActiveFacts DEF InLeaf
    <3>3. Older(spans)
      BY DEF Base, Types, Tree, Older, Ids
    <3> DEFINE C == {t \in 0 .. Len(spans) : t # Tx => ~spans[t].leaf}
    <3>4. Len(spans) \in Nat
      BY DEF Base, Types
    <3>5. Active \in C
      BY <3>2, <3>4 DEF Ids
    <3>6. ASSUME NEW t \in C, t # Tx
          PROVE  spans[t].parent \in C
      <4>1. t \in Ids
        BY <3>4, <3>6 DEF Ids, Tx
      <4>2. spans[t].parent \in Nat /\ spans[t].parent < t
        <5>1. spans[t] \in SpanType
          BY <4>1, Kinds
        <5> QED
          BY <4>1, <5>1 DEF SpanType, Base, Tree
      <4>3. spans[t].parent \in 0 .. Len(spans)
        BY <3>4, <4>1, <4>2 DEF Ids
      <4>4. spans[t].parent # Tx => ~spans[spans[t].parent].leaf
        BY <3>6, <4>1 DEF Base, Tree
      <4> QED
        BY <4>3, <4>4
    <3>7. C \in SUBSET (0 .. Len(spans))
      OBVIOUS
    <3> HIDE DEF C
    <3>8. /\ Enclosing(spans, Active) \in C
          /\ Enclosing(spans, Active) = Tx \/ IsReal(spans, Enclosing(spans, Active))
      BY <3>3, <3>5, <3>6, <3>7, EnclosingFacts
    <3> QED
      BY <3>1, <3>4, <3>8 DEF C, IsReal, Real, Ids, Tx
  <2> QED
    BY <2>2, <2>3
<1> QED
  BY <1>3, <1>4

\* A step that ends nothing and marks none that has ended keeps the names.
LEMMA NamesKept ==
  ASSUME Base, Ids \subseteq Ids',
         \A s \in Ids : /\ Kin(spans[s], spans'[s])
                        /\ spans[s].marked => spans'[s].marked
                        /\ spans[s].ended =>
                             spans'[s].ended /\ spans'[s].fate = spans[s].fate
  PROVE  /\ \A m : ToldOf(m) => ToldOf(m)'
         /\ \A id : Tagged(id) => Tagged(id)'
         /\ \A e : Named(e) => Named(e)'
<1>k. \A s \in Ids : s \in Ids' /\ spans'[s].kind = spans[s].kind
                                /\ spans'[s].leaf = spans[s].leaf
  BY DEF Kin
<1>l. \A s \in Ids : spans[s].marked => spans'[s].marked
  OBVIOUS
<1>f. \A s \in Ids : spans[s].ended =>
                      spans'[s].ended /\ spans'[s].fate = spans[s].fate
  OBVIOUS
<1>1. ASSUME NEW m, ToldOf(m)
      PROVE  ToldOf(m)'
  <2>1. PICK id : id = m.tp.span_id
    OBVIOUS
  <2>2. m.marks => id = Tx \/ (id \in Ids /\ spans[id].kind = "real" /\ spans[id].marked)
    BY <1>1, <2>1 DEF ToldOf, Real
  <2>3. m.marks => id = Tx \/ (id \in Ids' /\ spans'[id].kind = "real" /\ spans'[id].marked)
    BY <1>k, <1>l, <2>2
  <2> QED
    BY <2>1, <2>3 DEF ToldOf, Real
<1>2. ASSUME NEW id, Tagged(id)
      PROVE  Tagged(id)'
  <2>1. id \in Ids /\ spans[id].kind = "real" /\ spans[id].ended
    BY <1>2 DEF Tagged, Real
  <2>2. spans[id].fate \in {"sent", "cancelled"}
    BY <1>2 DEF Tagged, Kept, Ids
  <2>3. /\ id \in Ids' /\ spans'[id].kind = "real" /\ spans'[id].ended
        /\ spans'[id].fate = spans[id].fate
    BY <1>k, <1>f, <2>1
  <2> QED
    BY <2>2, <2>3 DEF Tagged, Real, Kept
<1>3. ASSUME NEW e, Named(e)
      PROVE  Named(e)'
  <2>1. PICK id : id = e.parent
    OBVIOUS
  <2>2. Tagged(id) => Tagged(id)'
    BY <1>2
  <2>3. id \in Ids /\ Real(id) =>
          id \in Ids' /\ spans'[id].kind = "real" /\ spans'[id].leaf = spans[id].leaf
    BY <1>k DEF Real
  <2>4. ~e.in_exit /\ id # None =>
          id = Tx \/ (id \in Ids /\ Real(id) /\ (~spans[id].leaf \/ Tagged(id)))
    BY <1>3, <2>1 DEF Named
  <2>5. ~e.in_exit /\ id # None =>
          id = Tx \/ (id \in Ids' /\ spans'[id].kind = "real"
                       /\ (~spans'[id].leaf \/ Tagged(id)'))
    BY <2>2, <2>3, <2>4
  <2> QED
    BY <2>1, <2>5 DEF Named, Real
<1> QED
  BY <1>1, <1>2, <1>3

LEMMA SpansOfPop ==
  ASSUME Base, Matched, frames # <<>>, frames' = Front(frames)
  PROVE  FrameSpans' = FrameSpans \ {Innermost.span}
<1>1. /\ Innermost = frames[Len(frames)] /\ Len(frames) \in Nat \ {0}
      /\ DOMAIN frames = 1 .. Len(frames)
      /\ DOMAIN frames' = 1 .. Len(frames) - 1
      /\ \A i \in 1 .. Len(frames) - 1 : frames'[i] = frames[i]
      /\ Innermost.span \in Ids \cup {None}
  BY InnermostFacts DEF Base, Types
<1>2. \A i \in 1 .. Len(frames) : i \in 1 .. Len(frames) - 1 \/ i = Len(frames)
  <2>1. frames \in Seq(FrameType)
    BY DEF Base, Types
  <2> QED
    BY <2>1
<1>3. FrameSpans' = {frames[i].span : i \in 1 .. Len(frames) - 1} \ {None}
  BY <1>1 DEF FrameSpans
<1>4. FrameSpans = ({frames[i].span : i \in 1 .. Len(frames) - 1}
                     \cup {Innermost.span}) \ {None}
  <2>1. \A i \in 1 .. Len(frames) - 1 : i \in 1 .. Len(frames)
    BY <1>1
  <2>2. Len(frames) \in 1 .. Len(frames)
    BY <1>1
  <2>3. ASSUME NEW x
        PROVE  (\E i \in 1 .. Len(frames) : x = frames[i].span) <=>
                 (\E i \in 1 .. Len(frames) - 1 : x = frames[i].span)
                    \/ x = Innermost.span
    BY <1>1, <1>2, <2>1, <2>2, Zenon
  <2>4. {frames[i].span : i \in 1 .. Len(frames)} =
          {frames[i].span : i \in 1 .. Len(frames) - 1} \cup {Innermost.span}
    BY <2>3, Zenon
  <2> QED
    BY <1>1, <2>4 DEF FrameSpans
<1>5. \A i \in 1 .. Len(frames) - 1 :
        frames[i].span # None => frames[i].span # Innermost.span
  <2>1. ASSUME NEW i \in 1 .. Len(frames) - 1, frames[i].span # None,
               frames[i].span = Innermost.span
        PROVE  FALSE
    <3>1. i \in DOMAIN frames /\ i < Len(frames) /\ Len(frames) \in DOMAIN frames
      BY <1>1
    <3>2. frames[i].span < Innermost.span
      BY <1>1, <2>1, <3>1 DEF Matched
    <3>3. Innermost.span \in Nat
      BY <1>1, <2>1 DEF Ids
    <3> QED
      BY <2>1, <3>2, <3>3
  <2> QED
    BY <2>1
<1> QED
  BY <1>3, <1>4, <1>5

\* What a step keeps if the stack shrinks by spans that end in it.
LEMMA MatchedPop ==
  ASSUME Base, Matched, frames # <<>>, frames' = Front(frames),
         NEW t \in Range(stack), t = Innermost.span,
         Range(stack') = Range(stack) \ {t}, Settles(t)
  PROVE  Matched'
<1>1. /\ \A i \in DOMAIN frames' : i \in DOMAIN frames /\ frames'[i] = frames[i]
      /\ \A i \in DOMAIN frames : frames[i].span \in Ids \cup {None}
  BY PopFacts DEF Base, Types
<1>2. /\ Len(spans') = Len(spans) /\ spans'[t].ended
      /\ \A s \in Ids : Kin(spans[s], spans'[s])
      /\ \A s \in Ids \ {t} : spans'[s].ended = spans[s].ended
      /\ \A s \in Ids \ {t} : spans'[s].outcome = spans[s].outcome
  BY DEF Settles
<1>3. Ids' = Ids
  BY <1>2 DEF Ids
<1>4. Range(stack') = FrameSpans'
  BY SpansOfPop DEF Matched
<1>5. \A i, j \in DOMAIN frames' :
        i < j /\ frames'[i].span # None /\ frames'[j].span # None
          => frames'[i].span < frames'[j].span
  BY <1>1 DEF Matched
<1>6. \A i \in DOMAIN frames' :
       frames'[i].span # None =>
         (spans'[frames'[i].span].bridge <=> frames'[i].wrapper.span = "bridge")
  <2>1. \A i \in DOMAIN frames :
          frames[i].span # None => spans'[frames[i].span].bridge = spans[frames[i].span].bridge
    BY <1>1, <1>2 DEF Kin
  <2> QED
    BY <1>1, <2>1 DEF Matched
<1>7. \A s \in Ids : spans'[s].ended <=> s \notin Range(stack')
  BY <1>2 DEF Matched
<1>8. \A s \in Ids : ~spans'[s].ended => spans'[s].outcome = None
  BY <1>2 DEF Matched
<1> QED
  BY <1>3, <1>4, <1>5, <1>6, <1>7, <1>8 DEF Matched

LEMMA DroppingPop ==
  ASSUME Base, Dropping, stack # <<>>, NEW t, t = Active,
         Range(stack') = Range(stack) \ {t}, Settles(t), service' = service
  PROVE  Dropping'
<1>1. /\ Range(stack) \subseteq Ids /\ t \in Range(stack)
      /\ \A s \in Range(stack) : s = t \/ s < t
  BY StackIds
<1>2. /\ Len(spans') = Len(spans) /\ \A s \in Ids : Kin(spans[s], spans'[s])
      /\ ~Real(t) => tx' = IF spans[t].resource = "own" THEN [tx EXCEPT !.stats = @ + 1]
                                                        ELSE tx
  BY DEF Settles
<1>3. /\ Ids' = Ids
      /\ \A s \in Ids : /\ spans'[s].kind = spans[s].kind /\ spans'[s].leaf = spans[s].leaf
                        /\ spans'[s].parent = spans[s].parent
  BY <1>2 DEF Ids, Kin
<1>4. /\ \A s, u \in Range(stack') : s < u /\ ~Real(s)' => ~Real(u)'
      /\ \A s, u \in Range(stack') : s < u /\ spans'[s].leaf => spans'[u].leaf /\ ~Real(u)'
  BY <1>1, <1>3 DEF Dropping, Real
<1>5. \A s \in Range(stack') : ~Real(s)' => spans'[s].leaf \/ OverLimit'
  <2>1. ASSUME NEW s \in Range(stack'), ~Real(s)', ~spans'[s].leaf
        PROVE  OverLimit'
    <3>1. s \in Range(stack) /\ s \in Ids /\ s < t
      BY <1>1
    <3>2. ~Real(s) /\ ~spans[s].leaf
      BY <1>3, <2>1, <3>1 DEF Real
    <3>3. ~Real(t) /\ OverLimit
      BY <1>1, <3>1, <3>2 DEF Dropping
    <3>4. tx'.counter = tx.counter
      BY <1>2, <3>3 DEF Base, Types, IsTx
    <3> QED
      BY <3>3, <3>4 DEF OverLimit, conf
  <2> QED
    BY <2>1
<1>6. \A s \in Ids : spans'[s].kind = "real" /\ spans'[s].parent # Tx
                        => spans'[spans'[s].parent].kind = "real"
  <2>1. ASSUME NEW s \in Ids, spans'[s].kind = "real", spans'[s].parent # Tx
        PROVE  spans'[spans'[s].parent].kind = "real"
    <3>1. /\ Real(s) /\ spans'[s].parent = spans[s].parent /\ spans[s].parent # Tx
      BY <1>3, <2>1 DEF Real
    <3>2. spans[spans[s].parent].kind = "real"
      BY <3>1 DEF Dropping, Real
    <3>3. spans[s].parent \in Ids
      <4>1. spans[s] \in SpanType
        BY Kinds
      <4>2. spans[s].parent \in Nat /\ spans[s].parent < s
        BY <4>1 DEF SpanType, Base, Tree
      <4> QED
        BY <3>1, <4>2 DEF Base, Types, Ids, Tx
    <3> QED
      BY <1>3, <3>1, <3>2, <3>3
  <2> QED
    BY <2>1
<1>7. \A s \in Range(stack') :
        spans'[s].parent # Tx => spans'[s].parent \in Range(stack')
  <2>1. ASSUME NEW s \in Range(stack'), spans'[s].parent # Tx
        PROVE  spans'[s].parent \in Range(stack')
    <3>1. s \in Range(stack) /\ s \in Ids /\ s < t
      BY <1>1
    <3>2. spans[s].parent \in Range(stack) /\ spans'[s].parent = spans[s].parent
      BY <1>3, <2>1, <3>1 DEF Dropping
    <3>3. spans[s].parent < s /\ spans[s].parent \in Ids
      BY <1>1, <3>1, <3>2 DEF Base, Tree
    <3>4. spans[s].parent # t
      BY <1>1, <3>1, <3>3 DEF Ids
    <3> QED
      BY <3>2, <3>4
  <2> QED
    BY <2>1
<1> QED
  BY <1>3, <1>4, <1>5, <1>6, <1>7 DEF Dropping, Real

\* What the bridge has left stays.
LEMMA LeakedStays ==
  ASSUME Ids \subseteq Ids', \A s \in Ids : Kin(spans[s], spans'[s])
  PROVE  Leaked => Leaked'
<1> SUFFICES ASSUME Leaked
             PROVE  Leaked'
  OBVIOUS
<1>1. PICK s \in Ids : spans[s].bridge /\ spans[s].kind # "real"
  BY DEF Leaked, Real, Ids
<1>2. s \in Ids' /\ spans'[s].bridge /\ spans'[s].kind # "real"
  BY <1>1 DEF Kin
<1> QED
  BY <1>2 DEF Leaked, Real, Ids

\* A span that ends is not lost, and kept if it may not be thrown away.
LEMMA FatedPop ==
  ASSUME Base, Dropping, Fated, NEW t \in Ids, Settles(t),
         \A s \in Ids \ {t} : spans'[s].outcome = spans[s].outcome
  PROVE  Fated'
<1>1. /\ Len(spans') = Len(spans) /\ \A s \in Ids : Kin(spans[s], spans'[s])
      /\ \A s \in Ids : spans'[s].marked = spans[s].marked
      /\ \A s \in Ids \ {t} : spans'[s].ended = spans[s].ended
                              /\ spans'[s].fate = spans[s].fate
      /\ ~Real(t) => spans'[t].fate = spans[t].fate
      /\ Real(t) /\ (spans[t].parent = Tx \/ Real(spans[t].parent)) => spans'[t].fate # "lost"
      /\ Real(t) /\ ~Discardable(spans'[t]) => spans'[t].fate \in {"lost", "sent", "cancelled"}
  BY DEF Settles
<1>2. Ids' = Ids
  BY <1>1 DEF Ids
<1>3. \A s \in Ids : spans'[s].kind = spans[s].kind /\ spans'[s].leaf = spans[s].leaf
  BY <1>1 DEF Kin
<1>4. Real(t) => spans[t].parent = Tx \/ Real(spans[t].parent)
  BY DEF Dropping
<1>5. \A s \in Ids : spans'[s].fate # "lost"
  <2>1. spans'[t].fate # "lost"
    BY <1>1, <1>4 DEF Fated
  <2> QED
    BY <1>1, <2>1 DEF Fated
<1>6. ASSUME NEW s \in Ids, spans'[s].kind = "real", spans'[s].ended,
             ~Discardable(spans'[s])
      PROVE  spans'[s].fate \in {"sent", "cancelled"}
  <2>1. Real(s)
    BY <1>3, <1>6 DEF Real
  <2>2. CASE s = t
    BY <1>1, <1>5, <1>6, <2>1, <2>2
  <2>3. CASE s # t
    <3>1. /\ spans[s].ended /\ spans'[s].fate = spans[s].fate
          /\ spans'[s].leaf = spans[s].leaf /\ spans'[s].marked = spans[s].marked
          /\ spans'[s].outcome = spans[s].outcome
      BY <1>1, <1>3, <1>6, <2>3
    <3>2. ~Discardable(spans[s])
      BY <1>6, <3>1 DEF Discardable
    <3>3. Kept(s)
      BY <2>1, <3>1, <3>2 DEF Fated
    <3> QED
      BY <3>1, <3>3 DEF Kept, Ids
  <2> QED
    BY <2>2, <2>3
<1> QED
  BY <1>2, <1>5, <1>6 DEF Fated, Real, Kept, Discardable

LEMMA EndSound ==
  ASSUME Base, Sound, Return \/ Unwind
  PROVE  Sound'
<1>1. PICK t : t = Ending(Innermost)
  OBVIOUS
<1>2. /\ Settles(t) /\ t \in Ids /\ frames # <<>> /\ frames' = Front(frames)
      /\ service' = service /\ sent' = sent /\ ~NothingToEnd(Innermost)
  <2>1. Return => Settles(t) /\ t \in Ids
    BY <1>1, ReturnFacts
  <2>2. Unwind => Settles(t) /\ t \in Ids
    BY <1>1, UnwindFacts
  <2> QED
    BY <2>1, <2>2 DEF Return, Unwind, Pop
<1>3. t = Active /\ t = Innermost.span /\ stack # <<>> /\ t \in Range(stack)
  BY <1>1, <1>2, EndsItsOwn, EndingFacts, StackIds DEF Sound
<1>4. Range(stack') = Range(stack) \ {t}
  <2>1. stack' = Front(stack)
    BY <1>2, <1>3 DEF Settles
  <2> QED
    BY <1>3, <2>1, ActiveFacts
<1>5. Matched'
  BY <1>2, <1>3, <1>4, MatchedPop DEF Sound
<1>6. Dropping'
  BY <1>2, <1>3, <1>4, DroppingPop DEF Sound
<1>7. \A s \in Ids \ {t} : spans'[s].outcome = spans[s].outcome
  BY <1>2, <1>3 DEF Settles
<1>8. Fated'
  BY <1>2, <1>7, FatedPop DEF Sound
<1>9. /\ Ids' = Ids /\ \A s \in Ids : Kin(spans[s], spans'[s])
      /\ \A s \in Ids : spans'[s].marked = spans[s].marked
      /\ \A s \in Ids : spans[s].ended =>
                        spans'[s].ended /\ spans'[s].fate = spans[s].fate
  <2>1. ~spans[t].ended
    BY <1>2, <1>3 DEF Sound, Matched
  <2> QED
    BY <1>2, <2>1 DEF Settles, Ids
<1>10. /\ \A m : ToldOf(m) => ToldOf(m)'
       /\ \A id : Tagged(id) => Tagged(id)'
       /\ \A e : Named(e) => Named(e)'
  BY <1>9, NamesKept
<1>11. \A m \in sent' : ToldOf(m)'
  BY <1>2, <1>10 DEF Sound, Names
<1>12. CASE Return
  <2>1. exc' = None /\ errors' = errors
    BY <1>12 DEF Return
  <2> QED
    BY <1>5, <1>6, <1>8, <1>10, <1>11, <2>1 DEF Sound, Names
<1>13. CASE Unwind
  <2>1. /\ exc \in ExcType /\ exc # None /\ errors' \in {errors, errors \cup {Error(exc)}}
        /\ exc'.tag # exc.tag =>
              \/ exc'.tag = None
              \/ /\ exc'.tag = t /\ Real(t)
                 /\ spans[t].outcome = None => spans'[t].outcome = "failure"
    BY <1>1, <1>13, UnwindFacts DEF Unwind
  <2>2. Named(Error(exc))
    BY <2>1, ErrorFacts
  <2>3. \A e \in errors' : Named(e)
    BY <2>1, <2>2 DEF Sound, Names
  <2>4. \A e \in errors' : Named(e)'
    BY <1>10, <2>3
  <2>5. CASE exc'.tag = exc.tag
    BY <1>5, <1>6, <1>8, <1>10, <1>11, <2>1, <2>4, <2>5 DEF Sound, Names
  <2>6. CASE exc'.tag # exc.tag /\ exc'.tag # None
    <3>1. exc'.tag = t /\ Real(t)
      BY <2>1, <2>6
    <3>2. spans'[t].outcome = "failure"
      BY <1>2, <1>3, <2>1, <2>6 DEF Sound, Matched
    <3>3. spans'[t].kind = "real" /\ spans'[t].ended /\ t \in Ids'
      BY <1>2, <1>9, <3>1 DEF Kin, Real, Settles
    <3>4. ~Discardable(spans'[t])
      BY <3>2 DEF Discardable
    <3>5. Kept(t)'
      BY <1>8, <3>3, <3>4 DEF Fated, Real, Discardable
    <3>6. Tagged(t)'
      BY <3>3, <3>5 DEF Tagged, Real
    <3> QED
      BY <1>5, <1>6, <1>8, <1>11, <2>4, <3>1, <3>6 DEF Sound, Names
  <2>7. CASE exc'.tag # exc.tag /\ exc'.tag = None
    BY <1>5, <1>6, <1>8, <1>11, <2>4, <2>7 DEF Sound, Names
  <2> QED
    BY <2>5, <2>6, <2>7
<1> QED
  BY <1>12, <1>13

\* A library that marks what it tells tells of a span that is active or of the
\* transaction.
LEMMA ToldFacts ==
  ASSUME Base, Sound, NEW w \in Libraries, w.marks,
         NEW n, n = Len(spans) + 1, NEW ss, ss = Append(spans, NewSpan(w))
  PROVE  \/ Told(w, ss, n) = Tx
         \/ /\ Told(w, ss, n) \in Range(stack) \cup {n}
            /\ IsReal(ss, Told(w, ss, n))
<1>1. PICK new \in SpanType : new = NewSpan(w)
  BY NewSpanFacts
<1>2. /\ spans \in Seq(SpanType) /\ Len(spans) \in Nat
      /\ \A s \in Ids : spans[s].parent < s
      /\ Range(stack) \subseteq Ids
  BY StackIds DEF Base, Types, Tree
<1>3. /\ ss \in Seq(SpanType) /\ Len(ss) = n /\ ss[n] = new /\ n \in Nat \ {0}
      /\ \A s \in Ids : ss[s] = spans[s]
  <2>1. ss = Append(spans, new)
    BY <1>1
  <2> QED
    BY <1>2, <2>1 DEF Ids
<1>4. new.parent = (IF Active = None THEN Tx ELSE Active) /\ new.parent \in 0 .. Len(spans)
  BY <1>1, NewSpanFacts
<1>5. Older(ss)
  <2>1. ASSUME NEW s \in 1 .. Len(ss)
        PROVE  ss[s].parent < s
    <3>1. CASE s = n
      BY <1>2, <1>3, <1>4, <3>1
    <3>2. CASE s # n
      <4>1. s \in Ids
        BY <1>2, <1>3, <3>2 DEF Ids
      <4> QED
        BY <1>2, <1>3, <4>1
    <3> QED
      BY <3>1, <3>2
  <2> QED
    BY <1>3, <2>1 DEF Older
<1>6. PICK C : C = {Tx, n} \cup Range(stack)
  OBVIOUS
<1>7. C \in SUBSET (0 .. Len(ss))
  BY <1>2, <1>3, <1>6 DEF Ids, Tx
<1>8. ASSUME NEW t \in C, t # Tx
      PROVE  ss[t].parent \in C
  <2>1. CASE t = n
    <3>1. Active = None \/ Active \in Range(stack)
      BY StackIds, ActiveFacts
    <3> QED
      BY <1>3, <1>4, <1>6, <2>1, <3>1
  <2>2. CASE t \in Range(stack)
    <3>1. ss[t] = spans[t]
      BY <1>2, <1>3, <2>2
    <3>2. spans[t].parent # Tx => spans[t].parent \in Range(stack)
      BY <2>2 DEF Sound, Dropping
    <3> QED
      BY <1>6, <3>1, <3>2
  <2> QED
    BY <1>6, <1>8, <2>1, <2>2
<1>9. n \in C
  BY <1>6
<1>10. /\ Enclosing(ss, n) \in C
       /\ Enclosing(ss, n) = Tx \/ IsReal(ss, Enclosing(ss, n))
  BY <1>5, <1>7, <1>8, <1>9, EnclosingFacts
<1>11. w.fallback = "enclosing"
  BY WrapperFacts, LibraryType DEF MarksItsOwn
<1>12. Told(w, ss, n) = IF IsReal(ss, n) THEN n ELSE Enclosing(ss, n)
  <2>1. n # None
    BY <1>3, NoneAssumption
  <2> QED
    BY <1>11, <2>1 DEF Told
<1> QED
  BY <1>6, <1>10, <1>12

\* What is begun in an exit span, or while the limit is exceeded, is dropped.
LEMMA UnderDropped ==
  ASSUME Base, Sound, NEW s \in Range(stack)
  PROVE  /\ spans[s].leaf => InLeaf
         /\ ~Real(s) => InLeaf \/ OverLimit
<1>1. stack # <<>> /\ (s = Active \/ s < Active) /\ Active \in Range(stack)
  BY StackIds
<1>2. Active # None
  BY <1>1, ActiveFacts
<1>3. spans[s].leaf => spans[Active].leaf
  BY <1>1 DEF Sound, Dropping
<1> QED
  BY <1>2, <1>3 DEF InLeaf, Sound, Dropping

\* Who is told of the span id.
LEMMA MessageFacts ==
  ASSUME NEW w, NEW id, NEW options
  PROVE  /\ Message(w, id, options).marks = w.marks
         /\ id # None => Message(w, id, options).tp.span_id = id
BY DEF Message, CopyFrom, TraceParent

\* What the call of a function leaves as it is, and what it adds.
Begins(w, n) ==
  /\ Len(spans') = n /\ n = Len(spans) + 1 /\ n \in Nat /\ n \notin Ids /\ n # Tx
  /\ Ids' = Ids \cup {n}
  /\ \A s \in Ids : /\ Kin(spans[s], spans'[s])
                    /\ spans'[s].ended = spans[s].ended
                    /\ spans'[s].outcome = spans[s].outcome
                    /\ spans'[s].fate = spans[s].fate
                    /\ spans[s].marked => spans'[s].marked
                    /\ spans'[s].marked # spans[s].marked => s \in Range(stack)
  /\ ~spans'[n].ended /\ spans'[n].outcome = None /\ spans'[n].fate = "open"
  /\ spans'[n].bridge = (w.span = "bridge")
  /\ spans'[n].kind = "real" <=> ~InLeaf /\ ~OverLimit
  /\ spans'[n].parent = IF Active = None THEN Tx ELSE Active
  /\ InLeaf => spans'[n].leaf
  /\ Range(stack') = Range(stack) \cup {n}
  /\ tx'.counter = IF spans'[n].kind = "real" THEN tx.counter + 1 ELSE tx.counter

LEMMA BeginsFacts ==
  ASSUME Base, Sound, NEW w \in Libraries, CallTraced(w),
         NEW n, n = Len(spans) + 1, NEW ss, ss = Append(spans, NewSpan(w))
  PROVE  Begins(w, n)
<1>0. Len(spans) \in Nat
  BY DEF Base, Types
<1>c. Called(w, n, ss)
  BY CallFacts
<1>1. /\ Len(spans') = n /\ n \in Nat /\ ss[n] = NewSpan(w)
      /\ \A s \in Ids : ss[s] = spans[s]
      /\ stack' = Append(stack, n) /\ tx' = Counted(NewSpan(w))
      /\ \A s \in 1 .. n :
           /\ Kin(ss[s], spans'[s]) /\ spans'[s].ended = ss[s].ended
           /\ spans'[s].outcome = ss[s].outcome /\ spans'[s].fate = ss[s].fate
           /\ ss[s].marked => spans'[s].marked
           /\ spans'[s].marked # ss[s].marked => w.marks /\ s = Told(w, ss, n)
  BY <1>c DEF Called
<1>2. /\ Ids' = Ids \cup {n} /\ n \notin Ids /\ n # Tx /\ \A s \in Ids : s \in 1 .. n /\ s # n /\ s # Tx
      /\ n \in 1 .. n
  BY <1>0, <1>1 DEF Ids, Tx
<1>3. PICK new \in SpanType : new = NewSpan(w)
  BY NewSpanFacts
<1>4. /\ new.parent = IF Active = None THEN Tx ELSE Active
      /\ ~new.ended /\ new.outcome = None /\ new.fate = "open"
      /\ new.bridge = (w.span = "bridge")
      /\ new.kind = "real" <=> ~InLeaf /\ ~OverLimit
      /\ InLeaf => new.leaf
  BY <1>3, NewSpanFacts
<1>5. /\ Kin(new, spans'[n]) /\ spans'[n].ended = new.ended
      /\ spans'[n].outcome = new.outcome /\ spans'[n].fate = new.fate
  BY <1>1, <1>2, <1>3
<1>6. Range(stack') = Range(stack) \cup {n}
  <2>1. stack \in Seq(Nat)
    BY DEF Base, Types, Ids
  <2>2. /\ DOMAIN stack' = 1 .. Len(stack) + 1 /\ Len(stack) \in Nat
        /\ DOMAIN stack = 1 .. Len(stack)
        /\ \A i \in 1 .. Len(stack) : stack'[i] = stack[i]
        /\ stack'[Len(stack) + 1] = n
    BY <1>1, <2>1 DEF Base
  <2>3. \A i \in 1 .. Len(stack) + 1 : i \in 1 .. Len(stack) \/ i = Len(stack) + 1
    BY <2>2
  <2>4. /\ Len(stack) + 1 \in 1 .. Len(stack) + 1
        /\ \A i \in 1 .. Len(stack) : i \in 1 .. Len(stack) + 1
    BY <2>2
  <2>5. ASSUME NEW x
        PROVE  (\E i \in DOMAIN stack' : x = stack'[i]) <=>
                 (\E i \in DOMAIN stack : x = stack[i]) \/ x = n
    BY <2>2, <2>3, <2>4, Zenon
  <2> QED
    BY <2>5 DEF Range
<1>7. ASSUME NEW s \in Ids
      PROVE  /\ Kin(spans[s], spans'[s])
             /\ spans'[s].ended = spans[s].ended
             /\ spans'[s].outcome = spans[s].outcome
             /\ spans'[s].fate = spans[s].fate
             /\ spans[s].marked => spans'[s].marked
             /\ spans'[s].marked # spans[s].marked => s \in Range(stack)
  <2>1. /\ Kin(spans[s], spans'[s])
        /\ spans'[s].ended = spans[s].ended
        /\ spans'[s].outcome = spans[s].outcome
        /\ spans'[s].fate = spans[s].fate
        /\ spans[s].marked => spans'[s].marked
        /\ spans'[s].marked # spans[s].marked => w.marks /\ s = Told(w, ss, n)
    BY <1>1, <1>2
  <2>2. w.marks => Told(w, ss, n) = Tx \/ Told(w, ss, n) \in Range(stack) \cup {n}
    BY ToldFacts
  <2> QED
    BY <1>2, <2>1, <2>2
<1>8. tx'.counter = IF new.kind = "real" THEN tx.counter + 1 ELSE tx.counter
  <2>1. IsTx(tx) /\ tx' = Counted(new)
    BY <1>1, <1>3 DEF Base, Types
  <2>2. new.kind \in {"real", "dropped"}
    BY DEF SpanType
  <2> QED
    BY <2>1, <2>2, CountedFacts
<1> QED
  BY <1>1, <1>2, <1>4, <1>5, <1>6, <1>7, <1>8 DEF Begins, Kin

LEMMA MatchedPush ==
  ASSUME Base, Sound, NEW w \in Libraries, NEW n, Begins(w, n),
         frames' = Append(frames, Frame(w, n))
  PROVE  Matched'
<1>1. /\ n = Len(spans) + 1 /\ n \in Nat /\ n \notin Ids /\ Ids' = Ids \cup {n}
      /\ \A s \in Ids : /\ Kin(spans[s], spans'[s])
                        /\ spans'[s].ended = spans[s].ended
                        /\ spans'[s].outcome = spans[s].outcome
      /\ ~spans'[n].ended /\ spans'[n].outcome = None
      /\ spans'[n].bridge = (w.span = "bridge")
      /\ Range(stack') = Range(stack) \cup {n}
  BY DEF Begins
<1>2. /\ Len(frames) \in Nat /\ DOMAIN frames = 1 .. Len(frames)
      /\ DOMAIN frames' = 1 .. Len(frames) + 1
      /\ \A i \in DOMAIN frames : frames'[i] = frames[i]
      /\ frames'[Len(frames) + 1].wrapper = w /\ frames'[Len(frames) + 1].span = n
      /\ \A i \in DOMAIN frames : frames[i].span \in Ids \cup {None}
  <2>1. frames \in Seq(FrameType)
    BY DEF Base, Types
  <2>2. n \in Nat \cup {None}
    BY <1>1
  <2>3. /\ frames' \in Seq(FrameType)
        /\ Len(frames') = Len(frames) + 1 /\ Len(frames) \in Nat
        /\ \A i \in 1 .. Len(frames) : frames'[i] = frames[i]
        /\ frames'[Len(frames) + 1] = Frame(w, n)
        /\ Frame(w, n).wrapper = w /\ Frame(w, n).span = n
    BY <2>2, PushFacts
  <2>4. \A i \in DOMAIN frames : frames[i].span \in Ids \cup {None}
    BY DEF Base, Types
  <2> QED
    BY <2>1, <2>3, <2>4
<1>3. PICK top : top = Len(frames) + 1
  OBVIOUS
<1>4. /\ DOMAIN frames' = DOMAIN frames \cup {top} /\ top \notin DOMAIN frames
      /\ \A i \in DOMAIN frames : i < top
      /\ \A i, j \in DOMAIN frames : i < j => i # top /\ j # top
  BY <1>2, <1>3
<1>5. FrameSpans' = FrameSpans \cup {n}
  <2>1. {frames'[i].span : i \in DOMAIN frames'} =
          {frames[i].span : i \in DOMAIN frames} \cup {n}
    BY <1>2, <1>3, <1>4
  <2>2. n # None
    BY <1>1, NoneAssumption
  <2> QED
    BY <2>1, <2>2 DEF FrameSpans
<1>6. ASSUME NEW i \in DOMAIN frames', NEW j \in DOMAIN frames', i < j,
             frames'[i].span # None, frames'[j].span # None
      PROVE  frames'[i].span < frames'[j].span
  <2>1. i \in DOMAIN frames
    BY <1>2, <1>3, <1>4, <1>6
  <2>2. CASE j = top
    <3>1. frames'[i].span \in Ids /\ frames'[j].span = n
      BY <1>2, <1>3, <1>6, <2>1, <2>2
    <3>2. Len(spans) \in Nat
      BY DEF Base, Types
    <3> QED
      BY <1>1, <3>1, <3>2 DEF Ids
  <2>3. CASE j # top
    BY <1>2, <1>4, <1>6, <2>1, <2>3 DEF Sound, Matched
  <2> QED
    BY <2>2, <2>3
<1>7. ASSUME NEW i \in DOMAIN frames', frames'[i].span # None
      PROVE  spans'[frames'[i].span].bridge <=> frames'[i].wrapper.span = "bridge"
  <2>1. CASE i = top
    BY <1>1, <1>2, <1>3, <2>1
  <2>2. CASE i # top
    <3>1. i \in DOMAIN frames /\ frames'[i] = frames[i]
      BY <1>2, <1>4, <2>2
    <3>2. frames[i].span \in Ids
      BY <1>2, <1>7, <3>1
    <3>3. spans'[frames[i].span].bridge = spans[frames[i].span].bridge
      BY <1>1, <3>2 DEF Kin
    <3> QED
      BY <1>7, <3>1, <3>3 DEF Sound, Matched
  <2> QED
    BY <2>1, <2>2
<1>8. Range(stack') = FrameSpans'
  BY <1>1, <1>5 DEF Sound, Matched
<1>9. \A s \in Ids' : spans'[s].ended <=> s \notin Range(stack')
  BY <1>1 DEF Sound, Matched
<1>10. \A s \in Ids' : ~spans'[s].ended => spans'[s].outcome = None
  BY <1>1 DEF Sound, Matched
<1> QED
  BY <1>6, <1>7, <1>8, <1>9, <1>10 DEF Matched

LEMMA DroppingPush ==
  ASSUME Base, Sound, NEW w \in Libraries, NEW n, Begins(w, n), service' = service
  PROVE  Dropping'
<1>1. /\ n = Len(spans) + 1 /\ n \in Nat /\ n \notin Ids /\ Ids' = Ids \cup {n}
      /\ \A s \in Ids : Kin(spans[s], spans'[s])
      /\ spans'[n].kind = "real" <=> ~InLeaf /\ ~OverLimit
      /\ spans'[n].parent = IF Active = None THEN Tx ELSE Active
      /\ InLeaf => spans'[n].leaf
      /\ Range(stack') = Range(stack) \cup {n}
      /\ tx'.counter = IF spans'[n].kind = "real" THEN tx.counter + 1 ELSE tx.counter
  BY DEF Begins
<1>2. /\ Range(stack) \subseteq Ids
      /\ \A s \in Ids : s \in Nat /\ s < n
  BY <1>1, StackIds DEF Ids, Base, Types
<1>3. \A s \in Ids : /\ spans'[s].kind = spans[s].kind /\ spans'[s].leaf = spans[s].leaf
                     /\ spans'[s].parent = spans[s].parent
  BY <1>1 DEF Kin
<1>4. \A s \in Range(stack) :
        /\ spans[s].leaf => spans'[n].leaf /\ spans'[n].kind # "real"
        /\ spans[s].kind # "real" => spans'[n].kind # "real"
  BY <1>1, UnderDropped DEF Real
<1>5. ASSUME NEW s \in Range(stack'), NEW u \in Range(stack'), s < u
      PROVE  /\ spans'[s].kind # "real" => spans'[u].kind # "real"
             /\ spans'[s].leaf => spans'[u].leaf /\ spans'[u].kind # "real"
  <2>1. s \in Range(stack)
    BY <1>1, <1>2, <1>5
  <2>2. CASE u = n
    BY <1>2, <1>3, <1>4, <2>1, <2>2
  <2>3. CASE u # n
    <3>1. u \in Range(stack)
      BY <1>1, <2>3
    <3> QED
      BY <1>2, <1>3, <1>5, <2>1, <3>1 DEF Sound, Dropping, Real
  <2> QED
    BY <2>2, <2>3
<1>6. ASSUME NEW s \in Range(stack'), spans'[s].kind # "real"
      PROVE  spans'[s].leaf \/ OverLimit'
  <2>1. OverLimit => OverLimit'
    <3>1. tx.counter \in Int /\ conf.limit \in Nat /\ conf' = conf
      BY ConfType DEF Base, Types, IsTx, conf
    <3>2. tx'.counter = tx.counter \/ tx'.counter = tx.counter + 1
      BY <1>1
    <3> QED
      BY <3>1, <3>2 DEF OverLimit
  <2>2. CASE s = n
    BY <1>1, <1>6, <2>1, <2>2
  <2>3. CASE s \in Range(stack)
    BY <1>2, <1>3, <1>6, <2>1, <2>3 DEF Sound, Dropping, Real
  <2> QED
    BY <1>1, <2>2, <2>3
<1>7. ASSUME NEW s \in Ids', spans'[s].kind = "real", spans'[s].parent # Tx
      PROVE  spans'[spans'[s].parent].kind = "real"
  <2>1. CASE s = n
    <3>1. /\ Active # None /\ spans'[s].parent = Active /\ ~InLeaf /\ ~OverLimit
      BY <1>1, <1>7, <2>1
    <3>2. Active \in Range(stack)
      BY <3>1, StackIds, ActiveFacts
    <3>3. Real(Active)
      BY <3>1, <3>2, UnderDropped
    <3> QED
      BY <1>2, <1>3, <3>1, <3>2, <3>3 DEF Real
  <2>2. CASE s \in Ids
    <3>1. /\ Real(s) /\ spans'[s].parent = spans[s].parent /\ spans[s].parent # Tx
      BY <1>3, <1>7, <2>2 DEF Real
    <3>2. spans[spans[s].parent].kind = "real"
      BY <2>2, <3>1 DEF Sound, Dropping, Real
    <3>3. spans[s].parent \in Ids
      <4>1. spans[s] \in SpanType
        BY <2>2, Kinds
      <4>2. spans[s].parent \in Nat /\ spans[s].parent < s
        BY <2>2, <4>1 DEF SpanType, Base, Tree
      <4> QED
        BY <2>2, <3>1, <4>2 DEF Base, Types, Ids, Tx
    <3> QED
      BY <1>3, <3>1, <3>2, <3>3
  <2> QED
    BY <1>1, <2>1, <2>2
<1>8. ASSUME NEW s \in Range(stack'), spans'[s].parent # Tx
      PROVE  spans'[s].parent \in Range(stack')
  <2>1. CASE s = n
    <3>1. Active # None /\ spans'[s].parent = Active
      BY <1>1, <1>8, <2>1
    <3> QED
      BY <1>1, <3>1, StackIds, ActiveFacts
  <2>2. CASE s \in Range(stack)
    <3>1. s \in Ids
      BY <1>2, <2>2
    <3>2. spans'[s].parent = spans[s].parent
      BY <1>3, <3>1
    <3>3. spans[s].parent \in Range(stack)
      BY <1>8, <2>2, <3>2 DEF Sound, Dropping
    <3> QED
      BY <1>1, <3>2, <3>3
  <2> QED
    BY <1>1, <2>1, <2>2
<1> QED
  BY <1>5, <1>6, <1>7, <1>8 DEF Dropping, Real

\* Only spans that are active are marked.
LEMMA FatedPush ==
  ASSUME Base, Sound, NEW w \in Libraries, NEW n, Begins(w, n)
  PROVE  Fated'
<1>1. /\ Ids' = Ids \cup {n}
      /\ \A s \in Ids : /\ Kin(spans[s], spans'[s])
                        /\ spans'[s].ended = spans[s].ended
                        /\ spans'[s].outcome = spans[s].outcome
                        /\ spans'[s].fate = spans[s].fate
                        /\ spans'[s].marked # spans[s].marked => s \in Range(stack)
      /\ ~spans'[n].ended /\ spans'[n].fate = "open"
  BY DEF Begins
<1>2. \A s \in Ids' : spans'[s].fate # "lost"
  BY <1>1 DEF Sound, Fated
<1>3. ASSUME NEW s \in Ids', spans'[s].kind = "real", spans'[s].ended,
             ~Discardable(spans'[s])
      PROVE  spans'[s].fate \in {"sent", "cancelled"}
  <2>1. s \in Ids
    BY <1>1, <1>3
  <2>2. /\ spans'[s].ended = spans[s].ended /\ spans'[s].outcome = spans[s].outcome
        /\ spans'[s].fate = spans[s].fate
        /\ spans'[s].kind = spans[s].kind /\ spans'[s].leaf = spans[s].leaf
    BY <1>1, <2>1 DEF Kin
  <2>3. s \notin Range(stack)
    BY <1>3, <2>1, <2>2 DEF Sound, Matched
  <2>4. spans'[s].marked = spans[s].marked
    BY <1>1, <2>1, <2>3
  <2>5. ~Discardable(spans[s])
    BY <1>3, <2>2, <2>4 DEF Discardable
  <2>6. Kept(s)
    BY <1>3, <2>1, <2>2, <2>5 DEF Sound, Fated, Real
  <2> QED
    BY <2>1, <2>2, <2>6 DEF Kept, Ids
<1> QED
  BY <1>2, <1>3 DEF Fated, Real, Kept, Discardable

LEMMA CallSound ==
  ASSUME Base, Sound, NEW w \in Callable, CallTraced(w)
  PROVE  Sound'
<1>1. /\ w \in Libraries /\ exc = None
      /\ service' = service /\ exc' = exc /\ errors' = errors
  BY ConfType DEF Base, Types, Callable, CallTraced
<1>2. PICK n : n = Len(spans) + 1
  OBVIOUS
<1>3. PICK ss : ss = Append(spans, NewSpan(w))
  OBVIOUS
<1>4. Begins(w, n)
  BY <1>1, <1>2, <1>3, BeginsFacts
<1>5. Called(w, n, ss)
  BY <1>1, <1>2, <1>3, CallFacts
<1>6. Matched'
  BY <1>1, <1>4, <1>5, MatchedPush DEF Called
<1>7. Dropping'
  BY <1>1, <1>4, DroppingPush
<1>8. Fated'
  BY <1>1, <1>4, FatedPush
<1>9. /\ \A m : ToldOf(m) => ToldOf(m)'
      /\ \A e : Named(e) => Named(e)'
  <2>1. /\ Ids \subseteq Ids'
        /\ \A s \in Ids : /\ Kin(spans[s], spans'[s])
                          /\ spans[s].marked => spans'[s].marked
                          /\ spans[s].ended =>
                               spans'[s].ended /\ spans'[s].fate = spans[s].fate
    BY <1>4 DEF Begins
  <2> QED
    BY <2>1, NamesKept
<1>10. PICK id : id = Told(w, ss, n)
  OBVIOUS
<1>11. PICK message : /\ message.marks = w.marks
                      /\ id # None => message.tp.span_id = id
                      /\ sent' = sent \/ (id # None /\ sent' = sent \cup {message})
  <2>1. sent' \in Inform(w, ss, n)
    BY <1>5 DEF Called
  <2>2. PICK options : sent' = sent
                         \/ (id # None /\ sent' = sent \cup {Message(w, id, options)})
    BY <1>10, <2>1 DEF Inform
  <2>3. PICK m : m = Message(w, id, options)
    OBVIOUS
  <2>4. m.marks = w.marks /\ (id # None => m.tp.span_id = id)
    BY <2>3, MessageFacts
  <2> QED
    BY <2>2, <2>3, <2>4
<1>12. id # None => ToldOf(message)'
  <2>1. SUFFICES ASSUME w.marks, id # None, id # Tx
                 PROVE  id \in Ids' /\ spans'[id].kind = "real" /\ spans'[id].marked
    BY <1>11 DEF ToldOf, Real
  <2>2. id \in Range(stack) \cup {n} /\ IsReal(ss, id)
    BY <1>1, <1>2, <1>3, <1>10, <2>1, ToldFacts
  <2>3. /\ Len(spans) \in Nat /\ Range(stack) \subseteq Ids
    BY StackIds DEF Base, Types
  <2>4. id \in 1 .. n /\ id \in Ids'
    BY <1>2, <1>4, <2>2, <2>3 DEF Ids, Begins
  <2>5. Kin(ss[id], spans'[id]) /\ spans'[id].marked
    BY <1>5, <1>10, <2>1, <2>4 DEF Called
  <2> QED
    BY <2>2, <2>4, <2>5 DEF Kin, IsReal
<1>13. \A m \in sent' : ToldOf(m)'
  BY <1>9, <1>11, <1>12 DEF Sound, Names
<1>14. \A e \in errors' : Named(e)'
  BY <1>1, <1>9 DEF Sound, Names
<1> QED
  BY <1>1, <1>6, <1>7, <1>8, <1>13, <1>14 DEF Sound, Names

\* A function is called that has no span, or one returns that has none.
LEMMA PlainSound ==
  ASSUME Base, Sound,
         UNCHANGED <<stack, service>>, tx'.counter = tx.counter,
         FrameSpans' = FrameSpans,
         \A i \in DOMAIN frames' :
           frames'[i].span # None => i \in DOMAIN frames /\ frames'[i] = frames[i],
         Len(spans') = Len(spans),
         \A s \in Ids : /\ Kin(spans[s], spans'[s])
                        /\ spans'[s].marked = spans[s].marked
                        /\ spans'[s].outcome = spans[s].outcome
                        /\ spans'[s].ended = spans[s].ended
                        /\ spans'[s].fate = spans[s].fate,
         \A m \in sent' : m \in sent \/ ToldOf(m)',
         \A e \in errors' : Named(e),
         exc' # None => exc'.tag = None \/ (exc # None /\ exc'.tag = exc.tag)
  PROVE  Sound'
<1>1. Ids' = Ids /\ Range(stack') = Range(stack) /\ Range(stack) \subseteq Ids
  BY StackIds DEF Ids
<1>2. \A s \in Ids : /\ spans'[s].kind = spans[s].kind /\ spans'[s].leaf = spans[s].leaf
                     /\ spans'[s].parent = spans[s].parent
                     /\ spans'[s].bridge = spans[s].bridge
  BY DEF Kin
<1>3. \A s \in Ids : /\ spans'[s].marked = spans[s].marked
                     /\ spans'[s].outcome = spans[s].outcome
                     /\ spans'[s].ended = spans[s].ended
                     /\ spans'[s].fate = spans[s].fate
  OBVIOUS
<1>4. Matched'
  <2>1. ASSUME NEW i \in DOMAIN frames', NEW j \in DOMAIN frames', i < j,
               frames'[i].span # None, frames'[j].span # None
        PROVE  frames'[i].span < frames'[j].span
    <3>1. /\ i \in DOMAIN frames /\ frames'[i] = frames[i]
          /\ j \in DOMAIN frames /\ frames'[j] = frames[j]
      BY <2>1
    <3> QED
      BY <2>1, <3>1 DEF Sound, Matched
  <2>2. ASSUME NEW i \in DOMAIN frames', frames'[i].span # None
        PROVE  spans'[frames'[i].span].bridge <=> frames'[i].wrapper.span = "bridge"
    <3>1. i \in DOMAIN frames /\ frames'[i] = frames[i]
      BY <2>2
    <3>2. frames[i].span \in Ids
      BY <2>2, <3>1 DEF Base, Types
    <3>3. spans'[frames[i].span].bridge = spans[frames[i].span].bridge
      BY <1>2, <3>2
    <3> QED
      BY <2>2, <3>1, <3>3 DEF Sound, Matched
  <2>3. Range(stack') = FrameSpans'
    BY <1>1 DEF Sound, Matched
  <2>4. \A s \in Ids : spans'[s].ended <=> s \notin Range(stack)
    BY <1>3 DEF Sound, Matched
  <2>5. \A s \in Ids : ~spans'[s].ended => spans'[s].outcome = None
    BY <1>3 DEF Sound, Matched
  <2> QED
    BY <1>1, <2>1, <2>2, <2>3, <2>4, <2>5 DEF Matched
<1>5. Dropping'
  <2>1. OverLimit' = OverLimit
    BY DEF OverLimit, conf
  <2>2. /\ \A s, t \in Range(stack) : s < t /\ spans'[s].kind # "real" => spans'[t].kind # "real"
        /\ \A s, t \in Range(stack) :
             s < t /\ spans'[s].leaf => spans'[t].leaf /\ spans'[t].kind # "real"
        /\ \A s \in Range(stack) : spans'[s].kind # "real" => spans'[s].leaf \/ OverLimit'
        /\ \A s \in Range(stack) :
             spans'[s].parent # Tx => spans'[s].parent \in Range(stack)
    BY <1>1, <1>2, <2>1 DEF Sound, Dropping, Real
  <2>3. ASSUME NEW s \in Ids, spans'[s].kind = "real", spans'[s].parent # Tx
        PROVE  spans'[spans'[s].parent].kind = "real"
    <3>1. /\ Real(s) /\ spans'[s].parent = spans[s].parent /\ spans[s].parent # Tx
      BY <1>2, <2>3 DEF Real
    <3>2. spans[spans[s].parent].kind = "real"
      BY <3>1 DEF Sound, Dropping, Real
    <3>3. spans[s].parent \in Ids
      <4>1. spans[s] \in SpanType
        BY Kinds
      <4>2. spans[s].parent \in Nat /\ spans[s].parent < s
        BY <4>1 DEF SpanType, Base, Tree
      <4> QED
        BY <3>1, <4>2 DEF Base, Types, Ids, Tx
    <3> QED
      BY <1>2, <3>1, <3>2, <3>3
  <2> QED
    BY <1>1, <2>2, <2>3 DEF Dropping, Real
<1>6. Fated'
  <2>1. \A s \in Ids : spans'[s].fate # "lost"
    BY <1>3 DEF Sound, Fated
  <2>2. ASSUME NEW s \in Ids, spans'[s].kind = "real", spans'[s].ended,
               ~Discardable(spans'[s])
        PROVE  spans'[s].fate \in {"sent", "cancelled"}
    <3>1. Real(s) /\ spans[s].ended /\ ~Discardable(spans[s])
      BY <1>2, <1>3, <2>2 DEF Real, Discardable
    <3>2. Kept(s)
      BY <3>1 DEF Sound, Fated
    <3> QED
      BY <1>3, <3>2 DEF Kept, Ids
  <2> QED
    BY <1>1, <2>1, <2>2 DEF Fated, Real, Kept, Discardable
<1>7. /\ \A m : ToldOf(m) => ToldOf(m)'
      /\ \A id : Tagged(id) => Tagged(id)'
      /\ \A e : Named(e) => Named(e)'
  BY <1>1, <1>3, NamesKept
<1>8. Names'
  BY <1>7 DEF Sound, Names
<1> QED
  BY <1>4, <1>5, <1>6, <1>8 DEF Sound

LEMMA StillClean ==
  ASSUME Base, Clean, UNCHANGED <<service, spans, stack, frames, sent>>,
         tx'.counter = tx.counter,
         errors' = errors \/ (exc # None /\ errors' = errors \cup {Error(exc)}),
         exc' # None => exc'.tag = None \/ (exc # None /\ exc'.tag = exc.tag)
  PROVE  Clean'
<1>1. Leaked' = Leaked
  BY DEF Leaked, Real
<1>2. SUFFICES ASSUME Sound
               PROVE  Sound'
  BY <1>1 DEF Clean
<1>3. \A s \in Ids : Kin(spans[s], spans'[s])
  BY DEF Kin
<1>4. \A e \in errors' : Named(e)
  <2>1. exc # None => Named(Error(exc))
    BY <1>2, ErrorFacts DEF Base, Types
  <2> QED
    BY <1>2, <2>1 DEF Sound, Names
<1>5. FrameSpans' = FrameSpans
  BY DEF FrameSpans
<1>6. \A i \in DOMAIN frames' :
        frames'[i].span # None => i \in DOMAIN frames /\ frames'[i] = frames[i]
  OBVIOUS
<1>7. \A s \in Ids : /\ Kin(spans[s], spans'[s])
                     /\ spans'[s].marked = spans[s].marked
                     /\ spans'[s].outcome = spans[s].outcome
                     /\ spans'[s].ended = spans[s].ended
                     /\ spans'[s].fate = spans[s].fate
  BY <1>3
<1>8. Len(spans') = Len(spans) /\ \A m \in sent' : m \in sent \/ ToldOf(m)'
  OBVIOUS
<1> QED
  BY <1>2, <1>4, <1>5, <1>6, <1>7, <1>8, PlainSound

LEMMA BeginClean ==
  ASSUME Base, Clean, NEW c, NEW up, Begin(c, up) \/ BeginRaises(c, up) \/ BeginUntraced(c)
  PROVE  Clean'
<1>1. /\ phase = "idle"
      /\ UNCHANGED <<spans, stack, frames, exc, sent, errors>>
  BY DEF Begin, BeginRaises, BeginUntraced
<1>2. /\ spans' = <<>> /\ stack' = <<>> /\ frames' = <<>>
      /\ exc' = None /\ sent' = {} /\ errors' = {}
  BY <1>1 DEF Base, Blank
<1> QED
  BY <1>2 DEF Clean, Sound, Matched, Dropping, Fated, Names, FrameSpans, Ids, Range

LEMMA EndClean ==
  ASSUME Base, Clean, Return \/ Unwind
  PROVE  Clean'
<1>1. PICK t : t = Ending(Innermost)
  OBVIOUS
<1>2. Settles(t)
  <2>1. Return => Settles(t)
    BY <1>1, ReturnFacts
  <2>2. Unwind => Settles(t)
    BY <1>1, UnwindFacts
  <2> QED
    BY <2>1, <2>2
<1>3. Ids \subseteq Ids' /\ \A s \in Ids : Kin(spans[s], spans'[s])
  BY <1>2 DEF Settles, Ids
<1> QED
  BY <1>3, LeakedStays, EndSound DEF Clean

LEMMA CallClean ==
  ASSUME Base, Clean, NEW w \in Callable, CallTraced(w)
  PROVE  Clean'
<1>1. w \in Libraries
  BY ConfType DEF Base, Types, Callable
<1>2. PICK n : n = Len(spans) + 1
  OBVIOUS
<1>3. PICK ss : ss = Append(spans, NewSpan(w))
  OBVIOUS
<1>4. Called(w, n, ss)
  BY <1>1, <1>2, <1>3, CallFacts
<1>5. Ids \subseteq Ids' /\ Ids \subseteq 1 .. n
  BY <1>2, <1>4 DEF Ids, Called, Base, Types
<1>6. \A s \in Ids : Kin(spans[s], spans'[s])
  BY <1>4, <1>5 DEF Called
<1> QED
  BY <1>5, <1>6, LeakedStays, CallSound DEF Clean

LEMMA PlainCallClean ==
  ASSUME Base, Clean, NEW w \in Callable, CallUntraced(w) \/ CallThrough(w)
  PROVE  Clean'
<1>1. /\ w \in Libraries
      /\ UNCHANGED <<service, tx, stack, exc, errors>> /\ exc = None
      /\ frames' = Append(frames, Frame(w, None))
      /\ Len(spans') = Len(spans)
      /\ \A s \in Ids : /\ Kin(spans[s], spans'[s])
                        /\ spans'[s].marked = spans[s].marked
                        /\ spans'[s].outcome = spans[s].outcome
                        /\ spans'[s].ended = spans[s].ended
                        /\ spans'[s].fate = spans[s].fate
  BY PlainCallFacts
<1>2. Leaked => Leaked'
  BY <1>1, LeakedStays DEF Ids
<1>3. SUFFICES ASSUME Sound
               PROVE  Sound'
  BY <1>2 DEF Clean
<1>4. /\ Len(frames) \in Nat /\ DOMAIN frames = 1 .. Len(frames)
      /\ DOMAIN frames' = 1 .. Len(frames) + 1
      /\ \A i \in DOMAIN frames : frames'[i] = frames[i]
      /\ frames'[Len(frames) + 1].span = None
      /\ \A i \in DOMAIN frames' : i \in DOMAIN frames \/ i = Len(frames) + 1
  <2>1. frames \in Seq(FrameType)
    BY DEF Base, Types
  <2>2. /\ frames' \in Seq(FrameType)
        /\ Len(frames') = Len(frames) + 1 /\ Len(frames) \in Nat
        /\ \A i \in 1 .. Len(frames) : frames'[i] = frames[i]
        /\ frames'[Len(frames) + 1] = Frame(w, None)
        /\ Frame(w, None).span = None
        /\ \A i \in DOMAIN frames' : i \in DOMAIN frames \/ i = Len(frames) + 1
    <3>1. None \in Nat \cup {None}
      OBVIOUS
    <3> QED
      BY <1>1, <3>1, PushFacts
  <2> QED
    BY <2>1, <2>2
<1>5. FrameSpans' = FrameSpans
  <2>1. \A i \in DOMAIN frames : i \in DOMAIN frames'
    BY <1>4
  <2>2. {frames'[i].span : i \in DOMAIN frames'} \cup {None} =
          {frames[i].span : i \in DOMAIN frames} \cup {None}
    BY <1>4, <2>1
  <2> QED
    BY <2>2 DEF FrameSpans
<1>6. \A i \in DOMAIN frames' :
        frames'[i].span # None => i \in DOMAIN frames /\ frames'[i] = frames[i]
  BY <1>4
<1>7. w.marks => w.fallback = "enclosing" /\ w.span = "exit"
  BY <1>1, LibraryType DEF MarksItsOwn
<1>8. \A m \in sent' : m \in sent \/ ToldOf(m)'
  <2>1. CASE CallUntraced(w)
    <3>1. sent' \in {sent, InformUnsampled(w)}
      BY <2>1 DEF CallUntraced
    <3>2. PICK message, options :
            /\ message = Message(w, Tx, options) \/ (~w.marks /\ message = Message(w, None, options))
            /\ sent' = sent \/ sent' = sent \cup {message}
      BY <1>7, <3>1 DEF InformUnsampled
    <3>3. Tx # None
      BY NoneAssumption DEF Tx
    <3>4. message.marks => message.tp.span_id = Tx
      BY <3>2, <3>3, MessageFacts
    <3>5. ToldOf(message)'
      BY <3>4 DEF ToldOf
    <3> QED
      BY <3>2, <3>5
  <2>2. CASE CallThrough(w)
    <3>1. ~w.marks
      BY <1>7, <2>2 DEF CallThrough
    <3>2. PICK message, id, options :
            /\ message = Message(w, id, options)
            /\ sent' = sent \/ sent' = sent \cup {message}
      BY <2>2 DEF CallThrough, Inform
    <3>3. ~message.marks
      BY <3>1, <3>2, MessageFacts
    <3>4. ToldOf(message)'
      BY <3>3 DEF ToldOf
    <3> QED
      BY <3>2, <3>4
  <2> QED
    BY <2>1, <2>2
<1>9. \A e \in errors' : Named(e)
  BY <1>1, <1>3 DEF Sound, Names
<1> QED
  BY <1>1, <1>3, <1>5, <1>6, <1>8, <1>9, PlainSound

\* If nothing was left on the stack only functions without a span have nothing
\* to end.
LEMMA PopClean ==
  ASSUME Base, Clean, ReturnUntraced \/ UnwindUntraced
  PROVE  Clean'
<1>1. /\ frames # <<>> /\ frames' = Front(frames) /\ NothingToEnd(Innermost)
      /\ UNCHANGED <<service, tx, spans, stack, exc, sent, errors>>
  BY DEF ReturnUntraced, UnwindUntraced, Pop
<1>2. Leaked' = Leaked
  BY <1>1 DEF Leaked, Real
<1>3. SUFFICES ASSUME ~Leaked, Sound
               PROVE  Sound'
  BY <1>2 DEF Clean
<1>4. Innermost.span = None
  <2>1. SUFFICES ASSUME Innermost.span # None
                 PROVE  FALSE
    OBVIOUS
  <2>2. /\ Innermost = frames[Len(frames)] /\ Len(frames) \in DOMAIN frames
        /\ Innermost.span \in Ids
    BY <1>1, <2>1, InnermostFacts DEF Base, Types
  <2>3. Innermost.span \in Range(stack)
    BY <1>3, <2>1, <2>2 DEF Sound, Matched, FrameSpans
  <2>4. Innermost.wrapper.span = "bridge" /\ ~Real(Innermost.span)
    BY <1>1, <2>1, <2>3, StackIds DEF NothingToEnd
  <2>5. spans[Innermost.span].bridge
    BY <1>3, <2>1, <2>2, <2>4 DEF Sound, Matched
  <2> QED
    BY <1>3, <2>2, <2>4, <2>5 DEF Leaked, Ids
<1>5. FrameSpans' = FrameSpans
  BY <1>1, <1>3, <1>4, SpansOfPop DEF Sound, FrameSpans
<1>6. \A i \in DOMAIN frames' :
        frames'[i].span # None => i \in DOMAIN frames /\ frames'[i] = frames[i]
  BY <1>1, PopFacts
<1>7. \A s \in Ids : /\ Kin(spans[s], spans'[s])
                     /\ spans'[s].marked = spans[s].marked
                     /\ spans'[s].outcome = spans[s].outcome
                     /\ spans'[s].ended = spans[s].ended
                     /\ spans'[s].fate = spans[s].fate
  BY <1>1 DEF Kin
<1>8. \A e \in errors' : Named(e)
  BY <1>1, <1>3 DEF Sound, Names
<1> QED
  BY <1>1, <1>3, <1>5, <1>6, <1>7, <1>8, PlainSound

LEMMA StepKeepsClean == Base /\ Clean /\ [Next]_vars => Clean'
<1> SUFFICES ASSUME Base, Clean, [Next]_vars
             PROVE  Clean'
  OBVIOUS
<1>1. ASSUME NEW c \in Carriers, NEW up \in conf.upstreams,
             Begin(c, up) \/ BeginRaises(c, up)
      PROVE  Clean'
  BY <1>1, BeginClean
<1>2. ASSUME NEW c \in Carriers, BeginUntraced(c)
      PROVE  Clean'
  BY <1>2, BeginClean
<1>3. ASSUME NEW w \in Callable, CallUntraced(w) \/ CallThrough(w)
      PROVE  Clean'
  BY <1>3, PlainCallClean
<1>4. ASSUME NEW w \in Callable, CallTraced(w)
      PROVE  Clean'
  BY <1>4, CallClean
<1>5. ASSUME NEW w \in Callable, OTelRaises(w)
      PROVE  Clean'
  <2>1. /\ UNCHANGED <<service, spans, stack, frames, sent, errors>>
        /\ exc' = [tag |-> None, class |-> "Exception"]
        /\ tx' = Counted(NewSpan(w)) /\ NewSpan(w).kind = "dropped"
    BY <1>5 DEF OTelRaises
  <2>2. w \in Libraries
    BY ConfType DEF Base, Types, Callable
  <2>3. PICK new \in SpanType : new = NewSpan(w)
    BY <2>2, NewSpanFacts
  <2>4. tx'.counter = tx.counter
    BY <2>1, <2>3, CountedFacts DEF Base, Types
  <2>5. exc'.tag = None
    BY <2>1
  <2> QED
    BY <2>1, <2>4, <2>5, StillClean
<1>6. CASE Return \/ Unwind
  BY <1>6, EndClean
<1>7. CASE ReturnUntraced \/ UnwindUntraced
  BY <1>7, PopClean
<1>8. CASE Raise
  <2>1. /\ UNCHANGED <<service, tx, spans, stack, frames, sent, errors>>
        /\ exc'.tag = None
    BY <1>8 DEF Raise
  <2> QED
    BY <2>1, StillClean
<1>9. CASE Catch
  <2>1. UNCHANGED <<service, tx, spans, stack, frames, sent, errors>> /\ exc' = None
    BY <1>9 DEF Catch
  <2> QED
    BY <2>1, StillClean
<1>10. ASSUME CaptureException, exc # None,
              UNCHANGED <<service, tx, spans, stack, frames, sent>>
       PROVE  Clean'
  <2>1. exc'.tag = None
    <3>1. exc \in ExcType
      BY <1>10 DEF Base, Types
    <3> QED
      BY <1>10, <3>1, UntaggedFacts DEF CaptureException
  <2>2. errors' = errors \/ errors' = errors \cup {Error(exc)}
    BY <1>10 DEF CaptureException
  <2> QED
    BY <1>10, <2>1, <2>2, StillClean
<1>11. CASE CatchAndCapture
  BY <1>10, <1>11 DEF CatchAndCapture
<1>12. CASE CaptureStep
  <2>1. /\ phase = "steps" /\ todo # <<>>
        /\ Head(todo).do \in {"capture", "sampled capture"}
        /\ CaptureException /\ UNCHANGED <<service, tx, spans, stack, frames, sent>>
    BY <1>12 DEF CaptureStep, Steps
  <2>2. exc # None
    BY <2>1, TailFacts DEF Base, Phases
  <2> QED
    BY <1>10, <2>1, <2>2
<1>13. ASSUME NEW i \in conf.frameworks, NEW e \in Endings, Finish(i, e)
       PROVE  Clean'
  BY <1>13, StillClean DEF Finish
<1>14. CASE Skip \/ Done
  BY <1>14, StillClean DEF Skip, Done
<1>15. CASE SetOutcome \/ EndTransaction
  <2>1. UNCHANGED <<service, spans, stack, frames, exc, sent, errors>>
    BY <1>15 DEF SetOutcome, EndTransaction
  <2>2. \/ tx' = tx
        \/ \E o : tx' = [tx EXCEPT !.outcome = o]
        \/ tx' = [tx EXCEPT !.state = "ended"]
    BY <1>15 DEF SetOutcome, EndTransaction
  <2>3. tx'.counter = tx.counter
    BY <2>2 DEF Base, Types, IsTx
  <2> QED
    BY <2>1, <2>3, StillClean
<1>16. CASE UNCHANGED vars
  BY <1>16, StillClean DEF vars
<1> QED
  BY <1>1, <1>2, <1>3, <1>4, <1>5, <1>6, <1>7, <1>8, <1>9, <1>11, <1>12, <1>13,
     <1>14, <1>15, <1>16 DEF Next

LEMMA AlwaysClean == Spec => [](Base /\ Clean)
<1>1. Init => Base /\ Clean
  BY InitBase, InitClean
<1>2. Base /\ Clean /\ [Next]_vars => (Base /\ Clean)'
  BY StepKeepsBase, StepKeepsClean
<1> QED
  BY <1>1, <1>2, PTL DEF Spec

\* When no function is active nothing is on the stack.
LEMMA NoneActive ==
  ASSUME Base, Sound, frames = <<>>
  PROVE  Range(stack) = {} /\ \A s \in Ids : spans[s].ended
BY DEF Sound, Matched, FrameSpans

\* The instrumented functions of a context end the spans that they began, each
\* its own, whichever of them were dropped and whatever was merged.
THEOREM FunctionsEndTheirOwn == Spec => []SpansSettled
<1>1. Base /\ Clean => SpansSettled
  <2> SUFFICES ASSUME Base, Clean, frames = <<>>, ~Leaked
               PROVE  \A s \in Ids : spans[s].ended /\ spans[s].fate # "lost"
    BY DEF SpansSettled, Ids
  <2>1. Sound
    BY DEF Clean
  <2> QED
    BY <2>1, NoneActive DEF Sound, Fated
<1> QED
  BY <1>1, AlwaysClean, PTL

\* A trace is not broken: of the spans that another service was told of, by a
\* library that marks what it tells, compression and exit_span_min_duration
\* throw none away.
THEOREM ToldSpansAreReported == Spec => []NamesReported
<1>1. Base /\ Clean => NamesReported
  <2> SUFFICES ASSUME Base, Clean, phase = "done", ~Leaked,
                      NEW m \in sent, m.marks, m.tp.span_id \in Ids
               PROVE  spans[m.tp.span_id].fate \in {"sent", "cancelled"}
    BY DEF NamesReported, Kept, Ids
  <2>1. Sound /\ frames = <<>>
    BY DEF Clean, Base, Phases
  <2>2. PICK id \in Ids : id = m.tp.span_id
    OBVIOUS
  <2>3. Real(id) /\ spans[id].marked /\ id # Tx
    BY <2>1, <2>2, NeverTold DEF Sound, Names, ToldOf
  <2>4. ~Discardable(spans[id])
    BY <2>3 DEF Discardable
  <2>5. spans[id].ended
    BY <2>1, NoneActive
  <2> QED
    BY <2>1, <2>2, <2>3, <2>4, <2>5 DEF Sound, Fated, Kept, Ids
<1> QED
  BY <1>1, AlwaysClean, PTL

\* The span that an error names is reported, unless the error was captured in the
\* middle of an exit span.
THEOREM ParentsOfErrorsAreReported == Spec => []ErrorParentReported
<1>1. Base /\ Clean => ErrorParentReported
  <2> SUFFICES ASSUME Base, Clean, phase = "done", ~Leaked,
                      NEW e \in errors, ~e.in_exit, e.parent # None, e.parent \in Ids
               PROVE  spans[e.parent].fate \in {"sent", "cancelled"}
    BY DEF ErrorParentReported, Kept, Ids
  <2>1. Sound /\ frames = <<>>
    BY DEF Clean, Base, Phases
  <2>2. PICK id \in Ids : id = e.parent
    OBVIOUS
  <2>3. Real(id) /\ (~spans[id].leaf \/ Tagged(id))
    BY <2>1, <2>2, NeverTold DEF Sound, Names, Named
  <2>4. spans[id].ended
    BY <2>1, NoneActive
  <2>5. ~spans[id].leaf => Kept(id)
    BY <2>1, <2>3, <2>4 DEF Sound, Fated, Discardable
  <2> QED
    BY <2>2, <2>3, <2>5 DEF Tagged, Kept, Ids
<1> QED
  BY <1>1, AlwaysClean, PTL

-----------------------------------------------------------------------------
(***************************************************************************)
(* The end of the transaction: whether it is still there, whether it was   *)
(* queued, and what the steps that are left do to it.                      *)
(***************************************************************************)
IsRequest(r) ==
  r = [carrier |-> r.carrier, traced |-> r.traced, ending |-> r.ending, http |-> r.http]

Course ==
  /\ IsRequest(request)
  /\ phase = "idle" => ~request.traced
  /\ ~request.traced => tx.state = "none"
  /\ request.traced => tx.state \in {"open", "ended"}
  /\ phase \in {"idle", "handler"} => tx.state # "ended" /\ tx.outcome = None
  /\ tx.state # "ended" => queued = <<>>
  /\ tx.state = "ended" /\ phase # "failed" =>
       Len(queued) = IF Queues THEN 1 ELSE 0
  /\ phase = "failed" => tx.state # "open" /\ queued = <<>>

\* The steps that are left end a transaction that is there.
ToEnd ==
  request.http /\ request.ending # "killed" /\ InTransaction =>
    /\ phase # "done"
    /\ phase = "steps" => \E k \in DOMAIN todo : todo[k].do = "end"

Responded == request.http /\ request.ending \in {"ok", "failed", "error"}

\* They agree with the outcome that is there.
ToAgree ==
  phase = "steps" /\ Responded /\ InTransaction =>
    /\ tx.outcome \in {None, StatusOf(request.ending)}
    /\ Agreeing(todo, tx.outcome # None, request.ending)

Conclusion == Course /\ ToEnd /\ ToAgree /\ OutcomeAgrees

LEMMA InitConclusion == Init => Conclusion
<1> SUFFICES ASSUME Init
             PROVE  Conclusion
  OBVIOUS
<1>1. IsRequest(request) /\ ~request.traced
  BY DEF Init, IsRequest
<1>2. tx.state = "none" /\ tx.outcome = None /\ queued = <<>> /\ phase = "idle"
  BY DEF Init, NoTransaction
<1>3. Course /\ ToEnd /\ ToAgree
  BY <1>1, <1>2 DEF Course, ToEnd, ToAgree, InTransaction
<1>4. OutcomeAgrees
  BY <1>2 DEF OutcomeAgrees, Range
<1> QED
  BY <1>3, <1>4 DEF Conclusion

\* While the handler runs nothing is decided yet.
LEMMA StillOpen ==
  ASSUME Conclusion, phase = "handler", UNCHANGED <<phase, request, queued, service>>,
         tx'.state = tx.state, tx'.outcome = tx.outcome
  PROVE  Conclusion'
<1>1. tx.state # "ended" /\ queued = <<>>
  BY DEF Conclusion, Course
<1>2. Course'
  BY <1>1 DEF Conclusion, Course
<1>3. ToEnd' /\ ToAgree'
  BY DEF Conclusion, ToEnd, ToAgree, InTransaction
<1>4. OutcomeAgrees'
  BY <1>1 DEF OutcomeAgrees, Range
<1> QED
  BY <1>2, <1>3, <1>4 DEF Conclusion

LEMMA BeginConclusion ==
  ASSUME Base, Conclusion, NEW c, NEW up,
         Begin(c, up) \/ BeginRaises(c, up) \/ BeginUntraced(c)
  PROVE  Conclusion'
<1>1. /\ phase = "idle" /\ phase' \in {"handler", "failed"}
      /\ queued' = queued /\ service' = service
      /\ Begin(c, up) => phase' = "handler"
  BY DEF Begin, BeginRaises, BeginUntraced
<1>2. /\ tx.state # "ended" /\ ~request.traced /\ tx.state = "none" /\ tx.outcome = None
      /\ queued = <<>> /\ IsRequest(request)
  BY <1>1 DEF Conclusion, Course
<1>3. IsRequest(request') /\ (request'.traced <=> Begin(c, up))
  <2>1. CASE Begin(c, up)
    <3>1. request' = [request EXCEPT !.carrier = c, !.traced = TRUE]
      BY <2>1 DEF Begin
    <3> QED
      BY <1>2, <2>1, <3>1 DEF IsRequest
  <2>2. CASE ~Begin(c, up)
    <3>1. request' = [request EXCEPT !.carrier = c]
      BY <2>2 DEF BeginRaises, BeginUntraced
    <3> QED
      BY <1>2, <2>2, <3>1 DEF IsRequest
  <2> QED
    BY <2>1, <2>2
<1>4. /\ tx'.outcome = None
      /\ tx'.state = IF Begin(c, up) THEN "open" ELSE "none"
  <2>1. CASE Begin(c, up)
    <3>1. BeginTransaction(c, up)
      BY <2>1 DEF Begin
    <3> QED
      BY <2>1, <3>1 DEF BeginTransaction, NoTransaction
  <2>2. CASE ~Begin(c, up)
    BY <1>2, <2>2 DEF BeginRaises, BeginUntraced
  <2> QED
    BY <2>1, <2>2
<1>5. Course'
  BY <1>1, <1>2, <1>3, <1>4 DEF Course
<1>6. ToEnd' /\ ToAgree'
  BY <1>1 DEF ToEnd, ToAgree
<1>7. OutcomeAgrees'
  BY <1>1, <1>2 DEF OutcomeAgrees, Range
<1> QED
  BY <1>5, <1>6, <1>7 DEF Conclusion

\* The steps of an integration for HTTP end the transaction and agree.
LEMMA FinishConclusion ==
  ASSUME Base, Conclusion, NEW i \in conf.frameworks, NEW e \in Endings, Finish(i, e)
  PROVE  Conclusion'
<1>1. /\ phase = "handler" /\ phase' = "steps"
      /\ UNCHANGED <<service, tx, queued>>
      /\ todo' = IF request.traced THEN i.traced[e] ELSE i.untraced[e]
      /\ request' = [request EXCEPT !.ending = e, !.http = i \in HttpIntegrations]
  BY DEF Finish
<1>2. /\ tx.state # "ended" /\ tx.outcome = None /\ queued = <<>> /\ IsRequest(request)
      /\ ~request.traced => tx.state = "none"
      /\ request.traced => tx.state \in {"open", "ended"}
  BY <1>1 DEF Conclusion, Course
<1>3. /\ IsRequest(request') /\ request'.traced = request.traced
      /\ request'.ending = e /\ request'.http = (i \in HttpIntegrations)
  BY <1>1, <1>2 DEF IsRequest
<1>4. Course'
  BY <1>1, <1>2, <1>3 DEF Course
<1>5. request'.http /\ e # "killed" /\ tx.state = "open" => Concluding(todo', e)
  <2>1. i \in HttpIntegrations /\ e # "killed" => Concluding(i.traced[e], e)
    BY IntegrationTables DEF Conclusive
  <2>2. tx.state = "open" => request.traced
    BY <1>2
  <2> QED
    BY <1>1, <1>3, <2>1, <2>2
<1>6. ToEnd'
  BY <1>1, <1>3, <1>5 DEF ToEnd, InTransaction, Concluding
<1>7. ToAgree'
  <2>1. SUFFICES ASSUME request'.http, e \in {"ok", "failed", "error"}, tx.state = "open"
                 PROVE  Agreeing(todo', FALSE, e)
    BY <1>1, <1>2, <1>3 DEF ToAgree, Responded, InTransaction
  <2> QED
    BY <1>5, <2>1 DEF Concluding
<1>8. OutcomeAgrees'
  BY <1>1, <1>2 DEF OutcomeAgrees, Range
<1> QED
  BY <1>4, <1>6, <1>7, <1>8 DEF Conclusion

\* The rest of the steps agrees with an outcome if all of them did, and the first
\* one, or an outcome that was there, set it.
LEMMA AgreeingTail ==
  ASSUME NEW steps \in Seq(StepType), steps # <<>>, NEW set, NEW later, NEW e,
         Agreeing(steps, set, e), set \/ steps[1].do = "outcome" => later
  PROVE  Agreeing(Tail(steps), later, e)
<1>1. /\ Tail(steps) \in Seq(StepType) /\ Len(Tail(steps)) = Len(steps) - 1
      /\ \A k \in 1 .. Len(steps) - 1 : Tail(steps)[k] = steps[k + 1]
      /\ Len(steps) \in Nat \ {0} /\ DOMAIN steps = 1 .. Len(steps)
  <2>1. Len(steps) \in Nat \ {0} /\ DOMAIN steps = 1 .. Len(steps)
    OBVIOUS
  <2>2. Tail(steps) \in Seq(StepType)
    BY TailFacts
  <2>3. Len(Tail(steps)) = Len(steps) - 1
    BY TailFacts
  <2>4. \A k \in 1 .. Len(steps) - 1 : Tail(steps)[k] = steps[k + 1]
    BY TailFacts
  <2> QED
    BY <2>1, <2>2, <2>3, <2>4
<1>2. ASSUME NEW k \in 1 .. Len(steps) - 1
      PROVE  Fits(Tail(steps)[k], Sure(Tail(steps), later, k), e)
  <2>1. k + 1 \in DOMAIN steps /\ Tail(steps)[k] = steps[k + 1]
    BY <1>1
  <2>2. Fits(steps[k + 1], Sure(steps, set, k + 1), e)
    BY <2>1 DEF Agreeing
  <2>3. Sure(steps, set, k + 1) => Sure(Tail(steps), later, k)
    <3>1. SUFFICES ASSUME NEW j \in 1 .. (k + 1) - 1, steps[j].do = "outcome", ~later
                   PROVE  \E l \in 1 .. k - 1 : Tail(steps)[l].do = "outcome"
      BY DEF Sure
    <3>2. j # 1
      BY <3>1
    <3>3. j - 1 \in 1 .. k - 1 /\ j - 1 \in 1 .. Len(steps) - 1 /\ (j - 1) + 1 = j
      BY <1>1, <3>2
    <3>4. Tail(steps)[j - 1] = steps[j]
      BY <1>1, <3>3
    <3> QED
      BY <3>1, <3>3, <3>4
  <2> QED
    BY <2>1, <2>2, <2>3 DEF Fits
<1> QED
  BY <1>1, <1>2 DEF Agreeing

\* A step is taken that does not end the transaction.
LEMMA TakenConclusion ==
  ASSUME Base, Conclusion, phase = "steps", todo # <<>>, todo' = Tail(todo),
         UNCHANGED <<service, phase, request, queued>>,
         Head(todo).do # "end", tx'.state = tx.state, tx'.sampled = tx.sampled,
         ~InTransaction => tx'.outcome = tx.outcome,
         InTransaction =>
           tx'.outcome = tx.outcome
             \/ /\ Head(todo).do \in Outcomes
                /\ tx.outcome = None \/ Head(todo).flag
                /\ tx'.outcome = Sets(Head(todo), request.ending),
         InTransaction /\ Head(todo).do = "outcome" => tx'.outcome # None,
         tx.outcome # None => tx'.outcome # None
  PROVE  Conclusion'
<1>1. /\ todo \in Seq(StepType) /\ todo' \in Seq(StepType) /\ Head(todo) = todo[1]
      /\ Len(todo') = Len(todo) - 1 /\ Len(todo) \in Nat \ {0}
      /\ \A k \in 1 .. Len(todo) - 1 : todo'[k] = todo[k + 1]
  <2>1. PICK steps \in Seq(StepType) : steps = todo
    BY DEF Base, Phases
  <2>2. steps # <<>> /\ todo' = Tail(steps)
    BY <2>1
  <2>3. Len(steps) \in Nat \ {0}
    BY <2>2
  <2>4. Tail(steps) \in Seq(StepType) /\ Head(steps) = steps[1]
    BY <2>2, TailFacts
  <2>5. Len(Tail(steps)) = Len(steps) - 1
    BY <2>2, TailFacts
  <2>6. \A k \in 1 .. Len(steps) - 1 : Tail(steps)[k] = steps[k + 1]
    BY <2>2, TailFacts
  <2> QED
    BY <2>1, <2>2, <2>3, <2>4, <2>5, <2>6
<1>2. Course'
  BY DEF Conclusion, Course, Queues, conf
<1>3. InTransaction' = InTransaction
  BY DEF InTransaction
<1>4. ToEnd'
  <2>1. SUFFICES ASSUME request.http, request.ending # "killed", InTransaction
                 PROVE  \E k \in DOMAIN todo' : todo'[k].do = "end"
    BY <1>3 DEF ToEnd
  <2>2. PICK k \in DOMAIN todo : todo[k].do = "end"
    BY <2>1 DEF Conclusion, ToEnd
  <2>3. k # 1
    BY <1>1, <2>2
  <2>4. k - 1 \in 1 .. Len(todo) - 1 /\ (k - 1) + 1 = k /\ DOMAIN todo' = 1 .. Len(todo) - 1
    BY <1>1, <2>3
  <2>5. todo'[k - 1] = todo[k]
    BY <1>1, <2>4
  <2> QED
    BY <2>2, <2>4, <2>5
<1>5. ToAgree'
  <2>1. SUFFICES ASSUME Responded, InTransaction
                 PROVE  /\ tx'.outcome \in {None, StatusOf(request.ending)}
                        /\ Agreeing(todo', tx'.outcome # None, request.ending)
    BY <1>3 DEF ToAgree, Responded
  <2>2. /\ tx.outcome \in {None, StatusOf(request.ending)}
        /\ Agreeing(todo, tx.outcome # None, request.ending)
    BY <2>1 DEF Conclusion, ToAgree
  <2>3. Agreeing(todo', tx'.outcome # None, request.ending)
    BY <1>1, <2>1, <2>2, AgreeingTail
  <2>4. tx'.outcome \in {None, StatusOf(request.ending)}
    <3>1. SUFFICES ASSUME Head(todo).do \in Outcomes,
                          tx.outcome = None \/ Head(todo).flag,
                          Sets(Head(todo), request.ending) # StatusOf(request.ending)
                   PROVE  FALSE
      BY <2>1, <2>2
    <3>2. 1 \in DOMAIN todo
      BY <1>1
    <3>3. Fits(todo[1], Sure(todo, tx.outcome # None, 1), request.ending)
      BY <2>2, <3>2 DEF Agreeing
    <3>4. ~Head(todo).flag /\ Sure(todo, tx.outcome # None, 1)
      BY <1>1, <3>1, <3>3 DEF Fits
    <3>5. tx.outcome # None
      BY <3>4 DEF Sure
    <3> QED
      BY <3>1, <3>4, <3>5
  <2> QED
    BY <2>3, <2>4
<1>6. OutcomeAgrees'
  BY DEF Conclusion, OutcomeAgrees
<1> QED
  BY <1>2, <1>4, <1>5, <1>6 DEF Conclusion

LEMMA StepConclusion ==
  ASSUME Base, Conclusion, Skip \/ SetOutcome \/ CaptureStep
  PROVE  Conclusion'
<1>1. /\ phase = "steps" /\ todo # <<>> /\ todo' = Tail(todo)
      /\ UNCHANGED <<service, phase, request, queued>>
      /\ Head(todo).do # "end"
  BY DEF Skip, SetOutcome, CaptureStep, Steps, Taken
<1>2. CASE ~SetOutcome
  <2>1. tx' = tx /\ Head(todo).do # "outcome"
    BY <1>2 DEF Skip, CaptureStep, Steps
  <2> QED
    BY <1>1, <2>1, TakenConclusion
<1>3. CASE SetOutcome
  <2>1. Head(todo).do \in Outcomes
    BY <1>3 DEF SetOutcome, Steps, Outcomes
  <2>2. PICK outcome : outcome = Sets(Head(todo), request.ending)
    OBVIOUS
  <2>3. tx' = IF InTransaction /\ (tx.outcome = None \/ Head(todo).flag)
                THEN [tx EXCEPT !.outcome = outcome] ELSE tx
    BY <1>3, <2>2 DEF SetOutcome, Sets
  <2>4. outcome # None
    <3>1. Head(todo) \in StepType
      BY <1>1, TailFacts DEF Base, Phases
    <3>2. outcome \in {"success", "failure", "unknown", "status", ""}
      BY <2>2, <3>1 DEF Sets, StatusOf, StepType
    <3> QED
      BY <3>2, OutcomeAssumption
  <2>5. IsTx(tx)
    BY DEF Base, Types
  <2>6. /\ tx'.state = tx.state /\ tx'.sampled = tx.sampled
        /\ tx'.outcome = IF InTransaction /\ (tx.outcome = None \/ Head(todo).flag)
                           THEN outcome ELSE tx.outcome
    BY <2>3, <2>5 DEF IsTx
  <2> QED
    BY <1>1, <2>1, <2>2, <2>4, <2>6, TakenConclusion
<1> QED
  BY <1>2, <1>3

LEMMA EndConclusion ==
  ASSUME Base, Conclusion, EndTransaction
  PROVE  Conclusion'
<1>1. /\ phase = "steps" /\ phase' \in {"steps", "failed"} /\ todo # <<>>
      /\ Head(todo).do = "end"
      /\ UNCHANGED <<service, request>>
  BY DEF EndTransaction, Steps
<1>2. /\ IsRequest(request) /\ IsTx(tx)
      /\ ~request.traced => tx.state = "none"
      /\ request.traced => tx.state \in {"open", "ended"}
  BY DEF Conclusion, Course, Base, Types
<1>3. CASE InTransaction
  <2>1. tx.state = "open" /\ queued = <<>> /\ request.traced
    BY <1>2, <1>3 DEF InTransaction, Conclusion, Course
  <2>2. tx' = [tx EXCEPT !.state = "ended"]
    BY <1>3 DEF EndTransaction
  <2>3. tx'.state = "ended" /\ tx'.sampled = tx.sampled
    BY <1>2, <2>2 DEF IsTx
  <2>4. Queues' = Queues
    BY <1>1, <2>3 DEF Queues, conf
  <2>5. PICK document : document = Document
    OBVIOUS
  <2>6. /\ queued' = <<>> \/ queued' = <<document>>
        /\ phase' # "failed" => queued' = IF Queues THEN <<document>> ELSE <<>>
        /\ phase' = "failed" => queued' = <<>>
    BY <1>1, <1>3, <2>1, <2>5 DEF EndTransaction
  <2>7. Course'
    BY <1>1, <1>2, <2>1, <2>3, <2>4, <2>6 DEF Course
  <2>8. ToEnd' /\ ToAgree'
    BY <2>3 DEF ToEnd, ToAgree, InTransaction
  <2>9. OutcomeAgrees'
    <3>1. SUFFICES ASSUME Responded
                   PROVE  document.outcome = StatusOf(request.ending)
      BY <1>1, <2>6 DEF OutcomeAgrees, Responded, Range
    <3>2. /\ tx.outcome \in {None, StatusOf(request.ending)}
          /\ Agreeing(todo, tx.outcome # None, request.ending)
      BY <1>1, <1>3, <3>1 DEF Conclusion, ToAgree
    <3>3. todo \in Seq(StepType)
      BY <1>1 DEF Base, Phases
    <3>4. 1 \in DOMAIN todo /\ todo[1] = Head(todo)
      BY <1>1, <3>3
    <3>5. Fits(todo[1], Sure(todo, tx.outcome # None, 1), request.ending)
      BY <3>2, <3>4 DEF Agreeing
    <3>6. tx.outcome # None
      BY <1>1, <3>4, <3>5 DEF Fits, Sure
    <3> QED
      BY <2>5, <3>2, <3>6 DEF Document
  <2> QED
    BY <2>7, <2>8, <2>9 DEF Conclusion
<1>4. CASE ~InTransaction
  <2>1. tx' = tx /\ queued' = queued /\ phase' = phase
    BY <1>4 DEF EndTransaction
  <2>2. Course'
    BY <1>1, <2>1 DEF Conclusion, Course, Queues, conf
  <2>3. ToEnd' /\ ToAgree'
    BY <1>4, <2>1 DEF ToEnd, ToAgree, InTransaction
  <2>4. OutcomeAgrees'
    BY <1>1, <2>1 DEF Conclusion, OutcomeAgrees
  <2> QED
    BY <2>2, <2>3, <2>4 DEF Conclusion
<1> QED
  BY <1>3, <1>4

LEMMA DoneConclusion ==
  ASSUME Base, Conclusion, Done
  PROVE  Conclusion'
<1>1. /\ phase = "steps" /\ phase' = "done" /\ todo = <<>>
      /\ UNCHANGED <<service, request, tx, queued>>
  BY DEF Done
<1>2. Course' /\ ToAgree' /\ OutcomeAgrees'
  BY <1>1 DEF Conclusion, Course, ToAgree, OutcomeAgrees, Queues, conf
<1>3. ToEnd'
  BY <1>1 DEF Conclusion, ToEnd, InTransaction
<1> QED
  BY <1>2, <1>3 DEF Conclusion

LEMMA StepKeepsConclusion == Base /\ Conclusion /\ [Next]_vars => Conclusion'
<1> SUFFICES ASSUME Base, Conclusion, [Next]_vars
             PROVE  Conclusion'
  OBVIOUS
<1>1. ASSUME NEW c \in Carriers, NEW up \in conf.upstreams,
             Begin(c, up) \/ BeginRaises(c, up)
      PROVE  Conclusion'
  BY <1>1, BeginConclusion
<1>2. ASSUME NEW c \in Carriers, BeginUntraced(c)
      PROVE  Conclusion'
  BY <1>2, BeginConclusion
<1>3. ASSUME NEW w \in Callable,
             CallUntraced(w) \/ CallThrough(w) \/ CallTraced(w) \/ OTelRaises(w)
      PROVE  Conclusion'
  <2>1. w \in Libraries /\ phase = "handler"
    BY ConfType DEF Base, Types, Callable
  <2>2. UNCHANGED <<service, phase, request, queued>>
    BY <1>3 DEF CallUntraced, CallThrough, CallTraced, OTelRaises
  <2>3. tx'.state = tx.state /\ tx'.outcome = tx.outcome
    <3>1. PICK new \in SpanType : new = NewSpan(w)
      BY <2>1, NewSpanFacts
    <3>2. CASE CallTraced(w)
      <4>1. PICK n, ss : n = Len(spans) + 1 /\ ss = Append(spans, NewSpan(w))
        OBVIOUS
      <4>2. Called(w, n, ss)
        BY <2>1, <3>2, <4>1, CallFacts
      <4>3. tx' = Counted(new)
        BY <3>1, <4>2 DEF Called
      <4> QED
        BY <4>3, CountedFacts DEF Base, Types
    <3>3. CASE OTelRaises(w)
      <4>1. tx' = Counted(new)
        BY <3>1, <3>3 DEF OTelRaises
      <4> QED
        BY <4>1, CountedFacts DEF Base, Types
    <3>4. CASE CallUntraced(w) \/ CallThrough(w)
      BY <3>4 DEF CallUntraced, CallThrough
    <3> QED
      BY <1>3, <3>2, <3>3, <3>4
  <2> QED
    BY <2>1, <2>2, <2>3, StillOpen
<1>4. CASE Return \/ Unwind
  <2>1. PICK t : t = Ending(Innermost)
    OBVIOUS
  <2>2. Return => Settles(t)
    BY <2>1, ReturnFacts
  <2>3. Unwind => Settles(t)
    BY <2>1, UnwindFacts
  <2>4. tx'.state = tx.state /\ tx'.outcome = tx.outcome
    BY <1>4, <2>2, <2>3 DEF Settles
  <2>5. phase = "handler" /\ UNCHANGED <<service, phase, request, queued>>
    BY <1>4 DEF Return, Unwind
  <2> QED
    BY <2>4, <2>5, StillOpen
<1>5. CASE ReturnUntraced \/ UnwindUntraced \/ Raise \/ Catch \/ CatchAndCapture
  BY <1>5, StillOpen DEF ReturnUntraced, UnwindUntraced, Raise, Catch, CatchAndCapture
<1>6. ASSUME NEW i \in conf.frameworks, NEW e \in Endings, Finish(i, e)
      PROVE  Conclusion'
  BY <1>6, FinishConclusion
<1>7. CASE Skip \/ SetOutcome \/ CaptureStep
  BY <1>7, StepConclusion
<1>8. CASE EndTransaction \/ Done
  BY <1>8, EndConclusion, DoneConclusion
<1>9. CASE UNCHANGED vars
  <2>1. /\ UNCHANGED <<service, phase, request, todo, tx, queued>>
    BY <1>9 DEF vars
  <2>2. Course' /\ OutcomeAgrees'
    BY <2>1 DEF Conclusion, Course, OutcomeAgrees, Queues, conf
  <2>3. ToEnd' /\ ToAgree'
    BY <2>1 DEF Conclusion, ToEnd, ToAgree, InTransaction, Responded
  <2> QED
    BY <2>2, <2>3 DEF Conclusion
<1> QED
  BY <1>1, <1>2, <1>3, <1>4, <1>5, <1>6, <1>7, <1>8, <1>9 DEF Next

LEMMA AlwaysConclusion == Spec => [](Base /\ Clean /\ Conclusion)
<1>1. Init => Base /\ Clean /\ Conclusion
  BY InitBase, InitClean, InitConclusion
<1>2. Base /\ Clean /\ Conclusion /\ [Next]_vars => (Base /\ Clean /\ Conclusion)'
  BY StepKeepsBase, StepKeepsClean, StepKeepsConclusion
<1> QED
  BY <1>1, <1>2, PTL DEF Spec

\* The transaction tells how the request ended when it is queued, whichever
\* handlers and middleware of the integration ran.
THEOREM OutcomesAgree == Spec => []OutcomeAgrees
<1>1. Base /\ Clean /\ Conclusion => OutcomeAgrees
  BY DEF Conclusion
<1> QED
  BY <1>1, AlwaysConclusion, PTL

\* A request ends with its transaction queued once, or never if it is not wanted
\* or could not begin or be serialised, and leaves neither a transaction nor spans
\* to the next one.
THEOREM TransactionsEndOnce == Spec => []EndedOnce
<1>1. Base /\ Clean /\ Conclusion => EndedOnce
  <2> SUFFICES ASSUME Base, Clean, Conclusion, Over
               PROVE  /\ ~InTransaction
                      /\ ~Leaked => stack = <<>>
                      /\ Len(queued) = IF phase = "done" /\ request.traced /\ ~Unwanted
                                         THEN 1 ELSE 0
    BY DEF EndedOnce
  <2>1. ~InTransaction /\ phase \in {"failed", "done"}
    BY DEF Conclusion, Course, ToEnd, Over, InTransaction
  <2>2. ASSUME ~Leaked
        PROVE  stack = <<>>
    <3>1. Range(stack) = {}
      BY <2>1, <2>2, NoneActive DEF Clean, Base, Phases
    <3>2. stack # <<>> => Active \in Range(stack)
      BY StackIds
    <3> QED
      BY <3>1, <3>2
  <2>3. CASE phase = "failed"
    BY <2>1, <2>2, <2>3 DEF Conclusion, Course
  <2>4. CASE phase = "done" /\ request.traced
    <3>1. tx.state = "ended"
      BY <2>1, <2>4 DEF Conclusion, Course, InTransaction
    <3>2. Len(queued) = IF Queues THEN 1 ELSE 0
      BY <2>4, <3>1 DEF Conclusion, Course
    <3>3. Queues <=> ~Unwanted
      BY Zenon DEF Queues, Unwanted
    <3> QED
      BY <2>1, <2>2, <2>4, <3>2, <3>3
  <2>5. CASE phase = "done" /\ ~request.traced
    BY <2>1, <2>2, <2>5 DEF Conclusion, Course
  <2> QED
    BY <2>1, <2>2, <2>3, <2>4, <2>5
<1> QED
  BY <1>1, AlwaysConclusion, PTL

-----------------------------------------------------------------------------
(***************************************************************************)
(* Trace headers: what is made of those of a caller can be told on, and is *)
(* read as it was told.                                                    *)
(***************************************************************************)
\* A tracestate of which the entries that only look like one of Elastic are others'.
Parsed == {s \in Tracestates : s = Tracestate(s.es, s.others, s.lookalike)}

\* A trace parent that other services can be told.
Whole(tp) ==
  /\ tp \in TraceParents /\ tp.version \notin {NotANumber, 255}
  /\ tp.state \in Parsed \cup {None} /\ tp.dict = ParseTracestate(tp.state)

LEMMA TracestateFacts ==
  ASSUME NEW es \in Entries \cup {None}, NEW others \in BOOLEAN,
         NEW lookalike \in BOOLEAN
  PROVE  /\ Tracestate(es, others, lookalike) \in Parsed
         /\ Tracestate(es, others, lookalike).es = es
<1>1. PICK both \in BOOLEAN : both = (lookalike /\ others)
  OBVIOUS
<1>2. PICK s : s = [es |-> es, others |-> others, lookalike |-> both]
  OBVIOUS
<1>3. Tracestate(es, others, lookalike) = s
  BY <1>1, <1>2 DEF Tracestate
<1>4. s \in Tracestates /\ s.es = es /\ s.others = others /\ s.lookalike = both
  BY <1>2 DEF Tracestates
<1>5. both /\ others <=> both
  BY <1>1
<1>6. Tracestate(s.es, s.others, s.lookalike) = s
  BY <1>1, <1>2, <1>4, <1>5 DEF Tracestate
<1> QED
  BY <1>3, <1>4, <1>6 DEF Parsed

\* The entry of Elastic that is first is that of all of them.
LEMMA MergeFacts ==
  ASSUME NEW states \in Seq(Tracestates)
  PROVE  Merge(states) \in Parsed \cup {None}
<1>1. CASE states = <<>>
  BY <1>1 DEF Merge
<1>2. CASE states # <<>>
  <2>1. PICK T : T = {i \in DOMAIN states : states[i].es # None}
    OBVIOUS
  <2>2. T \in SUBSET Nat /\ T \subseteq DOMAIN states
    BY <2>1
  <2>3. PICK es : es = IF T = {} THEN None ELSE states[Min(T)].es
    OBVIOUS
  <2>4. es \in Entries \cup {None}
    <3>1. CASE T = {}
      BY <2>3, <3>1
    <3>2. CASE T # {}
      <4>1. Min(T) \in T
        BY <2>2, <3>2, Least DEF Min
      <4>2. PICK i \in DOMAIN states : i = Min(T)
        BY <2>2, <4>1
      <4>3. states[i] \in Tracestates
        OBVIOUS
      <4> QED
        BY <2>3, <3>2, <4>2, <4>3 DEF Tracestates
    <3> QED
      BY <3>1, <3>2
  <2>5. PICK others \in BOOLEAN : others = \E s \in Range(states) : s.others
    OBVIOUS
  <2>6. PICK lookalike \in BOOLEAN : lookalike = \E s \in Range(states) : s.lookalike
    OBVIOUS
  <2>7. Merge(states) = Tracestate(es, others, lookalike)
    BY <1>2, <2>1, <2>3, <2>5, <2>6 DEF Merge
  <2> QED
    BY <2>4, <2>7, TracestateFacts
<1> QED
  BY <1>1, <1>2

\* What is told in one header is read as it was told.
LEMMA MergeOne ==
  ASSUME NEW s \in Parsed
  PROVE  Merge(<<s>>) = s
<1>1. s \in Tracestates /\ s = Tracestate(s.es, s.others, s.lookalike)
  BY DEF Parsed
<1>2. s.others \in BOOLEAN /\ s.lookalike \in BOOLEAN
  BY <1>1 DEF Tracestates
<1>3. <<s>> # <<>> /\ DOMAIN <<s>> = {1} /\ <<s>>[1] = s /\ Range(<<s>>) = {s}
  BY DEF Range
<1>4. PICK T : T = {i \in DOMAIN <<s>> : <<s>>[i].es # None}
  OBVIOUS
<1>5. (IF T = {} THEN None ELSE <<s>>[Min(T)].es) = s.es
  <2>1. CASE s.es = None
    <3>1. T = {}
      BY <1>3, <1>4, <2>1
    <3> QED
      BY <2>1, <3>1
  <2>2. CASE s.es # None
    <3>1. T = {1}
      BY <1>3, <1>4, <2>2
    <3>2. Min(T) = 1
      BY <3>1 DEF Min
    <3> QED
      BY <1>3, <3>1, <3>2
  <2> QED
    BY <2>1, <2>2
<1>6. Merge(<<s>>) = Tracestate(s.es, \E x \in {s} : x.others,
                                \E x \in {s} : x.lookalike)
  BY <1>3, <1>4, <1>5 DEF Merge
<1>7. (\E x \in {s} : x.others) = s.others /\ (\E x \in {s} : x.lookalike) = s.lookalike
  BY <1>2
<1> QED
  BY <1>1, <1>6, <1>7

LEMMA ParsedFacts ==
  ASSUME NEW state \in Parsed \cup {None}
  PROVE  /\ ParseTracestate(state) \in Entries
         /\ state \in Tracestates \cup {None}
         /\ state # None <=> state \in Parsed
<1>1. Empty \in Entries
  BY DEF Empty, Entries
<1>2. ASSUME state \in Parsed
      PROVE  /\ state.es \in Entries \cup {None} /\ state \in Tracestates
             /\ state # None
  BY <1>2, HeaderAssumption DEF Parsed, Tracestates
<1>3. ParseTracestate(state) \in Entries
  BY <1>1, <1>2 DEF ParseTracestate
<1> QED
  BY <1>2, <1>3

LEMMA TraceParentFacts ==
  ASSUME NEW version \in Int \ {NotANumber, 255}, NEW trace \in Traces,
         NEW span \in Int, NEW options \in Int, NEW state \in Parsed \cup {None},
         NEW tp, tp = TraceParent(version, trace, span, options, state)
  PROVE  /\ Whole(tp) /\ tp # None
         /\ tp.version = version /\ tp.trace_id = trace /\ tp.span_id = span
         /\ tp.options = options /\ tp.state = state
         /\ tp.dict = ParseTracestate(state)
<1>1. ParseTracestate(state) \in Entries /\ state \in Tracestates \cup {None}
  BY ParsedFacts
<1>2. PICK dict \in Entries : dict = ParseTracestate(state)
  BY <1>1
<1>3. tp = [version |-> version, trace_id |-> trace, span_id |-> span,
            options |-> options, state |-> state, dict |-> dict]
  BY <1>2 DEF TraceParent
<1>4. /\ tp.version = version /\ tp.trace_id = trace /\ tp.span_id = span
      /\ tp.options = options /\ tp.state = state /\ tp.dict = dict
  BY <1>3
<1>5. tp \in TraceParents
  BY <1>1, <1>2, <1>3 DEF TraceParents
<1>6. tp # None
  BY <1>5, HeaderAssumption
<1> QED
  BY <1>2, <1>4, <1>5, <1>6 DEF Whole

LEMMA FromStringFacts ==
  ASSUME NEW text \in Texts, NEW state \in Parsed \cup {None}
  PROVE  \/ FromString(text, state) = None
         \/ /\ Whole(FromString(text, state))
            /\ FromString(text, state).trace_id = text.trace_id
<1>1. /\ text.version \in Int /\ text.trace_id \in Traces /\ text.span_id \in Int
      /\ text.flags \in Int
  BY DEF Texts
<1>2. Byte(text.flags) \in Int
  BY <1>1 DEF Byte
<1>3. CASE FromString(text, state) # None
  <2>1. /\ text.version \notin {NotANumber, 255}
        /\ FromString(text, state)
             = TraceParent(text.version, text.trace_id, text.span_id,
                           Byte(text.flags), state)
    BY <1>3 DEF FromString
  <2> QED
    BY <1>1, <1>2, <2>1, TraceParentFacts
<1> QED
  BY <1>3

ReadBack(tp) == FromHeaders(ToHeaders(tp, FALSE))

\* What TraceParent writes into headers is what from_headers of the next service
\* reads from them: the trace, the span, the decision and the entries of tracestate.
THEOREM RoundTrip ==
  ASSUME NEW tp, Whole(tp), NEW id \in Int, NEW options \in {0, 1}, NEW told,
         told = ReadBack(CopyFrom(tp, id, options))
  PROVE  /\ told # None /\ told.trace_id = tp.trace_id /\ told.span_id = id
         /\ told.options = options /\ told.dict = tp.dict
<1>1. /\ tp.version \in Int \ {NotANumber, 255} /\ tp.trace_id \in Traces
      /\ tp.state \in Parsed \cup {None} /\ tp.dict = ParseTracestate(tp.state)
  BY DEF Whole, TraceParents
<1>3. id # None /\ options # None
  BY NoneAssumption
<1>4. PICK m : m = TraceParent(tp.version, tp.trace_id, id, options, tp.state)
  OBVIOUS
<1>5. CopyFrom(tp, id, options) = m
  BY <1>3, <1>4 DEF CopyFrom
<1>6. /\ m.version = tp.version /\ m.trace_id = tp.trace_id /\ m.span_id = id
      /\ m.options = options /\ m.state = tp.state /\ m # None
      /\ m.dict = ParseTracestate(tp.state)
  <2>1. options \in Int
    OBVIOUS
  <2> QED
    BY <1>1, <1>4, <2>1, TraceParentFacts
<1>7. PICK text : text = Text(m)
  OBVIOUS
<1>8. /\ text.parts = 4 /\ text.version = tp.version /\ text.trace_id = tp.trace_id
      /\ text.span_id = id /\ text.flags = options
  BY <1>6, <1>7 DEF Text
<1>9. text \in Texts
  BY <1>1, <1>6, <1>7 DEF Text, Texts
<1>10. text # None
  BY <1>9, HeaderAssumption
<1>11. PICK headers : headers = ToHeaders(m, FALSE)
  OBVIOUS
<1>12. /\ headers.traceparent = text
       /\ headers.tracestate = IF tp.state = None THEN <<>> ELSE <<tp.state>>
  BY <1>6, <1>7, <1>11 DEF ToHeaders
<1>13. Merge(headers.tracestate) = tp.state
  <2>1. CASE tp.state = None
    BY <1>12, <2>1 DEF Merge
  <2>2. CASE tp.state # None
    <3>1. tp.state \in Parsed
      BY <1>1, <2>2
    <3> QED
      BY <1>12, <2>2, <3>1, MergeOne
  <2> QED
    BY <2>1, <2>2
<1>14. FromHeaders(headers) = FromString(text, tp.state)
  BY <1>10, <1>12, <1>13 DEF FromHeaders
<1>15. Byte(options) = options
  BY DEF Byte
<1>16. FromString(text, tp.state)
         = TraceParent(tp.version, tp.trace_id, id, options, tp.state)
  <2>1. ~(text.parts < 4 \/ text.version \in {NotANumber, 255} \/ text.flags = NotANumber)
    BY <1>1, <1>8 DEF NotANumber
  <2> QED
    BY <1>8, <1>15, <2>1 DEF FromString
<1>17. told = m
  BY <1>4, <1>5, <1>11, <1>14, <1>16 DEF ReadBack
<1> QED
  BY <1>1, <1>6, <1>17

\* The trace of a transaction that continues none.
LEMMA OwnFacts ==
  ASSUME NEW rate \in Rates, NEW sampled \in BOOLEAN, NEW span \in Int
  PROVE  LET tp == TransactionParent(None, "own", span, rate, sampled)
         IN  /\ Whole(tp) /\ tp # None /\ tp.trace_id = "own"
             /\ "s" \in DOMAIN tp.dict
             /\ tp.dict["s"] = SampleRate(None, rate, sampled)
<1>1. PICK val \in Values : val = SampleRate(None, rate, sampled)
  BY DEF SampleRate, Rates, Values
<1>2. PICK options \in Int : options = Options(sampled)
  BY DEF Options
<1>3. PICK new : new = New("own", span, sampled)
  OBVIOUS
<1>4. new = [version |-> 0, trace_id |-> "own", span_id |-> span, options |-> options,
             state |-> None, dict |-> Empty]
  BY <1>2, <1>3 DEF New, TraceParent, CurrentVersion, ParseTracestate
<1>5. PICK dict : dict = [k \in {"s"} |-> val]
  OBVIOUS
<1>6. /\ dict \in Entries /\ dict["s"] = val /\ DOMAIN dict = {"s"}
      /\ dict # None
  BY <1>5, HeaderAssumption DEF Entries
<1>7. [k \in DOMAIN new.dict \cup {"s"} |-> IF k = "s" THEN val ELSE new.dict[k]] = dict
  BY <1>4, <1>5 DEF Empty
<1>8. PICK state \in Parsed : state = Tracestate(dict, FALSE, FALSE) /\ state.es = dict
  BY <1>6, TracestateFacts
<1>9. PICK tp : tp = TransactionParent(None, "own", span, rate, sampled)
  OBVIOUS
<1>10. tp = [new EXCEPT !.dict = dict, !.state = state]
  <2>1. tp = AddTracestate(new, "s", val)
    BY <1>1, <1>3, <1>9 DEF TransactionParent
  <2>2. new.state = None
    BY <1>4
  <2> QED
    BY <1>7, <1>8, <2>1, <2>2 DEF AddTracestate
<1>11. tp = [version |-> 0, trace_id |-> "own", span_id |-> span, options |-> options,
             state |-> state, dict |-> dict]
  BY <1>4, <1>10
<1>12. ParseTracestate(state) = dict
  <2>1. state # None
    BY ParsedFacts
  <2> QED
    BY <1>6, <1>8, <2>1 DEF ParseTracestate
<1>13. tp = TraceParent(0, "own", span, options, state)
  BY <1>11, <1>12 DEF TraceParent
<1>14. 0 \in Int \ {NotANumber, 255}
  BY DEF NotANumber
<1>15. Whole(tp) /\ tp # None /\ tp.trace_id = "own" /\ tp.dict = dict
  <2>1. "own" \in Traces /\ state \in Parsed \cup {None} /\ options \in Int
    BY DEF Traces
  <2>2. /\ Whole(tp) /\ tp # None /\ tp.trace_id = "own"
        /\ tp.dict = ParseTracestate(state)
    BY <1>13, <1>14, <2>1, TraceParentFacts
  <2> QED
    BY <1>12, <2>2
<1> QED
  BY <1>1, <1>6, <1>9, <1>15

\* In what the trace parent of a request may be.
CarrierTypes ==
  {"headers", "pairs", "metadata", "string", "binary", "links", "context", "none"}

LEMMA IntegrationCarriers ==
  \A i \in HttpIntegrations \cup OtherIntegrations : i.carrier \in CarrierTypes
<1>1. \A c, ignores, traced, untraced :
        Integration(c, ignores, traced, untraced).carrier = c
  BY DEF Integration
<1>2. /\ Flask.carrier = "headers" /\ Starlette.carrier = "headers"
      /\ ASGI.carrier = "headers" /\ Sanic.carrier = "headers"
      /\ AioHttp.carrier = "headers"
      /\ Tornado(TRUE).carrier = "headers" /\ Tornado(FALSE).carrier = "headers"
      /\ DjangoWSGI.carrier = "headers" /\ DjangoASGI.carrier = "pairs"
      /\ GRPC.carrier = "metadata"
  BY <1>1, Zenon DEF Flask, Starlette, ASGI, Sanic, AioHttp, Tornado, DjangoWSGI,
                     DjangoASGI, Django, GRPC
<1>3. /\ Celery.carrier = "string" /\ KafkaConsumer.carrier = "binary"
      /\ AWS(TRUE).carrier = "headers" /\ AWS(FALSE).carrier = "links"
      /\ AzureFunctions.carrier = "headers" /\ OTelRoot.carrier = "context"
      /\ OTRoot.carrier = "headers" /\ WSGIMiddleware.carrier = "none"
      /\ RQ.carrier = "none" /\ Twisted.carrier = "none"
  BY <1>1, Zenon DEF Celery, KafkaConsumer, AWS, AzureFunctions, OTelRoot, OTRoot,
                     WSGIMiddleware, RQ, Twisted, Captures
<1>4. \A i \in HttpIntegrations : i.carrier \in CarrierTypes
  BY <1>2 DEF HttpIntegrations, CarrierTypes
<1>5. \A i \in OtherIntegrations : i.carrier \in CarrierTypes
  BY <1>3 DEF OtherIntegrations, CarrierTypes
<1> QED
  BY <1>4, <1>5

\* What a request comes with.
LEMMA UpstreamFacts ==
  ASSUME service \in DOMAIN Scenarios, NEW c \in Carriers, NEW up \in conf.upstreams
  PROVE  /\ c \in CarrierTypes
         /\ up.traceparent # None => /\ up.traceparent \in Texts
                                     /\ up.traceparent.trace_id # "own"
         /\ up.legacy # None => up.legacy \in Texts /\ up.legacy.trace_id # "own"
         /\ up.tracestate \in Seq(Tracestates)
         /\ c = "binary" /\ up.traceparent # None =>
              up.traceparent.version \notin {NotANumber, 255}
<1>1. PICK i \in conf.frameworks : i.carrier = c
  BY DEF Carriers
<1>2. c \in CarrierTypes
  BY <1>1, ConfType, IntegrationCarriers
<1>3. /\ {up.traceparent, up.legacy} \ {None} \subseteq
           {text \in Texts : text.trace_id # "own"}
      /\ up.tracestate \in Seq(Tracestates)
      /\ (\E j \in conf.frameworks : j.carrier = "binary") /\ up.traceparent # None =>
           up.traceparent.version \notin {NotANumber, 255}
  BY CallerAssumption DEF conf
<1> QED
  BY <1>1, <1>2, <1>3

\* Whatever a request comes with: what is made of it can be told on.
LEMMA ExtractFacts ==
  ASSUME service \in DOMAIN Scenarios, NEW c \in Carriers, NEW up \in conf.upstreams,
         NEW tp, tp = Extract(c, up), tp # None
  PROVE  Whole(tp) /\ tp.trace_id # "own"
<1>1. PICK text : text = up.traceparent
  OBVIOUS
<1>2. /\ c \in CarrierTypes
      /\ text # None => text \in Texts /\ text.trace_id # "own"
      /\ up.legacy # None => up.legacy \in Texts /\ up.legacy.trace_id # "own"
      /\ c = "binary" /\ text # None => text.version \notin {NotANumber, 255}
  BY <1>1, UpstreamFacts
<1>3. PICK state \in Parsed \cup {None} : state = Merge(up.tracestate)
  BY UpstreamFacts, MergeFacts
<1>4. CASE c = "headers"
  <2>1. tp = FromHeaders(up)
    BY <1>4 DEF Extract
  <2>2. PICK t \in {text, up.legacy} : t # None /\ tp = FromString(t, state)
    BY <1>1, <1>3, <2>1 DEF FromHeaders
  <2>3. t \in Texts /\ t.trace_id # "own"
    BY <1>2, <2>2
  <2> QED
    BY <2>2, <2>3, FromStringFacts
<1>5. ASSUME c \notin {"headers", "pairs", "links", "none"}
      PROVE  Whole(tp) /\ tp.trace_id # "own"
  <2>1. text # None
    BY <1>1, <1>5 DEF Extract
  <2>2. /\ text.version \in Int /\ text.trace_id \in Traces /\ text.span_id \in Int
        /\ text.flags \in Int /\ text \in Texts /\ text.trace_id # "own"
    BY <1>2, <2>1 DEF Texts
  <2>3. CASE c = "context"
    <3>1. tp = FromContext(up)
      BY <1>1, <2>1, <2>3 DEF Extract
    <3>2. PICK options \in {0, 1} : options = Options(Recorded(text.flags))
      BY DEF Options
    <3>3. tp = TraceParent(CurrentVersion, text.trace_id, text.span_id, options, state)
      BY <1>1, <1>3, <3>1, <3>2 DEF FromContext
    <3>4. CurrentVersion \in Int \ {NotANumber, 255} /\ options \in Int
      BY DEF CurrentVersion, NotANumber
    <3> QED
      BY <2>2, <3>3, <3>4, TraceParentFacts
  <2>4. CASE c = "metadata"
    <3>1. tp = FromString(text, MetadataState(up))
      BY <1>1, <2>1, <2>4 DEF Extract
    <3>2. None \in Entries \cup {None} /\ TRUE \in BOOLEAN /\ FALSE \in BOOLEAN
      OBVIOUS
    <3>3. Tracestate(None, TRUE, FALSE) \in Parsed
      BY <3>2, TracestateFacts
    <3>4. MetadataState(up) \in Parsed \cup {None}
      BY <3>3 DEF MetadataState
    <3> QED
      BY <2>2, <3>1, <3>4, FromStringFacts
  <2>5. CASE c = "string"
    <3>1. tp = FromString(text, None) /\ None \in Parsed \cup {None}
      BY <1>1, <2>1, <2>5 DEF Extract
    <3> QED
      BY <2>2, <3>1, FromStringFacts
  <2>6. CASE c = "binary"
    <3>1. tp = FromBinary(BinaryOf(text))
      BY <1>1, <2>1, <2>6 DEF Extract
    <3>2. tp = TraceParent(text.version, text.trace_id, text.span_id, text.flags, None)
      BY <3>1 DEF FromBinary, BinaryOf
    <3>3. text.version \in Int \ {NotANumber, 255} /\ None \in Parsed \cup {None}
      BY <1>2, <2>1, <2>2, <2>6
    <3> QED
      BY <2>2, <3>2, <3>3, TraceParentFacts
  <2> QED
    BY <1>2, <1>5, <2>3, <2>4, <2>5, <2>6 DEF CarrierTypes
<1>6. c \notin {"pairs", "links", "none"}
  BY DEF Extract
<1> QED
  BY <1>4, <1>5, <1>6

-----------------------------------------------------------------------------
(***************************************************************************)
(* What other services are told of the decision.                           *)
(***************************************************************************)
\* The transaction has what it was begun with, and a trace of its own has a rate.
Begun ==
  tx.state # "none" =>
    /\ Whole(tx.tp) /\ tx.sampled \in BOOLEAN
    /\ tx.rate = SampleRate(tx.tp, conf.rate, tx.sampled)
    /\ tx.tp.trace_id = "own" => DOMAIN tx.tp.dict # {}

\* Who is told so in headers is told of the transaction, or of a span that is not
\* dropped, and of the decision.
Parental(id) == id = Tx \/ (id \in Ids /\ Real(id))
Faithful(m) ==
  m.carrier = "headers" =>
    /\ tx.state # "none"
    /\ \E id : /\ Parental(id)
               /\ m.tp = CopyFrom(tx.tp, id, Options(tx.sampled))

Headed == Begun /\ \A m \in sent : Faithful(m)

LEMMA InitHeaded == Init => Headed
BY DEF Init, Headed, Begun, NoTransaction

\* A step that changes neither what the transaction was begun with nor the kind of
\* a span.
LEMMA StillHeaded ==
  ASSUME Headed, service' = service,
         tx'.state = "none" <=> tx.state = "none",
         tx'.tp = tx.tp, tx'.rate = tx.rate, tx'.sampled = tx.sampled,
         Ids \subseteq Ids', \A s \in Ids : Kin(spans[s], spans'[s]),
         \A m \in sent' : m \in sent \/ Faithful(m)'
  PROVE  Headed'
<1>1. conf' = conf
  BY DEF conf
<1>2. Begun'
  BY <1>1 DEF Headed, Begun
<1>3. \A id : Parental(id) => Parental(id)'
  BY DEF Parental, Real, Kin
<1>4. \A m : Faithful(m) => Faithful(m)'
  BY <1>3 DEF Faithful
<1> QED
  BY <1>2, <1>4 DEF Headed

LEMMA BeginHeaded ==
  ASSUME Base, Headed, NEW c \in Carriers, NEW up \in conf.upstreams, Begin(c, up)
  PROVE  Headed'
<1>1. phase = "idle" /\ service' = service /\ sent' = sent
  BY DEF Begin
<1>2. sent' = {}
  BY <1>1 DEF Base, Blank
<1>3. service \in DOMAIN Scenarios /\ conf' = conf /\ conf.rate \in Rates
  BY <1>1, RequestAssumption DEF Base, Types, conf
<1>4. PICK tp0 : tp0 = Extract(c, up)
  OBVIOUS
<1>5. PICK tp : tp = Continued(conf.strategy, tp0)
  OBVIOUS
<1>6. PICK sampled \in Decisions(tp, conf.rate) :
        tx' = [NoTransaction EXCEPT
              !.state = "open", !.sampled = sampled,
              !.rate = SampleRate(tp, conf.rate, sampled),
              !.tp = TransactionParent(tp, "own", Tx, conf.rate, sampled),
              !.links = Links(conf.strategy, tp0)
                          \cup IF c = "links" /\ up.traceparent # None
                                 THEN {FromString(up.traceparent, None)} \ {None}
                                 ELSE {}]
  <2>1. BeginTransaction(c, up)
    BY DEF Begin
  <2> QED
    BY <1>4, <1>5, <2>1, Zenon DEF BeginTransaction
<1>7. sampled \in BOOLEAN
  <2>1. Recorded(tp.options) \in BOOLEAN
    BY DEF Recorded
  <2> QED
    BY <2>1 DEF Decisions
<1>8. PICK own : own = TransactionParent(tp, "own", Tx, conf.rate, sampled)
  OBVIOUS
<1>9. PICK rate : rate = SampleRate(tp, conf.rate, sampled)
  OBVIOUS
<1>10. /\ tx'.state = "open" /\ tx'.sampled = sampled /\ tx'.rate = rate
       /\ tx'.tp = own
  <2>1. PICK links :
          tx' = [NoTransaction EXCEPT !.state = "open", !.sampled = sampled,
                   !.rate = rate, !.tp = own, !.links = links]
    BY <1>6, <1>8, <1>9, Zenon
  <2> QED
    BY <2>1 DEF NoTransaction
<1>11. /\ Whole(own) /\ rate = SampleRate(own, conf.rate, sampled)
       /\ own.trace_id = "own" => DOMAIN own.dict # {}
  <2>1. CASE tp = None
    <3>1. own = TransactionParent(None, "own", Tx, conf.rate, sampled)
      BY <1>8, <2>1
    <3>2. Tx \in Int
      BY DEF Tx
    <3>3. /\ Whole(own) /\ own # None /\ "s" \in DOMAIN own.dict
          /\ own.dict["s"] = SampleRate(None, conf.rate, sampled)
      BY <1>3, <1>7, <3>1, <3>2, OwnFacts
    <3>4. SampleRate(own, conf.rate, sampled) = own.dict["s"]
      BY <3>3 DEF SampleRate
    <3> QED
      BY <1>9, <2>1, <3>3, <3>4
  <2>2. CASE tp # None
    <3>1. own = tp
      BY <1>8, <2>2 DEF TransactionParent
    <3>2. tp0 = tp
      BY <1>5, <2>2 DEF Continued
    <3>3. Whole(tp) /\ tp.trace_id # "own"
      BY <1>3, <1>4, <2>2, <3>2, ExtractFacts
    <3> QED
      BY <1>9, <3>1, <3>3
  <2> QED
    BY <2>1, <2>2
<1>12. Begun'
  BY <1>3, <1>7, <1>10, <1>11 DEF Begun
<1> QED
  BY <1>2, <1>12 DEF Headed

\* What an HTTP client names in the headers.
LEMMA ToldInHeaders ==
  ASSUME Base, NEW w \in Libraries, w.carrier = "headers",
         NEW n, n = Len(spans) + 1, NEW ss, ss = Append(spans, NewSpan(w))
  PROVE  \/ Told(w, ss, n) = Tx
         \/ Told(w, ss, n) \in 1 .. n /\ IsReal(ss, Told(w, ss, n))
<1>1. PICK new \in SpanType : new = NewSpan(w)
  BY NewSpanFacts
<1>2. /\ spans \in Seq(SpanType) /\ Len(spans) \in Nat
      /\ \A s \in Ids : spans[s].parent < s
  BY DEF Base, Types, Tree
<1>3. /\ ss \in Seq(SpanType) /\ Len(ss) = n /\ ss[n] = new /\ n \in Nat \ {0}
      /\ \A s \in Ids : ss[s] = spans[s]
  <2>1. ss = Append(spans, new)
    BY <1>1
  <2> QED
    BY <1>2, <2>1 DEF Ids
<1>4. new.parent \in 0 .. Len(spans)
  BY <1>1, NewSpanFacts
<1>5. Older(ss)
  <2>1. ASSUME NEW s \in 1 .. Len(ss)
        PROVE  ss[s].parent < s
    <3>1. CASE s = n
      BY <1>2, <1>3, <1>4, <3>1
    <3>2. CASE s # n
      <4>1. s \in Ids
        BY <1>2, <1>3, <3>2 DEF Ids
      <4> QED
        BY <1>2, <1>3, <4>1
    <3> QED
      BY <3>1, <3>2
  <2> QED
    BY <1>3, <2>1 DEF Older
<1>6. PICK C : C = 0 .. Len(ss)
  OBVIOUS
<1>7. ASSUME NEW t \in C, t # Tx
      PROVE  ss[t].parent \in C
  <2>1. t \in 1 .. Len(ss)
    BY <1>3, <1>6, <1>7 DEF Tx
  <2>2. ss[t] \in SpanType
    BY <1>3, <2>1
  <2>3. ss[t].parent \in Nat /\ ss[t].parent < t
    BY <1>5, <2>1, <2>2 DEF Older, SpanType
  <2> QED
    BY <1>3, <1>6, <2>1, <2>3
<1>8. n \in C
  BY <1>3, <1>6
<1>9. /\ Enclosing(ss, n) \in C
      /\ Enclosing(ss, n) = Tx \/ IsReal(ss, Enclosing(ss, n))
  BY <1>5, <1>6, <1>7, <1>8, EnclosingFacts
<1>10. w.fallback = "enclosing"
  BY LibraryType DEF MarksItsOwn
<1>11. Told(w, ss, n) = IF IsReal(ss, n) THEN n ELSE Enclosing(ss, n)
  <2>1. n # None
    BY <1>3, NoneAssumption
  <2> QED
    BY <1>10, <2>1 DEF Told
<1>12. \A t \in C : t = Tx \/ t \in 1 .. n
  BY <1>3, <1>6 DEF Tx
<1> QED
  BY <1>3, <1>8, <1>9, <1>11, <1>12

LEMMA CallHeaded ==
  ASSUME Base, Headed, NEW w \in Callable, CallTraced(w)
  PROVE  Headed'
<1>1. w \in Libraries /\ service' = service
  BY ConfType DEF Base, Types, Callable, CallTraced
<1>2. PICK n : n = Len(spans) + 1
  OBVIOUS
<1>3. PICK ss : ss = Append(spans, NewSpan(w))
  OBVIOUS
<1>4. Called(w, n, ss)
  BY <1>1, <1>2, <1>3, CallFacts
<1>5. /\ Ids \subseteq Ids' /\ Ids \subseteq 1 .. n /\ Ids' = 1 .. n
      /\ \A s \in Ids : Kin(spans[s], spans'[s])
  <2>1. Ids \subseteq 1 .. n /\ Ids' = 1 .. n
    BY <1>2, <1>4 DEF Ids, Called, Base, Types
  <2> QED
    BY <1>4, <2>1 DEF Called
<1>6. /\ tx'.state = tx.state /\ tx'.tp = tx.tp /\ tx'.rate = tx.rate
      /\ tx'.sampled = tx.sampled
  <2>1. IsTx(tx) /\ tx' = Counted(NewSpan(w)) /\ NewSpan(w) \in SpanType
    BY <1>1, <1>4, NewSpanFacts DEF Base, Types, Called
  <2> QED
    BY <2>1, CountedFacts
<1>7. tx.state = "open" /\ tx.sampled = TRUE
  <2>1. tx.state = "open" /\ tx.sampled
    BY DEF CallTraced, Sampling, InTransaction
  <2>2. tx.sampled \in BOOLEAN
    BY <2>1 DEF Headed, Begun
  <2> QED
    BY <2>1, <2>2
<1>8. PICK id : id = Told(w, ss, n)
  OBVIOUS
<1>9. ASSUME NEW m \in sent', m \notin sent, m.carrier = "headers"
      PROVE  Faithful(m)'
  <2>1. sent' \in Inform(w, ss, n)
    BY <1>4 DEF Called
  <2>2. m = Message(w, id, IF w.carrier = "headers" THEN Options(TRUE) ELSE None)
    BY <1>8, <1>9, <2>1 DEF Inform
  <2>3. w.carrier = "headers"
    BY <1>9, <2>2 DEF Message
  <2>4. m.tp = CopyFrom(tx'.tp, id, Options(tx'.sampled))
    BY <1>6, <1>7, <2>2, <2>3 DEF Message
  <2>5. id = Tx \/ (id \in 1 .. n /\ IsReal(ss, id))
    BY <1>1, <1>2, <1>3, <1>8, <2>3, ToldInHeaders
  <2>6. id \in 1 .. n => Kin(ss[id], spans'[id])
    BY <1>4 DEF Called
  <2>7. Parental(id)'
    BY <1>5, <2>5, <2>6 DEF Parental, Real, IsReal, Kin
  <2> QED
    BY <1>6, <1>7, <2>4, <2>7 DEF Faithful
<1>10. \A m \in sent' : m \in sent \/ Faithful(m)'
  BY <1>9 DEF Faithful
<1> QED
  BY <1>1, <1>5, <1>6, <1>10, StillHeaded

LEMMA PlainCallHeaded ==
  ASSUME Base, Headed, NEW w \in Callable, CallUntraced(w) \/ CallThrough(w)
  PROVE  Headed'
<1>1. /\ w \in Libraries /\ UNCHANGED <<service, tx>>
      /\ Len(spans') = Len(spans) /\ \A s \in Ids : Kin(spans[s], spans'[s])
  BY PlainCallFacts
<1>2. w.carrier = "headers" => w.fallback = "enclosing" /\ w.span = "exit"
  BY <1>1, LibraryType DEF MarksItsOwn
<1>3. ASSUME NEW m \in sent', m \notin sent, m.carrier = "headers"
      PROVE  Faithful(m)'
  <2>1. CASE CallUntraced(w)
    <3>1. InTransaction /\ sent' = InformUnsampled(w)
      BY <1>3, <2>1 DEF CallUntraced
    <3>2. m.carrier = w.carrier
      <4>1. \E id, options : m = Message(w, id, options)
        BY <1>3, <3>1 DEF InformUnsampled
      <4>2. \A id, options : Message(w, id, options).carrier = w.carrier
        BY DEF Message
      <4> QED
        BY <4>1, <4>2
    <3>3. m = Message(w, Tx, Options(FALSE))
      BY <1>2, <1>3, <3>1, <3>2 DEF InformUnsampled
    <3>4. tx.state = "open" /\ tx.sampled = FALSE
      <4>1. tx.state = "open" /\ ~tx.sampled
        BY <2>1, <3>1 DEF CallUntraced, Sampling, InTransaction
      <4>2. tx.sampled \in BOOLEAN
        BY <4>1 DEF Headed, Begun
      <4> QED
        BY <4>1, <4>2
    <3>5. m.tp = CopyFrom(tx'.tp, Tx, Options(tx'.sampled))
      BY <1>1, <3>3, <3>4 DEF Message
    <3>6. Parental(Tx)'
      BY DEF Parental
    <3> QED
      BY <1>1, <3>4, <3>5, <3>6 DEF Faithful
  <2>2. CASE CallThrough(w)
    <3>1. w.carrier # "headers"
      BY <1>2, <2>2 DEF CallThrough
    <3>2. \E id, options : m = Message(w, id, options)
      BY <1>3, <2>2 DEF CallThrough, Inform
    <3> QED
      BY <1>3, <3>1, <3>2 DEF Message
  <2> QED
    BY <2>1, <2>2
<1>4. \A m \in sent' : m \in sent \/ Faithful(m)'
  BY <1>3 DEF Faithful
<1>5. Ids' = Ids
  BY <1>1 DEF Ids
<1> QED
  BY <1>1, <1>4, <1>5, StillHeaded

LEMMA EndHeaded ==
  ASSUME Base, Headed, Return \/ Unwind
  PROVE  Headed'
<1>1. PICK t : t = Ending(Innermost)
  OBVIOUS
<1>2. Settles(t)
  <2>1. Return => Settles(t)
    BY <1>1, ReturnFacts
  <2>2. Unwind => Settles(t)
    BY <1>1, UnwindFacts
  <2> QED
    BY <2>1, <2>2
<1>3. UNCHANGED <<service, sent>>
  BY DEF Return, Unwind
<1>4. Ids' = Ids /\ \A s \in Ids : Kin(spans[s], spans'[s])
  BY <1>2 DEF Settles, Ids
<1>5. /\ tx'.state = tx.state /\ tx'.tp = tx.tp /\ tx'.rate = tx.rate
      /\ tx'.sampled = tx.sampled
  BY <1>2 DEF Settles
<1> QED
  BY <1>3, <1>4, <1>5, StillHeaded

\* The steps that leave the spans alone and tell nobody.
LEMMA QuietHeaded ==
  ASSUME Headed, UNCHANGED <<service, spans, sent>>,
         tx'.state = "none" <=> tx.state = "none",
         tx'.tp = tx.tp, tx'.rate = tx.rate, tx'.sampled = tx.sampled
  PROVE  Headed'
<1>1. Ids' = Ids /\ \A s \in Ids : Kin(spans[s], spans'[s])
  BY DEF Ids, Kin
<1>2. \A m \in sent' : m \in sent \/ Faithful(m)'
  OBVIOUS
<1> QED
  BY <1>1, <1>2, StillHeaded

LEMMA StepKeepsHeaded == Base /\ Headed /\ [Next]_vars => Headed'
<1> SUFFICES ASSUME Base, Headed, [Next]_vars
             PROVE  Headed'
  OBVIOUS
<1>1. IsTx(tx)
  BY DEF Base, Types
<1>2. ASSUME NEW c \in Carriers, NEW up \in conf.upstreams,
             Begin(c, up) \/ BeginRaises(c, up)
      PROVE  Headed'
  <2>1. CASE Begin(c, up)
    BY <2>1, BeginHeaded
  <2>2. CASE BeginRaises(c, up)
    <3>1. UNCHANGED <<service, spans, sent, tx>>
      BY <2>2 DEF BeginRaises
    <3> QED
      BY <3>1, QuietHeaded
  <2> QED
    BY <1>2, <2>1, <2>2
<1>3. ASSUME NEW c \in Carriers, BeginUntraced(c)
      PROVE  Headed'
  <2>1. UNCHANGED <<service, spans, sent, tx>>
    BY <1>3 DEF BeginUntraced
  <2> QED
    BY <2>1, QuietHeaded
<1>4. ASSUME NEW w \in Callable, OTelRaises(w)
      PROVE  Headed'
  <2>1. w \in Libraries
    BY ConfType DEF Base, Types, Callable
  <2>2. /\ UNCHANGED <<service, spans, sent>>
        /\ tx' = Counted(NewSpan(w)) /\ NewSpan(w) \in SpanType
    BY <1>4, <2>1, NewSpanFacts DEF OTelRaises
  <2>3. /\ tx'.state = tx.state /\ tx'.tp = tx.tp /\ tx'.rate = tx.rate
        /\ tx'.sampled = tx.sampled
    BY <1>1, <2>2, CountedFacts
  <2> QED
    BY <2>2, <2>3, QuietHeaded
<1>5. ASSUME NEW i \in conf.frameworks, NEW e \in Endings, Finish(i, e)
      PROVE  Headed'
  <2>1. UNCHANGED <<service, spans, sent, tx>>
    BY <1>5 DEF Finish
  <2> QED
    BY <2>1, QuietHeaded
<1>6. CASE ReturnUntraced \/ UnwindUntraced \/ Raise \/ Catch \/ CatchAndCapture
           \/ Skip \/ CaptureStep \/ Done \/ UNCHANGED vars
  <2>1. UNCHANGED <<service, spans, sent, tx>>
    BY <1>6 DEF ReturnUntraced, UnwindUntraced, Raise, Catch, CatchAndCapture, Skip,
                CaptureStep, Done, vars
  <2> QED
    BY <2>1, QuietHeaded
<1>7. CASE SetOutcome \/ EndTransaction
  <2>1. /\ UNCHANGED <<service, spans, sent>>
        /\ \/ tx' = tx
           \/ \E o : tx' = [tx EXCEPT !.outcome = o]
           \/ tx.state = "open" /\ tx' = [tx EXCEPT !.state = "ended"]
    BY <1>7 DEF SetOutcome, EndTransaction, InTransaction
  <2>2. /\ tx'.state = "none" <=> tx.state = "none"
        /\ tx'.tp = tx.tp /\ tx'.rate = tx.rate /\ tx'.sampled = tx.sampled
    BY <1>1, <2>1 DEF IsTx
  <2> QED
    BY <2>1, <2>2, QuietHeaded
<1> QED
  BY <1>2, <1>3, <1>4, <1>5, <1>6, <1>7, PlainCallHeaded, CallHeaded, EndHeaded
  DEF Next

\* Who is called over HTTP reads in the headers the trace, the decision and the rate
\* of this service, has a parent that was not dropped, and goes on with a trace that
\* began here even if it restarts those of strangers: whatever this service was told
\* itself, and however often it was told on.
THEOREM OneDecisionIsMade == Spec => []OneDecision
<1>1. Base /\ Headed => OneDecision
  <2> SUFFICES ASSUME Base, Headed, NEW m \in sent, m.carrier = "headers",
                      NEW told, told = ReadBack(m.tp)
               PROVE  /\ told.trace_id = tx.tp.trace_id
                      /\ Decisions(told, conf.rate) = {tx.sampled}
                      /\ SampleRate(told, conf.rate, tx.sampled) = tx.rate
                      /\ told.span_id = Tx \/ Real(told.span_id)
                      /\ told.trace_id = "own" =>
                           Continued("restart_external", told) = told
    BY DEF OneDecision, ReadBack
  <2>1. PICK id : /\ tx.state # "none" /\ Parental(id)
                  /\ m.tp = CopyFrom(tx.tp, id, Options(tx.sampled))
    BY DEF Headed, Faithful
  <2>2. /\ Whole(tx.tp) /\ tx.sampled \in BOOLEAN
        /\ tx.rate = SampleRate(tx.tp, conf.rate, tx.sampled)
        /\ tx.tp.trace_id = "own" => DOMAIN tx.tp.dict # {}
    BY <2>1 DEF Headed, Begun
  <2>3. id \in Int /\ (id = Tx \/ Real(id))
    BY <2>1 DEF Parental, Tx, Ids, Base, Types
  <2>4. PICK tp : tp = tx.tp
    OBVIOUS
  <2>5. PICK sampled \in BOOLEAN : sampled = tx.sampled
    BY <2>2
  <2>12. PICK options \in {0, 1} : options = Options(sampled)
    BY DEF Options
  <2>6. /\ told # None /\ told.trace_id = tp.trace_id /\ told.span_id = id
        /\ told.options = options /\ told.dict = tp.dict
    <3>1. Whole(tp)
      BY <2>2, <2>4
    <3>2. told = ReadBack(CopyFrom(tp, id, options))
      BY <2>1, <2>4, <2>5, <2>12
    <3>3. id \in Int
      BY <2>3
    <3> QED
      BY <3>1, <3>2, <3>3, RoundTrip
  <2>7. tp # None
    BY <2>2, <2>4, HeaderAssumption DEF Whole
  <2>8. Recorded(options) = sampled
    BY <2>12 DEF Recorded, Options
  <2>9. Decisions(told, conf.rate) = {tx.sampled}
    BY <2>5, <2>6, <2>8 DEF Decisions
  <2>10. SampleRate(told, conf.rate, tx.sampled) = tx.rate
    BY <2>2, <2>4, <2>6, <2>7 DEF SampleRate
  <2>11. told.trace_id = "own" => Continued("restart_external", told) = told
    BY <2>2, <2>4, <2>6 DEF Continued, Restarted
  <2> QED
    BY <2>3, <2>4, <2>6, <2>9, <2>10, <2>11
<1>2. Init => Base /\ Headed
  BY InitBase, InitHeaded
<1>3. Base /\ Headed /\ [Next]_vars => (Base /\ Headed)'
  BY StepKeepsBase, StepKeepsHeaded
<1> QED
  BY <1>1, <1>2, <1>3, PTL DEF Spec
=============================================================================
