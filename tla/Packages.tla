------------------------------ MODULE Packages -------------------------------
(***************************************************************************)
(* The instrumented libraries (elasticapm/instrumentation/packages): what  *)
(* the wrapper of a library does around the function it wraps.  A wrapper  *)
(* gathers names, addresses and statements, of which the model keeps only  *)
(* whether they tell what resource is used, and then                       *)
(*                                                                         *)
(*   span       captures an exit span (leaf=True), an inner span or none;  *)
(*              "bridge" and "otel" are inner spans that another API       *)
(*              begins and ends, that of OpenTracing and of OpenTelemetry, *)
(*   resource   has named the resource itself ("own"), has given what      *)
(*              autofill_resource_context derives it from ("derived"), or  *)
(*              neither ("none"),                                          *)
(*   describes  completes the description of the span of its caller,       *)
(*   carrier    tells the service it calls of the trace, with the headers  *)
(*              of the request or the attributes of a message,             *)
(*   full       unless the message has no room for more attributes,        *)
(*   fallback   when its span was dropped, names in that carrier the       *)
(*              enclosing span that was not ("enclosing"), the transaction *)
(*              ("transaction") or what the transaction itself was told    *)
(*              ("upstream"),                                              *)
(*   marks      notes on the span that another service knows of it,        *)
(*   unsampled  tells the service also when no spans are taken,            *)
(*   status     derives the outcome of the span from the response,         *)
(*   cancels    may cancel its span.                                       *)
(***************************************************************************)
EXTENDS TLC

Wrapper(span, resource) ==
  [span |-> span, resource |-> resource, describes |-> FALSE,
   carrier |-> "none", full |-> FALSE, fallback |-> "none", marks |-> FALSE,
   unsampled |-> FALSE, status |-> FALSE, cancels |-> FALSE]

Exit(resource) == Wrapper("exit", resource)
Inner == Wrapper("inner", "none")
Through == Wrapper("none", "none")

(***************************************************************************)
(* HTTP clients.  requests and httpx leave the headers to the libraries    *)
(* below them.                                                             *)
(***************************************************************************)
HttpClient == [Exit("derived") EXCEPT !.status = TRUE]
Propagating(marks) ==
  [HttpClient EXCEPT !.carrier = "headers", !.fallback = "enclosing",
                     !.marks = marks, !.unsampled = TRUE]

Urllib3 == Propagating(TRUE)
Urllib == Propagating(TRUE)
Httplib2 == Propagating(TRUE)
HTTPCore == Propagating(TRUE)
HTTPCoreAsync == Propagating(FALSE)
AioHttpClient == Propagating(FALSE)
Requests == HttpClient
HttpxClient == HttpClient
HttpxAsyncClient == HttpClient

(***************************************************************************)
(* Messages and cloud services.                                            *)
(***************************************************************************)
KafkaSend ==
  [Exit("own") EXCEPT !.carrier = "message", !.fallback = "upstream",
                      !.unsampled = TRUE]
KafkaPoll == Exit("own")
\* __next__ in a transaction that is not one of its own.
KafkaReceive == [Exit("own") EXCEPT !.cancels = TRUE]

\* Every service of AWS and of Azure names its resource, with one of its own.
Botocore == Exit("own")
S3 == Botocore
DynamoDB == Botocore
SNS == Botocore
AWSDefault == Botocore
SqsSend == [Botocore EXCEPT !.carrier = "message", !.full = TRUE,
                            !.fallback = "transaction"]
SqsReceive == Botocore
AioBotocore(service) == service

Azure == Exit("own")
AzureBlob == Azure
AzureQueue == Azure
AzureTable == Azure
AzureFile == Azure
AzureOther == Through    \* not one of the storage services

\* The interceptor of gRPC clients, a message of Celery and the spans of the
\* bridges (elasticapm/contrib).
GrpcClient == [Exit("derived") EXCEPT !.carrier = "metadata"]
CeleryPublish == [Through EXCEPT !.carrier = "string", !.fallback = "upstream",
                                 !.unsampled = TRUE]
OTSpan == Wrapper("bridge", "none")
OTelSpan == Wrapper("otel", "derived")

(***************************************************************************)
(* Databases and caches.                                                   *)
(***************************************************************************)
CursorProxy == Exit("derived")
AsyncCursorProxy == Exit("derived")
SQLiteConnect == Inner                        \* connect
SQLiteConnection == Wrapper("inner", "derived")  \* execute of a connection
PsycopgConnect == Exit("derived")
Psycopg2Connect == Exit("derived")
AsyncPsycopgConnect == Exit("derived")
Psycopg2Extensions == Through
ProxyConnect == Through                       \* returns a proxy
AioPG == Exit("derived")
AsyncPG == Exit("derived")
AioMySQL == Exit("derived")
PyMongo == Exit("derived")
PyMongoBulk == Exit("derived")
PyMongoCursor == Exit("derived")
Cassandra == Exit("derived")
PyMemcache == Exit("derived")
PythonMemcached == Exit("derived")
PyLibMc == Exit("derived")

Redis == Exit("none")
RedisPipeline == Exit("none")
RedisConnection == [Through EXCEPT !.describes = TRUE]
AioRedis == Exit("derived")
AioRedisPipeline == Exit("derived")
AioRedisConnection == [Through EXCEPT !.describes = TRUE]
RedisAsyncio == Exit("derived")
RedisAsyncioPipeline == Exit("derived")
ElasticsearchTransport == Exit("none")
ElasticsearchConnection == [Through EXCEPT !.describes = TRUE]
ElasticsearchAsyncTransport == Exit("none")
ElasticsearchAsyncConnection == [Through EXCEPT !.describes = TRUE]

(***************************************************************************)
(* Templates and other code that runs in the process.                      *)
(***************************************************************************)
DjangoTemplate == Inner
Jinja2 == Inner
TornadoRender == Inner
GraphQLExecutor == Inner
GraphQLScalar == Through     \* the resolution of a scalar
GraphQLBackend == Through    \* names the transaction
ZLib == Inner
AsyncIOSleep == Exit("none")

(***************************************************************************)
(* All of them; many behave the same.                                      *)
(***************************************************************************)
HttpClients ==
  {Urllib3, Urllib, Httplib2, HTTPCore, HTTPCoreAsync, AioHttpClient, Requests,
   HttpxClient, HttpxAsyncClient}
Messaging ==
  {KafkaSend, KafkaPoll, KafkaReceive, S3, DynamoDB, SNS, AWSDefault, SqsSend,
   SqsReceive, AioBotocore(SqsSend), AzureBlob, AzureQueue, AzureTable, AzureFile,
   AzureOther, GrpcClient, CeleryPublish}
Databases ==
  {CursorProxy, AsyncCursorProxy, SQLiteConnect, SQLiteConnection,
   PsycopgConnect, Psycopg2Connect, AsyncPsycopgConnect, Psycopg2Extensions,
   ProxyConnect, AioPG, AsyncPG, AioMySQL, PyMongo, PyMongoBulk, PyMongoCursor,
   Cassandra, PyMemcache, PythonMemcached, PyLibMc, Redis, RedisPipeline,
   RedisConnection, AioRedis, AioRedisPipeline, AioRedisConnection,
   RedisAsyncio, RedisAsyncioPipeline, ElasticsearchTransport,
   ElasticsearchConnection, ElasticsearchAsyncTransport,
   ElasticsearchAsyncConnection}
InProcess ==
  {DjangoTemplate, Jinja2, TornadoRender, GraphQLExecutor, GraphQLScalar,
   GraphQLBackend, ZLib, AsyncIOSleep}
Libraries == HttpClients \cup Messaging \cup Databases \cup InProcess
               \cup {OTSpan, OTelSpan}
=============================================================================
