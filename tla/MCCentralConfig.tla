-------------------------- MODULE MCCentralConfig ---------------------------
(***************************************************************************)
(* Configuration in small: what the updater makes of the server's answers  *)
(* (CentralConfig), and what an update does with each option (Config).     *)
(* They share no state, so only one of them moves in a behaviour.          *)
(*                                                                         *)
(* The options a and b have callbacks, as log_level has, k has none.  v1   *)
(* sets all of them, v2 sets one, bad has a value that is rejected beside  *)
(* one that is not, gone is the answer once the configuration was deleted  *)
(* on the server.                                                          *)
(***************************************************************************)
EXTENDS CentralConfig, Config

CONSTANTS a, b, k, x, y, z, v1, v2, bad, gone

MCDefault == a :> x @@ b :> x @@ k :> x
MCRemote ==
  v1 :> (a :> y @@ b :> y @@ k :> y) @@ v2 :> (a :> x)
    @@ bad :> (b :> y @@ k :> z) @@ gone :> Nothing

\* The program set the option a itself.
FirstWithOption == a :> x
\* The program set nothing.
FirstEmpty == Nothing

-----------------------------------------------------------------------------
\* The values that each option is given.
Examples ==
  [service_name |-> {Word("shop"), Word("a/b"), Bool(TRUE), Decimal(5), NoValue},
   server_cert |-> {Word("cert.pem"), Word("missing"), Bool(TRUE)},
   verify_server_cert |-> {Word("false"), Word("maybe"), Bool(TRUE)},
   server_timeout |-> {Quantity(2, "s"), Quantity(1, ""), Word("x"), NoValue},
   processors |-> {Word("p"), Bool(TRUE), NoValue},
   metrics_interval |->
     {Quantity(0, "s"), Quantity(999, "ms"), Quantity(-1, "s"), Quantity(1, "m"),
      Quantity(1, "us"), NoValue},
   api_request_size |-> {Quantity(10, "kb"), Quantity(2, "mb"), Quantity(1, ""), Quantity(-1, "b")},
   transaction_sample_rate |->
     {Decimal(0), Decimal(1), Decimal(49), Decimal(-20), Decimal(123450), Decimal(999960),
      Quantity(1, ""), Word("x"), NoValue},
   transaction_max_spans |-> {Quantity(10, ""), Decimal(5), Word("x"), Bool(TRUE)},
   span_frames_min_duration |-> {Quantity(5, ""), Quantity(5, "m"), Bool(TRUE)},
   capture_body |-> {Word("errors"), Word("all")},
   global_labels |-> {Word("key=value"), Word("x"), NoValue},
   disable_send |-> {Word("true"), Word("False")},
   log_level |-> {Word("INFO"), Word("error"), Word("loud"), Bool(TRUE), NoValue},
   log_file |-> {Word("agent.log"), Bool(TRUE), NoValue},
   log_ecs_reformatting |-> {Word("off"), Word("override"), Word("x"), NoValue}]

Absent == <<>>
Texts(o) == {o :> v : v \in {w \in Examples[o] : IsText(w)}} \cup {Absent}
Objects(o) == {o :> v : v \in Examples[o]} \cup {Absent}

\* One option in three sources, or the logging options together, or an error in one
\* option beside another option.
OneOption ==
  UNION {[env : Texts(o), inline : Objects(o), dict : Objects(o)] : o \in DOMAIN Examples}
Logging ==
  {[env |-> level @@ ecs, inline |-> file, dict |-> Absent] :
     level \in Texts("log_level"), ecs \in Texts("log_ecs_reformatting"),
     file \in Objects("log_file")}
Beside ==
  {[env |-> "service_name" :> Word("a/b"), inline |-> other, dict |-> Absent] :
     other \in UNION {Objects(o) : o \in DOMAIN Examples}}

MCPrograms ==
  [sources : OneOption \cup Beside, fips : {FALSE}, writable : {TRUE}]
    \cup [sources : Logging, fips : {FALSE}, writable : BOOLEAN]
    \cup [sources : [env : Texts("verify_server_cert"), inline : {Absent}, dict : {Absent}],
           fips : {TRUE}, writable : {TRUE}]
MCRemoteOptions ==
  {"log_level" :> Word("info"), "transaction_sample_rate" :> Decimal(50),
   "log_level" :> Word("info") @@ "metrics_interval" :> Quantity(1, "ms"),
   "log_level" :> NoValue, "disable_send" :> Word("false")}
MCNames == {"shop"}
MCFiles == {"cert.pem"}

-----------------------------------------------------------------------------
VARIABLE focus    \* the part that moves

MCVars == <<vars, configVars, focus>>

MCInit ==
  /\ focus \in {"polls", "updates"}
  /\ Init /\ ConfigInit
  /\ focus = "updates" => remote = gone
  /\ focus = "polls" =>
       program = [sources |-> [env |-> Absent, inline |-> Absent, dict |-> Absent],
                  fips |-> FALSE, writable |-> TRUE]

Polls == focus = "polls" /\ Next /\ UNCHANGED <<configVars, focus>>
Updates == focus = "updates" /\ ConfigNext /\ UNCHANGED <<vars, focus>>
\* After a failure, or one update by the server.
Over ==
  /\ focus = "updates" /\ outcome # "none"
  /\ outcome \in {"raised", "rejected"} \/ ~lookup.initial
  /\ UNCHANGED MCVars

MCSpec ==
  /\ MCInit /\ [][Polls \/ Updates \/ Over]_MCVars
  /\ focus = "polls" => WF_vars(UpdateConfig) /\ SF_vars(FetchOk)
=============================================================================
