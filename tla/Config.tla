--------------------------------- MODULE Config ---------------------------------
(***************************************************************************)
(* The configuration of a client (Config in elasticapm/conf/__init__.py):  *)
(* each option is looked up in the environment, the arguments and the      *)
(* dictionary of the framework, validated and converted; then the          *)
(* callbacks run.  A client whose configuration has errors sends nothing.  *)
(* Later a remote configuration updates a copy (VersionedConfig.update).   *)
(*                                                                         *)
(* The options here stand for one of each kind.  A value is a word, a      *)
(* number with or without a unit, a decimal, a bool or None.  Times are in *)
(* microseconds and decimals in millionths.                                *)
(***************************************************************************)
EXTENDS Integers, SequencesExt

CONSTANTS
  Programs,      \* what clients start with: the three sources of options, whether
                 \* FIPS mode is on, and whether log_file can be written
  RemoteOptions, \* what the server may send: some options with their values
  Names,         \* the words that match the pattern of service_name
  Files          \* the words that are readable files

(***************************************************************************)
(* Values.                                                                 *)
(***************************************************************************)
NoValue == [none |-> TRUE]
Word(w) == [word |-> w]
Quantity(n, unit) == [number |-> n, unit |-> unit]
Number(n) == [number |-> n]
Decimal(n) == [millionths |-> n]
Bool(b) == [truth |-> b]

IsWord(v) == "word" \in DOMAIN v
IsBool(v) == "truth" \in DOMAIN v
IsDecimal(v) == "millionths" \in DOMAIN v
IsQuantity(v) == "unit" \in DOMAIN v
IsText(v) == IsWord(v) \/ IsDecimal(v) \/ IsQuantity(v)
IsWhole(v) == IsQuantity(v) /\ v.unit = ""

VARIABLES
  program,     \* what this client started with
  lookup,      \* the sources of this update, and whether it is the initial one
  fields,      \* the options that update has not come to
  values,      \* _values, of the copy during an update
  before,      \* _values of the configuration that was copied
  errors,      \* _errors
  queue,       \* callbacks_queue: pairs of an option and its new value
  called,      \* what the callbacks of each option were called with
  logfile,     \* logfile_set_up
  outcome      \* of the constructor, or of the update

configVars == <<program, lookup, fields, values, before, errors, queue, called,
                logfile, outcome>>

(***************************************************************************)
(* Validators: a value, a ConfigurationError, or another exception, which  *)
(* nobody catches.                                                         *)
(***************************************************************************)
Accept(v) == [is |-> "value", value |-> v]
Refuse == [is |-> "error"]
Raise == [is |-> "exception"]

DurationUnits == [ms |-> 1000, s |-> 1000000, m |-> 60000000]
Unitless(us) == [u \in DOMAIN DurationUnits \cup {""} |->
                   IF u = "" THEN us ELSE DurationUnits[u]]
SizeUnits == [b |-> 1, kb |-> 1024, mb |-> 1048576, gb |-> 1073741824]

Unit(v, units) ==
  IF IsQuantity(v) /\ v.unit \in DOMAIN units
    THEN Accept(Number(v.number * units[v.unit])) ELSE Refuse

Size(v) == IF IsQuantity(v) /\ v.number < 0 THEN Refuse ELSE Unit(v, SizeUnits)

\* float(value), rounded to four digits; what would become 0 is the minimum.
Float(v) ==
  IF IsDecimal(v) THEN v.millionths
    ELSE IF IsBool(v) THEN IF v.truth THEN 1000000 ELSE 0
    ELSE v.number * 1000000
Rounded(n) == ((n + 50) \div 100) * 100
MutantPrecision(v) ==
  IF IsWord(v) \/ (IsQuantity(v) /\ ~IsWhole(v)) THEN Refuse
    ELSE Accept(Decimal(Rounded(Float(v))))
Precision(v) ==
  IF IsWord(v) \/ (IsQuantity(v) /\ ~IsWhole(v)) THEN Refuse
    ELSE LET n == Float(v)
         IN  Accept(Decimal(IF Rounded(n) = 0 /\ n # 0 THEN 100 ELSE Rounded(n)))

ExcludeRange(v) ==
  IF 1000 <= v.number /\ v.number <= 999000 THEN Refuse ELSE Accept(v)

Regex(v) ==
  IF IsDecimal(v) \/ (IsWord(v) /\ v.word \notin Names) THEN Refuse ELSE Accept(v)

FileIsReadable(v) ==
  IF IsBool(v) THEN Raise ELSE IF IsWord(v) /\ v.word \in Files THEN Accept(v) ELSE Refuse

Fips(v) == IF program.fips /\ v # Bool(TRUE) THEN Refuse ELSE Accept(v)

\* value.lower() of what is no text raises.
Lower(v) == IF v = Word("INFO") THEN Word("info") ELSE v
Enumeration(v, valid) ==
  IF ~IsText(v) THEN Raise
    ELSE IF IsWord(v) /\ Lower(v).word \in valid THEN Accept(Lower(v)) ELSE Refuse

Renamed(v) == Accept(IF v = Word("errors") THEN Word("error") ELSE v)

Levels == {"info", "error"}
Validator(name, v) ==
  CASE name = "duration" -> Unit(v, DurationUnits)
    [] name = "milliseconds" -> Unit(v, Unitless(1000))
    [] name = "timeout" -> Unit(v, Unitless(1000000000))
    [] name = "size" -> Size(v)
    [] name = "precision" -> Precision(v)
    [] name = "range" -> ExcludeRange(v)
    [] name = "regex" -> Regex(v)
    [] name = "file" -> FileIsReadable(v)
    [] name = "fips" -> Fips(v)
    [] name = "level" -> Enumeration(v, Levels)
    [] name = "ecs" -> Enumeration(v, {"off", "override"})
    [] name = "renamed" -> Renamed(v)

(***************************************************************************)
(* The declarations of the options, in the order of the class.             *)
(***************************************************************************)
Option(class, type, validators, default) ==
  [class |-> class, type |-> type, validators |-> validators, default |-> default,
   required |-> FALSE, callbacks |-> FALSE]
NoFile == Word("")
Required(option) == [option EXCEPT !.required = TRUE]
WithCallbacks(option) == [option EXCEPT !.callbacks = TRUE]

Declared ==
  [service_name |-> Required(Option("value", "str", <<"regex">>, Word("unknown"))),
   server_cert |-> Option("value", "str", <<"file">>, NoValue),
   verify_server_cert |-> Option("bool", "bool", <<"fips">>, Bool(TRUE)),
   server_timeout |-> Option("value", "float", <<"timeout">>, Number(5000000)),
   processors |-> Option("list", "str", <<>>, Word("all")),
   metrics_interval |-> Option("duration", "str", <<"duration", "range">>, Number(30000000)),
   api_request_size |-> Option("value", "int", <<"size">>, Number(786432)),
   transaction_sample_rate |-> Option("value", "float", <<"precision">>, Decimal(1000000)),
   transaction_max_spans |-> Option("value", "int", <<>>, Number(500)),
   span_frames_min_duration |-> Option("duration", "str", <<"milliseconds">>, Number(5000)),
   capture_body |-> Option("value", "str", <<"renamed">>, Word("off")),
   global_labels |-> Option("dict", "str", <<>>, NoValue),
   disable_send |-> Option("bool", "bool", <<>>, Bool(FALSE)),
   log_level |-> WithCallbacks(Option("value", "str", <<"level">>, NoValue)),
   log_file |-> Option("value", "str", <<>>, NoFile),
   log_ecs_reformatting |->
     WithCallbacks(Option("value", "str", <<"ecs">>, Word("off")))]
Fields == <<"service_name", "server_cert", "verify_server_cert", "server_timeout",
            "processors", "metrics_interval", "api_request_size",
            "transaction_sample_rate", "transaction_max_spans",
            "span_frames_min_duration", "capture_body", "global_labels",
            "disable_send", "log_level", "log_file", "log_ecs_reformatting">>

\* A source gives a declared option a text, a bool or None; a number is its digits.
IsGiven(v) ==
  \/ v = NoValue
  \/ DOMAIN v = {"word"}
  \/ DOMAIN v = {"number", "unit"} /\ v.number \in Int
  \/ DOMAIN v = {"millionths"} /\ v.millionths \in Int
  \/ DOMAIN v = {"truth"} /\ v.truth \in BOOLEAN
IsSource(options) ==
  DOMAIN options \subseteq DOMAIN Declared /\ \A o \in DOMAIN options : IsGiven(options[o])

ASSUME ConfigAssumption ==
  /\ \A p \in Programs :
       IsSource(p.sources.env) /\ IsSource(p.sources.inline) /\ IsSource(p.sources.dict)
  /\ \A options \in RemoteOptions : IsSource(options)

(***************************************************************************)
(* __set__ of the classes of options.                                      *)
(***************************************************************************)
\* type(value); a ValueError becomes a ConfigurationError.
Text(v) == IF IsBool(v) THEN Word(IF v.truth THEN "True" ELSE "False") ELSE v
Typed(type, v) ==
  CASE type = "str" -> Accept(Text(v))
    [] type = "bool" -> Accept(IF IsBool(v) THEN v ELSE Bool(TRUE))
    [] type = "float" -> Accept(v)
    [] type = "int" ->
         IF IsBool(v) THEN Accept(Number(IF v.truth THEN 1 ELSE 0))
           ELSE IF IsWhole(v) THEN Accept(Number(v.number))
           ELSE IF IsText(v) THEN Refuse ELSE Accept(v)

\* No option has more than two validators; the second gets what the first returns.
Validated(validators, v) ==
  IF validators = <<>> THEN Accept(v)
    ELSE LET first == Validator(validators[1], v)
         IN  IF Len(validators) = 1 \/ first.is # "value" THEN first
               ELSE Validator(validators[2], first.value)

Validate(o, v) ==
  LET d == Declared[o]
      validated == Validated(d.validators, v)
  IN  IF v = NoValue THEN IF d.required THEN Refuse ELSE Accept(v)
        ELSE IF validated.is = "value" THEN Typed(d.type, validated.value)
                                       ELSE validated

Truth(v) ==
  IF v = Word("true") THEN Bool(TRUE) ELSE IF v = Word("false") THEN Bool(FALSE) ELSE v

\* What setattr does with v.  Lists and dicts are not validated.
Converted(o, v) ==
  CASE Declared[o].class = "value" -> Validate(o, v)
    [] Declared[o].class = "bool" ->
         LET result == Validate(o, Truth(v))
         IN  IF result = Accept(NoValue) THEN Accept(Bool(FALSE)) ELSE result
    [] Declared[o].class = "duration" ->
         IF v = NoValue THEN Raise ELSE Validate(o, v)
    [] Declared[o].class = "list" -> IF IsBool(v) THEN Raise ELSE Accept(v)
    [] Declared[o].class = "dict" ->
         IF v = Word("key=value") THEN Accept(v)
           ELSE IF IsText(v) THEN Raise ELSE Accept(NoValue)

(***************************************************************************)
(* _ConfigBase.update.                                                     *)
(***************************************************************************)
Current(vs, o) == IF o \in DOMAIN vs THEN vs[o] ELSE Declared[o].default

Given(sources) == DOMAIN sources.env \cup DOMAIN sources.inline \cup DOMAIN sources.dict
Raw(sources, o) ==
  IF o \in DOMAIN sources.env THEN sources.env[o]
    ELSE IF o \in DOMAIN sources.inline THEN sources.inline[o] ELSE sources.dict[o]

ConfigInit ==
  /\ program \in Programs
  /\ lookup = [sources |-> program.sources, initial |-> TRUE]
  /\ fields = Fields
  /\ values = <<>> /\ before = <<>>
  /\ errors = {}
  /\ queue = <<>>
  /\ called = [o \in {"log_level", "log_ecs_reformatting"} |-> <<>>]
  /\ logfile = FALSE
  /\ outcome = "none"

\* An option that has its default now gets a callback of its own initially.
MutantOnDefault(o, v) == lookup.initial /\ v # NoValue
OnDefault(o, v) == lookup.initial /\ v # NoValue /\ v = Declared[o].default

SetField ==
  LET o == Head(fields)
      old == Current(values, o)
      result == IF o \in Given(lookup.sources) THEN Converted(o, Raw(lookup.sources, o))
                                               ELSE Accept(old)
      new == IF result.is = "value" THEN result.value ELSE old
  IN  /\ outcome = "none" /\ fields # <<>>
      /\ fields' = Tail(fields)
      /\ outcome' = IF result.is = "exception" THEN "raised" ELSE outcome
      /\ values' = IF o \in Given(lookup.sources) /\ result.is = "value"
                     THEN [p \in DOMAIN values \cup {o} |->
                             IF p = o THEN new ELSE values[p]]
                     ELSE values
      /\ errors' = IF result.is = "error" \/ (Declared[o].required /\ new = NoValue)
                     THEN errors \cup {o}
                     ELSE errors
      /\ queue' = queue \o (IF new # old THEN <<<<o, new>>>> ELSE <<>>)
                        \o (IF OnDefault(o, new) THEN <<<<o, new>>>> ELSE <<>>)
      /\ UNCHANGED <<program, lookup, before, called, logfile>>

\* The first callback of log_level opens the log file, which may raise; that of
\* log_ecs_reformatting raises if there is no value.
OpensLogfile(o) ==
  o = "log_level" /\ ~logfile /\ Current(values, "log_file") \notin {NoFile, NoValue}
CallbackRaises(o, v) ==
  \/ OpensLogfile(o) /\ ~program.writable
  \/ o = "log_ecs_reformatting" /\ v = NoValue

CallPendingCallback ==
  LET o == Head(queue)[1]
      v == Head(queue)[2]
  IN  /\ outcome = "none" /\ fields = <<>> /\ queue # <<>>
      /\ called' = IF Declared[o].callbacks
                     THEN [called EXCEPT ![o] = Append(@, v)] ELSE called
      /\ logfile' = (logfile \/ OpensLogfile(o))
      /\ IF CallbackRaises(o, v) THEN outcome' = "raised" /\ UNCHANGED queue
                                 ELSE queue' = Tail(queue) /\ UNCHANGED outcome
      /\ UNCHANGED <<program, lookup, fields, values, before, errors>>

\* Client.__init__: with errors nothing is sent.
Silenced(vs) == [o \in DOMAIN vs \cup {"disable_send"} |->
                   IF o = "disable_send" THEN Bool(TRUE) ELSE vs[o]]
ClientConfigured ==
  /\ lookup.initial
  /\ outcome = "none" /\ fields = <<>> /\ queue = <<>>
  /\ outcome' = IF errors = {} THEN "done" ELSE "silent"
  /\ values' = IF errors = {} THEN values ELSE Silenced(values)
  /\ UNCHANGED <<program, lookup, fields, before, errors, queue, called, logfile>>

\* VersionedConfig.update: a copy is updated without the environment.
RemoteUpdate ==
  /\ lookup.initial /\ outcome \in {"done", "silent"}
  /\ \E remoteOptions \in RemoteOptions :
       lookup' = [initial |-> FALSE,
                  sources |-> [env |-> <<>>, inline |-> remoteOptions, dict |-> <<>>]]
  /\ before' = values
  /\ fields' = Fields
  /\ errors' = {}
  /\ called' = [o \in DOMAIN called |-> <<>>]
  /\ outcome' = "none"
  /\ UNCHANGED <<program, values, queue, logfile>>

RemoteUpdated ==
  /\ ~lookup.initial
  /\ outcome = "none" /\ fields = <<>> /\ queue = <<>>
  /\ outcome' = IF errors = {} THEN "done" ELSE "rejected"
  /\ values' = IF errors = {} THEN values ELSE before
  /\ UNCHANGED <<program, lookup, fields, before, errors, queue, called, logfile>>

ConfigNext ==
  SetField \/ CallPendingCallback \/ ClientConfigured \/ RemoteUpdate \/ RemoteUpdated

ConfigSpec == ConfigInit /\ [][ConfigNext]_configVars

-----------------------------------------------------------------------------
\* What the value of an option means, as the documentation has it: a time is that
\* time, a rate the nearest with four digits, but only 0 is 0, and None is no value.
Nearest(n, rounded) ==
  /\ rounded % 100 = 0
  /\ n = 0 <=> rounded = 0
  /\ n - rounded \in -50 .. 50 \/ (rounded = 100 /\ n \in -50 .. 50)
Microseconds(v) ==
  v.number * (CASE v.unit = "ms" -> 1000 [] v.unit = "s" -> 1000 * 1000
                [] v.unit = "m" -> 60 * 1000 * 1000)
Bytes(v) ==
  v.number * (CASE v.unit = "b" -> 1 [] v.unit = "kb" -> 1024
                [] v.unit = "mb" -> 1024 * 1024 [] v.unit = "gb" -> 1024 * 1024 * 1024)
WithUnit == {"metrics_interval", "server_timeout", "span_frames_min_duration"}
Means(o, v, value) ==
  IF v = NoValue THEN ~IsBool(Declared[o].default) => value = NoValue
    ELSE /\ o = "transaction_sample_rate" => Nearest(Float(v), value.millionths)
         /\ o \in WithUnit => IsWhole(v) \/ value.number = Microseconds(v)
         /\ o = "api_request_size" => value.number = Bytes(v)
         /\ o = "transaction_max_spans" /\ IsWhole(v) => value.number = v.number
         /\ o \in {"service_name", "server_cert", "processors", "log_file"} =>
              value = Text(v)

ByPrecedence == <<"env", "inline", "dict">>

\* The configuration does what it was told or complains: of every option that some
\* source gives, the value of the first source is in effect with the meaning that
\* it has, or the option is among the errors and keeps the value that it had,
\* whatever a source that counts less says.  A client that started with an error
\* sends nothing, whatever the server says later about other options.
ToldOrComplains ==
  /\ outcome \in {"done", "silent", "rejected"} =>
       \A i \in 1 .. 3 :
         LET Source(j) == lookup.sources[ByPrecedence[j]]
         IN  \A o \in DOMAIN Source(i) \ UNION {DOMAIN Source(j) : j \in 1 .. i - 1} :
               IF o \in errors THEN Current(values, o) = Current(before, o)
                 ELSE outcome # "rejected" => Means(o, Source(i)[o], Current(values, o))
  /\ outcome = "silent" => Current(values, "disable_send") = Bool(TRUE)
  /\ ~lookup.initial /\ Current(before, "disable_send") = Bool(TRUE) =>
       \/ Current(values, "disable_send") = Bool(TRUE)
       \/ "disable_send" \in Given(lookup.sources)

\* A callback is called once for a configuration that has a value for its option,
\* with that value: initially also for the default, later only for what changed.
CalledOnce ==
  outcome \in {"done", "silent"} =>
    \A o \in DOMAIN called :
      LET value == Current(values, o)
      IN  called[o] = IF lookup.initial
                        THEN IF value = NoValue THEN <<>> ELSE <<value>>
                        ELSE IF value = Current(before, o) THEN <<>> ELSE <<value>>
=============================================================================
