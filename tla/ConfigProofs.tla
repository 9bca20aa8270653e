----------------------------- MODULE ConfigProofs -----------------------------
(***************************************************************************)
(* Proofs about Config: for any program and any remote configuration, the  *)
(* configuration is what was asked for or has an error, and a callback     *)
(* runs once for each value.                                               *)
(*                                                                         *)
(* An update is an option at a time.  The invariant says of the options    *)
(* that it has not come to that they are as before, and of those that it   *)
(* has come to what they and their callbacks are.                          *)
(***************************************************************************)
EXTENDS Config, TLAPS

Options == DOMAIN Declared
WithCallback == {"log_level", "log_ecs_reformatting"}

-----------------------------------------------------------------------------
(***************************************************************************)
(* Conversions.                                                            *)
(***************************************************************************)
LEMMA OptionNames ==
  Options = {"service_name", "server_cert", "verify_server_cert", "server_timeout",
             "processors", "metrics_interval", "api_request_size",
             "transaction_sample_rate", "transaction_max_spans",
             "span_frames_min_duration", "capture_body", "global_labels",
             "disable_send", "log_level", "log_file", "log_ecs_reformatting"}
BY DEF Options, Declared

\* What a value that a source gives may be.
LEMMA GivenCases ==
  ASSUME NEW v, IsGiven(v), v # NoValue
  PROVE  \/ IsWord(v) /\ ~IsBool(v) /\ ~IsDecimal(v) /\ ~IsQuantity(v)
         \/ ~IsWord(v) /\ ~IsBool(v) /\ ~IsDecimal(v) /\ IsQuantity(v) /\ v.number \in Int
         \/ ~IsWord(v) /\ ~IsBool(v) /\ IsDecimal(v) /\ ~IsQuantity(v) /\ v.millionths \in Int
         \/ ~IsWord(v) /\ IsBool(v) /\ ~IsDecimal(v) /\ ~IsQuantity(v) /\ v.truth \in BOOLEAN
BY DEF IsGiven, IsWord, IsBool, IsDecimal, IsQuantity

\* The results of a validator.
LEMMA Results ==
  /\ \A v : Accept(v).is = "value" /\ Accept(v).value = v
  /\ Refuse.is = "error" /\ Raise.is = "exception"
BY DEF Accept, Refuse, Raise

\* What the conversion of a number is.
LEMMA NumberFacts ==
  \A n : Number(n).number = n /\ ~IsQuantity(Number(n)) /\ ~IsWord(Number(n))
         /\ ~IsBool(Number(n)) /\ ~IsDecimal(Number(n)) /\ ~IsText(Number(n))
         /\ ~IsWhole(Number(n))
BY DEF Number, IsQuantity, IsWord, IsBool, IsDecimal, IsText, IsWhole

-----------------------------------------------------------------------------
(***************************************************************************)
(* What the options are declared to be.                                    *)
(***************************************************************************)
Plain(o, type, validators) ==
  /\ Declared[o].class = "value" /\ Declared[o].type = type
  /\ Declared[o].validators = validators

LEMMA Declarations ==
  /\ Plain("service_name", "str", <<"regex">>) /\ Declared["service_name"].required
  /\ Plain("server_cert", "str", <<"file">>)
  /\ Plain("server_timeout", "float", <<"timeout">>)
  /\ Plain("api_request_size", "int", <<"size">>)
  /\ Plain("transaction_sample_rate", "float", <<"precision">>)
  /\ Plain("transaction_max_spans", "int", <<>>)
  /\ Plain("log_file", "str", <<>>)
  /\ Declared["processors"].class = "list"
<1>1. /\ Plain("service_name", "str", <<"regex">>) /\ Declared["service_name"].required
      /\ Plain("server_cert", "str", <<"file">>)
  BY SMT DEF Plain, Declared, Option, Required
<1>2. /\ Plain("server_timeout", "float", <<"timeout">>)
      /\ Plain("api_request_size", "int", <<"size">>)
  BY SMT DEF Plain, Declared, Option, Required
<1>3. /\ Plain("transaction_sample_rate", "float", <<"precision">>)
      /\ Plain("transaction_max_spans", "int", <<>>)
  BY SMT DEF Plain, Declared, Option, Required
<1>4. Plain("log_file", "str", <<>>)
  BY SMT DEF Plain, Declared, Option
<1>5. Declared["processors"].class = "list"
  BY SMT DEF Declared, Option
<1> QED
  BY <1>1, <1>2, <1>3, <1>4, <1>5

LEMMA Durations ==
  /\ Declared["metrics_interval"].class = "duration"
  /\ Declared["metrics_interval"].type = "str"
  /\ Declared["metrics_interval"].validators = <<"duration", "range">>
  /\ Declared["span_frames_min_duration"].class = "duration"
  /\ Declared["span_frames_min_duration"].type = "str"
  /\ Declared["span_frames_min_duration"].validators = <<"milliseconds">>
BY SMT DEF Declared, Option

Validators == {"duration", "milliseconds", "timeout", "size", "precision", "range",
               "regex", "file", "fips", "level", "ecs", "renamed"}

\* A class, and who has to have a value and who is True or False.
Sort(o) ==
  /\ Declared[o].class \in {"value", "bool", "duration", "list", "dict"}
  /\ Declared[o].required => o = "service_name"
  /\ Declared[o].class = "bool" => IsBool(Declared[o].default)
  /\ Declared[o].type \in {"str", "bool", "float", "int"}
  /\ \/ Declared[o].validators = <<>>
     \/ \E name \in Validators : Declared[o].validators = <<name>>
     \/ Declared[o].validators = <<"duration", "range">>

LEMMA Classes == \A o \in Options : Sort(o)
<1>1. Sort("service_name")
  BY SMT DEF Sort, Validators, Declared, Option, Required, WithCallbacks, Bool, IsBool
<1>2. Sort("server_cert")
  BY SMT DEF Sort, Validators, Declared, Option, Required, WithCallbacks, Bool, IsBool
<1>3. Sort("verify_server_cert")
  BY SMT DEF Sort, Validators, Declared, Option, Required, WithCallbacks, Bool, IsBool
<1>4. Sort("server_timeout")
  BY SMT DEF Sort, Validators, Declared, Option, Required, WithCallbacks, Bool, IsBool
<1>5. Sort("processors")
  BY SMT DEF Sort, Validators, Declared, Option, Required, WithCallbacks, Bool, IsBool
<1>6. Sort("metrics_interval")
  BY SMT DEF Sort, Validators, Declared, Option, Required, WithCallbacks, Bool, IsBool
<1>7. Sort("api_request_size")
  BY SMT DEF Sort, Validators, Declared, Option, Required, WithCallbacks, Bool, IsBool
<1>8. Sort("transaction_sample_rate")
  BY SMT DEF Sort, Validators, Declared, Option, Required, WithCallbacks, Bool, IsBool
<1>9. Sort("transaction_max_spans")
  BY SMT DEF Sort, Validators, Declared, Option, Required, WithCallbacks, Bool, IsBool
<1>10. Sort("span_frames_min_duration")
  BY SMT DEF Sort, Validators, Declared, Option, Required, WithCallbacks, Bool, IsBool
<1>11. Sort("capture_body")
  BY SMT DEF Sort, Validators, Declared, Option, Required, WithCallbacks, Bool, IsBool
<1>12. Sort("global_labels")
  BY SMT DEF Sort, Validators, Declared, Option, Required, WithCallbacks, Bool, IsBool
<1>13. Sort("disable_send")
  BY SMT DEF Sort, Validators, Declared, Option, Required, WithCallbacks, Bool, IsBool
<1>14. Sort("log_level")
  BY SMT DEF Sort, Validators, Declared, Option, Required, WithCallbacks, Bool, IsBool
<1>15. Sort("log_file")
  BY SMT DEF Sort, Validators, Declared, Option
<1>16. Sort("log_ecs_reformatting")
  BY SMT DEF Sort, Validators, Declared, Option, Required, WithCallbacks, Bool, IsBool
<1> QED
  BY <1>1, <1>2, <1>3, <1>4, <1>5, <1>6, <1>7, <1>8,
     <1>9, <1>10, <1>11, <1>12, <1>13, <1>14, <1>15, <1>16, OptionNames

-----------------------------------------------------------------------------
(***************************************************************************)
(* What a conversion returns.                                              *)
(***************************************************************************)
LEMMA NoValidator ==
  ASSUME NEW o, NEW type, NEW v, v # NoValue, Plain(o, type, <<>>)
  PROVE  Converted(o, v) = Typed(type, v)
<1>1. Converted(o, v) = Validate(o, v)
  BY SMT DEF Converted, Plain
<1>2. Validated(<<>>, v) = Accept(v)
  BY SMT DEF Validated
<1> QED
  BY <1>1, <1>2, Results, SMT DEF Validate, Plain

LEMMA OneValidator ==
  ASSUME NEW o, NEW type, NEW name, NEW v, v # NoValue, Plain(o, type, <<name>>),
         Converted(o, v).is = "value"
  PROVE  /\ Validator(name, v).is = "value"
         /\ Converted(o, v) = Typed(type, Validator(name, v).value)
<1>1. Converted(o, v) = Validate(o, v)
  BY SMT DEF Converted, Plain
<1>2. Validated(<<name>>, v) = Validator(name, v)
  BY SMT DEF Validated
<1> QED
  BY <1>1, <1>2, SMT DEF Validate, Plain

\* A required option has no None.
LEMMA RequiredValue ==
  ASSUME NEW v, Converted("service_name", v).is = "value"
  PROVE  v # NoValue
<1>1. Converted("service_name", v) = Validate("service_name", v)
  BY Declarations, SMT DEF Converted, Plain
<1> QED
  BY <1>1, Declarations, Results, SMT DEF Validate

LEMMA MeansNone ==
  ASSUME NEW o \in Options, Converted(o, NoValue).is = "value"
  PROVE  Means(o, NoValue, Converted(o, NoValue).value)
<1>1. CASE Declared[o].class = "value"
  <2>1. Converted(o, NoValue) = Validate(o, NoValue)
    BY <1>1, SMT DEF Converted
  <2>2. Validate(o, NoValue) \in {Refuse, Accept(NoValue)}
    BY SMT DEF Validate
  <2> QED
    BY <2>1, <2>2, Results, SMT DEF Means
<1>2. CASE Declared[o].class = "bool"
  BY <1>2, Classes, SMT DEF Sort, Means
<1>3. CASE Declared[o].class = "duration"
  BY <1>3, Results, SMT DEF Converted
<1>4. CASE Declared[o].class = "list"
  <2>1. Converted(o, NoValue) \in {Raise, Accept(NoValue)}
    BY <1>4, SMT DEF Converted
  <2> QED
    BY <2>1, Results, SMT DEF Means
<1>5. CASE Declared[o].class = "dict"
  <2>1. NoValue # Word("key=value")
    BY SMT DEF NoValue, Word
  <2>2. Converted(o, NoValue) \in {Raise, Accept(NoValue)}
    BY <1>5, <2>1, SMT DEF Converted
  <2> QED
    BY <2>2, Results, SMT DEF Means
<1> QED
  BY <1>1, <1>2, <1>3, <1>4, <1>5, Classes DEF Sort

\* Texts are what they were.
LEMMA MeansText ==
  ASSUME NEW o \in {"service_name", "server_cert", "processors", "log_file"},
         NEW v, v # NoValue, Converted(o, v).is = "value"
  PROVE  Means(o, v, Converted(o, v).value)
<1>1. CASE o = "service_name"
  <2>1. Validator("regex", v) \in {Refuse, Accept(v)}
    BY SMT DEF Validator, Regex
  <2>2. Validator("regex", v).value = v
    BY <1>1, <2>1, OneValidator, Declarations, Results
  <2>3. Converted(o, v) = Typed("str", v)
    BY <1>1, <2>2, OneValidator, Declarations
  <2> QED
    BY <1>1, <2>3, Results, SMT DEF Typed, Means, WithUnit
<1>2. CASE o = "server_cert"
  <2>1. Validator("file", v) \in {Raise, Refuse, Accept(v)}
    BY SMT DEF Validator, FileIsReadable
  <2>2. Validator("file", v).value = v
    BY <1>2, <2>1, OneValidator, Declarations, Results
  <2>3. Converted(o, v) = Typed("str", v)
    BY <1>2, <2>2, OneValidator, Declarations
  <2> QED
    BY <1>2, <2>3, Results, SMT DEF Typed, Means, WithUnit
<1>3. CASE o = "log_file"
  <2>1. Converted(o, v) = Typed("str", v)
    BY <1>3, NoValidator, Declarations
  <2> QED
    BY <1>3, <2>1, Results, SMT DEF Typed, Means, WithUnit
<1>4. CASE o = "processors"
  <2>1. Converted(o, v) = IF IsBool(v) THEN Raise ELSE Accept(v)
    BY <1>4, Declarations, SMT DEF Converted
  <2>2. ~IsBool(v) /\ Converted(o, v) = Accept(v)
    BY <2>1, Results
  <2> QED
    BY <1>4, <2>2, Results, SMT DEF Text, Means, WithUnit
<1> QED
  BY <1>1, <1>2, <1>3, <1>4

\* What a validator of units returns.
LEMMA UnitFacts ==
  ASSUME NEW v, NEW units, Unit(v, units).is = "value"
  PROVE  /\ IsQuantity(v) /\ v.unit \in DOMAIN units
         /\ Unit(v, units) = Accept(Number(v.number * units[v.unit]))
BY Results, SMT DEF Unit

LEMMA UnitDomains ==
  /\ DOMAIN DurationUnits = {"ms", "s", "m"}
  /\ DurationUnits["ms"] = 1000 /\ DurationUnits["s"] = 1000000
  /\ DurationUnits["m"] = 60000000
  /\ DOMAIN SizeUnits = {"b", "kb", "mb", "gb"}
  /\ SizeUnits["b"] = 1 /\ SizeUnits["kb"] = 1024
  /\ SizeUnits["mb"] = 1048576 /\ SizeUnits["gb"] = 1073741824
BY SMT DEF DurationUnits, SizeUnits

\* A time is a number of microseconds.
LEMMA DurationIs ==
  ASSUME NEW v, IsGiven(v), NEW us \in Int, NEW units,
         units \in {DurationUnits, Unitless(us)}, v.unit \in DOMAIN units, ~IsWhole(v),
         IsQuantity(v)
  PROVE  v.number * units[v.unit] = Microseconds(v)
<1>1. v.unit \in {"ms", "s", "m"} /\ units[v.unit] = DurationUnits[v.unit]
  <2>1. CASE units = DurationUnits
    BY <2>1, UnitDomains, SMT
  <2>2. CASE units = Unitless(us)
    <3>1. v.unit # ""
      BY DEF IsWhole
    <3>2. v.unit \in DOMAIN DurationUnits
      BY <2>2, <3>1 DEF Unitless
    <3>3. \A u \in DOMAIN DurationUnits : u # "" => Unitless(us)[u] = DurationUnits[u]
      BY DEF Unitless
    <3>4. v.unit \in {"ms", "s", "m"}
      BY <3>2, UnitDomains, SMT
    <3> QED
      BY <2>2, <3>1, <3>2, <3>3, <3>4
  <2> QED
    BY <2>1, <2>2
<1> QED
  BY <1>1, UnitDomains, SMT DEF Microseconds

LEMMA RangeFacts ==
  ASSUME NEW v
  PROVE  ExcludeRange(v) = Refuse \/ ExcludeRange(v) = Accept(v)
BY SMT DEF ExcludeRange

LEMMA MeansDuration ==
  ASSUME NEW o \in WithUnit, NEW v, IsGiven(v), v # NoValue, Converted(o, v).is = "value"
  PROVE  Means(o, v, Converted(o, v).value)
<1> SUFFICES ASSUME ~IsWhole(v)
             PROVE  Converted(o, v).value.number = Microseconds(v)
  BY SMT DEF Means, WithUnit
<1>1. CASE o = "server_timeout"
  <2>1. Validator("timeout", v) = Unit(v, Unitless(1000000000))
    BY SMT DEF Validator
  <2> DEFINE n == v.number * Unitless(1000000000)[v.unit]
  <2>2. /\ Unit(v, Unitless(1000000000)).is = "value"
        /\ Converted(o, v) = Typed("float", Unit(v, Unitless(1000000000)).value)
    BY <1>1, <2>1, OneValidator, Declarations, SMT
  <2>3. /\ IsQuantity(v) /\ v.unit \in DOMAIN Unitless(1000000000)
        /\ Unit(v, Unitless(1000000000)).value = Number(n)
    BY <2>2, UnitFacts, Results, SMT
  <2>4. Converted(o, v).value = Number(n)
    BY <2>2, <2>3, Results, SMT DEF Typed
  <2> QED
    BY <2>3, <2>4, DurationIs, NumberFacts, SMT
<1>2. CASE o = "metrics_interval"
  <2>1. Converted(o, v) = Validate(o, v)
    BY <1>2, Durations, SMT DEF Converted
  <2>2. /\ Validated(<<"duration", "range">>, v).is = "value"
        /\ Converted(o, v) = Typed("str", Validated(<<"duration", "range">>, v).value)
    BY <1>2, <2>1, Durations, SMT DEF Validate
  <2>3. /\ Unit(v, DurationUnits).is = "value"
        /\ Validated(<<"duration", "range">>, v) = ExcludeRange(Unit(v, DurationUnits).value)
    BY <2>2, SMT DEF Validated, Validator
  <2> DEFINE n == v.number * DurationUnits[v.unit]
  <2>4. /\ IsQuantity(v) /\ v.unit \in DOMAIN DurationUnits
        /\ Unit(v, DurationUnits).value = Number(n)
    BY <2>3, UnitFacts, Results
  <2>5. Validated(<<"duration", "range">>, v).value = Number(n)
    BY <2>2, <2>3, <2>4, RangeFacts, Results
  <2>6. Converted(o, v).value = Number(n)
    BY <2>2, <2>5, NumberFacts, Results, SMT DEF Typed, Text
  <2> QED
    BY <2>4, <2>6, DurationIs, NumberFacts, SMT
<1>3. CASE o = "span_frames_min_duration"
  <2>1. Converted(o, v) = Validate(o, v)
    BY <1>3, Durations, SMT DEF Converted
  <2>2. Validated(<<"milliseconds">>, v) = Unit(v, Unitless(1000))
    BY SMT DEF Validated, Validator
  <2> DEFINE n == v.number * Unitless(1000)[v.unit]
  <2>3. /\ Unit(v, Unitless(1000)).is = "value"
        /\ Converted(o, v) = Typed("str", Unit(v, Unitless(1000)).value)
    BY <1>3, <2>1, <2>2, Durations, SMT DEF Validate
  <2>4. /\ IsQuantity(v) /\ v.unit \in DOMAIN Unitless(1000)
        /\ Unit(v, Unitless(1000)).value = Number(n)
    BY <2>3, UnitFacts, Results, SMT
  <2>5. Converted(o, v).value = Number(n)
    BY <2>3, <2>4, NumberFacts, Results, SMT DEF Typed, Text
  <2> QED
    BY <2>4, <2>5, DurationIs, NumberFacts, SMT
<1> QED
  BY <1>1, <1>2, <1>3 DEF WithUnit

LEMMA MeansSize ==
  ASSUME NEW v, v # NoValue, Converted("api_request_size", v).is = "value"
  PROVE  Means("api_request_size", v, Converted("api_request_size", v).value)
<1> DEFINE n == v.number * SizeUnits[v.unit]
<1>1. Validator("size", v) = Size(v)
  BY SMT DEF Validator
<1>2. /\ Size(v).is = "value"
      /\ Converted("api_request_size", v) = Typed("int", Size(v).value)
  BY <1>1, OneValidator, Declarations
<1>3. Size(v) = Unit(v, SizeUnits)
  BY <1>2, Results, SMT DEF Size
<1>4. v.unit \in DOMAIN SizeUnits /\ Size(v).value = Number(n)
  BY <1>2, <1>3, UnitFacts, Results
<1>5. Converted("api_request_size", v).value = Number(n)
  BY <1>2, <1>4, NumberFacts, Results, SMT DEF Typed
<1>6. n = Bytes(v)
  BY <1>4, UnitDomains, SMT DEF Bytes
<1> QED
  BY <1>5, <1>6, NumberFacts, SMT DEF Means, WithUnit

LEMMA MeansCount ==
  ASSUME NEW v, IsGiven(v), v # NoValue,
         Converted("transaction_max_spans", v).is = "value"
  PROVE  Means("transaction_max_spans", v, Converted("transaction_max_spans", v).value)
<1>1. Converted("transaction_max_spans", v) = Typed("int", v)
  BY NoValidator, Declarations
<1>2. ASSUME IsWhole(v)
      PROVE  Converted("transaction_max_spans", v).value.number = v.number
  <2>1. ~IsBool(v)
    BY <1>2, GivenCases DEF IsWhole
  <2> QED
    BY <1>1, <1>2, <2>1, NumberFacts, Results, SMT DEF Typed
<1> QED
  BY <1>2, SMT DEF Means, WithUnit

\* The rate is rounded to four digits.
LEMMA RoundedIsNearest ==
  ASSUME NEW n \in Int
  PROVE  Nearest(n, IF Rounded(n) = 0 /\ n # 0 THEN 100 ELSE Rounded(n))
<1> DEFINE q == (n + 50) \div 100
<1>1. q \in Int /\ Rounded(n) = q * 100
  BY SMT DEF Rounded
<1>2. q * 100 <= n + 50 /\ n + 50 < q * 100 + 100
  BY SMT
<1> HIDE DEF q
<1>3. (q * 100) % 100 = 0 /\ 100 % 100 = 0
  BY <1>1, SMT
<1>4. CASE q = 0
  BY <1>1, <1>2, <1>3, <1>4, SMT DEF Nearest
<1>5. CASE q # 0
  BY <1>1, <1>2, <1>3, <1>5, SMT DEF Nearest
<1> QED
  BY <1>4, <1>5

LEMMA MeansRate ==
  ASSUME NEW v, IsGiven(v), v # NoValue, Converted("transaction_sample_rate", v).is = "value"
  PROVE  Means("transaction_sample_rate", v, Converted("transaction_sample_rate", v).value)
<1> DEFINE r == IF Rounded(Float(v)) = 0 /\ Float(v) # 0 THEN 100 ELSE Rounded(Float(v))
<1>1. Validator("precision", v) = Precision(v)
  BY SMT DEF Validator
<1>2. /\ Precision(v).is = "value"
      /\ Converted("transaction_sample_rate", v) = Typed("float", Precision(v).value)
  BY <1>1, OneValidator, Declarations
<1>3. ~IsWord(v) /\ Precision(v) = Accept(Decimal(r))
  BY <1>2, Results, SMT DEF Precision
<1>4. Converted("transaction_sample_rate", v).value = Decimal(r)
  BY <1>2, <1>3, Results, SMT DEF Typed
<1>5. Float(v) \in Int
  BY <1>3, GivenCases, SMT DEF Float
<1>6. Nearest(Float(v), r)
  BY <1>5, RoundedIsNearest
<1> QED
  BY <1>4, <1>6, SMT DEF Means, WithUnit, Decimal

\* The conversions keep the meaning of what a source gives.
LEMMA ConvertedMeans ==
  ASSUME NEW o \in Options, NEW v, IsGiven(v), Converted(o, v).is = "value"
  PROVE  Means(o, v, Converted(o, v).value)
<1>1. CASE v = NoValue
  BY <1>1, MeansNone
<1>2. CASE v # NoValue /\ o \in {"service_name", "server_cert", "processors", "log_file"}
  BY <1>2, MeansText
<1>3. CASE v # NoValue /\ o \in WithUnit
  BY <1>3, MeansDuration
<1>4. CASE v # NoValue /\ o \in {"api_request_size", "transaction_max_spans",
                                 "transaction_sample_rate"}
  BY <1>4, MeansSize, MeansCount, MeansRate
<1>5. CASE /\ v # NoValue
           /\ o \notin {"service_name", "server_cert", "processors", "log_file",
                        "api_request_size", "transaction_max_spans",
                        "transaction_sample_rate"} \cup WithUnit
  BY <1>5, SMT DEF Means
<1> QED
  BY <1>1, <1>2, <1>3, <1>4, <1>5

\* None is no value of service_name, and disable_send is never an error.
LEMMA ServiceHasName ==
  ASSUME NEW v, IsGiven(v), Converted("service_name", v).is = "value"
  PROVE  Converted("service_name", v).value # NoValue
<1>1. Means("service_name", v, Converted("service_name", v).value) /\ v # NoValue
  BY ConvertedMeans, RequiredValue, OptionNames
<1>2. Converted("service_name", v).value = Text(v)
  BY <1>1, SMT DEF Means
<1> QED
  BY <1>1, <1>2, SMT DEF Text, Word, NoValue

LEMMA SendingIsNoError ==
  ASSUME NEW v
  PROVE  Converted("disable_send", v).is = "value"
<1>1. /\ Declared["disable_send"].class = "bool" /\ Declared["disable_send"].type = "bool"
      /\ Declared["disable_send"].validators = <<>> /\ ~Declared["disable_send"].required
  BY SMT DEF Declared, Option
<1>2. \A w : Validate("disable_send", w).is = "value"
  <2>1. \A w : Validated(<<>>, w) = Accept(w)
    BY SMT DEF Validated
  <2>2. \A w : Typed("bool", w).is = "value"
    <3> SUFFICES ASSUME NEW w
                 PROVE  Typed("bool", w).is = "value"
      OBVIOUS
    <3>1. Typed("bool", w) = Accept(IF IsBool(w) THEN w ELSE Bool(TRUE))
      BY SMT DEF Typed
    <3> QED
      BY <3>1, Results
  <2> QED
    BY <1>1, <2>1, <2>2, Results, SMT DEF Validate
<1>3. Converted("disable_send", v) \in {Validate("disable_send", Truth(v)), Accept(Bool(FALSE))}
  BY <1>1, SMT DEF Converted
<1> QED
  BY <1>2, <1>3, Results

\* There are three kinds of results.
Kinds == {"value", "error", "exception"}

LEMMA ValidatorKinds ==
  ASSUME NEW name \in Validators, NEW v
  PROVE  Validator(name, v).is \in Kinds
<1>1. \A units : Unit(v, units).is \in Kinds
  BY Results, SMT DEF Unit, Kinds
<1>2. CASE name = "duration"
  BY <1>1, <1>2, SMT DEF Validator
<1>3. CASE name = "milliseconds"
  BY <1>1, <1>3, SMT DEF Validator
<1>4. CASE name = "timeout"
  BY <1>1, <1>4, SMT DEF Validator
<1>5. CASE name = "size"
  BY <1>1, <1>5, Results, SMT DEF Validator, Size, Kinds
<1>6. CASE name = "precision"
  <2>1. Precision(v).is \in Kinds
    <3> HIDE DEF Rounded, Float
    <3> QED
      BY Results, SMT DEF Precision, Kinds
  <2> QED
    BY <1>6, <2>1, SMT DEF Validator
<1>7. CASE name = "range"
  BY <1>7, Results, SMT DEF Validator, ExcludeRange, Kinds
<1>8. CASE name = "regex"
  BY <1>8, Results, SMT DEF Validator, Regex, Kinds
<1>9. CASE name = "file"
  BY <1>9, Results, SMT DEF Validator, FileIsReadable, Kinds
<1>10. CASE name = "fips"
  <2>1. Fips(v) \in {Refuse, Accept(v)}
    BY DEF Fips
  <2>2. Fips(v).is \in Kinds
    BY <2>1, Results DEF Kinds
  <2> QED
    BY <1>10, <2>2, SMT DEF Validator
<1>11. CASE name \in {"level", "ecs"}
  <2>1. \A valid : Enumeration(v, valid).is \in Kinds
    BY Results, SMT DEF Enumeration, Kinds
  <2> QED
    BY <1>11, <2>1, SMT DEF Validator
<1>12. CASE name = "renamed"
  BY <1>12, Results, SMT DEF Validator, Renamed, Kinds
<1> QED
  BY <1>2, <1>3, <1>4, <1>5, <1>6, <1>7, <1>8, <1>9, <1>10, <1>11, <1>12 DEF Validators

LEMMA ConvertedKinds ==
  ASSUME NEW o \in Options, NEW v
  PROVE  Converted(o, v).is \in Kinds
<1>1. \A w : Validated(Declared[o].validators, w).is \in Kinds
  <2> SUFFICES ASSUME NEW w
               PROVE  Validated(Declared[o].validators, w).is \in Kinds
    OBVIOUS
  <2>1. Validated(<<>>, w) = Accept(w)
    BY SMT DEF Validated
  <2>2. \A name : Validated(<<name>>, w) = Validator(name, w)
    BY SMT DEF Validated
  <2>3. Validated(<<"duration", "range">>, w) \in
          {Validator("duration", w), Validator("range", Validator("duration", w).value)}
    BY SMT DEF Validated
  <2>4. "duration" \in Validators /\ "range" \in Validators
    BY DEF Validators
  <2>5. CASE Declared[o].validators = <<>>
    BY <2>1, <2>5, Results DEF Kinds
  <2>6. CASE \E name \in Validators : Declared[o].validators = <<name>>
    BY <2>2, <2>6, ValidatorKinds
  <2>7. CASE Declared[o].validators = <<"duration", "range">>
    BY <2>3, <2>4, <2>7, ValidatorKinds
  <2> QED
    BY <2>5, <2>6, <2>7, Classes DEF Sort
<1>2. \A w : Typed(Declared[o].type, w).is \in Kinds
  <2> SUFFICES ASSUME NEW w, NEW type \in {"str", "bool", "float", "int"}
               PROVE  Typed(type, w).is \in Kinds
    BY Classes DEF Sort
  <2>1. CASE type = "str"
    BY <2>1, Results, SMT DEF Typed, Kinds
  <2>2. CASE type = "bool"
    <3>1. Typed("bool", w) = Accept(IF IsBool(w) THEN w ELSE Bool(TRUE))
      BY SMT DEF Typed
    <3> QED
      BY <2>2, <3>1, Results DEF Kinds
  <2>3. CASE type = "float"
    BY <2>3, Results, SMT DEF Typed, Kinds
  <2>4. CASE type = "int"
    BY <2>4, Results, SMT DEF Typed, Kinds
  <2> QED
    BY <2>1, <2>2, <2>3, <2>4
<1>3. \A w : Validate(o, w).is \in Kinds
  BY <1>1, <1>2, Results, SMT DEF Validate, Kinds
<1>4. CASE Declared[o].class = "value"
  BY <1>3, <1>4, SMT DEF Converted
<1>5. CASE Declared[o].class = "bool"
  <2>1. Converted(o, v) \in {Validate(o, Truth(v)), Accept(Bool(FALSE))}
    BY <1>5, SMT DEF Converted
  <2> QED
    BY <1>3, <2>1, Results DEF Kinds
<1>6. CASE Declared[o].class = "duration"
  <2>1. Converted(o, v) \in {Raise, Validate(o, v)}
    BY <1>6, SMT DEF Converted
  <2> QED
    BY <1>3, <2>1, Results DEF Kinds
<1>7. CASE Declared[o].class = "list"
  <2>1. Converted(o, v) \in {Raise, Accept(v)}
    BY <1>7, SMT DEF Converted
  <2> QED
    BY <2>1, Results DEF Kinds
<1>8. CASE Declared[o].class = "dict"
  <2>1. Converted(o, v) \in {Raise, Accept(v), Accept(NoValue)}
    BY <1>8, SMT DEF Converted
  <2> QED
    BY <2>1, Results DEF Kinds
<1> QED
  BY <1>4, <1>5, <1>6, <1>7, <1>8, Classes DEF Sort

-----------------------------------------------------------------------------
(***************************************************************************)
(* The invariant.                                                          *)
(***************************************************************************)
Shape ==
  /\ fields \in Seq(Options)
  /\ \A i, j \in DOMAIN fields : fields[i] = fields[j] => i = j
  /\ lookup.initial \in BOOLEAN
  /\ lookup.initial => before = <<>>
  /\ DOMAIN called = WithCallback
  /\ \A o \in Given(lookup.sources) : o \in Options /\ IsGiven(Raw(lookup.sources, o))

QueueIsSeq == \E S : queue \in Seq(S)

Now(o) == Current(values, o)
Then(o) == Current(before, o)

\* update has not come to o.
Pending(o) == \E i \in DOMAIN fields : fields[i] = o
NotQueued(o) == \A i \in DOMAIN queue : queue[i][1] # o

Fresh(o) ==
  /\ Now(o) = Then(o) /\ o \notin errors
  /\ o \in WithCallback => called[o] = <<>> /\ NotQueued(o)

\* It has: the value is the right one, or there is an error.
Right(o) ==
  IF o \in errors THEN Now(o) = Then(o)
    ELSE o \in Given(lookup.sources) => Means(o, Raw(lookup.sources, o), Now(o))

\* A callback is to be called with the value of o.
Due(o) ==
  IF lookup.initial THEN Now(o) # NoValue \/ Now(o) # Then(o) ELSE Now(o) # Then(o)
OnceQueued(o) ==
  \E i \in DOMAIN queue :
    /\ queue[i] = <<o, Now(o)>>
    /\ \A j \in DOMAIN queue : queue[j][1] = o => j = i
Answered(o) ==
  \/ ~Due(o) /\ called[o] = <<>> /\ NotQueued(o)
  \/ Due(o) /\ called[o] = <<>> /\ OnceQueued(o)
  \/ /\ Due(o) /\ called[o] = <<Now(o)>> /\ NotQueued(o)
     /\ o = "log_ecs_reformatting" => Now(o) # NoValue

Updating ==
  outcome = "none" =>
    /\ \A o \in Options :
         /\ Pending(o) => Fresh(o)
         /\ ~Pending(o) => Right(o) /\ (o \in WithCallback => Answered(o))
    /\ "disable_send" \notin errors

Updated == outcome \in {"done", "silent"} => queue = <<>>

Inv == Shape /\ QueueIsSeq /\ Updating /\ Updated /\ ToldOrComplains /\ CalledOnce

-----------------------------------------------------------------------------
(***************************************************************************)
(* Facts about an update.                                                  *)
(***************************************************************************)
LEMMA ThenDefault ==
  ASSUME before = <<>>
  PROVE  \A o : Then(o) = Declared[o].default
<1>1. DOMAIN <<>> = {}
  OBVIOUS
<1> QED
  BY <1>1 DEF Then, Current

LEMMA Callbacks ==
  /\ WithCallback \subseteq Options
  /\ \A o \in WithCallback : Declared[o].callbacks
  /\ Declared["log_ecs_reformatting"].default # NoValue
  /\ Declared["log_level"].default = NoValue
<1>1. Declared["log_level"].callbacks /\ Declared["log_ecs_reformatting"].callbacks
  BY SMT DEF Declared, Option, WithCallbacks
<1>2. Declared["log_level"].default = NoValue
  BY SMT DEF Declared, Option, WithCallbacks
<1>3. Declared["log_ecs_reformatting"].default = Word("off")
  BY SMT DEF Declared, Option, WithCallbacks
<1>4. Word("off") # NoValue
  BY SMT DEF Word, NoValue
<1> QED
  BY <1>1, <1>2, <1>3, <1>4, OptionNames DEF WithCallback

LEMMA AllFields ==
  /\ Fields \in Seq(Options) /\ Fields # <<>>
  /\ \A i, j \in DOMAIN Fields : Fields[i] = Fields[j] => i = j
  /\ \A o \in Options : \E i \in DOMAIN Fields : Fields[i] = o
<1>1. /\ Fields \in Seq(Options) /\ Fields # <<>> /\ DOMAIN Fields = 1 .. 16
  BY OptionNames, SMT DEF Fields
<1>2. \A i, j \in 1 .. 16 : Fields[i] = Fields[j] => i = j
  BY SMT DEF Fields
<1>3. \A o \in Options : \E i \in 1 .. 16 : Fields[i] = o
  BY OptionNames, SMT DEF Fields
<1> QED
  BY <1>1, <1>2, <1>3

\* The options that are left when update takes the first.
LEMMA TailFields ==
  ASSUME Shape, fields # <<>>, fields' = Tail(fields)
  PROVE  /\ Head(fields) \in Options /\ Pending(Head(fields))
         /\ fields' \in Seq(Options)
         /\ \A i, j \in DOMAIN fields' : fields'[i] = fields'[j] => i = j
         /\ \A o : Pending(o)' <=> Pending(o) /\ o # Head(fields)
<1>1. /\ fields \in Seq(Options) /\ Len(fields) > 0 /\ Head(fields) = fields[1]
      /\ Len(fields) \in Nat /\ DOMAIN fields = 1 .. Len(fields)
  BY DEF Shape
<1>2. /\ fields' \in Seq(Options) /\ DOMAIN fields' = 1 .. (Len(fields) - 1)
      /\ \A i \in DOMAIN fields' : fields'[i] = fields[i + 1]
  BY <1>1
<1>3. \A i, j \in DOMAIN fields' : fields'[i] = fields'[j] => i = j
  BY <1>1, <1>2 DEF Shape
<1>4. \A o : Pending(o)' <=> Pending(o) /\ o # Head(fields)
  <2> SUFFICES ASSUME NEW o
               PROVE  Pending(o)' <=> Pending(o) /\ o # Head(fields)
    OBVIOUS
  <2>1. ASSUME NEW i \in DOMAIN fields', fields'[i] = o
        PROVE  Pending(o) /\ o # fields[1]
    BY <1>1, <1>2, <2>1 DEF Shape, Pending
  <2>2. ASSUME NEW i \in DOMAIN fields, fields[i] = o, o # fields[1]
        PROVE  \E j \in DOMAIN fields' : fields'[j] = o
    <3>1. i - 1 \in DOMAIN fields' /\ fields'[i - 1] = fields[i]
      BY <1>1, <1>2, <2>2
    <3> QED
      BY <2>2, <3>1
  <2> QED
    BY <1>1, <2>1, <2>2 DEF Pending
<1> QED
  BY <1>1, <1>2, <1>3, <1>4 DEF Pending

\* One more callback.
LEMMA QueueAppend ==
  ASSUME QueueIsSeq, NEW o, NEW v, queue' = Append(queue, <<o, v>>)
  PROVE  /\ QueueIsSeq'
         /\ \A p : p # o => (NotQueued(p)' <=> NotQueued(p))
         /\ \A i \in DOMAIN queue : i \in DOMAIN queue' /\ queue'[i] = queue[i]
         /\ \A i \in DOMAIN queue' : i \in DOMAIN queue \/ queue'[i] = <<o, v>>
         /\ NotQueued(o) =>
              \E i \in DOMAIN queue' :
                /\ queue'[i] = <<o, v>>
                /\ \A j \in DOMAIN queue' : queue'[j][1] = o => j = i
<1>1. PICK S : queue \in Seq(S)
  BY DEF QueueIsSeq
<1> DEFINE T == S \cup {<<o, v>>}
<1>2. /\ queue \in Seq(T) /\ Len(queue) \in Nat /\ DOMAIN queue = 1 .. Len(queue)
  BY <1>1
<1>3. /\ queue' \in Seq(T) /\ DOMAIN queue' = 1 .. (Len(queue) + 1)
      /\ queue'[Len(queue) + 1] = <<o, v>>
      /\ \A i \in DOMAIN queue : queue'[i] = queue[i]
  BY <1>2
<1>4. \A i \in DOMAIN queue' : i \in DOMAIN queue \/ i = Len(queue) + 1
  BY <1>2, <1>3
<1>5. <<o, v>>[1] = o
  OBVIOUS
<1> HIDE DEF T
<1>6. QueueIsSeq'
  BY <1>3 DEF QueueIsSeq
<1>7. \A p : p # o => (NotQueued(p)' <=> NotQueued(p))
  BY <1>2, <1>3, <1>4, <1>5 DEF NotQueued
<1>8. NotQueued(o) => \A j \in DOMAIN queue' : queue'[j][1] = o => j = Len(queue) + 1
  BY <1>3, <1>4 DEF NotQueued
<1> QED
  BY <1>2, <1>3, <1>4, <1>6, <1>7, <1>8

\* One less.
LEMMA QueueTail ==
  ASSUME QueueIsSeq, queue # <<>>, queue' = Tail(queue)
  PROVE  /\ QueueIsSeq' /\ 1 \in DOMAIN queue /\ Head(queue) = queue[1]
         /\ \A i \in DOMAIN queue' : i + 1 \in DOMAIN queue /\ queue'[i] = queue[i + 1]
                                     /\ i + 1 # 1
         /\ \A i \in DOMAIN queue : i # 1 => i - 1 \in DOMAIN queue' /\ queue'[i - 1] = queue[i]
         /\ \A i, j \in DOMAIN queue' : i + 1 = j + 1 => i = j
         /\ \A i \in DOMAIN queue' : i = (i + 1) - 1
<1>1. PICK S : queue \in Seq(S)
  BY DEF QueueIsSeq
<1>2. queue' \in Seq(S)
  BY <1>1
<1> QED
  BY <1>1, <1>2 DEF QueueIsSeq

-----------------------------------------------------------------------------
(***************************************************************************)
(* The invariant.                                                          *)
(***************************************************************************)
LEMMA InitInv == ConfigInit => Inv
<1> SUFFICES ASSUME ConfigInit
             PROVE  Inv
  OBVIOUS
<1>1. fields = Fields /\ queue = <<>> /\ errors = {} /\ outcome = "none"
  BY DEF ConfigInit
<1>2. values = <<>> /\ before = <<>> /\ lookup.initial = TRUE
  BY DEF ConfigInit
<1>3. DOMAIN called = WithCallback /\ \A o \in WithCallback : called[o] = <<>>
  BY DEF ConfigInit, WithCallback
<1>4. \A o \in Given(lookup.sources) : o \in Options /\ IsGiven(Raw(lookup.sources, o))
  <2>1. /\ IsSource(lookup.sources.env) /\ IsSource(lookup.sources.inline)
        /\ IsSource(lookup.sources.dict)
    BY ConfigAssumption DEF ConfigInit
  <2> QED
    BY <2>1 DEF IsSource, Given, Raw, Options
<1>5. Shape
  BY <1>1, <1>2, <1>3, <1>4, AllFields DEF Shape
<1>6. QueueIsSeq /\ DOMAIN queue = {}
  <2>1. queue \in Seq({}) /\ DOMAIN queue = {}
    BY <1>1
  <2> QED
    BY <2>1 DEF QueueIsSeq
<1>7. \A o \in Options : Pending(o) /\ Fresh(o)
  BY <1>1, <1>2, <1>3, <1>6, AllFields DEF Pending, Fresh, Now, Then, NotQueued
<1>8. Updating
  BY <1>1, <1>7 DEF Updating
<1> QED
  BY <1>1, <1>2, <1>5, <1>6, <1>8 DEF Inv, Updated, ToldOrComplains, CalledOnce

-----------------------------------------------------------------------------
(***************************************************************************)
(* An option's turn.                                                       *)
(***************************************************************************)
Result(o) ==
  IF o \in Given(lookup.sources) THEN Converted(o, Raw(lookup.sources, o)) ELSE Accept(Now(o))
New(o) == IF Result(o).is = "value" THEN Result(o).value ELSE Now(o)

\* The value of this option is the new one, and no other changes.
LEMMA TurnValues ==
  ASSUME SetField, NEW o, o = Head(fields)
  PROVE  /\ Now(o)' = New(o)
         /\ \A p : p # o => Now(p)' = Now(p)
<1>1. values' = IF o \in Given(lookup.sources) /\ Result(o).is = "value"
                  THEN [p \in DOMAIN values \cup {o} |->
                          IF p = o THEN New(o) ELSE values[p]]
                  ELSE values
  BY DEF SetField, Result, New, Now
<1>2. CASE o \in Given(lookup.sources) /\ Result(o).is = "value"
  BY <1>1, <1>2 DEF Now, Current
<1>3. CASE ~(o \in Given(lookup.sources) /\ Result(o).is = "value")
  <2>1. New(o) = Now(o)
    BY <1>3, Results DEF New, Result
  <2> QED
    BY <1>1, <1>3, <2>1 DEF Now, Current
<1> QED
  BY <1>2, <1>3

LEMMA TurnErrors ==
  ASSUME SetField, NEW o, o = Head(fields)
  PROVE  /\ \A p : p # o => (p \in errors' <=> p \in errors)
         /\ o \notin errors =>
              (o \in errors' <=> \/ Result(o).is = "error"
                                 \/ Declared[o].required /\ New(o) = NoValue)
         /\ outcome' = IF Result(o).is = "exception" THEN "raised" ELSE outcome
<1>1. errors' = IF Result(o).is = "error" \/ (Declared[o].required /\ New(o) = NoValue)
                  THEN errors \cup {o} ELSE errors
  BY DEF SetField, Result, New, Now
<1>2. outcome' = IF Result(o).is = "exception" THEN "raised" ELSE outcome
  BY DEF SetField, Result, New, Now
<1> QED
  BY <1>1, <1>2

\* Its callback is queued at most once.
LEMMA TurnQueue ==
  ASSUME Shape, QueueIsSeq, SetField, NEW o, o = Head(fields),
         lookup.initial => Now(o) = Declared[o].default
  PROVE  \/ /\ queue' = queue
            /\ New(o) = Now(o)
            /\ lookup.initial => New(o) = NoValue
         \/ /\ queue' = Append(queue, <<o, New(o)>>)
            /\ New(o) # Now(o) \/ (lookup.initial /\ New(o) # NoValue)
<1>1. queue' = queue \o (IF New(o) # Now(o) THEN <<<<o, New(o)>>>> ELSE <<>>)
                     \o (IF OnDefault(o, New(o)) THEN <<<<o, New(o)>>>> ELSE <<>>)
  BY DEF SetField, Result, New, Now
<1>2. PICK S : queue \in Seq(S)
  BY DEF QueueIsSeq
<1> DEFINE T == S \cup {<<o, New(o)>>}
<1>3. queue \in Seq(T) /\ <<o, New(o)>> \in T
  BY <1>2
<1> HIDE DEF T
<1>4. CASE New(o) # Now(o)
  <2>1. ~OnDefault(o, New(o))
    BY <1>4 DEF OnDefault
  <2>2. queue' = queue \o <<<<o, New(o)>>>> \o <<>>
    BY <1>1, <1>4, <2>1
  <2> QED
    BY <1>3, <1>4, <2>2
<1>5. CASE New(o) = Now(o) /\ OnDefault(o, New(o))
  <2>1. queue' = queue \o <<>> \o <<<<o, New(o)>>>>
    BY <1>1, <1>5
  <2> QED
    BY <1>3, <1>5, <2>1 DEF OnDefault
<1>6. CASE New(o) = Now(o) /\ ~OnDefault(o, New(o))
  <2>1. queue' = queue \o <<>> \o <<>>
    BY <1>1, <1>6
  <2> QED
    BY <1>3, <1>6, <2>1 DEF OnDefault
<1> QED
  BY <1>4, <1>5, <1>6

\* Where nothing is an error, what update comes to is right, or is complained of.
LEMMA TurnRight ==
  ASSUME Inv, SetField, NEW o \in Options, o = Head(fields), Fresh(o), outcome' = "none"
  PROVE  Right(o)' /\ (o = "disable_send" => o \notin errors')
<1>1. Now(o)' = New(o) /\ Then(o)' = Then(o) /\ Now(o) = Then(o) /\ o \notin errors
  BY TurnValues DEF SetField, Then, Fresh, Current
<1>2. lookup' = lookup
  BY DEF SetField
<1>3. o \in errors' <=> Result(o).is = "error" \/ (Declared[o].required /\ New(o) = NoValue)
  BY <1>1, TurnErrors
<1>4. Result(o).is # "exception"
  BY TurnErrors
<1>5. Declared[o].required => o = "service_name"
  BY Classes DEF Sort
<1>6. CASE o \notin Given(lookup.sources)
  <2>1. New(o) = Now(o) /\ Result(o).is = "value"
    BY <1>6, Results DEF New, Result
  <2> QED
    BY <1>1, <1>2, <1>3, <1>5, <1>6, <2>1 DEF Right
<1>7. CASE o \in Given(lookup.sources)
  <2> DEFINE v == Raw(lookup.sources, o)
  <2>1. Result(o) = Converted(o, v) /\ IsGiven(v)
    BY <1>7 DEF Result, Inv, Shape
  <2> HIDE DEF v
  <2>2. Result(o).is \in {"value", "error"}
    BY <1>4, <2>1, ConvertedKinds DEF Kinds
  <2>3. CASE Result(o).is = "error"
    <3>1. New(o) = Now(o) /\ o \in errors'
      BY <1>3, <2>3 DEF New
    <3> QED
      BY <1>1, <2>1, <2>3, <3>1, SendingIsNoError DEF Right
  <2>4. CASE Result(o).is = "value"
    <3>1. New(o) = Converted(o, v).value /\ Means(o, v, New(o))
      BY <2>1, <2>4, ConvertedMeans DEF New
    <3>2. o \notin errors'
      BY <1>3, <1>5, <2>1, <2>4, <3>1, ServiceHasName
    <3> QED
      BY <1>1, <1>2, <3>1, <3>2 DEF Right, v, Means
  <2> QED
    BY <2>2, <2>3, <2>4
<1> QED
  BY <1>6, <1>7

\* The callback of an option that had its turn is yet to be called, once.
LEMMA TurnAnswered ==
  ASSUME Inv, SetField, NEW o \in WithCallback, o = Head(fields), Fresh(o)
  PROVE  Answered(o)'
<1>1. /\ Now(o)' = New(o) /\ Then(o)' = Then(o) /\ Now(o) = Then(o)
      /\ called[o] = <<>> /\ NotQueued(o)
  BY TurnValues DEF SetField, Then, Fresh, Current
<1>2. lookup' = lookup /\ called' = called
  BY DEF SetField
<1>3. lookup.initial => Then(o) = Declared[o].default
  BY ThenDefault DEF Inv, Shape
<1>4. CASE queue' = queue /\ New(o) = Now(o) /\ (lookup.initial => New(o) = NoValue)
  <2>1. NotQueued(o)' /\ ~Due(o)'
    BY <1>1, <1>2, <1>4 DEF NotQueued, Due
  <2> QED
    BY <1>1, <1>2, <2>1 DEF Answered
<1>5. CASE /\ queue' = Append(queue, <<o, New(o)>>)
           /\ New(o) # Now(o) \/ (lookup.initial /\ New(o) # NoValue)
  <2>1. Due(o)'
    <3> SUFFICES lookup.initial /\ New(o) = NoValue => New(o) # Then(o)
      BY <1>1, <1>2, <1>5 DEF Due
    <3> QED
      BY <1>1, <1>5
  <2>2. OnceQueued(o)'
    BY <1>1, <1>5, QueueAppend DEF OnceQueued, Inv
  <2> QED
    BY <1>1, <1>2, <2>1, <2>2 DEF Answered
<1> QED
  BY <1>1, <1>3, <1>4, <1>5, TurnQueue DEF Inv

\* Nothing happens to the others.
LEMMA TurnOthers ==
  ASSUME Inv, SetField, NEW o \in Options, o # Head(fields)
  PROVE  /\ Fresh(o) => Fresh(o)'
         /\ Right(o) => Right(o)'
         /\ Answered(o) => Answered(o)'
<1> DEFINE h == Head(fields)
<1>1. Now(o)' = Now(o) /\ (o \in errors' <=> o \in errors)
  BY TurnValues, TurnErrors
<1>2. /\ lookup' = lookup /\ called' = called /\ Then(o)' = Then(o)
      /\ Raw(lookup.sources, o)' = Raw(lookup.sources, o)
  BY DEF SetField, Then, Current, Raw
<1>3. (NotQueued(o) => NotQueued(o)') /\ (OnceQueued(o) => OnceQueued(o)')
  <2>1. CASE queue' = queue
    BY <1>1, <2>1 DEF NotQueued, OnceQueued
  <2>2. CASE \E v : queue' = Append(queue, <<h, v>>)
    <3>1. PICK v : queue' = Append(queue, <<h, v>>)
      BY <2>2
    <3>2. /\ \A p : p # h => (NotQueued(p)' <=> NotQueued(p))
          /\ \A i \in DOMAIN queue : i \in DOMAIN queue' /\ queue'[i] = queue[i]
          /\ \A i \in DOMAIN queue' : i \in DOMAIN queue \/ queue'[i] = <<h, v>>
      <4> HIDE DEF h
      <4> QED
        BY <3>1, QueueAppend DEF Inv
    <3>3. <<h, v>>[1] # o
      OBVIOUS
    <3> QED
      BY <1>1, <3>2, <3>3 DEF OnceQueued
  <2>3. lookup.initial => Now(h) = Declared[h].default
    <3>1. fields # <<>> /\ outcome = "none" /\ fields' = Tail(fields)
      BY DEF SetField
    <3>2. h \in Options /\ Pending(h)
      BY <3>1, TailFields DEF Inv
    <3> QED
      BY <3>1, <3>2, ThenDefault DEF Inv, Updating, Fresh, Shape
  <2> QED
    BY <2>1, <2>2, <2>3, TurnQueue DEF Inv
<1>4. Given(lookup.sources)' = Given(lookup.sources)
  BY <1>2 DEF Given
<1>5. Fresh(o) => Fresh(o)'
  BY <1>1, <1>2, <1>3 DEF Fresh
<1>6. Right(o) => Right(o)'
  BY <1>1, <1>2, <1>4 DEF Right
<1>7. Answered(o) => Answered(o)'
  BY <1>1, <1>2, <1>3 DEF Answered, Due
<1> QED
  BY <1>5, <1>6, <1>7

LEMMA SetFieldInv == Inv /\ SetField => Inv'
<1> SUFFICES ASSUME Inv, SetField
             PROVE  Inv'
  OBVIOUS
<1>0. PICK h : h = Head(fields)
  OBVIOUS
<1> USE <1>0
<1>1. /\ outcome = "none" /\ fields # <<>> /\ fields' = Tail(fields)
      /\ lookup' = lookup /\ before' = before /\ called' = called
  BY DEF SetField
<1>2. /\ h \in Options /\ Pending(h) /\ fields' \in Seq(Options)
      /\ \A i, j \in DOMAIN fields' : fields'[i] = fields'[j] => i = j
      /\ \A o : Pending(o)' <=> Pending(o) /\ o # h
  BY <1>1, TailFields DEF Inv
<1>3. Fresh(h)
  BY <1>1, <1>2 DEF Inv, Updating
<1>4. Shape'
  BY <1>1, <1>2 DEF Inv, Shape, Given, Raw
<1>5. lookup.initial => Now(h) = Declared[h].default
  BY <1>3, ThenDefault DEF Inv, Shape, Fresh
<1>6. QueueIsSeq'
  <2>1. CASE queue' = queue
    BY <2>1 DEF Inv, QueueIsSeq
  <2>2. CASE queue' = Append(queue, <<h, New(h)>>)
    BY <2>2, QueueAppend DEF Inv
  <2> QED
    BY <1>5, <2>1, <2>2, TurnQueue DEF Inv
<1>7. outcome' \in {"none", "raised"}
  BY <1>1, TurnErrors
<1>8. Updating'
  <2> SUFFICES ASSUME outcome' = "none"
               PROVE  Updating'
    BY DEF Updating
  <2>1. Right(h)' /\ (h = "disable_send" => h \notin errors')
    BY <1>2, <1>3, TurnRight
  <2>2. h \in WithCallback => Answered(h)'
    BY <1>3, TurnAnswered
  <2>3. "disable_send" \notin errors'
    BY <1>1, <2>1, TurnErrors DEF Inv, Updating
  <2>4. ASSUME NEW o \in Options
        PROVE  /\ Pending(o)' => Fresh(o)'
               /\ ~Pending(o)' => Right(o)' /\ (o \in WithCallback => Answered(o)')
    <3>1. CASE o = h
      BY <1>2, <2>1, <2>2, <3>1
    <3>2. CASE o # h
      BY <1>1, <1>2, <2>4, <3>2, TurnOthers DEF Inv, Updating
    <3> QED
      BY <3>1, <3>2
  <2> QED
    BY <2>3, <2>4 DEF Updating
<1>9. ToldOrComplains'
  <2>1. ASSUME ~lookup.initial, Then("disable_send") = Bool(TRUE)
        PROVE  \/ Now("disable_send")' = Bool(TRUE)
               \/ "disable_send" \in Given(lookup.sources)
    <3>1. \/ Now("disable_send") = Bool(TRUE)
          \/ "disable_send" \in Given(lookup.sources)
      BY <2>1 DEF Inv, ToldOrComplains, Now, Then
    <3>2. CASE h # "disable_send"
      BY <3>1, <3>2, TurnValues
    <3>3. CASE h = "disable_send" /\ h \notin Given(lookup.sources)
      <4>1. New(h) = Now(h)
        BY <3>3, Results DEF New, Result
      <4> QED
        BY <3>1, <3>3, <4>1, TurnValues
    <3> QED
      BY <3>2, <3>3
  <2> QED
    BY <1>1, <1>7, <2>1 DEF ToldOrComplains, Now, Then
<1> QED
  BY <1>4, <1>6, <1>7, <1>8, <1>9 DEF Inv, Updated, CalledOnce

\* The first of the queue is called and goes.
LEMMA CallAnswered ==
  ASSUME Inv, CallPendingCallback, outcome' = "none", NEW o \in WithCallback, Answered(o)
  PROVE  Answered(o)'
<1>1. PICK h, v : h = Head(queue)[1] /\ v = Head(queue)[2]
  OBVIOUS
<1>2. /\ outcome = "none" /\ queue # <<>>
      /\ called' = IF Declared[h].callbacks
                     THEN [called EXCEPT ![h] = Append(@, v)] ELSE called
      /\ ~CallbackRaises(h, v) /\ queue' = Tail(queue)
  BY <1>1 DEF CallPendingCallback
<1>3. /\ lookup' = lookup /\ Now(o)' = Now(o) /\ Then(o)' = Then(o)
  BY DEF CallPendingCallback, Now, Then, Current
<1>4. /\ 1 \in DOMAIN queue /\ queue[1][1] = h /\ queue[1][2] = v
      /\ \A i \in DOMAIN queue' : i + 1 \in DOMAIN queue /\ queue'[i] = queue[i + 1]
                                  /\ i + 1 # 1
      /\ \A i \in DOMAIN queue : i # 1 => i - 1 \in DOMAIN queue' /\ queue'[i - 1] = queue[i]
      /\ \A i, j \in DOMAIN queue' : i + 1 = j + 1 => i = j
      /\ \A i \in DOMAIN queue' : i = (i + 1) - 1
  BY <1>1, <1>2, QueueTail DEF Inv
<1>5. DOMAIN called = WithCallback
  BY DEF Inv, Shape
<1>6. NotQueued(o) => NotQueued(o)'
  BY <1>4 DEF NotQueued
<1>7. CASE o # h
  <2>1. called'[o] = called[o]
    BY <1>2, <1>5, <1>7
  <2>2. OnceQueued(o) => OnceQueued(o)'
    <3> SUFFICES ASSUME OnceQueued(o)
                 PROVE  OnceQueued(o)'
      OBVIOUS
    <3>1. PICK i \in DOMAIN queue :
            /\ queue[i] = <<o, Now(o)>>
            /\ \A j \in DOMAIN queue : queue[j][1] = o => j = i
      BY DEF OnceQueued
    <3>2. i # 1
      BY <1>4, <1>7, <3>1
    <3>3. i - 1 \in DOMAIN queue' /\ queue'[i - 1] = <<o, Now(o)>>
      BY <1>4, <3>1, <3>2
    <3>4. \A j \in DOMAIN queue' : queue'[j][1] = o => j = i - 1
      BY <1>4, <3>1
    <3> QED
      BY <1>3, <3>3, <3>4 DEF OnceQueued
  <2> QED
    BY <1>3, <1>6, <2>1, <2>2 DEF Answered, Due
<1>8. CASE o = h
  <2>1. ~NotQueued(o)
    BY <1>4, <1>8 DEF NotQueued
  <2>2. Due(o) /\ called[o] = <<>> /\ OnceQueued(o)
    BY <2>1 DEF Answered
  <2>3. PICK i \in DOMAIN queue :
          /\ queue[i] = <<o, Now(o)>>
          /\ \A j \in DOMAIN queue : queue[j][1] = o => j = i
    BY <2>2 DEF OnceQueued
  <2>4. i = 1 /\ v = Now(o)
    BY <1>4, <1>8, <2>3
  <2>5. NotQueued(o)'
    BY <1>4, <2>3, <2>4 DEF NotQueued
  <2>6. called'[o] = <<Now(o)>>
    <3>1. Declared[o].callbacks
      BY Callbacks
    <3>2. called'[o] = Append(<<>>, v)
      BY <1>2, <1>5, <1>8, <2>2, <3>1
    <3> QED
      BY <2>4, <3>2
  <2>7. o = "log_ecs_reformatting" => Now(o) # NoValue
    BY <1>2, <1>8, <2>4 DEF CallbackRaises
  <2> QED
    BY <1>3, <2>2, <2>5, <2>6, <2>7 DEF Answered, Due
<1> QED
  BY <1>7, <1>8

LEMMA CallPendingCallbackInv == Inv /\ CallPendingCallback => Inv'
<1> SUFFICES ASSUME Inv, CallPendingCallback
             PROVE  Inv'
  OBVIOUS
<1>1. /\ outcome = "none" /\ fields = <<>> /\ queue # <<>>
      /\ \/ outcome' = "raised" /\ queue' = queue
         \/ outcome' = "none" /\ queue' = Tail(queue)
  BY DEF CallPendingCallback
<1>2. /\ fields' = fields /\ lookup' = lookup /\ before' = before
      /\ values' = values /\ errors' = errors /\ DOMAIN called' = DOMAIN called
  BY DEF CallPendingCallback
<1>3. Shape'
  BY <1>2 DEF Inv, Shape, Given, Raw
<1>4. QueueIsSeq'
  BY <1>1, QueueTail DEF Inv, QueueIsSeq
<1>5. \A o : ~Pending(o)
  <2>1. DOMAIN fields = {}
    BY <1>1
  <2> QED
    BY <2>1 DEF Pending
<1>6. Updating'
  <2> SUFFICES ASSUME outcome' = "none"
               PROVE  Updating'
    BY DEF Updating
  <2>1. ASSUME NEW o \in Options
        PROVE  /\ ~Pending(o)'
               /\ Right(o)' /\ (o \in WithCallback => Answered(o)')
    <3>1. Right(o) /\ (o \in WithCallback => Answered(o))
      BY <1>1, <1>5 DEF Inv, Updating
    <3>2. Right(o)'
      BY <1>2, <3>1 DEF Right, Now, Then, Current, Given, Raw
    <3>3. ~Pending(o)'
      BY <1>2, <1>5 DEF Pending
    <3> QED
      BY <3>1, <3>2, <3>3, CallAnswered
  <2> QED
    BY <1>1, <1>2, <2>1 DEF Inv, Updating
<1>7. ToldOrComplains'
  BY <1>1, <1>2 DEF Inv, ToldOrComplains, Current, Given
<1> QED
  BY <1>1, <1>3, <1>4, <1>6, <1>7 DEF Inv, Updated, CalledOnce

-----------------------------------------------------------------------------
(***************************************************************************)
(* The end of an update.                                                   *)
(***************************************************************************)
\* All options had their turn, and the first source that gives one is its source.
LEMMA AllRight ==
  ASSUME Inv, outcome = "none", fields = <<>>
  PROVE  /\ \A o \in Options : Right(o) /\ (o \in WithCallback => Answered(o))
         /\ "disable_send" \notin errors
         /\ \A i \in 1 .. 3 :
              \A o \in DOMAIN lookup.sources[ByPrecedence[i]]
                         \ UNION {DOMAIN lookup.sources[ByPrecedence[j]] : j \in 1 .. i - 1} :
                /\ o \in Options /\ o \in Given(lookup.sources)
                /\ Raw(lookup.sources, o) = lookup.sources[ByPrecedence[i]][o]
<1>1. \A o : ~Pending(o)
  <2>1. DOMAIN fields = {}
    OBVIOUS
  <2> QED
    BY <2>1 DEF Pending
<1>2. ASSUME NEW i \in 1 .. 3,
             NEW o \in DOMAIN lookup.sources[ByPrecedence[i]]
                         \ UNION {DOMAIN lookup.sources[ByPrecedence[j]] : j \in 1 .. i - 1}
      PROVE  /\ o \in Options /\ o \in Given(lookup.sources)
             /\ Raw(lookup.sources, o) = lookup.sources[ByPrecedence[i]][o]
  <2>1. ByPrecedence[1] = "env" /\ ByPrecedence[2] = "inline" /\ ByPrecedence[3] = "dict"
    BY DEF ByPrecedence
  <2>2. \A j \in 1 .. i - 1 : o \notin DOMAIN lookup.sources[ByPrecedence[j]]
    BY <1>2
  <2>3. o \in Given(lookup.sources) => o \in Options
    BY DEF Inv, Shape
  <2>4. CASE i = 1
    BY <1>2, <2>1, <2>3, <2>4 DEF Given, Raw
  <2>5. CASE i = 2
    <3>1. 1 \in 1 .. i - 1
      BY <2>5
    <3> QED
      BY <1>2, <2>1, <2>2, <2>3, <2>5, <3>1 DEF Given, Raw
  <2>6. CASE i = 3
    <3>1. 1 \in 1 .. i - 1 /\ 2 \in 1 .. i - 1
      BY <2>6
    <3> QED
      BY <1>2, <2>1, <2>2, <2>3, <2>6, <3>1 DEF Given, Raw
  <2> QED
    BY <2>4, <2>5, <2>6
<1> QED
  BY <1>1, <1>2 DEF Inv, Updating

\* All callbacks were called.
LEMMA AllCalled ==
  ASSUME Inv, outcome = "none", fields = <<>>, queue = <<>>
  PROVE  \A o \in DOMAIN called :
           called[o] = IF lookup.initial
                         THEN IF Now(o) = NoValue THEN <<>> ELSE <<Now(o)>>
                         ELSE IF Now(o) = Then(o) THEN <<>> ELSE <<Now(o)>>
<1> SUFFICES ASSUME NEW o \in WithCallback
             PROVE  called[o] = IF lookup.initial
                                  THEN IF Now(o) = NoValue THEN <<>> ELSE <<Now(o)>>
                                  ELSE IF Now(o) = Then(o) THEN <<>> ELSE <<Now(o)>>
  BY DEF Inv, Shape
<1>1. Answered(o) /\ ~OnceQueued(o)
  <2>1. DOMAIN queue = {}
    OBVIOUS
  <2> QED
    BY <2>1, AllRight, Callbacks DEF OnceQueued
<1>2. CASE ~Due(o)
  BY <1>1, <1>2 DEF Answered, Due
<1>3. CASE Due(o)
  <2>1. called[o] = <<Now(o)>> /\ (o = "log_ecs_reformatting" => Now(o) # NoValue)
    BY <1>1, <1>3 DEF Answered
  <2>2. lookup.initial => Now(o) # NoValue
    <3> SUFFICES ASSUME lookup.initial, o = "log_level"
                 PROVE  Now(o) # NoValue
      BY <2>1 DEF WithCallback
    <3>1. Then(o) = NoValue
      BY ThenDefault, Callbacks DEF Inv, Shape
    <3> QED
      BY <1>3, <3>1 DEF Due
  <2> QED
    BY <1>3, <2>1, <2>2 DEF Due
<1> QED
  BY <1>2, <1>3

LEMMA ClientConfiguredInv == Inv /\ ClientConfigured => Inv'
<1> SUFFICES ASSUME Inv, ClientConfigured
             PROVE  Inv'
  OBVIOUS
<1>1. /\ lookup.initial /\ outcome = "none" /\ fields = <<>> /\ queue = <<>>
      /\ outcome' = IF errors = {} THEN "done" ELSE "silent"
      /\ values' = IF errors = {} THEN values ELSE Silenced(values)
  BY DEF ClientConfigured
<1>2. /\ fields' = fields /\ lookup' = lookup /\ before' = before
      /\ errors' = errors /\ queue' = queue /\ called' = called
  BY DEF ClientConfigured
<1>3. Shape'
  BY <1>2 DEF Inv, Shape, Given, Raw
<1>4. QueueIsSeq' /\ Updating' /\ Updated'
  BY <1>1, <1>2 DEF Inv, QueueIsSeq, Updating, Updated
<1>5. /\ \A o : o # "disable_send" \/ errors = {} => Now(o)' = Now(o)
      /\ errors # {} => Now("disable_send")' = Bool(TRUE)
      /\ \A o : Then(o)' = Then(o)
  BY <1>1, <1>2 DEF Now, Then, Current, Silenced
<1>6. CalledOnce'
  <2>1. "disable_send" \notin WithCallback /\ DOMAIN called = WithCallback
    BY DEF WithCallback, Inv, Shape
  <2>2. \A o \in DOMAIN called : Now(o)' = Now(o)
    BY <1>5, <2>1
  <2> QED
    BY <1>1, <1>2, <1>5, <2>2, AllCalled DEF CalledOnce, Now, Then
<1>7. ASSUME NEW o \in Options, o \in Given(lookup.sources)
      PROVE  IF o \in errors THEN Now(o)' = Then(o)
               ELSE Means(o, Raw(lookup.sources, o), Now(o)')
  <2>1. Right(o) /\ "disable_send" \notin errors
    BY <1>1, AllRight
  <2>2. CASE o # "disable_send" \/ errors = {}
    BY <1>5, <1>7, <2>1, <2>2 DEF Right
  <2>3. CASE o = "disable_send" /\ errors # {}
    <3>1. IsBool(Declared["disable_send"].default)
      BY SMT DEF Declared, Option, IsBool, Bool
    <3>2. Means("disable_send", Raw(lookup.sources, o), Bool(TRUE))
      BY <3>1, SMT DEF Means, WithUnit
    <3> QED
      BY <1>5, <2>1, <2>3, <3>2
  <2> QED
    BY <2>2, <2>3
<1>8. ToldOrComplains'
  <2> SUFFICES ASSUME NEW i \in 1 .. 3,
                      NEW o \in DOMAIN lookup.sources[ByPrecedence[i]]
                            \ UNION {DOMAIN lookup.sources[ByPrecedence[j]] : j \in 1 .. i - 1}
               PROVE  IF o \in errors THEN Now(o)' = Then(o)
                        ELSE Means(o, lookup.sources[ByPrecedence[i]][o], Now(o)')
    BY <1>1, <1>2, <1>5 DEF ToldOrComplains, Now, Then
  <2> QED
    BY <1>1, <1>7, AllRight
<1> QED
  BY <1>3, <1>4, <1>6, <1>8 DEF Inv

LEMMA RemoteUpdateInv == Inv /\ RemoteUpdate => Inv'
<1> SUFFICES ASSUME Inv, RemoteUpdate
             PROVE  Inv'
  OBVIOUS
<1>1. PICK options \in RemoteOptions :
        lookup' = [initial |-> FALSE,
                   sources |-> [env |-> <<>>, inline |-> options, dict |-> <<>>]]
  BY DEF RemoteUpdate
<1>2. /\ outcome' = "none" /\ fields' = Fields /\ before' = values /\ values' = values
      /\ errors' = {} /\ queue' = queue /\ queue = <<>>
      /\ called' = [o \in DOMAIN called |-> <<>>]
  BY DEF RemoteUpdate, Inv, Updated
<1>3. /\ lookup'.initial = FALSE
      /\ \A o \in Given(lookup'.sources) : o \in Options /\ IsGiven(Raw(lookup'.sources, o))
  <2>1. IsSource(options) /\ DOMAIN <<>> = {}
    BY ConfigAssumption
  <2> QED
    BY <1>1, <2>1 DEF IsSource, Given, Raw, Options
<1>4. Shape'
  BY <1>2, <1>3, AllFields DEF Inv, Shape
<1>5. QueueIsSeq' /\ DOMAIN queue' = {}
  BY <1>2 DEF Inv, QueueIsSeq
<1>6. \A o \in Options : Pending(o)' /\ Fresh(o)'
  BY <1>2, <1>5, AllFields
     DEF Pending, Fresh, Now, Then, Current, NotQueued, Inv, Shape
<1>7. Updating'
  BY <1>2, <1>6 DEF Updating
<1> QED
  BY <1>2, <1>4, <1>5, <1>7 DEF Inv, Updated, ToldOrComplains, CalledOnce

LEMMA RemoteUpdatedInv == Inv /\ RemoteUpdated => Inv'
<1> SUFFICES ASSUME Inv, RemoteUpdated
             PROVE  Inv'
  OBVIOUS
<1>1. /\ ~lookup.initial /\ outcome = "none" /\ fields = <<>> /\ queue = <<>>
      /\ outcome' = IF errors = {} THEN "done" ELSE "rejected"
      /\ values' = IF errors = {} THEN values ELSE before
  BY DEF RemoteUpdated
<1>2. /\ fields' = fields /\ lookup' = lookup /\ before' = before
      /\ errors' = errors /\ queue' = queue /\ called' = called
  BY DEF RemoteUpdated
<1>3. Shape'
  BY <1>2 DEF Inv, Shape, Given, Raw
<1>4. QueueIsSeq' /\ Updating' /\ Updated'
  BY <1>1, <1>2 DEF Inv, QueueIsSeq, Updating, Updated
<1>5. \A o : /\ Then(o)' = Then(o)
             /\ Now(o)' = IF errors = {} THEN Now(o) ELSE Then(o)
  BY <1>1, <1>2 DEF Now, Then, Current
<1>6. CalledOnce'
  BY <1>1, <1>2, <1>5, AllCalled DEF CalledOnce, Now, Then
<1>7. ToldOrComplains'
  <2>1. ASSUME NEW i \in 1 .. 3,
               NEW o \in DOMAIN lookup.sources[ByPrecedence[i]]
                     \ UNION {DOMAIN lookup.sources[ByPrecedence[j]] : j \in 1 .. i - 1}
        PROVE  IF o \in errors THEN Now(o)' = Then(o)
                 ELSE outcome' # "rejected" =>
                        Means(o, lookup.sources[ByPrecedence[i]][o], Now(o)')
    <3>1. /\ o \in Options /\ o \in Given(lookup.sources) /\ Right(o)
          /\ Raw(lookup.sources, o) = lookup.sources[ByPrecedence[i]][o]
      BY <1>1, AllRight
    <3> QED
      BY <1>1, <1>5, <3>1 DEF Right
  <2>2. \/ Then("disable_send") # Bool(TRUE)
        \/ Now("disable_send")' = Bool(TRUE)
        \/ "disable_send" \in Given(lookup.sources)
    BY <1>1, <1>5 DEF Inv, ToldOrComplains, Now, Then
  <2> QED
    BY <1>1, <1>2, <1>5, <2>1, <2>2 DEF ToldOrComplains, Now, Then
<1> QED
  BY <1>3, <1>4, <1>6, <1>7 DEF Inv

-----------------------------------------------------------------------------
(***************************************************************************)
(* The theorems.                                                           *)
(***************************************************************************)
LEMMA NextInv == Inv /\ [ConfigNext]_configVars => Inv'
<1>1. ASSUME Inv, UNCHANGED configVars
      PROVE  Inv'
  <2>1. /\ fields' = fields /\ lookup' = lookup /\ before' = before /\ values' = values
        /\ errors' = errors /\ queue' = queue /\ called' = called /\ outcome' = outcome
    BY <1>1 DEF configVars
  <2>2. Shape' /\ QueueIsSeq' /\ Updated'
    BY <1>1, <2>1 DEF Inv, Shape, QueueIsSeq, Updated, Given, Raw
  <2>3. \A o : /\ Pending(o)' <=> Pending(o)
               /\ Fresh(o)' <=> Fresh(o)
               /\ Right(o)' <=> Right(o)
               /\ Answered(o)' <=> Answered(o)
    BY <2>1 DEF Pending, NotQueued, Fresh, Right, Due, OnceQueued, Answered, Now, Then,
                Current, Given, Raw
  <2>4. Updating'
    BY <1>1, <2>1, <2>3 DEF Inv, Updating
  <2>5. ToldOrComplains' /\ CalledOnce'
    BY <1>1, <2>1 DEF Inv, ToldOrComplains, CalledOnce, Current, Given
  <2> QED
    BY <2>2, <2>4, <2>5 DEF Inv
<1> QED
  BY <1>1, SetFieldInv, CallPendingCallbackInv, ClientConfiguredInv, RemoteUpdateInv,
     RemoteUpdatedInv DEF ConfigNext

LEMMA Invariant == ConfigSpec => []Inv
BY InitInv, NextInv, PTL DEF ConfigSpec

\* Whatever the sources give and whatever the server sends, when an update ends every
\* option has the value of the first source that gives it, with its meaning, or is
\* among the errors and as it was; and a client that is silent stays silent.
THEOREM OptionsAreTold == ConfigSpec => []ToldOrComplains
<1>1. Inv => ToldOrComplains
  BY DEF Inv
<1> QED
  BY <1>1, Invariant, PTL

\* The callbacks of an option are called once, with the value that is in effect, when
\* the first configuration has one or a later one changes it, and else not at all.
THEOREM CallbacksAreCalledOnce == ConfigSpec => []CalledOnce
<1>1. Inv => CalledOnce
  BY DEF Inv
<1> QED
  BY <1>1, Invariant, PTL
=============================================================================
