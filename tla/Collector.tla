------------------------------- MODULE Collector -------------------------------
(***************************************************************************)
(* The metrics of a process (elasticapm/metrics/base_metrics.py) and the   *)
(* thread that collects them (IntervalTimer of utils/threading.py): the    *)
(* application creates and updates metrics while the timer's thread reads  *)
(* and resets them, and stop_thread, after it cancelled the timer, collects *)
(* once more in the thread that called it.                                 *)
(*                                                                         *)
(* All metrics here have reset_on_collect.  A counter is a timer without   *)
(* the count; gauges are set and not summed up, and are left out.  Every   *)
(* update has the duration 1.                                              *)
(***************************************************************************)
EXTENDS Integers, FiniteSets

CONSTANTS
  Metrics,        \* the names, labels included
  Histograms,     \* those that are histograms
  Ignored,        \* those that disable_metrics matches
  LabelLimits,    \* what DISTINCT_LABEL_LIMIT may be
  MaxUpdates      \* bound: how often each metric is updated

ASSUME CollectorAssumption ==
  /\ IsFiniteSet(Metrics) /\ "" \notin Metrics
  /\ Histograms \subseteq Metrics /\ Ignored \subseteq Metrics
  /\ LabelLimits \subseteq Nat /\ MaxUpdates \in [Metrics -> Nat]

Collectors == {"timer", "stop"}
Timers == Metrics \ Histograms

VARIABLES
  given,        \* config.is_recording and the limit
  kind,         \* the containers: "none", "real" or "noop" for each key
  current,      \* the value of each timer, and the list of each histogram
  lists,        \* the lists of counts, each the sum of its counts
  collection,   \* what each collection is doing
  timer,        \* IntervalTimer.run
  stop,         \* stop_thread: "no", "collects" or "done"
  updates,      \* how often each metric was updated, and how often before stop
  reported,     \* what was queued of each metric
  overlapped    \* whether the two collections were ever at work together

collectorVars == <<given, kind, current, lists, collection, timer, stop, updates,
                   reported, overlapped>>

Zero == [sum |-> 0, count |-> 0]

\* A collection works on one container at a time; it has read the value of name
\* and will reset it, unless name is "".
Collecting(stage, left, name, value, samples) ==
  [stage |-> stage, left |-> left, name |-> name, value |-> value,
   samples |-> samples]
NoSamples == [m \in {} |-> Zero]
Idle == Collecting("idle", {}, "", Zero, NoSamples)
ListIds == 0 .. 3 * Cardinality(Histograms)

CollectorInit ==
  /\ given \in [recording : BOOLEAN, limit : LabelLimits]
  /\ kind = [m \in Metrics |-> "none"]
  /\ current = [m \in Metrics |-> Zero]
  /\ lists = [i \in ListIds |-> 0]
  /\ collection = [c \in Collectors |-> Idle]
  /\ timer = [at |-> "wait", cancelled |-> FALSE, interval |-> "positive"]
  /\ stop = "no"
  /\ updates = [m \in Metrics |-> [all |-> 0, before |-> 0]]
  /\ reported = [m \in Metrics |-> Zero]
  /\ overlapped = FALSE

(***************************************************************************)
(* The application.  A name is looked up and made under the lock of the    *)
(* set; the limit counts the placeholders of ignored names too.            *)
(***************************************************************************)
Made == {m \in Metrics : kind[m] # "none"}
Real == {m \in Metrics : kind[m] = "real"}

\* A list that neither a histogram nor a collection has.
Held(c) ==
  {collection[c].samples[h].list : h \in Histograms \cap DOMAIN collection[c].samples}
    \cup (IF collection[c].name \in Histograms THEN {collection[c].value.list} ELSE {})
ListsInUse ==
  {current[h].list : h \in Histograms \cap Real} \cup UNION {Held(c) : c \in Collectors}
NewList == CHOOSE i \in ListIds : i \notin ListsInUse
Empty == [list |-> NewList]

MutantNewKind(m) ==
  IF m \in Ignored \/ Cardinality(Made) > given.limit THEN "noop" ELSE "real"
NewKind(m) ==
  IF m \in Ignored \/ Cardinality(Made) >= given.limit THEN "noop" ELSE "real"

Metric(m) ==
  /\ kind[m] = "none"
  /\ kind' = [kind EXCEPT ![m] = NewKind(m)]
  /\ IF m \in Histograms /\ NewKind(m) = "real"
       THEN /\ current' = [current EXCEPT ![m] = Empty]
            /\ lists' = [lists EXCEPT ![NewList] = 0]
       ELSE UNCHANGED <<current, lists>>
  /\ UNCHANGED <<given, collection, timer, stop, updates, reported, overlapped>>

Update(m) ==
  /\ kind[m] = "real"
  /\ updates[m].all < MaxUpdates[m]
  /\ updates' = [updates EXCEPT ![m].all = @ + 1,
                                ![m].before = IF stop = "no" THEN @ + 1 ELSE @]
  /\ IF m \in Histograms
       THEN /\ lists' = [lists EXCEPT ![current[m].list] = @ + 1]
            /\ UNCHANGED current
       ELSE /\ current' = [current EXCEPT ![m] = [sum |-> @.sum + 1,
                                                  count |-> @.count + 1]]
            /\ UNCHANGED lists
  /\ UNCHANGED <<given, kind, collection, timer, stop, reported, overlapped>>

(***************************************************************************)
(* collect.  One kind after the other is copied and then each metric is    *)
(* read and reset, both under the lock of the metric, in two steps.  The   *)
(* samples are queued at the end.                                          *)
(***************************************************************************)
Doing(c, stage) == collection[c].stage = stage
Busy(c) == ~Doing(c, "idle")

Starts(c) ==
  /\ collection' = IF given.recording
       THEN [collection EXCEPT ![c] =
              Collecting("timers", Timers \cap Real, "", Zero, NoSamples)]
       ELSE collection
  /\ overlapped' = (overlapped \/ (given.recording /\ \E d \in Collectors \ {c} : Busy(d)))

Read(c) ==
  /\ Busy(c) /\ collection[c].name = ""
  /\ \E m \in collection[c].left :
       collection' = [collection EXCEPT ![c] =
         Collecting(@.stage, @.left \ {m}, m, current[m], @.samples)]
  /\ UNCHANGED <<given, kind, current, lists, timer, stop, updates, reported,
                 overlapped>>

\* A histogram gets a new list and the one that was read is not written to again.
MutantAfterReset(m) ==
  IF m \in Histograms THEN Empty ELSE [current[m] EXCEPT !.sum = 0]
MutantClearedList(m) == IF m \in Histograms THEN current[m] ELSE Zero
MutantUnreset(m) == IF m \in Histograms THEN Empty ELSE current[m]
AfterReset(m) == IF m \in Histograms THEN Empty ELSE Zero

\* Timers that are 0 are left out; the counts of a histogram are a list, which
\* is never false.
Reset(c) ==
  LET m == collection[c].name
      value == collection[c].value
  IN  /\ Busy(c) /\ m # ""
      /\ collection' = [collection EXCEPT ![c] =
           Collecting(@.stage, @.left, "", Zero,
             IF m \notin Histograms /\ value.sum = 0 THEN @.samples
               ELSE [n \in DOMAIN @.samples \cup {m} |->
                       IF n = m THEN value ELSE @.samples[n]])]
      /\ current' = [current EXCEPT ![m] = AfterReset(m)]
      /\ lists' = IF m \in Histograms
                    THEN [lists EXCEPT ![AfterReset(m).list] = 0] ELSE lists
      /\ UNCHANGED <<given, kind, timer, stop, updates, reported, overlapped>>

Exhausted(c) == collection[c].left = {} /\ collection[c].name = ""

NextContainer(c) ==
  /\ Doing(c, "timers") /\ Exhausted(c)
  /\ collection' = [collection EXCEPT ![c] =
       Collecting("histograms", Histograms \cap Real, "", Zero, @.samples)]
  /\ UNCHANGED <<given, kind, current, lists, timer, stop, updates, reported,
                 overlapped>>

\* What the samples add to what was reported.
Queues(samples) ==
  [m \in Metrics |->
     IF m \notin DOMAIN samples THEN reported[m]
       ELSE IF m \in Histograms
              THEN [reported[m] EXCEPT !.sum = @ + lists[samples[m].list]]
              ELSE [sum |-> reported[m].sum + samples[m].sum,
                    count |-> reported[m].count + samples[m].count]]

QueueSamples(c) ==
  /\ Doing(c, "histograms") /\ Exhausted(c)
  /\ reported' = Queues(collection[c].samples)
  /\ collection' = [collection EXCEPT ![c] = Idle]
  /\ UNCHANGED <<given, kind, current, lists, timer, stop, updates, overlapped>>

(***************************************************************************)
(* IntervalTimer.run.  What is left of the interval after an execution is  *)
(* positive, zero or negative, when it took longer.                        *)
(***************************************************************************)
Intervals == {"positive", "zero", "negative"}

\* Event.wait tells of the cancellation, however short it waits.
MutantSeesCancel == timer.cancelled /\ timer.interval # "negative"
SeesCancel == timer.cancelled \/ timer.interval = "zero"

TimerReturns ==
  /\ timer.at = "wait"
  /\ SeesCancel
  /\ timer' = [timer EXCEPT !.at = "returned"]
  /\ UNCHANGED <<given, kind, current, lists, collection, stop, updates,
                 reported, overlapped>>

TimerCalls ==
  /\ timer.at = "wait"
  /\ ~SeesCancel
  /\ timer' = [timer EXCEPT !.at = "call"]
  /\ Starts("timer")
  /\ UNCHANGED <<given, kind, current, lists, stop, updates, reported>>

TimerCalled ==
  /\ timer.at = "call" /\ ~Busy("timer")
  /\ \E i \in Intervals :
       timer' = [timer EXCEPT !.at = "wait", !.interval = i]
  /\ UNCHANGED <<given, kind, current, lists, collection, stop, updates,
                 reported, overlapped>>

\* A metric set raises before it is collected: the exception is logged.
MutantAfterException == "returned"
AfterException == "wait"
TimerCallRaises ==
  /\ timer.at = "call"
  /\ Doing("timer", "timers") /\ collection["timer"].samples = NoSamples
  /\ collection["timer"].name = ""
  /\ collection' = [collection EXCEPT !["timer"] = Idle]
  /\ \E i \in Intervals :
       timer' = [timer EXCEPT !.at = AfterException, !.interval = i]
  /\ UNCHANGED <<given, kind, current, lists, stop, updates, reported, overlapped>>

(***************************************************************************)
(* stop_thread: nothing to do unless the timer's thread is alive.          *)
(***************************************************************************)
MutantCollectsLast == "done"
CollectsLast == "collects"
StopThread ==
  /\ stop = "no"
  /\ IF timer.at # "returned"
       THEN /\ timer' = [timer EXCEPT !.cancelled = TRUE]
            /\ stop' = CollectsLast
            /\ Starts("stop")
       ELSE /\ stop' = "done"
            /\ UNCHANGED <<timer, collection, overlapped>>
  /\ UNCHANGED <<given, kind, current, lists, updates, reported>>

StopThreadReturns ==
  /\ stop = "collects" /\ ~Busy("stop")
  /\ stop' = "done"
  /\ UNCHANGED <<given, kind, current, lists, collection, timer, updates,
                 reported, overlapped>>

Collects(c) == Read(c) \/ Reset(c) \/ NextContainer(c) \/ QueueSamples(c)
TimerRuns == TimerReturns \/ TimerCalls \/ TimerCalled \/ Collects("timer")

CollectorNext ==
  \/ \E m \in Metrics : Metric(m) \/ Update(m)
  \/ \E c \in Collectors : Collects(c)
  \/ TimerReturns \/ TimerCalls \/ TimerCalled \/ TimerCallRaises
  \/ StopThread \/ StopThreadReturns

\* The operating system runs the timer's thread.
CollectorFairness == WF_collectorVars(TimerRuns)

CollectorSpec == CollectorInit /\ [][CollectorNext]_collectorVars

-----------------------------------------------------------------------------
\* No more metrics than the limit take updates, the placeholders of ignored names
\* included, whatever the order in which names and labels turn up.
WithinLabelLimit == Cardinality(Real) <= given.limit

\* The sum and the count that are reported of a timer are of the same updates:
\* their quotient, which is what they are for, is right, and was not changed by
\* updates between the reads and the resets of one collection or of two.
MeansRight == \A m \in Timers : reported[m].sum = reported[m].count

\* An update is reported once at most, unless the last collection of stop_thread
\* began in the middle of one of the timer, which it does not wait for.
NothingTwice ==
  ~overlapped => \A m \in Metrics : reported[m].sum <= updates[m].all

\* A histogram loses no update to a reset, since the list that was read gets the
\* updates before the reset: when no collection is at work,
\* what was not reported is in the list.
HistogramsComplete ==
  ~overlapped /\ given.recording /\ (\A c \in Collectors : ~Busy(c)) =>
    \A h \in Histograms \cap Real :
      reported[h].sum + lists[current[h].list] = updates[h].all

\* Once stop_thread has returned, the histograms' updates of before it was called
\* are reported, if the timer had not come to its end by itself.
LastCollection ==
  stop = "done" /\ timer.cancelled /\ given.recording /\ ~overlapped =>
    \A h \in Histograms : reported[h].sum >= updates[h].before

\* Neither an exception nor a long execution ends the timer: only cancel does, and
\* an execution that takes exactly the interval.
TimerSurvives ==
  timer.at = "returned" => timer.cancelled \/ timer.interval = "zero"

\* A timer that was cancelled ends, also when every execution takes longer than
\* the interval.
CancelEnds == timer.cancelled ~> timer.at = "returned"
=============================================================================
