----------------------------- MODULE CollectorProofs -----------------------------
(***************************************************************************)
(* For any metrics, limits and numbers of updates: the label limit holds,  *)
(* and the sum and the count of a timer that are reported are those of the *)
(* same updates, also if the collections of the timer and of stop_thread   *)
(* overlap.  A timer's value goes from current over the value that a       *)
(* collection has read and its samples to reported; in each place the sum  *)
(* and the count are the same.                                             *)
(***************************************************************************)
EXTENDS Collector, FiniteSetTheorems, TLAPS

Same(value) == value.sum \in Int /\ value.sum = value.count

\* The container of all metrics and how many of them are real.
Kinds ==
  /\ kind \in [Metrics -> {"none", "real", "noop"}]
  /\ given.limit \in Nat
  /\ WithinLabelLimit

Domains ==
  /\ DOMAIN current = Metrics
  /\ DOMAIN reported = Metrics
  /\ DOMAIN collection = Collectors

\* What a collection has in its hands.
SameIn(col) ==
  /\ col.name \in Timers => Same(col.value)
  /\ \A m \in DOMAIN col.samples : m \in Timers => Same(col.samples[m])

Sums ==
  /\ \A m \in Timers : Same(current[m]) /\ Same(reported[m])
  /\ \A c \in Collectors : SameIn(collection[c])

Inv == Kinds /\ Domains /\ Sums

LEMMA ZeroSame == Same(Zero)
BY DEF Same, Zero

\* A collection that has nothing, and one that has read or queued something.
LEMMA IdleSame == SameIn(Idle)
BY ZeroSame DEF Idle, Collecting, SameIn, NoSamples

\* The invariant holds at first.
LEMMA InitInv == CollectorInit => Inv
<1> SUFFICES ASSUME CollectorInit PROVE Inv
  OBVIOUS
<1>1. Kinds
  <2>1. Real = {}
    BY DEF CollectorInit, Real
  <2>2. given.limit \in Nat
    BY CollectorAssumption DEF CollectorInit
  <2>3. QED
    BY <2>1, <2>2, FS_EmptySet DEF CollectorInit, Kinds, WithinLabelLimit
<1>2. Domains
  BY DEF CollectorInit, Domains
<1>3. Sums
  BY ZeroSame, IdleSame DEF CollectorInit, Sums, Timers
<1>4. QED
  BY <1>1, <1>2, <1>3 DEF Inv

\* A new metric is only real below the limit.
LEMMA MetricKinds ==
  ASSUME Inv, NEW m \in Metrics, Metric(m)
  PROVE  Kinds'
<1>1. /\ kind' = [kind EXCEPT ![m] = NewKind(m)]
      /\ kind[m] = "none" /\ given' = given
  BY DEF Metric
<1>2. kind' \in [Metrics -> {"none", "real", "noop"}]
  BY <1>1 DEF Inv, Kinds, NewKind
<1>3. /\ IsFiniteSet(Real) /\ IsFiniteSet(Made)
      /\ Cardinality(Real) <= Cardinality(Made)
      /\ Cardinality(Real) \in Nat /\ Cardinality(Made) \in Nat
  <2>1. Real \subseteq Made /\ Made \subseteq Metrics
    BY DEF Real, Made
  <2>2. IsFiniteSet(Made)
    BY <2>1, CollectorAssumption, FS_Subset
  <2>3. QED
    BY <2>1, <2>2, FS_Subset, FS_CardinalityType
<1>4. CASE NewKind(m) = "real"
  <2>1. m \notin Real /\ Real' = Real \cup {m}
    BY <1>1, <1>4 DEF Real, Inv, Kinds
  <2>2. Cardinality(Real') = Cardinality(Real) + 1
    BY <2>1, <1>3, FS_AddElement
  <2>3. ~(Cardinality(Made) >= given.limit)
    BY <1>4 DEF NewKind
  <2>4. Cardinality(Real') <= given'.limit
    BY <1>1, <1>3, <2>2, <2>3 DEF Inv, Kinds
  <2>5. QED
    BY <1>1, <1>2, <2>4 DEF Inv, Kinds, WithinLabelLimit
<1>5. CASE NewKind(m) # "real"
  <2>1. Real' = Real
    BY <1>1, <1>5 DEF Real, Inv, Kinds
  <2>2. QED
    BY <1>1, <1>2, <2>1 DEF Inv, Kinds, WithinLabelLimit
<1>6. QED
  BY <1>4, <1>5

\* The application keeps the sums and counts the same.
LEMMA MetricSums ==
  ASSUME Inv, NEW m \in Metrics, Metric(m)
  PROVE  (Domains /\ Sums)'
<1>1. UNCHANGED <<collection, reported>>
  BY DEF Metric
<1>2. /\ DOMAIN current' = DOMAIN current
      /\ \A t \in Timers : current'[t] = current[t]
  BY DEF Metric, Timers, Inv, Domains
<1>3. QED
  BY <1>1, <1>2 DEF Inv, Domains, Sums

LEMMA UpdateSums ==
  ASSUME Inv, NEW m \in Metrics, Update(m)
  PROVE  (Domains /\ Sums)'
<1>1. UNCHANGED <<collection, reported>>
  BY DEF Update
<1>2. CASE m \in Histograms
  BY <1>1, <1>2 DEF Update, Inv, Domains, Sums
<1>3. CASE m \in Timers
  <2>1. current' = [current EXCEPT ![m] = [sum |-> @.sum + 1, count |-> @.count + 1]]
    BY <1>3 DEF Update, Timers
  <2>2. Same([sum |-> current[m].sum + 1, count |-> current[m].count + 1])
    BY <1>3 DEF Inv, Sums, Same
  <2>3. DOMAIN current' = Metrics /\ \A t \in Timers : Same(current'[t])
    BY <2>1, <2>2 DEF Inv, Domains, Sums, Timers
  <2>4. QED
    BY <1>1, <2>3 DEF Inv, Domains, Sums
<1>4. QED
  BY <1>2, <1>3 DEF Timers

\* What a collection does with its own, it keeps the same.
LEMMA ReadSums ==
  ASSUME Inv, NEW c \in Collectors, Read(c)
  PROVE  (Domains /\ Sums)'
<1>1. PICK m \in collection[c].left :
        collection' = [collection EXCEPT ![c] =
          Collecting(@.stage, @.left \ {m}, m, current[m], @.samples)]
  BY DEF Read
<1>2. SameIn(Collecting(collection[c].stage, collection[c].left \ {m}, m, current[m],
                        collection[c].samples))
  BY DEF Inv, Sums, SameIn, Collecting
<1>3. DOMAIN collection' = Collectors /\ \A d \in Collectors : SameIn(collection'[d])
  BY <1>1, <1>2 DEF Inv, Domains, Sums
<1>4. QED
  BY <1>3 DEF Read, Inv, Domains, Sums

LEMMA ResetSums ==
  ASSUME Inv, NEW c \in Collectors, Reset(c)
  PROVE  (Domains /\ Sums)'
<1> DEFINE m == collection[c].name
           value == collection[c].value
           samples == collection[c].samples
           added == IF m \notin Histograms /\ value.sum = 0 THEN samples
                      ELSE [n \in DOMAIN samples \cup {m} |->
                              IF n = m THEN value ELSE samples[n]]
           after == Collecting(collection[c].stage, collection[c].left, "", Zero, added)
<1>1. /\ collection' = [collection EXCEPT ![c] = after]
      /\ current' = [current EXCEPT ![m] = AfterReset(m)]
      /\ reported' = reported
  BY DEF Reset
<1>2. SameIn(after)
  <2>1. SameIn(collection[c])
    BY DEF Inv, Sums
  <2>2. \A n \in DOMAIN added : n \in Timers => Same(added[n])
    BY <2>1 DEF SameIn
  <2>3. QED
    BY <2>2, ZeroSame DEF SameIn, Collecting
<1>3. DOMAIN collection' = Collectors /\ \A d \in Collectors : SameIn(collection'[d])
  BY <1>1, <1>2 DEF Inv, Domains, Sums
<1>4. DOMAIN current' = Metrics /\ \A t \in Timers : Same(current'[t])
  <2>1. m \in Timers => AfterReset(m) = Zero
    BY DEF AfterReset, Timers
  <2>2. QED
    BY <1>1, <2>1, ZeroSame DEF Inv, Domains, Sums, Timers
<1>5. QED
  BY <1>1, <1>3, <1>4 DEF Inv, Domains, Sums

LEMMA QueueSamplesSums ==
  ASSUME Inv, NEW c \in Collectors, QueueSamples(c)
  PROVE  (Domains /\ Sums)'
<1>1. /\ reported' = Queues(collection[c].samples)
      /\ collection' = [collection EXCEPT ![c] = Idle]
      /\ current' = current
  BY DEF QueueSamples
<1>2. DOMAIN collection' = Collectors /\ \A d \in Collectors : SameIn(collection'[d])
  BY <1>1, IdleSame DEF Inv, Domains, Sums
<1>3. ASSUME NEW t \in Timers PROVE Same(reported'[t])
  <2>1. t \in Metrics /\ t \notin Histograms
    BY DEF Timers
  <2>2. CASE t \notin DOMAIN collection[c].samples
    BY <1>1, <2>1, <2>2 DEF Queues, Inv, Sums
  <2>3. CASE t \in DOMAIN collection[c].samples
    <3>1. Same(collection[c].samples[t]) /\ Same(reported[t])
      BY <2>3 DEF Inv, Sums, SameIn
    <3>2. reported'[t] = [sum |-> reported[t].sum + collection[c].samples[t].sum,
                          count |-> reported[t].count + collection[c].samples[t].count]
      BY <1>1, <2>1, <2>3 DEF Queues
    <3>3. QED
      BY <3>1, <3>2 DEF Same
  <2>4. QED
    BY <2>2, <2>3
<1>4. DOMAIN reported' = Metrics
  BY <1>1 DEF Queues
<1>5. QED
  BY <1>1, <1>2, <1>3, <1>4 DEF Inv, Domains, Sums

\* Starting, going on to the next container and giving up.
LEMMA OtherSums ==
  ASSUME Inv, UNCHANGED <<current, reported>>,
         NEW c \in Collectors, NEW col, SameIn(col),
         collection' = [collection EXCEPT ![c] = col]
  PROVE  (Domains /\ Sums)'
BY DEF Inv, Domains, Sums

LEMMA StartsSums ==
  ASSUME Inv, UNCHANGED <<current, reported>>, NEW c \in Collectors, Starts(c)
  PROVE  (Domains /\ Sums)'
<1>1. SameIn(Collecting("timers", Timers \cap Real, "", Zero, NoSamples))
  BY ZeroSame DEF SameIn, Collecting, NoSamples
<1>2. CASE given.recording
  BY <1>1, <1>2, OtherSums DEF Starts
<1>3. CASE ~given.recording
  BY <1>3 DEF Starts, Inv, Domains, Sums
<1>4. QED
  BY <1>2, <1>3

\* The invariant is inductive.
LEMMA NextInv == Inv /\ [CollectorNext]_collectorVars => Inv'
<1> SUFFICES ASSUME Inv, [CollectorNext]_collectorVars PROVE Inv'
  OBVIOUS
<1>1. UNCHANGED <<kind, given>> => Kinds'
  BY DEF Inv, Kinds, WithinLabelLimit, Real
<1>2. ASSUME NEW m \in Metrics, Metric(m) PROVE Inv'
  BY <1>2, MetricKinds, MetricSums DEF Inv
<1>3. ASSUME NEW m \in Metrics, Update(m) PROVE Inv'
  BY <1>1, <1>3, UpdateSums DEF Inv, Update
<1>4. ASSUME NEW c \in Collectors, Read(c) PROVE Inv'
  BY <1>1, <1>4, ReadSums DEF Inv, Read
<1>5. ASSUME NEW c \in Collectors, Reset(c) PROVE Inv'
  BY <1>1, <1>5, ResetSums DEF Inv, Reset
<1>6. ASSUME NEW c \in Collectors, QueueSamples(c) PROVE Inv'
  BY <1>1, <1>6, QueueSamplesSums DEF Inv, QueueSamples
<1>7. ASSUME NEW c \in Collectors, NextContainer(c) PROVE Inv'
  <2>1. SameIn(Collecting("histograms", Histograms \cap Real, "", Zero,
                          collection[c].samples))
    BY ZeroSame DEF Inv, Sums, SameIn, Collecting
  <2>2. QED
    BY <1>1, <1>7, <2>1, OtherSums DEF Inv, NextContainer
<1>8. CASE TimerCalls
  BY <1>1, <1>8, StartsSums DEF Inv, TimerCalls, Collectors
<1>9. CASE TimerCallRaises
  BY <1>1, <1>9, IdleSame, OtherSums DEF Inv, TimerCallRaises, Collectors
<1>10. CASE StopThread
  <2>1. CASE timer.at # "returned"
    BY <1>1, <1>10, <2>1, StartsSums DEF Inv, StopThread, Collectors
  <2>2. CASE timer.at = "returned"
    BY <1>1, <1>10, <2>2 DEF Inv, StopThread, Domains, Sums
  <2>3. QED
    BY <2>1, <2>2
<1>11. CASE TimerReturns \/ TimerCalled \/ StopThreadReturns
  BY <1>1, <1>11 DEF TimerReturns, TimerCalled, StopThreadReturns, Inv, Domains, Sums
<1>12. CASE UNCHANGED collectorVars
  BY <1>1, <1>12 DEF collectorVars, Inv, Domains, Sums
<1>13. QED
  BY <1>2, <1>3, <1>4, <1>5, <1>6, <1>7, <1>8, <1>9, <1>10, <1>11, <1>12
     DEF CollectorNext, Collects

\* DISTINCT_LABEL_LIMIT holds for any number of names, labels and placeholders.
THEOREM LabelLimitHolds == CollectorSpec => []WithinLabelLimit
<1>1. Inv => WithinLabelLimit
  BY DEF Inv, Kinds
<1>2. QED
  BY InitInv, NextInv, <1>1, PTL DEF CollectorSpec

\* The sum and the count that are reported of a timer fit, whatever updates and
\* collections come between its reads and its resets.
THEOREM MeansAreRight == CollectorSpec => []MeansRight
<1>1. Inv => MeansRight
  BY DEF Inv, Sums, Same, MeansRight
<1>2. QED
  BY InitInv, NextInv, <1>1, PTL DEF CollectorSpec

-----------------------------------------------------------------------------
\* run of the timer and stop_thread are the only ones that write to it.
TimerType ==
  timer \in [at : {"wait", "call", "returned"}, cancelled : BOOLEAN, interval : Intervals]

LEMMA NextTimer ==
  TimerType /\ TimerSurvives /\ [CollectorNext]_collectorVars
    => (TimerType /\ TimerSurvives)'
<1> SUFFICES ASSUME TimerType, TimerSurvives, [CollectorNext]_collectorVars
             PROVE  (TimerType /\ TimerSurvives)'
  OBVIOUS
<1>1. ASSUME UNCHANGED timer
      PROVE  (TimerType /\ TimerSurvives)'
  BY <1>1 DEF TimerType, TimerSurvives
<1>2. ASSUME NEW at \in {"wait", "call"}, NEW i \in Intervals,
             timer' = [timer EXCEPT !.at = at, !.interval = i]
      PROVE  (TimerType /\ TimerSurvives)'
  BY <1>2 DEF TimerType, TimerSurvives
<1>3. CASE TimerReturns
  BY <1>3 DEF TimerReturns, SeesCancel, TimerType, TimerSurvives
<1>4. CASE TimerCalls
  BY <1>4 DEF TimerCalls, TimerType, TimerSurvives
<1>5. CASE TimerCalled
  BY <1>2, <1>5 DEF TimerCalled
<1>6. CASE TimerCallRaises
  BY <1>2, <1>6 DEF TimerCallRaises, AfterException
<1>7. CASE StopThread
  BY <1>7 DEF StopThread, TimerType, TimerSurvives
<1>8. ASSUME NEW m \in Metrics, Metric(m) \/ Update(m)
      PROVE  UNCHANGED timer
  BY <1>8 DEF Metric, Update
<1>9. ASSUME NEW c \in Collectors, Collects(c)
      PROVE  UNCHANGED timer
  BY <1>9 DEF Collects, Read, Reset, NextContainer, QueueSamples
<1>10. CASE StopThreadReturns \/ UNCHANGED collectorVars
  BY <1>1, <1>10 DEF StopThreadReturns, collectorVars
<1>11. QED
  BY <1>1, <1>3, <1>4, <1>5, <1>6, <1>7, <1>8, <1>9, <1>10 DEF CollectorNext

\* No exception and no long execution ends the timer, however often it is called.
THEOREM TimerGoesOn == CollectorSpec => []TimerSurvives
<1>1. CollectorInit => TimerType /\ TimerSurvives
  BY DEF CollectorInit, TimerType, TimerSurvives, Intervals
<1>2. QED
  BY <1>1, NextTimer, PTL DEF CollectorSpec

-----------------------------------------------------------------------------
(***************************************************************************)
(* No update is reported twice, and none of a histogram is lost, unless    *)
(* the two collections overlap.  What was queued of a metric, what the     *)
(* samples of the collections have of it and what its container holds are  *)
(* its updates: all of them for a histogram, some of them for a timer,     *)
(* which loses those between a read and a reset.  The lists of the         *)
(* histograms are never those of the samples.                              *)
(***************************************************************************)
Value(m, value) ==
  IF m \in Histograms THEN value \in [list : ListIds]
    ELSE value \in [sum : Nat, count : Nat]

Containers ==
  /\ \A m \in Timers \cup Real : Value(m, current[m])
  /\ lists \in [ListIds -> Nat]
  /\ updates \in [Metrics -> [all : Nat, before : Nat]]
  /\ reported \in [Metrics -> [sum : Nat, count : Nat]]
  /\ \A m \in Metrics : updates[m].before <= updates[m].all
  /\ \A m \in Metrics \ Real : updates[m].all = 0 /\ reported[m].sum = 0
  /\ stop = "no" => \A m \in Metrics : updates[m].before = updates[m].all

\* A collection has each metric in one place: not yet read, read or sampled.
InHands(c) ==
  LET col == collection[c]
  IN  /\ col.stage \in {"idle", "timers", "histograms"}
      /\ col.stage = "idle" => col = Idle
      /\ col.stage = "timers" =>
           /\ col.left \subseteq Timers \cap Real
           /\ col.name \in (Timers \cap Real) \cup {""}
           /\ DOMAIN col.samples \subseteq Timers
      /\ col.stage = "histograms" =>
           /\ col.left \subseteq Histograms \cap Real
           /\ col.name \in (Histograms \cap Real) \cup {""}
      /\ DOMAIN col.samples \subseteq Real
      /\ (col.left \cup {col.name}) \cap DOMAIN col.samples = {}
      /\ col.name \notin col.left
      /\ col.name # "" => Value(col.name, col.value)
      /\ \A m \in DOMAIN col.samples : Value(m, col.samples[m])

\* The threads that collect.
Callers ==
  /\ TimerType /\ TimerSurvives
  /\ Busy("timer") => timer.at = "call"
  /\ Busy("stop") => stop = "collects"
  /\ timer.cancelled => stop # "no"

\* What the samples of c have of m, and what of m left its container.
Part(c, m) ==
  IF m \notin DOMAIN collection[c].samples THEN 0
    ELSE IF m \in Histograms THEN lists[collection[c].samples[m].list]
    ELSE collection[c].samples[m].sum
Told(m) == reported[m].sum + Part("timer", m) + Part("stop", m)

Apart ==
  \A h \in Histograms \cap Real :
    /\ \A g \in Histograms \cap Real : g # h => current[g].list # current[h].list
    /\ \A c \in Collectors : \A g \in Histograms \cap DOMAIN collection[c].samples :
         collection[c].samples[g].list # current[h].list

\* What c has read and not reset: the list itself, or at most what a timer holds.
Fits(c) ==
  LET col == collection[c]
  IN  /\ col.name \in Timers => col.value.sum <= current[col.name].sum
      /\ col.name \in Histograms => col.value = current[col.name]

Balance ==
  /\ ~(Busy("timer") /\ Busy("stop"))
  /\ \A t \in Timers : Told(t) + current[t].sum <= updates[t].all
  /\ \A h \in Histograms \cap Real : Told(h) + lists[current[h].list] = updates[h].all
  /\ \A c \in Collectors : Fits(c)
  /\ Apart

\* The last collection has still to come to h.
Ahead(h) ==
  /\ h \in Real
  /\ \/ Doing("stop", "timers")
     \/ /\ Doing("stop", "histograms")
        /\ h \in collection["stop"].left \cup {collection["stop"].name}

LastOnes ==
  given.recording /\ timer.cancelled =>
    \A h \in Histograms :
      Ahead(h) \/ updates[h].before <= reported[h].sum + Part("stop", h)

Hands == \A c \in Collectors : InHands(c)
CInv ==
  /\ Inv /\ Containers /\ Hands /\ Callers
  /\ ~overlapped => Balance /\ LastOnes

\* Each place can only have one list, so that one of ListIds is free.
Place(w, h) ==
  IF w = "current" THEN current[h].list
    ELSE IF h \in DOMAIN collection[w].samples THEN collection[w].samples[h].list
    ELSE collection[w].value.list

LEMMA NewListIsFree ==
  ASSUME Inv, Hands
  PROVE  NewList \in ListIds /\ NewList \notin ListsInUse
<1> DEFINE W == {"current", "timer", "stop"}
           P == W \X Histograms
<1>1. IsFiniteSet(Histograms) /\ Cardinality(Histograms) \in Nat
  BY CollectorAssumption, FS_Subset, FS_CardinalityType
<1>2. IsFiniteSet(P) /\ Cardinality(P) = 3 * Cardinality(Histograms)
  <2>1. IsFiniteSet({"current"}) /\ Cardinality({"current"}) = 1
    BY FS_Singleton
  <2>2. IsFiniteSet({"current"} \cup {"timer"}) /\ Cardinality({"current"} \cup {"timer"}) = 2
    BY <2>1, FS_AddElement
  <2>3. IsFiniteSet(W) /\ Cardinality(W) = 3
    <3>1. W = ({"current"} \cup {"timer"}) \cup {"stop"}
      OBVIOUS
    <3> QED
      BY <2>2, <3>1, FS_AddElement
  <2> HIDE DEF W
  <2> QED
    BY <1>1, <2>3, FS_Product
<1>3. IsFiniteSet(ListIds) /\ Cardinality(ListIds) = 3 * Cardinality(Histograms) + 1
  BY <1>1, FS_Interval DEF ListIds
<1>4. ASSUME NEW i \in ListsInUse
      PROVE  \E x \in P : Place(x[1], x[2]) = i
  <2>1. CASE \E h \in Histograms \cap Real : i = current[h].list
    <3>1. PICK h \in Histograms \cap Real : i = current[h].list
      BY <2>1
    <3>2. <<"current", h>> \in P /\ Place("current", h) = i
      BY <3>1 DEF Place
    <3> QED
      BY <3>2
  <2>2. CASE \E c \in Collectors : i \in Held(c)
    <3>1. PICK c \in Collectors : i \in Held(c)
      BY <2>2
    <3>2. CASE \E h \in Histograms \cap DOMAIN collection[c].samples :
                 i = collection[c].samples[h].list
      <4>1. PICK h \in Histograms \cap DOMAIN collection[c].samples :
              i = collection[c].samples[h].list
        BY <3>2
      <4>2. <<c, h>> \in P /\ Place(c, h) = i
        BY <4>1 DEF Place, Collectors
      <4> QED
        BY <4>2
    <3>3. CASE collection[c].name \in Histograms /\ i = collection[c].value.list
      <4> DEFINE h == collection[c].name
      <4>1. h \notin DOMAIN collection[c].samples
        BY <3>3 DEF Hands, InHands
      <4>2. <<c, h>> \in P /\ Place(c, h) = i
        BY <3>3, <4>1 DEF Place, Collectors
      <4> QED
        BY <4>2
    <3> QED
      BY <3>1, <3>2, <3>3 DEF Held
  <2> QED
    BY <2>1, <2>2 DEF ListsInUse
<1>5. \E i \in ListIds : i \notin ListsInUse
  <2> SUFFICES ASSUME ListIds \subseteq ListsInUse PROVE FALSE
    OBVIOUS
  <2> DEFINE f == [i \in ListIds |-> CHOOSE x \in P : Place(x[1], x[2]) = i]
  <2>1. \A i \in ListIds : f[i] \in P /\ Place(f[i][1], f[i][2]) = i
    BY <1>4
  <2>2. f \in [ListIds -> P]
    BY <2>1
  <2> HIDE DEF f, P
  <2>3. \E x, y \in ListIds : x # y /\ f[x] = f[y]
    BY <1>1, <1>2, <1>3, <2>2, FS_PigeonHole
  <2> QED
    BY <2>1, <2>3
<1> QED
  BY <1>5 DEF NewList

LEMMA NewListIsNew ==
  ASSUME Inv, Hands
  PROVE  /\ NewList \in ListIds
         /\ \A h \in Histograms \cap Real : NewList # current[h].list
         /\ \A c \in Collectors : \A g \in Histograms \cap DOMAIN collection[c].samples :
              NewList # collection[c].samples[g].list
BY NewListIsFree DEF ListsInUse, Held

LEMMA PartNat ==
  ASSUME Containers, Hands, NEW c \in Collectors, NEW m \in Metrics
  PROVE  Part(c, m) \in Nat
<1>1. InHands(c) /\ lists \in [ListIds -> Nat]
  BY DEF Hands, Containers
<1>2. CASE m \in DOMAIN collection[c].samples
  <2>1. Value(m, collection[c].samples[m])
    BY <1>1, <1>2 DEF InHands
  <2> QED
    BY <1>1, <1>2, <2>1 DEF Part, Value
<1> QED
  BY <1>2 DEF Part

LEMMA IdleFields ==
  /\ Idle.stage = "idle" /\ Idle.left = {} /\ Idle.name = ""
  /\ DOMAIN Idle.samples = {}
BY DEF Idle, Collecting, NoSamples

LEMMA IdleInHands ==
  ASSUME NEW c \in Collectors, collection[c] = Idle
  PROVE  InHands(c) /\ \A m : Part(c, m) = 0
BY IdleFields DEF InHands, Part

LEMMA IdlePart ==
  ASSUME NEW c \in Collectors, InHands(c), ~Busy(c), NEW m
  PROVE  Part(c, m) = 0
<1>1. collection[c] = Idle
  BY DEF InHands, Busy, Doing
<1> QED
  BY <1>1, IdleInHands

\* A step that changes neither the samples of c nor the lists in them.
LEMMA PartStays ==
  ASSUME NEW c \in Collectors, NEW m,
         collection'[c].samples = collection[c].samples,
         m \in Histograms \cap DOMAIN collection[c].samples =>
           lists'[collection[c].samples[m].list] = lists[collection[c].samples[m].list]
  PROVE  Part(c, m)' = Part(c, m)
BY DEF Part

\* More metrics are made.
LEMMA InHandsStays ==
  ASSUME NEW c \in Collectors, InHands(c), collection'[c] = collection[c],
         Real \subseteq Real'
  PROVE  InHands(c)'
BY DEF InHands, Value

\* The containers of a step that only moves what the collections have.
LEMMA ContainersStay ==
  ASSUME Containers, UNCHANGED <<kind, current, lists, updates, reported>>,
         stop' = "no" => stop = "no"
  PROVE  Containers' /\ Real' = Real
BY DEF Containers, Value, Real

LEMMA HandIsReal ==
  ASSUME NEW c \in Collectors, InHands(c)
  PROVE  /\ collection[c].name \in Real \cup {""}
         /\ collection[c].left \subseteq Real
         /\ DOMAIN collection[c].samples \subseteq Real
         /\ collection[c].name # "" \/ collection[c].left # {} => Busy(c)
<1>1. CASE collection[c].stage = "idle"
  <2>1. collection[c] = Idle
    BY <1>1 DEF InHands
  <2> QED
    BY <2>1, IdleFields
<1>2. CASE collection[c].stage # "idle"
  BY <1>2 DEF InHands, Busy, Doing
<1> QED
  BY <1>1, <1>2

\* The application makes m.
LEMMA MetricKeeps ==
  ASSUME CInv, NEW m \in Metrics, Metric(m)
  PROVE  CInv'
<1>1. /\ Inv /\ Containers /\ Hands /\ Callers /\ kind[m] = "none"
      /\ UNCHANGED <<given, collection, timer, stop, updates, reported, overlapped>>
      /\ kind \in [Metrics -> {"none", "real", "noop"}]
      /\ kind' = [kind EXCEPT ![m] = NewKind(m)]
      /\ DOMAIN current = Metrics
  BY DEF CInv, Metric, Inv, Kinds, Domains
<1>2. Inv'
  BY <1>1, MetricKinds, MetricSums DEF Inv
<1>3. m \notin Real /\ Real \subseteq Real' /\ Real' \subseteq Real \cup {m}
  BY <1>1 DEF Real
<1>4. /\ NewList \in ListIds
      /\ \A h \in Histograms \cap Real : NewList # current[h].list
      /\ \A c \in Collectors : \A g \in Histograms \cap DOMAIN collection[c].samples :
           NewList # collection[c].samples[g].list
  BY <1>1, NewListIsNew
<1>5. /\ \A n \in Metrics \ {m} : current'[n] = current[n]
      /\ \A i \in ListIds \ {NewList} : lists'[i] = lists[i]
      /\ m \in Timers => current'[m] = current[m]
      /\ m \in Histograms \cap Real' =>
           current'[m].list = NewList /\ lists'[NewList] = 0
           /\ current'[m] \in [list : ListIds]
      /\ lists' \in [ListIds -> Nat]
  <2>1. CASE m \in Histograms /\ NewKind(m) = "real"
    <3>1. current' = [current EXCEPT ![m] = Empty] /\ lists' = [lists EXCEPT ![NewList] = 0]
      BY <2>1 DEF Metric
    <3>2. Empty.list = NewList /\ Empty \in [list : ListIds]
      BY <1>4 DEF Empty
    <3> QED
      BY <1>1, <1>4, <2>1, <3>1, <3>2 DEF Containers, Timers
  <2>2. CASE ~(m \in Histograms /\ NewKind(m) = "real")
    <3>1. UNCHANGED <<current, lists>>
      BY <2>2 DEF Metric
    <3>2. m \notin Histograms \cap Real'
      BY <1>1, <2>2 DEF Real
    <3> QED
      BY <1>1, <3>1, <3>2 DEF Containers
  <2> QED
    BY <2>1, <2>2
<1>6. Containers'
  <2>1. \A n \in Timers \cup Real' : Value(n, current'[n])
    <3> SUFFICES ASSUME NEW n \in Timers \cup Real' PROVE Value(n, current'[n])
      OBVIOUS
    <3>1. CASE n \in Timers \cup Real
      BY <1>1, <1>3, <1>5, <3>1 DEF Containers, Timers, Real
    <3>2. CASE n = m /\ m \in Histograms
      BY <1>5, <3>2 DEF Value, Timers
    <3> QED
      BY <1>3, <3>1, <3>2 DEF Timers
  <2> QED
    BY <1>1, <1>3, <1>5, <2>1 DEF Containers, Value
<1>7. Hands'
  BY <1>1, <1>3, InHandsStays DEF Hands
<1>8. Callers'
  BY <1>1 DEF Callers, TimerType, TimerSurvives, Busy, Doing
<1>9. ASSUME NEW c \in Collectors, NEW n \in Metrics
      PROVE  Part(c, n)' = Part(c, n)
  <2>1. InHands(c)
    BY <1>1 DEF Hands
  <2>2. ASSUME n \in Histograms \cap DOMAIN collection[c].samples
        PROVE  lists'[collection[c].samples[n].list] = lists[collection[c].samples[n].list]
    <3>1. collection[c].samples[n].list \in ListIds \ {NewList}
      BY <1>4, <2>1, <2>2 DEF InHands, Value
    <3> QED
      BY <1>5, <3>1
  <2> QED
    BY <1>1, <2>2, PartStays
<1>10. \A n \in Metrics : Told(n)' = Told(n)
  BY <1>1, <1>9 DEF Told, Collectors
<1>11. ASSUME Balance
       PROVE  Balance'
  <2>1. ~(Busy("timer") /\ Busy("stop"))'
    BY <1>1, <1>11 DEF Balance, Busy, Doing
  <2>2. \A t \in Timers : (Told(t) + current[t].sum <= updates[t].all)'
    BY <1>1, <1>5, <1>10, <1>11 DEF Balance, Timers
  <2>3. ASSUME NEW h \in Histograms \cap Real'
        PROVE  (Told(h) + lists[current[h].list] = updates[h].all)'
    <3>1. CASE h \in Real
      <4>1. /\ h # m /\ h \in Metrics /\ current'[h] = current[h]
            /\ current[h].list \in ListIds \ {NewList}
        BY <1>1, <1>3, <1>4, <1>5, <3>1 DEF Containers, Value, Real
      <4>2. lists'[current'[h].list] = lists[current[h].list]
        BY <1>5, <4>1
      <4> QED
        BY <1>1, <1>10, <1>11, <3>1, <4>1, <4>2 DEF Balance
    <3>2. CASE h = m
      <4>1. lists'[current'[m].list] = 0 /\ updates[m].all = 0 /\ reported[m].sum = 0
        BY <1>1, <1>3, <1>5, <3>2 DEF Containers
      <4>2. ASSUME NEW c \in Collectors PROVE Part(c, m) = 0
        BY <1>1, <1>3 DEF Hands, InHands, Part
      <4>3. Told(m) = 0
        BY <4>1, <4>2 DEF Told, Collectors
      <4> QED
        BY <1>1, <1>10, <3>2, <4>1, <4>3
    <3> QED
      BY <1>3, <3>1, <3>2
  <2>4. ASSUME NEW c \in Collectors
        PROVE  Fits(c)'
    <3>1. Fits(c) /\ InHands(c) /\ collection'[c] = collection[c]
      BY <1>1, <1>11 DEF Balance, Hands
    <3>2. collection[c].name # "" =>
            current'[collection[c].name] = current[collection[c].name]
      BY <1>3, <1>5, <3>1, HandIsReal DEF Real
    <3> QED
      BY <3>1, <3>2, CollectorAssumption DEF Fits, Timers
  <2>5. Apart'
    <3> SUFFICES ASSUME NEW h \in Histograms \cap Real'
                 PROVE  /\ \A g \in Histograms \cap Real' :
                             g # h => current'[g].list # current'[h].list
                        /\ \A c \in Collectors :
                             \A g \in Histograms \cap DOMAIN collection[c].samples :
                               collection[c].samples[g].list # current'[h].list
      BY <1>1 DEF Apart
    <3>1. \A g \in Histograms \cap Real' :
            \/ g \in Real /\ g \in Metrics /\ current'[g].list = current[g].list
            \/ g = m /\ current'[g].list = NewList
      BY <1>3, <1>5 DEF Real
    <3>2. Apart
      BY <1>11 DEF Balance
    <3> QED
      BY <1>4, <3>1, <3>2 DEF Apart
  <2> QED
    BY <2>1, <2>2, <2>3, <2>4, <2>5 DEF Balance
<1>12. ASSUME LastOnes
       PROVE  LastOnes'
  <2>1. \A h \in Histograms : Ahead(h) => Ahead(h)'
    BY <1>1, <1>3 DEF Ahead, Doing
  <2>2. \A h \in Histograms : Part("stop", h)' = Part("stop", h)
    BY <1>9, CollectorAssumption DEF Collectors
  <2> QED
    BY <1>1, <1>12, <2>1, <2>2 DEF LastOnes
<1> QED
  BY <1>1, <1>2, <1>6, <1>7, <1>8, <1>11, <1>12 DEF CInv

\* The application updates m.
LEMMA UpdateKeeps ==
  ASSUME CInv, NEW m \in Metrics, Update(m)
  PROVE  CInv'
<1>1. /\ Inv /\ Containers /\ Hands /\ Callers /\ m \in Real /\ Real' = Real
      /\ UNCHANGED <<given, kind, collection, timer, stop, reported, overlapped>>
      /\ DOMAIN current = Metrics
  BY DEF CInv, Update, Inv, Domains, Real
<1>2. Inv'
  BY <1>1, UpdateSums DEF Inv, Kinds, WithinLabelLimit, Real
<1>3. /\ \A n \in Metrics \ {m} : updates'[n] = updates[n]
      /\ updates'[m].all = updates[m].all + 1
      /\ updates'[m].before = IF stop = "no" THEN updates[m].before + 1
                                ELSE updates[m].before
      /\ updates' \in [Metrics -> [all : Nat, before : Nat]]
      /\ updates[m].all \in Nat /\ updates[m].before \in Nat
  <2>1. /\ updates' = [updates EXCEPT ![m].all = @ + 1,
                                      ![m].before = IF stop = "no" THEN @ + 1 ELSE @]
        /\ updates \in [Metrics -> [all : Nat, before : Nat]]
    BY <1>1 DEF Update, Containers
  <2>2. updates[m] \in [all : Nat, before : Nat] /\ DOMAIN updates = Metrics
    BY <2>1
  <2>3. /\ \A n \in Metrics \ {m} : updates'[n] = updates[n]
        /\ updates'[m] = [updates[m] EXCEPT !.all = @ + 1,
                            !.before = IF stop = "no" THEN @ + 1 ELSE @]
        /\ DOMAIN updates' = Metrics
    BY <2>1, <2>2
  <2>4. /\ updates'[m].all = updates[m].all + 1
        /\ updates'[m].before = IF stop = "no" THEN updates[m].before + 1
                                  ELSE updates[m].before
        /\ updates[m].all \in Nat /\ updates[m].before \in Nat
        /\ updates'[m] \in [all : Nat, before : Nat]
    <3> DEFINE b == IF stop = "no" THEN updates[m].before + 1 ELSE updates[m].before
    <3>1. updates[m].all \in Nat /\ updates[m].before \in Nat
      BY <2>2
    <3>2. updates[m].all + 1 \in Nat /\ b \in Nat
      BY <3>1
    <3>3. updates'[m] = [all |-> updates[m].all + 1, before |-> b]
      BY <2>2, <2>3
    <3> HIDE DEF b
    <3>4. /\ updates'[m].all = updates[m].all + 1 /\ updates'[m].before = b
          /\ updates'[m] \in [all : Nat, before : Nat]
      BY <3>2, <3>3
    <3> QED
      BY <3>1, <3>4 DEF b
  <2>5. updates' \in [Metrics -> [all : Nat, before : Nat]]
    <3>1. updates' = [n \in Metrics |-> updates'[n]]
      BY <2>1, <2>3
    <3>2. \A n \in Metrics : updates'[n] \in [all : Nat, before : Nat]
      BY <2>1, <2>3, <2>4
    <3> QED
      BY <3>1, <3>2
  <2> QED
    BY <2>3, <2>4, <2>5
<1>6. /\ \A n \in Metrics : updates'[n].before <= updates'[n].all
      /\ \A n \in Metrics \ Real : updates'[n].all = 0 /\ reported'[n].sum = 0
      /\ stop' = "no" => \A n \in Metrics : updates'[n].before = updates'[n].all
  <2>1. updates[m].before <= updates[m].all
    BY <1>1 DEF Containers
  <2>2. updates'[m].before <= updates'[m].all
    BY <1>3, <2>1
  <2>3. stop = "no" => updates'[m].before = updates'[m].all
    BY <1>1, <1>3 DEF Containers
  <2> QED
    BY <1>1, <1>3, <2>2, <2>3 DEF Containers
<1>4. CASE m \in Histograms
  <2> DEFINE l == current[m].list
  <2>1. /\ l \in ListIds /\ current' = current /\ lists' = [lists EXCEPT ![l] = @ + 1]
        /\ lists \in [ListIds -> Nat]
    BY <1>1, <1>4 DEF Update, Containers, Value
  <2> HIDE DEF l
  <2>2. Containers'
    <3>1. lists' \in [ListIds -> Nat]
      BY <2>1
    <3>2. \A n \in Timers \cup Real : Value(n, current[n])'
      BY <1>1, <2>1 DEF Containers, Value
    <3> QED
      BY <1>1, <1>3, <1>6, <3>1, <3>2 DEF Containers
  <2>3. /\ \A i \in ListIds \ {l} : lists'[i] = lists[i]
        /\ lists'[l] = lists[l] + 1 /\ lists[l] \in Nat
    BY <2>1
  <2>4. ASSUME Balance
        PROVE  \A c \in Collectors, n \in Metrics : Part(c, n)' = Part(c, n)
    <3> SUFFICES ASSUME NEW c \in Collectors, NEW n \in Metrics
                 PROVE  Part(c, n)' = Part(c, n)
      OBVIOUS
    <3>1. ASSUME n \in Histograms \cap DOMAIN collection[c].samples
          PROVE  lists'[collection[c].samples[n].list]
                   = lists[collection[c].samples[n].list]
      <4>1. collection[c].samples[n].list \in ListIds
        BY <1>1, <3>1 DEF Hands, InHands, Value
      <4>2. collection[c].samples[n].list # l
        BY <1>1, <1>4, <2>4, <3>1 DEF Balance, Apart, l
      <4> QED
        BY <2>3, <4>1, <4>2
    <3> QED
      BY <1>1, <3>1, PartStays
  <2>5. ASSUME Balance
        PROVE  Balance'
    <3>1. \A n \in Metrics : Told(n)' = Told(n) /\ Told(n) \in Nat
      <4>1. \A n \in Metrics : /\ Part("timer", n) \in Nat /\ Part("stop", n) \in Nat
                               /\ reported[n].sum \in Nat
        BY <1>1, PartNat DEF Collectors, Containers
      <4> QED
        BY <1>1, <2>4, <2>5, <4>1 DEF Told, Collectors
    <3>2. \A t \in Timers : (Told(t) + current[t].sum <= updates[t].all)'
      <4>1. \A t \in Timers : t \in Metrics \ {m}
        BY <1>4 DEF Timers
      <4> QED
        BY <1>3, <2>1, <2>5, <3>1, <4>1 DEF Balance
    <3>3. ASSUME NEW h \in Histograms \cap Real
          PROVE  (Told(h) + lists[current[h].list] = updates[h].all)'
      <4>1. /\ h \in Metrics /\ current[h].list \in ListIds
            /\ Told(h) + lists[current[h].list] = updates[h].all
        BY <1>1, <2>5 DEF Containers, Value, Balance, Real
      <4>2. CASE h = m
        BY <1>3, <2>1, <2>3, <3>1, <4>1, <4>2 DEF l
      <4>3. CASE h # m
        <5>1. current[h].list # l
          BY <1>1, <1>4, <2>5, <4>3 DEF Balance, Apart, l
        <5> QED
          BY <1>3, <2>1, <2>3, <3>1, <4>1, <4>3, <5>1
      <4> QED
        BY <4>2, <4>3
    <3> QED
      BY <1>1, <2>1, <2>5, <3>2, <3>3 DEF Balance, Busy, Doing, Fits, Apart
  <2>6. ASSUME Balance, LastOnes
        PROVE  LastOnes'
    <3>1. timer.cancelled => UNCHANGED <<timer, given, reported>> /\
            \A h \in Histograms : /\ updates'[h].before = updates[h].before
                                  /\ Ahead(h)' <=> Ahead(h)
                                  /\ Part("stop", h)' = Part("stop", h)
      BY <1>1, <1>3, <2>4, <2>6, CollectorAssumption
         DEF Callers, Ahead, Doing, Collectors
    <3> QED
      BY <1>1, <2>6, <3>1 DEF LastOnes
  <2> QED
    BY <1>1, <1>2, <2>2, <2>5, <2>6
       DEF CInv, Hands, InHands, Callers, TimerType, TimerSurvives, Busy, Doing, Value
<1>5. CASE m \in Timers
  <2>1. /\ lists' = lists /\ \A n \in Metrics \ {m} : current'[n] = current[n]
        /\ current[m] \in [sum : Nat, count : Nat]
        /\ current'[m] \in [sum : Nat, count : Nat]
        /\ current'[m].sum = current[m].sum + 1
    <3>1. /\ lists' = lists
          /\ current' = [current EXCEPT ![m] = [sum |-> @.sum + 1, count |-> @.count + 1]]
          /\ current[m] \in [sum : Nat, count : Nat]
      BY <1>1, <1>5 DEF Update, Timers, Containers, Value
    <3> QED
      BY <1>1, <3>1
  <2>2. Containers'
    <3>1. \A n \in Timers \cup Real : Value(n, current[n])'
      BY <1>1, <1>5, <2>1 DEF Containers, Value, Timers, Real
    <3> QED
      BY <1>1, <1>3, <1>6, <2>1, <3>1 DEF Containers
  <2>3. \A c \in Collectors, n \in Metrics : Part(c, n)' = Part(c, n)
    BY <1>1, <2>1, PartStays
  <2>4. ASSUME Balance
        PROVE  Balance'
    <3>1. \A n \in Metrics : Told(n)' = Told(n) /\ Told(n) \in Nat
      <4>1. \A n \in Metrics : /\ Part("timer", n) \in Nat /\ Part("stop", n) \in Nat
                               /\ reported[n].sum \in Nat
        BY <1>1, PartNat DEF Collectors, Containers
      <4> QED
        BY <1>1, <2>3, <4>1 DEF Told, Collectors
    <3>2. ASSUME NEW t \in Timers
          PROVE  (Told(t) + current[t].sum <= updates[t].all)'
      <4>1. Told(t) + current[t].sum <= updates[t].all /\ t \in Metrics
        BY <2>4 DEF Balance, Timers
      <4>2. CASE t = m
        BY <1>3, <2>1, <3>1, <4>1, <4>2
      <4>3. CASE t # m
        BY <1>3, <2>1, <3>1, <4>1, <4>3
      <4> QED
        BY <4>2, <4>3
    <3>3. \A h \in Histograms \cap Real : h \in Metrics \ {m}
      BY <1>5 DEF Timers, Real
    <3>4. \A h \in Histograms \cap Real : (Told(h) + lists[current[h].list] = updates[h].all)'
      BY <1>3, <2>1, <2>4, <3>1, <3>3 DEF Balance
    <3>5. ASSUME NEW c \in Collectors
          PROVE  Fits(c)'
      <4>1. Fits(c) /\ InHands(c) /\ collection'[c] = collection[c]
        BY <1>1, <2>4 DEF Balance, Hands
      <4>2. CASE collection[c].name = m
        <5>1. collection[c].value.sum \in Nat
          BY <1>5, <4>1, <4>2, CollectorAssumption DEF InHands, Value, Timers
        <5> QED
          BY <1>5, <2>1, <4>1, <4>2, <5>1 DEF Fits, Timers
      <4>3. CASE collection[c].name # m
        <5>1. collection[c].name # "" =>
                current'[collection[c].name] = current[collection[c].name]
          BY <2>1, <4>1, <4>3, HandIsReal DEF Real
        <5> QED
          BY <4>1, <5>1, CollectorAssumption DEF Fits, Timers
      <4> QED
        BY <4>2, <4>3
    <3>6. Apart'
      BY <1>1, <2>1, <2>4, <3>3 DEF Balance, Apart
    <3> QED
      BY <1>1, <2>4, <3>2, <3>4, <3>5, <3>6 DEF Balance, Busy, Doing
  <2>5. ASSUME LastOnes
        PROVE  LastOnes'
    <3>1. timer.cancelled =>
            \A h \in Histograms : /\ updates'[h].before = updates[h].before
                                  /\ Ahead(h)' <=> Ahead(h)
                                  /\ Part("stop", h)' = Part("stop", h)
      BY <1>1, <1>3, <2>3, CollectorAssumption DEF Callers, Ahead, Doing, Collectors
    <3> QED
      BY <1>1, <2>5, <3>1 DEF LastOnes
  <2> QED
    BY <1>1, <1>2, <2>2, <2>4, <2>5
       DEF CInv, Hands, InHands, Callers, TimerType, TimerSurvives, Busy, Doing, Value
<1> QED
  BY <1>4, <1>5 DEF Timers

\* c goes on with the samples it has, and leaves the containers alone.
LEMMA MoveKeeps ==
  ASSUME CInv, UNCHANGED <<kind, current, lists, updates, reported>>,
         NEW c \in Collectors, \A d \in Collectors \ {c} : collection'[d] = collection[d],
         InHands(c)', stop' = "no" => stop = "no",
         \/ collection'[c].samples = collection[c].samples
         \/ DOMAIN collection'[c].samples = {} /\ DOMAIN collection[c].samples = {},
         ~overlapped' => /\ ~overlapped
                         /\ Busy(c)' => \A d \in Collectors \ {c} : ~Busy(d)
                         /\ Fits(c)'
  PROVE  /\ Containers' /\ Hands' /\ (~overlapped' => Balance')
         /\ \A d \in Collectors : \A m \in Metrics : Part(d, m)' = Part(d, m)
<1>1. Containers /\ Hands /\ Inv
  BY DEF CInv
<1>2. Containers' /\ Real' = Real
  BY <1>1, ContainersStay
<1>3. Hands'
  BY <1>1, <1>2, InHandsStays DEF Hands
<1>4. ASSUME NEW d \in Collectors, NEW m \in Metrics
      PROVE  Part(d, m)' = Part(d, m)
  BY DEF Part
<1>5. ASSUME ~overlapped'
      PROVE  Balance'
  <2>1. Balance
    BY <1>5 DEF CInv
  <2>2. \A m \in Metrics : Told(m)' = Told(m)
    BY <1>4 DEF Told, Collectors
  <2>3. ~(Busy("timer") /\ Busy("stop"))'
    BY <1>5 DEF Collectors, Busy, Doing
  <2>4. \A d \in Collectors : Fits(d)'
    BY <1>5, <2>1 DEF Balance, Fits
  <2>5. \A d \in Collectors : \A g \in DOMAIN collection'[d].samples :
          g \in DOMAIN collection[d].samples /\ collection'[d].samples[g] = collection[d].samples[g]
    OBVIOUS
  <2>6. Apart'
    BY <1>2, <2>1, <2>5 DEF Balance, Apart
  <2>7. Timers \subseteq Metrics /\ Histograms \subseteq Metrics
    BY CollectorAssumption DEF Timers
  <2> QED
    BY <1>2, <2>1, <2>2, <2>3, <2>4, <2>6, <2>7 DEF Balance
<1> QED
  BY <1>2, <1>3, <1>4, <1>5

\* What the last collection has still to do, and whether it is the last.
LEMMA LastOnesStay ==
  ASSUME LastOnes, UNCHANGED <<given, updates>>,
         timer'.cancelled => timer.cancelled,
         \A h \in Histograms :
           /\ Ahead(h) => Ahead(h)' \/ updates[h].before <= (reported[h].sum + Part("stop", h))'
           /\ updates[h].before <= reported[h].sum + Part("stop", h) =>
                updates[h].before <= (reported[h].sum + Part("stop", h))'
  PROVE  LastOnes'
BY DEF LastOnes

LEMMA ReadKeeps ==
  ASSUME CInv, NEW c \in Collectors, Read(c)
  PROVE  CInv'
<1>1. PICK m \in collection[c].left :
        collection' = [collection EXCEPT ![c] =
          Collecting(@.stage, @.left \ {m}, m, current[m], @.samples)]
  BY DEF Read
<1>2. /\ Inv /\ Containers /\ Hands /\ Callers /\ InHands(c)
      /\ Busy(c) /\ collection[c].name = "" /\ DOMAIN collection = Collectors
      /\ UNCHANGED <<given, kind, current, lists, timer, stop, updates, reported, overlapped>>
  BY DEF CInv, Read, Hands, Inv, Domains
<1>3. m \in Real /\ m \in Metrics /\ m # "" /\ Value(m, current[m])
  <2>1. m \in Real
    BY <1>2, HandIsReal
  <2> QED
    BY <1>2, <2>1, CollectorAssumption DEF Real, Containers
<1>4. /\ \A d \in Collectors \ {c} : collection'[d] = collection[d]
      /\ collection'[c].stage = collection[c].stage
      /\ collection'[c].left = collection[c].left \ {m}
      /\ collection'[c].name = m /\ collection'[c].value = current[m]
      /\ collection'[c].samples = collection[c].samples
  BY <1>1, <1>2 DEF Collecting
<1>5. InHands(c)'
  <2>1. Real' = Real
    BY <1>2 DEF Real
  <2>2. m \notin DOMAIN collection[c].samples
    BY <1>2 DEF InHands
  <2>3. collection[c].stage # "idle"
    BY <1>2 DEF Busy, Doing
  <2>4. \A n \in DOMAIN collection[c].samples : Value(n, collection[c].samples[n])
    BY <1>2 DEF InHands
  <2>5. /\ DOMAIN collection[c].samples \subseteq Real
        /\ ((collection[c].left \ {m}) \cup {m}) \cap DOMAIN collection[c].samples = {}
    BY <1>2, <2>2 DEF InHands
  <2>6. /\ collection[c].stage \in {"timers", "histograms"}
        /\ collection[c].stage = "timers" =>
             /\ collection[c].left \subseteq Timers \cap Real /\ m \in Timers \cap Real
             /\ DOMAIN collection[c].samples \subseteq Timers
        /\ collection[c].stage = "histograms" =>
             collection[c].left \subseteq Histograms \cap Real /\ m \in Histograms \cap Real
    BY <1>2, <2>3 DEF InHands
  <2> QED
    BY <1>3, <1>4, <2>1, <2>4, <2>5, <2>6 DEF InHands, Value
<1>6. Fits(c)'
  <2>1. m \in Timers => current[m].sum \in Nat
    BY <1>3 DEF Value, Timers
  <2>2. collection'[c].name = m /\ collection'[c].value = current'[m] /\ current' = current
    BY <1>2, <1>4
  <2>3. m \in Timers => current'[m].sum <= current'[m].sum
    BY <2>1, <2>2
  <2> QED
    BY <2>2, <2>3 DEF Fits
<1>7. Busy(c)' <=> Busy(c)
  BY <1>4 DEF Busy, Doing
<1>8. ~overlapped => \A d \in Collectors \ {c} : ~Busy(d)
  BY <1>2 DEF CInv, Balance, Collectors
<1>9. /\ Containers' /\ Hands' /\ (~overlapped' => Balance')
      /\ \A d \in Collectors : \A n \in Metrics : Part(d, n)' = Part(d, n)
  BY <1>2, <1>4, <1>5, <1>6, <1>8, MoveKeeps
<1>10. Inv'
  BY <1>2, ReadSums DEF Inv, Kinds, WithinLabelLimit, Real
<1>11. Callers'
  <2>1. \A d \in Collectors : Busy(d)' <=> Busy(d)
    BY <1>4, <1>7 DEF Busy, Doing
  <2> QED
    BY <1>2, <2>1 DEF Callers, TimerType, TimerSurvives, Collectors
<1>12. ASSUME LastOnes
       PROVE  LastOnes'
  <2>1. \A h \in Histograms : Ahead(h) => Ahead(h)'
    <3>1. Real' = Real /\ "" \notin Histograms
      BY <1>2, CollectorAssumption DEF Real
    <3>2. CASE c = "stop"
      BY <1>2, <1>4, <3>1, <3>2 DEF Ahead, Doing
    <3>3. CASE c # "stop"
      BY <1>4, <3>1, <3>3 DEF Ahead, Doing, Collectors
    <3> QED
      BY <3>2, <3>3
  <2>2. \A h \in Histograms : Part("stop", h)' = Part("stop", h)
    BY <1>9, CollectorAssumption DEF Collectors
  <2> QED
    BY <1>2, <1>12, <2>1, <2>2, LastOnesStay
<1> QED
  BY <1>2, <1>9, <1>10, <1>11, <1>12 DEF CInv

LEMMA NextContainerKeeps ==
  ASSUME CInv, NEW c \in Collectors, NextContainer(c)
  PROVE  CInv'
<1>1. /\ Inv /\ Containers /\ Hands /\ Callers /\ InHands(c) /\ DOMAIN collection = Collectors
      /\ collection[c].stage = "timers" /\ Real' = Real
      /\ UNCHANGED <<given, kind, current, lists, timer, stop, updates, reported, overlapped>>
  BY DEF CInv, NextContainer, Hands, Inv, Domains, Doing, Real
<1>2. /\ \A d \in Collectors \ {c} : collection'[d] = collection[d]
      /\ collection'[c].stage = "histograms" /\ collection'[c].left = Histograms \cap Real
      /\ collection'[c].name = "" /\ collection'[c].samples = collection[c].samples
  BY <1>1 DEF NextContainer, Collecting
<1>3. InHands(c)'
  <2>1. DOMAIN collection[c].samples \subseteq Timers \cap Real
    BY <1>1 DEF InHands
  <2>2. "" \notin Metrics /\ Real \subseteq Metrics
    BY CollectorAssumption DEF Real
  <2>3. /\ ((Histograms \cap Real) \cup {""}) \cap DOMAIN collection[c].samples = {}
        /\ "" \notin Histograms \cap Real
    BY <2>1, <2>2 DEF Timers
  <2>4. \A m \in DOMAIN collection[c].samples : Value(m, collection[c].samples[m])
    BY <1>1 DEF InHands
  <2> QED
    BY <1>1, <1>2, <2>1, <2>3, <2>4 DEF InHands, Value
<1>4. Fits(c)' /\ (Busy(c)' <=> Busy(c))
  BY <1>1, <1>2, CollectorAssumption DEF Fits, Timers, Busy, Doing
<1>5. ~overlapped => \A d \in Collectors \ {c} : ~Busy(d)
  BY <1>1 DEF CInv, Balance, Collectors, Busy, Doing
<1>6. /\ Containers' /\ Hands' /\ (~overlapped' => Balance')
      /\ \A d \in Collectors : \A n \in Metrics : Part(d, n)' = Part(d, n)
  BY <1>1, <1>2, <1>3, <1>4, <1>5, MoveKeeps
<1>7. Inv'
  <2>1. SameIn(Collecting("histograms", Histograms \cap Real, "", Zero,
                          collection[c].samples))
    BY <1>1, ZeroSame DEF Inv, Sums, SameIn, Collecting
  <2> QED
    BY <1>1, <2>1, OtherSums DEF Inv, NextContainer, Kinds, WithinLabelLimit
<1>8. Callers'
  <2>1. \A d \in Collectors : Busy(d)' <=> Busy(d)
    BY <1>2, <1>4 DEF Busy, Doing
  <2> QED
    BY <1>1, <2>1 DEF Callers, TimerType, TimerSurvives, Collectors
<1>9. ASSUME LastOnes
      PROVE  LastOnes'
  <2>1. \A h \in Histograms : Ahead(h) => Ahead(h)'
    BY <1>1, <1>2 DEF Ahead, Doing, Collectors
  <2>2. \A h \in Histograms : Part("stop", h)' = Part("stop", h)
    BY <1>6, CollectorAssumption DEF Collectors
  <2> QED
    BY <1>1, <1>9, <2>1, <2>2, LastOnesStay
<1> QED
  BY <1>1, <1>6, <1>7, <1>8, <1>9 DEF CInv

\* What the queue gets of c is what the samples of c had.
LEMMA QueuesPart ==
  ASSUME Containers, Hands, NEW c \in Collectors, NEW m \in Metrics
  PROVE  /\ Queues(collection[c].samples)[m] \in [sum : Nat, count : Nat]
         /\ Queues(collection[c].samples)[m].sum = reported[m].sum + Part(c, m)
<1> DEFINE s == collection[c].samples
<1>1. /\ reported[m] \in [sum : Nat, count : Nat] /\ Part(c, m) \in Nat
      /\ m \in DOMAIN s => Value(m, s[m])
  BY PartNat DEF Containers, Hands, InHands
<1>2. CASE m \notin DOMAIN s
  BY <1>1, <1>2 DEF Queues, Part
<1>3. CASE m \in DOMAIN s /\ m \in Histograms
  <2>1. /\ Part(c, m) = lists[s[m].list]
        /\ Queues(s)[m] = [reported[m] EXCEPT !.sum = @ + lists[s[m].list]]
    BY <1>3 DEF Queues, Part
  <2>2. Queues(s)[m] = [reported[m] EXCEPT !.sum = @ + Part(c, m)]
    BY <2>1
  <2> HIDE DEF s
  <2>3. /\ Queues(s)[m].sum = reported[m].sum + Part(c, m)
        /\ Queues(s)[m] = [sum |-> reported[m].sum + Part(c, m), count |-> reported[m].count]
    BY <1>1, <2>2
  <2> QED
    BY <1>1, <2>3 DEF s
<1>4. CASE m \in DOMAIN s /\ m \notin Histograms
  <2>1. /\ Part(c, m) = s[m].sum /\ s[m] \in [sum : Nat, count : Nat]
        /\ Queues(s)[m] = [sum |-> reported[m].sum + s[m].sum,
                           count |-> reported[m].count + s[m].count]
    BY <1>1, <1>4 DEF Queues, Part, Value
  <2> HIDE DEF s
  <2> QED
    BY <1>1, <2>1 DEF s
<1> QED
  BY <1>2, <1>3, <1>4

LEMMA QueueSamplesKeeps ==
  ASSUME CInv, NEW c \in Collectors, QueueSamples(c)
  PROVE  CInv'
<1>1. /\ Inv /\ Containers /\ Hands /\ Callers /\ InHands(c) /\ DOMAIN collection = Collectors
      /\ collection[c].stage = "histograms" /\ Exhausted(c) /\ Real' = Real
      /\ reported' = Queues(collection[c].samples)
      /\ collection' = [collection EXCEPT ![c] = Idle]
      /\ UNCHANGED <<given, kind, current, lists, timer, stop, updates, overlapped>>
  BY DEF CInv, QueueSamples, Hands, Inv, Domains, Doing, Real
<1>2. /\ \A d \in Collectors \ {c} : collection'[d] = collection[d]
      /\ collection'[c] = Idle
  BY <1>1
<1>3. InHands(c)' /\ \A m : Part(c, m)' = 0
  BY <1>2, IdleFields DEF InHands, Part
<1>4. /\ reported' \in [Metrics -> [sum : Nat, count : Nat]]
      /\ \A m \in Metrics : /\ reported'[m].sum = reported[m].sum + Part(c, m)
                            /\ Part(c, m) \in Nat /\ reported[m].sum \in Nat
  <2>1. reported' = [m \in Metrics |-> reported'[m]]
    BY <1>1 DEF Queues
  <2>2. ASSUME NEW m \in Metrics
        PROVE  /\ reported'[m] \in [sum : Nat, count : Nat]
               /\ reported'[m].sum = reported[m].sum + Part(c, m)
               /\ Part(c, m) \in Nat /\ reported[m].sum \in Nat
    BY <1>1, QueuesPart, PartNat DEF Containers
  <2> QED
    BY <2>1, <2>2
<1>5. Containers'
  <2>1. \A m \in Metrics \ Real : reported'[m].sum = 0
    <3> SUFFICES ASSUME NEW m \in Metrics \ Real PROVE reported'[m].sum = 0
      OBVIOUS
    <3>1. reported[m].sum = 0 /\ Part(c, m) = 0
      BY <1>1 DEF Containers, InHands, Part
    <3> QED
      BY <1>4, <3>1
  <2> QED
    BY <1>1, <1>4, <2>1 DEF Containers, Value
<1>6. Hands'
  BY <1>1, <1>2, <1>3, InHandsStays DEF Hands
<1>7. ASSUME NEW d \in Collectors, d # c, NEW m \in Metrics
      PROVE  Part(d, m)' = Part(d, m)
  BY <1>1, <1>2, <1>7 DEF Part
<1>8. ASSUME ~overlapped
      PROVE  Balance'
  <2>1. Balance
    BY <1>8 DEF CInv
  <2>2. ASSUME NEW m \in Metrics
        PROVE  Told(m)' = Told(m)
    <3>1. Part("timer", m) \in Nat /\ Part("stop", m) \in Nat
      BY <1>1, PartNat DEF Collectors
    <3>2. CASE c = "timer"
      BY <1>3, <1>4, <1>7, <3>1, <3>2 DEF Told, Collectors
    <3>3. CASE c = "stop"
      BY <1>3, <1>4, <1>7, <3>1, <3>3 DEF Told, Collectors
    <3> QED
      BY <3>2, <3>3 DEF Collectors
  <2>3. ~(Busy("timer") /\ Busy("stop"))'
    BY <1>2, IdleFields DEF Busy, Doing, Collectors
  <2>4. ASSUME NEW d \in Collectors
        PROVE  Fits(d)'
    BY <1>1, <1>2, <2>1, IdleFields, CollectorAssumption DEF Balance, Fits, Timers
  <2>5. Apart'
    <3>1. \A d \in Collectors : \A g \in DOMAIN collection'[d].samples :
            collection'[d] = collection[d]
      BY <1>2, IdleFields
    <3> QED
      BY <1>1, <2>1, <3>1 DEF Balance, Apart
  <2>6. Timers \subseteq Metrics /\ Histograms \subseteq Metrics
    BY CollectorAssumption DEF Timers
  <2> QED
    BY <1>1, <2>1, <2>2, <2>3, <2>4, <2>5, <2>6 DEF Balance
<1>9. Inv'
  BY <1>1, QueueSamplesSums DEF Inv, Kinds, WithinLabelLimit
<1>10. Callers'
  <2>1. \A d \in Collectors : Busy(d)' => Busy(d)
    BY <1>2, IdleFields DEF Busy, Doing
  <2> QED
    BY <1>1, <2>1 DEF Callers, TimerType, TimerSurvives, Collectors
<1>11. ASSUME LastOnes
       PROVE  LastOnes'
  <2>1. Histograms \subseteq Metrics
    BY CollectorAssumption
  <2>2. \A h \in Histograms : Ahead(h) => Ahead(h)'
    <3>1. CASE c = "stop"
      BY <1>1, <3>1, CollectorAssumption DEF Ahead, Doing, Exhausted
    <3>2. CASE c # "stop"
      BY <1>1, <1>2, <3>2 DEF Ahead, Doing, Collectors
    <3> QED
      BY <3>1, <3>2
  <2>3. ASSUME NEW h \in Histograms
        PROVE  updates[h].before <= reported[h].sum + Part("stop", h) =>
                 updates[h].before <= (reported[h].sum + Part("stop", h))'
    <3>1. updates[h].before \in Nat /\ h \in Metrics /\ Part("stop", h) \in Nat
      BY <1>1, <2>1, PartNat DEF Containers, Collectors
    <3>2. CASE c = "stop"
      BY <1>3, <1>4, <3>1, <3>2
    <3>3. CASE c # "stop"
      BY <1>4, <1>7, <3>1, <3>3 DEF Collectors
    <3> QED
      BY <3>2, <3>3
  <2> QED
    BY <1>1, <1>11, <2>2, <2>3, LastOnesStay
<1> QED
  BY <1>1, <1>5, <1>6, <1>8, <1>9, <1>10, <1>11 DEF CInv

\* What the reset of m by c does: m goes from the hands of c to its samples,
\* unless it is a timer at 0, and its container starts anew.
LEMMA ResetDoes ==
  ASSUME CInv, NEW c \in Collectors, Reset(c), NEW m, m = collection[c].name
  PROVE  /\ m \in Real /\ m \in Metrics /\ m # "" /\ m \notin DOMAIN collection[c].samples
         /\ Value(m, collection[c].value)
         /\ \A d \in Collectors \ {c} : collection'[d] = collection[d]
         /\ collection'[c].stage = collection[c].stage
         /\ collection'[c].left = collection[c].left /\ collection'[c].name = ""
         /\ DOMAIN collection'[c].samples \subseteq DOMAIN collection[c].samples \cup {m}
         /\ \A n \in DOMAIN collection[c].samples :
              /\ n \in DOMAIN collection'[c].samples
              /\ collection'[c].samples[n] = collection[c].samples[n]
         /\ m \in DOMAIN collection'[c].samples =>
              collection'[c].samples[m] = collection[c].value
         /\ m \notin DOMAIN collection'[c].samples =>
              m \in Timers /\ collection[c].value.sum = 0
         /\ \A n \in Metrics \ {m} : current'[n] = current[n]
         /\ Value(m, current'[m])
         /\ m \in Timers => current'[m] = Zero /\ lists' = lists
         /\ m \in Histograms => /\ current'[m].list = NewList /\ lists'[NewList] = 0
                                /\ \A i \in ListIds \ {NewList} : lists'[i] = lists[i]
         /\ lists' \in [ListIds -> Nat] /\ NewList \in ListIds
<1> DEFINE value == collection[c].value
           samples == collection[c].samples
           added == IF m \notin Histograms /\ value.sum = 0 THEN samples
                      ELSE [n \in DOMAIN samples \cup {m} |->
                              IF n = m THEN value ELSE samples[n]]
<1>1. /\ Inv /\ Containers /\ Hands /\ InHands(c) /\ DOMAIN collection = Collectors
      /\ DOMAIN current = Metrics /\ lists \in [ListIds -> Nat]
  BY DEF CInv, Hands, Inv, Domains, Containers
<1>2. /\ m \in Real /\ m \in Metrics /\ m # "" /\ m \notin DOMAIN samples
      /\ Value(m, value)
  <2>1. m # "" /\ Real \subseteq Metrics
    BY DEF Reset, Real
  <2> QED
    BY <1>1, <2>1, HandIsReal DEF InHands
<1>3. /\ collection' = [collection EXCEPT ![c] =
           Collecting(collection[c].stage, collection[c].left, "", Zero, added)]
      /\ current' = [current EXCEPT ![m] = AfterReset(m)]
      /\ lists' = IF m \in Histograms
                    THEN [lists EXCEPT ![AfterReset(m).list] = 0] ELSE lists
  BY DEF Reset
<1>4. /\ NewList \in ListIds /\ Empty.list = NewList /\ Empty \in [list : ListIds]
      /\ Zero \in [sum : Nat, count : Nat]
  BY <1>1, NewListIsNew DEF Empty, Zero
<1>5. /\ DOMAIN added \subseteq DOMAIN samples \cup {m}
      /\ \A n \in DOMAIN samples : n \in DOMAIN added /\ added[n] = samples[n]
      /\ m \in DOMAIN added => added[m] = value
      /\ m \notin DOMAIN added => m \in Timers /\ value.sum = 0
  <2>1. CASE m \notin Histograms /\ value.sum = 0
    BY <1>2, <2>1 DEF Timers
  <2>2. CASE ~(m \notin Histograms /\ value.sum = 0)
    BY <1>2, <2>2
  <2> QED
    BY <2>1, <2>2
<1> HIDE DEF value, samples, added
<1>6. /\ collection'[c].stage = collection[c].stage
      /\ collection'[c].left = collection[c].left
      /\ collection'[c].name = "" /\ collection'[c].samples = added
      /\ \A d \in Collectors \ {c} : collection'[d] = collection[d]
  BY <1>1, <1>3 DEF Collecting
<1>7. /\ \A n \in Metrics \ {m} : current'[n] = current[n]
      /\ current'[m] = AfterReset(m)
  BY <1>1, <1>2, <1>3
<1>8. /\ Value(m, current'[m])
      /\ m \in Timers => current'[m] = Zero /\ lists' = lists
      /\ m \in Histograms => /\ current'[m].list = NewList /\ lists'[NewList] = 0
                             /\ \A i \in ListIds \ {NewList} : lists'[i] = lists[i]
      /\ lists' \in [ListIds -> Nat] /\ NewList \in ListIds
  BY <1>1, <1>2, <1>3, <1>4, <1>7 DEF AfterReset, Value, Timers
<1> QED
  BY <1>2, <1>5, <1>6, <1>7, <1>8 DEF value, samples

LEMMA ResetKeeps ==
  ASSUME CInv, NEW c \in Collectors, Reset(c)
  PROVE  CInv'
<1>1. /\ Inv /\ Containers /\ Hands /\ Callers /\ InHands(c) /\ Real' = Real
      /\ UNCHANGED <<given, kind, timer, stop, updates, reported, overlapped>>
      /\ Busy(c) /\ \A x : Value(x, current[x])' <=> Value(x, current'[x])
  BY DEF CInv, Reset, Hands, Real, Value
<1>2. PICK m : m = collection[c].name
  OBVIOUS
<1>3. /\ m \in Real /\ m \in Metrics /\ m # "" /\ m \notin DOMAIN collection[c].samples
      /\ Value(m, collection[c].value)
      /\ \A d \in Collectors \ {c} : collection'[d] = collection[d]
      /\ collection'[c].stage = collection[c].stage
      /\ collection'[c].left = collection[c].left /\ collection'[c].name = ""
  BY <1>2, ResetDoes
<1>4. /\ DOMAIN collection'[c].samples \subseteq DOMAIN collection[c].samples \cup {m}
      /\ \A n \in DOMAIN collection[c].samples :
           /\ n \in DOMAIN collection'[c].samples
           /\ collection'[c].samples[n] = collection[c].samples[n]
      /\ m \in DOMAIN collection'[c].samples =>
           collection'[c].samples[m] = collection[c].value
      /\ m \notin DOMAIN collection'[c].samples =>
           m \in Timers /\ collection[c].value.sum = 0
  <2>1. DOMAIN collection'[c].samples \subseteq DOMAIN collection[c].samples \cup {m}
    BY <1>2, ResetDoes
  <2>2. \A n \in DOMAIN collection[c].samples :
          /\ n \in DOMAIN collection'[c].samples
          /\ collection'[c].samples[n] = collection[c].samples[n]
    BY <1>2, ResetDoes
  <2>3. /\ m \in DOMAIN collection'[c].samples =>
             collection'[c].samples[m] = collection[c].value
        /\ m \notin DOMAIN collection'[c].samples =>
             m \in Timers /\ collection[c].value.sum = 0
    BY <1>2, ResetDoes
  <2> QED
    BY <2>1, <2>2, <2>3
<1>5. /\ \A n \in Metrics \ {m} : current'[n] = current[n]
      /\ Value(m, current'[m])
      /\ m \in Timers => current'[m] = Zero /\ lists' = lists
      /\ m \in Histograms => /\ current'[m].list = NewList /\ lists'[NewList] = 0
                             /\ \A i \in ListIds \ {NewList} : lists'[i] = lists[i]
      /\ lists' \in [ListIds -> Nat] /\ NewList \in ListIds
  BY <1>2, ResetDoes
<1>6. /\ \A h \in Histograms \cap Real : NewList # current[h].list
      /\ \A d \in Collectors : \A g \in Histograms \cap DOMAIN collection[d].samples :
           NewList # collection[d].samples[g].list
  BY <1>1, NewListIsNew
<1>7. Containers'
  <2>1. ASSUME NEW n \in Timers \cup Real
        PROVE  Value(n, current[n])'
    <3>1. CASE n = m
      BY <1>1, <1>5, <3>1
    <3>2. CASE n # m
      <4>1. current'[n] = current[n] /\ Value(n, current[n])
        BY <1>1, <1>5, <3>2 DEF Containers, Timers, Real
      <4> QED
        BY <1>1, <4>1
    <3> QED
      BY <3>1, <3>2
  <2> QED
    BY <1>1, <1>5, <2>1 DEF Containers
<1>8. Hands'
  <2>1. InHands(c)'
    <3>1. /\ collection[c].stage # "idle" /\ "" \notin Metrics /\ Real \subseteq Metrics
          /\ m \notin collection[c].left
      BY <1>1, <1>2, CollectorAssumption DEF Busy, Doing, Real, InHands
    <3>2. DOMAIN collection'[c].samples \subseteq Real
      BY <1>1, <1>3, <1>4 DEF InHands
    <3>3. collection[c].stage = "timers" => DOMAIN collection'[c].samples \subseteq Timers
      BY <1>1, <1>2, <1>3, <1>4 DEF InHands
    <3>4. (collection[c].left \cup {""}) \cap DOMAIN collection'[c].samples = {}
      BY <1>1, <1>4, <3>1, <3>2 DEF InHands
    <3>5. ASSUME NEW n \in DOMAIN collection'[c].samples
          PROVE  Value(n, collection'[c].samples[n])
      <4>1. CASE n = m
        BY <1>3, <1>4, <4>1
      <4>2. CASE n # m
        <5>1. n \in DOMAIN collection[c].samples
          BY <1>4, <4>2
        <5> QED
          BY <1>1, <1>4, <5>1 DEF InHands
      <4> QED
        BY <4>1, <4>2
    <3>6. "" \notin collection[c].left
      BY <1>1, <3>1, HandIsReal
    <3> QED
      BY <1>1, <1>3, <3>1, <3>2, <3>3, <3>4, <3>5, <3>6 DEF InHands, Value
  <2> QED
    BY <1>1, <1>3, <2>1, InHandsStays DEF Hands
<1>9. ASSUME NEW d \in Collectors, NEW n \in Metrics, d # c \/ n # m
      PROVE  Part(d, n)' = Part(d, n)
  <2>1. /\ n \in DOMAIN collection'[d].samples <=> n \in DOMAIN collection[d].samples
        /\ n \in DOMAIN collection[d].samples =>
             collection'[d].samples[n] = collection[d].samples[n]
    <3>1. CASE d = c
      BY <1>4, <1>9, <3>1
    <3>2. CASE d # c
      BY <1>3, <3>2
    <3> QED
      BY <3>1, <3>2
  <2>2. ASSUME n \in Histograms, n \in DOMAIN collection[d].samples
        PROVE  lists'[collection[d].samples[n].list] = lists[collection[d].samples[n].list]
    <3>1. collection[d].samples[n].list \in ListIds \ {NewList}
      BY <1>1, <1>6, <2>2 DEF Hands, InHands, Value
    <3> QED
      BY <1>3, <1>5, <3>1 DEF Timers
  <2> QED
    BY <2>1, <2>2 DEF Part
<1>10. ASSUME Balance
       PROVE  /\ Part(c, m) = 0
              /\ m \in Histograms => Part(c, m)' = lists[current[m].list]
              /\ m \in Timers => Part(c, m)' = collection[c].value.sum
  <2>1. Part(c, m) = 0
    BY <1>3 DEF Part
  <2>2. CASE m \in Histograms
    <3>1. collection[c].value = current[m] /\ m \in DOMAIN collection'[c].samples
          /\ collection'[c].samples[m] = current[m]
      BY <1>2, <1>4, <1>10, <2>2 DEF Balance, Fits, Timers
    <3>2. current[m].list \in ListIds \ {NewList}
      BY <1>1, <1>3, <1>6, <2>2 DEF Containers, Value
    <3>3. lists'[current[m].list] = lists[current[m].list]
      BY <1>5, <2>2, <3>2
    <3> QED
      BY <2>1, <2>2, <3>1, <3>3 DEF Part, Timers
  <2>3. CASE m \in Timers
    BY <1>4, <2>1, <2>3 DEF Part, Timers
  <2> QED
    BY <1>3, <2>1, <2>2, <2>3 DEF Timers
<1>11. ASSUME Balance, NEW n \in Metrics
       PROVE  /\ Told(n)' = Told(n) + (IF n = m THEN Part(c, m)' ELSE 0)
              /\ Told(n) \in Nat /\ Part(c, n)' \in Nat
  <2>1. /\ Part("timer", n) \in Nat /\ Part("stop", n) \in Nat /\ reported[n].sum \in Nat
        /\ Part(c, n)' \in Nat
    <3>1. Part(c, n)' \in Nat
      <4>1. InHands(c)' /\ lists' \in [ListIds -> Nat]
        BY <1>7, <1>8 DEF Hands, Containers
      <4>2. n \in DOMAIN collection'[c].samples => Value(n, collection'[c].samples[n])
        BY <4>1 DEF InHands, Value
      <4> QED
        BY <4>1, <4>2 DEF Part, Value
    <3> QED
      BY <1>1, <3>1, PartNat DEF Collectors, Containers
  <2>2. CASE n # m
    BY <1>1, <1>9, <2>1, <2>2 DEF Told, Collectors
  <2>3. CASE n = m
    <3>1. CASE c = "timer"
      BY <1>1, <1>9, <1>10, <1>11, <2>1, <2>3, <3>1 DEF Told, Collectors
    <3>2. CASE c = "stop"
      BY <1>1, <1>9, <1>10, <1>11, <2>1, <2>3, <3>2 DEF Told, Collectors
    <3> QED
      BY <3>1, <3>2 DEF Collectors
  <2> QED
    BY <2>1, <2>2, <2>3
<1>12. ASSUME Balance
       PROVE  Balance'
  <2>1. ~(Busy("timer") /\ Busy("stop"))'
    <3>1. \A d \in Collectors : Busy(d)' <=> Busy(d)
      BY <1>3 DEF Busy, Doing
    <3> QED
      BY <1>12, <3>1 DEF Balance, Collectors
  <2>2. ASSUME NEW t \in Timers
        PROVE  (Told(t) + current[t].sum <= updates[t].all)'
    <3>1. /\ Told(t) + current[t].sum <= updates[t].all /\ t \in Metrics /\ Told(t) \in Nat
          /\ current[t].sum \in Nat /\ updates[t].all \in Nat
      BY <1>1, <1>11, <1>12 DEF Balance, Timers, Containers, Value
    <3>2. CASE t # m
      BY <1>1, <1>5, <1>11, <1>12, <3>1, <3>2
    <3>3. CASE t = m
      <4>1. collection[c].value.sum <= current[m].sum
        BY <1>2, <1>12, <3>3 DEF Balance, Fits
      <4>2. Told(t)' = Told(t) + collection[c].value.sum
        BY <1>10, <1>11, <1>12, <3>1, <3>3
      <4>3. collection[c].value.sum \in Nat /\ current'[t].sum = 0
        <5>1. /\ m \notin Histograms /\ m \in Timers
              /\ Value(m, collection[c].value) /\ current'[m] = Zero
          BY <1>3, <1>5, <3>3 DEF Timers
        <5>2. collection[c].value \in [sum : Nat, count : Nat] /\ Zero.sum = 0
          BY <5>1 DEF Value, Zero
        <5> QED
          BY <3>3, <5>1, <5>2
      <4> QED
        BY <1>1, <3>1, <3>3, <4>1, <4>2, <4>3
    <3> QED
      BY <3>2, <3>3
  <2>3. ASSUME NEW h \in Histograms \cap Real
        PROVE  (Told(h) + lists[current[h].list] = updates[h].all)'
    <3>1. /\ Told(h) + lists[current[h].list] = updates[h].all /\ h \in Metrics
          /\ Told(h) \in Nat /\ current[h].list \in ListIds \ {NewList}
          /\ lists[current[h].list] \in Nat
      BY <1>1, <1>6, <1>11, <1>12 DEF Balance, Containers, Value, Real
    <3>2. CASE h # m
      <4>1. lists'[current'[h].list] = lists[current[h].list]
        BY <1>3, <1>5, <3>1, <3>2 DEF Timers
      <4> QED
        BY <1>1, <1>11, <1>12, <3>1, <3>2, <4>1
    <3>3. CASE h = m
      <4>1. lists'[current'[h].list] = 0
        BY <1>5, <3>3
      <4>2. Told(h)' = Told(h) + lists[current[h].list]
        BY <1>10, <1>11, <1>12, <3>1, <3>3
      <4> QED
        BY <1>1, <3>1, <4>1, <4>2
    <3> QED
      BY <3>2, <3>3
  <2>4. ASSUME NEW d \in Collectors
        PROVE  Fits(d)'
    <3>1. CASE d = c
      BY <1>3, <3>1, CollectorAssumption DEF Fits, Timers
    <3>2. CASE d # c
      <4>1. collection'[d] = collection[d] /\ InHands(d) /\ ~Busy(d)
        BY <1>1, <1>3, <1>12, <3>2 DEF Balance, Hands, Collectors
      <4>2. collection'[d].name = ""
        BY <4>1, HandIsReal
      <4> QED
        BY <4>2, CollectorAssumption DEF Fits, Timers
    <3> QED
      BY <3>1, <3>2
  <2>5. Apart'
    <3> SUFFICES ASSUME NEW h \in Histograms \cap Real
                 PROVE  /\ \A g \in Histograms \cap Real :
                             g # h => current'[g].list # current'[h].list
                        /\ \A d \in Collectors :
                             \A g \in Histograms \cap DOMAIN collection'[d].samples :
                               collection'[d].samples[g].list # current'[h].list
      BY <1>1 DEF Apart
    <3>1. \A g \in Histograms \cap Real :
            \/ g # m /\ current'[g].list = current[g].list
            \/ g = m /\ current'[g].list = NewList
      BY <1>5 DEF Real
    <3>2. Apart
      BY <1>12 DEF Balance
    <3>3. \A g \in Histograms \cap Real :
            g # h => current'[g].list # current'[h].list
      BY <1>6, <3>1, <3>2 DEF Apart
    <3>4. ASSUME NEW d \in Collectors, NEW g \in Histograms \cap DOMAIN collection'[d].samples
          PROVE  collection'[d].samples[g].list # current'[h].list
      <4>1. CASE g \in DOMAIN collection[d].samples
        <5>1. collection'[d].samples[g] = collection[d].samples[g]
          BY <1>3, <1>4, <4>1
        <5> QED
          BY <1>6, <3>1, <3>2, <4>1, <5>1 DEF Apart
      <4>2. CASE g \notin DOMAIN collection[d].samples
        <5>1. d = c /\ g = m /\ m \in Histograms
          <6>1. d = c
            BY <1>3, <4>2
          <6> QED
            BY <1>4, <4>2, <6>1
        <5>2. collection'[d].samples[g] = current[m]
          BY <1>2, <1>4, <1>12, <3>4, <5>1 DEF Balance, Fits
        <5>3. CASE h = m
          <6>1. current'[h].list = NewList /\ current[m].list # NewList
            BY <1>3, <1>6, <3>1, <5>1, <5>3
          <6> QED
            BY <5>2, <6>1
        <5>4. CASE h # m
          <6>1. current'[h].list = current[h].list /\ m \in Histograms \cap Real
            BY <1>3, <3>1, <5>1, <5>4
          <6>2. current[m].list # current[h].list
            BY <3>2, <5>4, <6>1 DEF Apart
          <6> QED
            BY <5>2, <6>1, <6>2
        <5> QED
          BY <5>3, <5>4
      <4> QED
        BY <4>1, <4>2
    <3> QED
      BY <3>3, <3>4
  <2> QED
    BY <1>1, <2>1, <2>2, <2>3, <2>4, <2>5 DEF Balance
<1>13. Inv'
  BY <1>1, ResetSums DEF Inv, Kinds, WithinLabelLimit
<1>14. Callers'
  <2>1. \A d \in Collectors : Busy(d)' <=> Busy(d)
    BY <1>3 DEF Busy, Doing
  <2> QED
    BY <1>1, <2>1 DEF Callers, TimerType, TimerSurvives, Collectors
<1>15. ASSUME Balance, LastOnes
       PROVE  LastOnes'
  <2>1. Histograms \subseteq Metrics
    BY CollectorAssumption
  <2>2. ASSUME NEW h \in Histograms, c = "stop" => h # m
        PROVE  Part("stop", h)' = Part("stop", h) /\ (Ahead(h) => Ahead(h)')
    <3>1. Part("stop", h)' = Part("stop", h)
      BY <1>9, <2>1, <2>2 DEF Collectors
    <3>2. Ahead(h) => Ahead(h)'
      BY <1>1, <1>2, <1>3, <2>2 DEF Ahead, Doing, Collectors
    <3> QED
      BY <3>1, <3>2
  <2>3. ASSUME NEW h \in Histograms, c = "stop", h = m
        PROVE  updates[h].before <= (reported[h].sum + Part("stop", h))'
    <3>1. /\ Told(h) + lists[current[h].list] = updates[h].all
          /\ updates[h].before <= updates[h].all
          /\ updates[h].before \in Nat /\ updates[h].all \in Nat
          /\ reported[h].sum \in Nat /\ reported' = reported
      BY <1>1, <1>3, <1>15, <2>3 DEF Balance, Containers
    <3>2. InHands("timer") /\ ~Busy("timer")
      BY <1>1, <1>15, <2>3 DEF Balance, Hands, Collectors
    <3>3. Part("timer", h) = 0
      BY <3>2, IdlePart DEF Collectors
    <3>4. Part("stop", h) = 0 /\ Part("stop", h)' = lists[current[h].list]
      BY <1>10, <1>15, <2>3
    <3> QED
      BY <3>1, <3>3, <3>4 DEF Told
  <2>4. \A h \in Histograms :
          /\ Ahead(h) => Ahead(h)' \/ updates[h].before <= (reported[h].sum + Part("stop", h))'
          /\ updates[h].before <= reported[h].sum + Part("stop", h) =>
               updates[h].before <= (reported[h].sum + Part("stop", h))'
    BY <1>1, <2>2, <2>3
  <2> QED
    BY <1>1, <1>15, <2>4, LastOnesStay
<1> QED
  BY <1>1, <1>7, <1>8, <1>12, <1>13, <1>14, <1>15 DEF CInv

\* c, which is idle, starts a collection, and then the other one is idle or both
\* overlap.
LEMMA StartsKeeps ==
  ASSUME CInv, NEW c \in Collectors, Starts(c), ~Busy(c),
         UNCHANGED <<given, kind, current, lists, updates, reported>>,
         stop' = "no" => stop = "no"
  PROVE  /\ Inv' /\ Containers' /\ Hands' /\ (~overlapped' => ~overlapped /\ Balance')
         /\ \A d \in Collectors : \A m \in Metrics : Part(d, m)' = Part(d, m)
         /\ \A d \in Collectors \ {c} : collection'[d] = collection[d]
         /\ given.recording => Doing(c, "timers")'
         /\ ~given.recording => collection' = collection
         /\ Real' = Real
<1>1. /\ Inv /\ Containers /\ Hands /\ InHands(c) /\ DOMAIN collection = Collectors
      /\ Real' = Real
  BY DEF CInv, Hands, Inv, Domains, Real
<1>2. Inv'
  BY <1>1, StartsSums DEF Inv, Kinds, WithinLabelLimit
<1>3. CASE given.recording
  <2>1. /\ \A d \in Collectors \ {c} : collection'[d] = collection[d]
        /\ collection'[c].stage = "timers" /\ collection'[c].left = Timers \cap Real
        /\ collection'[c].name = "" /\ DOMAIN collection'[c].samples = {}
    BY <1>1, <1>3 DEF Starts, Collecting, NoSamples
  <2>2. overlapped' = (overlapped \/ \E d \in Collectors \ {c} : Busy(d))
    BY <1>3 DEF Starts
  <2>3. DOMAIN collection[c].samples = {}
    BY <1>1, IdleFields DEF InHands, Busy, Doing
  <2>4. InHands(c)' /\ Fits(c)'
    <3>1. "" \notin Metrics /\ "" \notin Timers \cap Real
      BY CollectorAssumption DEF Timers
    <3> QED
      BY <1>1, <2>1, <3>1, CollectorAssumption DEF InHands, Value, Fits, Timers
  <2>5. /\ Containers' /\ Hands' /\ (~overlapped' => Balance')
        /\ \A d \in Collectors : \A m \in Metrics : Part(d, m)' = Part(d, m)
    BY <2>1, <2>2, <2>3, <2>4, MoveKeeps
  <2> QED
    BY <1>1, <1>2, <1>3, <2>1, <2>2, <2>5 DEF Doing
<1>4. CASE ~given.recording
  <2>1. collection' = collection /\ (~overlapped' => ~overlapped)
    BY <1>4 DEF Starts
  <2>2. Containers'
    BY <1>1, ContainersStay
  <2>3. Hands'
    BY <1>1, <2>1, InHandsStays DEF Hands
  <2>4. \A d \in Collectors : \A m \in Metrics : Part(d, m)' = Part(d, m)
    BY <2>1, PartStays
  <2>5. Balance => Balance'
    <3>1. \A m \in Metrics : Told(m)' = Told(m)
      BY <2>4 DEF Told, Collectors
    <3>2. Timers \subseteq Metrics /\ Histograms \subseteq Metrics
      BY CollectorAssumption DEF Timers
    <3> QED
      BY <1>1, <2>1, <3>1, <3>2 DEF Balance, Busy, Doing, Fits, Apart
  <2> QED
    BY <1>1, <1>2, <1>4, <2>1, <2>2, <2>3, <2>4, <2>5 DEF CInv
<1> QED
  BY <1>3, <1>4

\* A step that only moves the threads.
LEMMA WaitKeeps ==
  ASSUME CInv, Callers',
         UNCHANGED <<given, kind, current, lists, collection, updates, reported, overlapped>>,
         stop' = "no" => stop = "no", timer'.cancelled => timer.cancelled
  PROVE  CInv'
<1>1. Inv /\ Containers /\ Hands
  BY DEF CInv
<1>2. Inv'
  BY <1>1 DEF Inv, Kinds, WithinLabelLimit, Real, Domains, Sums
<1>3. Containers' /\ Real' = Real
  BY <1>1, ContainersStay
<1>4. Hands'
  BY <1>1, <1>3, InHandsStays DEF Hands
<1>5. \A d \in Collectors : \A m : Part(d, m)' = Part(d, m)
  BY PartStays
<1>6. \A m : Told(m)' = Told(m)
  BY <1>5 DEF Told, Collectors
<1>7. Balance => Balance'
  BY <1>3, <1>6 DEF Balance, Busy, Doing, Fits, Apart
<1>8. LastOnes => LastOnes'
  BY <1>3, <1>5 DEF LastOnes, Ahead, Doing, Collectors
<1> QED
  BY <1>2, <1>3, <1>4, <1>7, <1>8 DEF CInv

LEMMA TimerCallsKeeps == CInv /\ TimerCalls => CInv'
<1> SUFFICES ASSUME CInv, TimerCalls PROVE CInv'
  OBVIOUS
<1>1. /\ Callers /\ timer.at = "wait" /\ timer' = [timer EXCEPT !.at = "call"]
      /\ Starts("timer") /\ UNCHANGED <<given, kind, current, lists, stop, updates, reported>>
      /\ "timer" \in Collectors
  BY DEF CInv, TimerCalls, Collectors
<1>2. ~Busy("timer")
  BY <1>1 DEF Callers
<1>3. /\ Inv' /\ Containers' /\ Hands' /\ (~overlapped' => ~overlapped /\ Balance')
      /\ \A d \in Collectors : \A m \in Metrics : Part(d, m)' = Part(d, m)
      /\ \A d \in Collectors \ {"timer"} : collection'[d] = collection[d]
      /\ Real' = Real
  BY <1>1, <1>2, StartsKeeps
<1>4. collection'["stop"] = collection["stop"] /\ "stop" \in Collectors
  BY <1>3 DEF Collectors
<1>5. Callers'
  <2>1. TimerType' /\ timer'.at = "call" /\ timer'.cancelled = timer.cancelled
    BY <1>1 DEF Callers, TimerType
  <2> QED
    BY <1>1, <1>4, <2>1 DEF Callers, TimerSurvives, Busy, Doing
<1>6. ASSUME LastOnes
      PROVE  LastOnes'
  <2>1. timer'.cancelled => timer.cancelled
    BY <1>1 DEF Callers, TimerType
  <2>2. \A h \in Histograms : Part("stop", h)' = Part("stop", h) /\ (Ahead(h) => Ahead(h)')
    BY <1>3, <1>4, CollectorAssumption DEF Ahead, Doing
  <2> QED
    BY <1>1, <1>6, <2>1, <2>2, LastOnesStay
<1> QED
  BY <1>3, <1>5, <1>6 DEF CInv

LEMMA StopThreadKeeps == CInv /\ StopThread => CInv'
<1> SUFFICES ASSUME CInv, StopThread PROVE CInv'
  OBVIOUS
<1>1. /\ Inv /\ Containers /\ Hands /\ Callers /\ stop = "no" /\ "stop" \in Collectors
      /\ UNCHANGED <<given, kind, current, lists, updates, reported>>
  BY DEF CInv, StopThread, Collectors
<1>2. CASE timer.at # "returned"
  <2>1. timer' = [timer EXCEPT !.cancelled = TRUE] /\ stop' = "collects" /\ Starts("stop")
    BY <1>2 DEF StopThread, CollectsLast
  <2>2. ~Busy("stop")
    BY <1>1 DEF Callers
  <2>3. /\ Inv' /\ Containers' /\ Hands' /\ (~overlapped' => ~overlapped /\ Balance')
        /\ \A d \in Collectors \ {"stop"} : collection'[d] = collection[d]
        /\ given.recording => Doing("stop", "timers")'
        /\ Real' = Real
    BY <1>1, <2>1, <2>2, StartsKeeps
  <2>4. \A m \in Metrics : Part("stop", m)' \in Nat
    <3> SUFFICES ASSUME NEW m \in Metrics PROVE Part("stop", m)' \in Nat
      OBVIOUS
    <3>1. InHands("stop")' /\ lists' \in [ListIds -> Nat]
      BY <1>1, <2>3 DEF Hands, Containers
    <3>2. m \in DOMAIN collection'["stop"].samples => Value(m, collection'["stop"].samples[m])
      BY <3>1 DEF InHands, Value
    <3> QED
      BY <3>1, <3>2 DEF Part, Value
  <2>5. Callers'
    <3>1. TimerType' /\ timer'.at = timer.at /\ timer'.cancelled
      BY <1>1, <2>1 DEF Callers, TimerType
    <3>2. Busy("timer")' <=> Busy("timer")
      BY <2>3 DEF Busy, Doing, Collectors
    <3> QED
      BY <1>1, <2>1, <3>1, <3>2 DEF Callers, TimerSurvives
  <2>6. LastOnes'
    <3> SUFFICES ASSUME given.recording, NEW h \in Histograms
                 PROVE  Ahead(h)' \/ updates[h].before <= (reported[h].sum + Part("stop", h))'
      BY <1>1 DEF LastOnes
    <3>1. CASE h \in Real
      BY <2>3, <3>1 DEF Ahead
    <3>2. CASE h \notin Real
      <4>1. /\ h \in Metrics /\ updates[h].before = 0 /\ reported[h].sum = 0
            /\ Part("stop", h)' \in Nat
        BY <1>1, <2>4, <3>2, CollectorAssumption DEF Containers
      <4> QED
        BY <1>1, <4>1
    <3> QED
      BY <3>1, <3>2
  <2> QED
    BY <2>3, <2>5, <2>6 DEF CInv
<1>3. CASE timer.at = "returned"
  <2>1. stop' = "done" /\ UNCHANGED <<timer, collection, overlapped>>
    BY <1>3 DEF StopThread
  <2>2. Callers'
    BY <1>1, <2>1 DEF Callers, TimerType, TimerSurvives, Busy, Doing
  <2> QED
    BY <1>1, <2>1, <2>2, WaitKeeps
<1> QED
  BY <1>2, <1>3

LEMMA TimerCallRaisesKeeps == CInv /\ TimerCallRaises => CInv'
<1> SUFFICES ASSUME CInv, TimerCallRaises PROVE CInv'
  OBVIOUS
<1>1. /\ Inv /\ Containers /\ Hands /\ Callers /\ DOMAIN collection = Collectors
      /\ collection["timer"].stage = "timers" /\ collection["timer"].samples = NoSamples
      /\ collection' = [collection EXCEPT !["timer"] = Idle]
      /\ UNCHANGED <<given, kind, current, lists, stop, updates, reported, overlapped>>
      /\ "timer" \in Collectors /\ "stop" \in Collectors
  BY DEF CInv, TimerCallRaises, Collectors, Inv, Domains, Doing
<1>2. /\ \A d \in Collectors \ {"timer"} : collection'[d] = collection[d]
      /\ collection'["timer"] = Idle /\ DOMAIN collection["timer"].samples = {}
  BY <1>1 DEF NoSamples
<1>3. InHands("timer")' /\ ~Busy("timer")' /\ Fits("timer")'
  BY <1>2, IdleFields, CollectorAssumption DEF InHands, Busy, Doing, Fits, Timers
<1>4. /\ Containers' /\ Hands' /\ (~overlapped' => Balance')
      /\ \A d \in Collectors : \A m \in Metrics : Part(d, m)' = Part(d, m)
  BY <1>1, <1>2, <1>3, IdleFields, MoveKeeps
<1>5. Inv'
  BY <1>1, IdleSame, OtherSums DEF Inv, Kinds, WithinLabelLimit, Real
<1>6. PICK i \in Intervals : timer' = [timer EXCEPT !.at = "wait", !.interval = i]
  BY DEF TimerCallRaises, AfterException
<1>7. Callers' /\ timer'.cancelled = timer.cancelled
  <2>1. TimerType' /\ timer'.at = "wait" /\ timer'.cancelled = timer.cancelled
    BY <1>1, <1>6 DEF Callers, TimerType
  <2>2. Busy("stop")' <=> Busy("stop")
    BY <1>2, <1>1 DEF Busy, Doing
  <2> QED
    BY <1>1, <1>3, <2>1, <2>2 DEF Callers, TimerSurvives
<1>8. ASSUME LastOnes
      PROVE  LastOnes'
  <2>1. \A h \in Histograms : Part("stop", h)' = Part("stop", h)
    BY <1>1, <1>4, CollectorAssumption
  <2>2. \A h \in Histograms : Ahead(h) => Ahead(h)'
    BY <1>1, <1>2 DEF Ahead, Doing, Real
  <2> QED
    BY <1>1, <1>7, <1>8, <2>1, <2>2, LastOnesStay
<1> QED
  BY <1>1, <1>4, <1>5, <1>7, <1>8 DEF CInv

LEMMA InitCInv == CollectorInit => CInv
<1> SUFFICES ASSUME CollectorInit PROVE CInv
  OBVIOUS
<1>1. Inv
  BY InitInv
<1>2. Real = {} /\ \A c \in Collectors : collection[c] = Idle
  BY DEF CollectorInit, Real
<1>3. Zero \in [sum : Nat, count : Nat] /\ Zero.sum = 0
  BY DEF Zero
<1>4. Timers \subseteq Metrics /\ Timers \cap Histograms = {} /\ Histograms \subseteq Metrics
  BY CollectorAssumption DEF Timers
<1>5. Containers
  <2>1. ASSUME NEW m \in Timers
        PROVE  Value(m, current[m])
    BY <1>3, <1>4 DEF CollectorInit, Value
  <2> QED
    BY <1>2, <1>3, <2>1 DEF CollectorInit, Containers
<1>6. Hands /\ \A c \in Collectors : \A m : Part(c, m) = 0
  BY <1>2, IdleInHands DEF Hands
<1>7. \A c \in Collectors : ~Busy(c)
  BY <1>2, IdleFields DEF Busy, Doing
<1>8. Callers
  BY <1>7 DEF CollectorInit, Callers, TimerType, TimerSurvives, Intervals, Collectors
<1>9. Balance
  <2>1. \A m \in Metrics : Told(m) = 0
    BY <1>3, <1>6 DEF CollectorInit, Told, Collectors
  <2>2. \A t \in Timers : Told(t) + current[t].sum <= updates[t].all
    BY <1>3, <1>4, <2>1 DEF CollectorInit
  <2>3. \A c \in Collectors : Fits(c)
    BY <1>2, IdleFields, CollectorAssumption DEF Fits, Timers
  <2> QED
    BY <1>2, <1>7, <2>2, <2>3 DEF Balance, Apart, Collectors
<1>10. LastOnes
  BY DEF CollectorInit, LastOnes
<1> QED
  BY <1>1, <1>5, <1>6, <1>8, <1>9, <1>10 DEF CInv

LEMMA NextCInv == CInv /\ [CollectorNext]_collectorVars => CInv'
<1> SUFFICES ASSUME CInv, [CollectorNext]_collectorVars PROVE CInv'
  OBVIOUS
<1>1. CASE TimerReturns \/ TimerCalled \/ StopThreadReturns \/ UNCHANGED collectorVars
  <2>1. /\ UNCHANGED <<given, kind, current, lists, collection, updates, reported, overlapped>>
        /\ Callers
    BY <1>1 DEF CInv, TimerReturns, TimerCalled, StopThreadReturns, collectorVars
  <2>2. /\ Callers' /\ timer'.cancelled = timer.cancelled
        /\ stop' = "no" => stop = "no"
    <3>1. CASE TimerReturns
      BY <2>1, <3>1 DEF TimerReturns, SeesCancel, Callers, TimerType, TimerSurvives, Busy, Doing
    <3>2. CASE TimerCalled
      BY <2>1, <3>2 DEF TimerCalled, Callers, TimerType, TimerSurvives, Busy, Doing
    <3>3. CASE StopThreadReturns
      BY <2>1, <3>3 DEF StopThreadReturns, Callers, TimerType, TimerSurvives, Busy, Doing
    <3>4. CASE UNCHANGED collectorVars
      BY <2>1, <3>4 DEF collectorVars, Callers, TimerType, TimerSurvives, Busy, Doing
    <3> QED
      BY <1>1, <3>1, <3>2, <3>3, <3>4
  <2> QED
    BY <2>1, <2>2, WaitKeeps
<1> QED
  BY <1>1, MetricKeeps, UpdateKeeps, ReadKeeps, ResetKeeps, NextContainerKeeps,
     QueueSamplesKeeps, TimerCallsKeeps, TimerCallRaisesKeeps, StopThreadKeeps
     DEF CollectorNext, Collects

\* What is in the hands of the collections is at least 0.
LEMMA ToldBounds ==
  ASSUME CInv, NEW m \in Metrics
  PROVE  /\ reported[m].sum \in Nat /\ Told(m) \in Nat /\ reported[m].sum <= Told(m)
         /\ updates[m].all \in Nat /\ updates[m].before \in Nat
<1>1. /\ Part("timer", m) \in Nat /\ Part("stop", m) \in Nat /\ reported[m].sum \in Nat
      /\ updates[m].all \in Nat /\ updates[m].before \in Nat
  BY PartNat DEF CInv, Containers, Collectors
<1> QED
  BY <1>1 DEF Told

\* No update is reported twice while the two collections do not overlap.
THEOREM NothingIsReportedTwice == CollectorSpec => []NothingTwice
<1>1. CInv => NothingTwice
  <2> SUFFICES ASSUME CInv, ~overlapped, NEW m \in Metrics
               PROVE  reported[m].sum <= updates[m].all
    BY DEF NothingTwice
  <2>1. Containers /\ Balance
    BY DEF CInv
  <2>2. CASE m \in Timers
    <3>1. current[m].sum \in Nat /\ Told(m) + current[m].sum <= updates[m].all
      BY <2>1, <2>2 DEF Containers, Balance, Value, Timers
    <3> QED
      BY <3>1, ToldBounds
  <2>3. CASE m \in Histograms \cap Real
    <3>1. /\ lists[current[m].list] \in Nat
          /\ Told(m) + lists[current[m].list] = updates[m].all
      BY <2>1, <2>3 DEF Containers, Balance, Value
    <3> QED
      BY <3>1, ToldBounds
  <2>4. CASE m \notin Real
    <3>1. reported[m].sum = 0 /\ updates[m].all = 0
      BY <2>1, <2>4 DEF Containers
    <3> QED
      BY <3>1
  <2> QED
    BY <2>2, <2>3, <2>4 DEF Timers
<1> QED
  BY InitCInv, NextCInv, <1>1, PTL DEF CollectorSpec

\* Between the collections, what a histogram has not reported is in its list.
THEOREM HistogramsAreComplete == CollectorSpec => []HistogramsComplete
<1>1. CInv => HistogramsComplete
  <2> SUFFICES ASSUME CInv, ~overlapped, \A c \in Collectors : ~Busy(c),
                      NEW h \in Histograms \cap Real
               PROVE  reported[h].sum + lists[current[h].list] = updates[h].all
    BY DEF HistogramsComplete
  <2>1. Hands /\ Balance /\ h \in Metrics
    BY CollectorAssumption DEF CInv
  <2>2. Part("timer", h) = 0 /\ Part("stop", h) = 0
    BY <2>1, IdlePart DEF Hands, Collectors
  <2>3. reported[h].sum \in Nat /\ Told(h) + lists[current[h].list] = updates[h].all
    BY <2>1, ToldBounds DEF Balance
  <2> QED
    BY <2>2, <2>3 DEF Told
<1> QED
  BY InitCInv, NextCInv, <1>1, PTL DEF CollectorSpec

\* The last collection reports what the histograms had when stop_thread was called.
THEOREM LastCollectionIsComplete == CollectorSpec => []LastCollection
<1>1. CInv => LastCollection
  <2> SUFFICES ASSUME CInv, stop = "done", timer.cancelled, given.recording, ~overlapped,
                      NEW h \in Histograms
               PROVE  reported[h].sum >= updates[h].before
    BY DEF LastCollection
  <2>1. Hands /\ Callers /\ LastOnes /\ h \in Metrics
    BY CollectorAssumption DEF CInv
  <2>2. ~Busy("stop")
    BY <2>1 DEF Callers
  <2>3. Part("stop", h) = 0 /\ ~Ahead(h)
    BY <2>1, <2>2, IdlePart DEF Hands, Collectors, Ahead, Busy, Doing
  <2>4. updates[h].before <= reported[h].sum + Part("stop", h)
    BY <2>1, <2>3 DEF LastOnes
  <2> QED
    BY <2>1, <2>3, <2>4, ToldBounds
<1> QED
  BY InitCInv, NextCInv, <1>1, PTL DEF CollectorSpec
=============================================================================
