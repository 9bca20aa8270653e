----------------------------- MODULE BreakdownProofs -----------------------------
(***************************************************************************)
(* The self time is right for any number of children, which are tasks, and *)
(* for a clock without bounds.  The invariant: the level is the number of  *)
(* children in progress, and what was added up, with the time since the    *)
(* first of them started, is the time in which any was in progress.        *)
(***************************************************************************)
EXTENDS Breakdown, FiniteSetTheorems, TLAPS

\* Every variable has its type.
BreakdownTypeOK ==
  /\ threads \in BOOLEAN /\ clock \in Nat /\ covered \in Nat
  /\ child \in [Children -> [at : {"no", "begun", "open", "ending", "ended"},
                             time : Nat]]
  /\ durations \in [level : Int, start : Int, duration : Int]
  /\ parent \in [at : {"open", "ended", "tracked"}, ended : Int, self : Int]

\* What is between the steps of tasks.
Atomic ==
  /\ \A c \in Children : child[c].at \in {"no", "open", "ended"}
  /\ parent.at # "ended"

Levels == durations.level = Cardinality(InProgress)

\* The time of the children that are in progress.
Current == IF durations.level > 0 THEN clock - durations.start ELSE 0

Times ==
  /\ durations.duration >= 0 /\ Current >= 0
  /\ covered <= clock
  /\ parent.at = "open" => durations.duration + Current = covered

Inv == BreakdownTypeOK /\ (~threads => Atomic /\ Levels /\ Times) /\ SelfTime

\* The children in progress are a finite set; without any the level is 0.
LEMMA InProgressFinite ==
  /\ IsFiniteSet(InProgress)
  /\ Cardinality(InProgress) \in Nat
  /\ Cardinality(InProgress) = 0 <=> InProgress = {}
<1>1. IsFiniteSet(InProgress)
  <2>1. InProgress \subseteq Children
    BY DEF InProgress
  <2>2. QED
    BY <2>1, BreakdownAssumption, FS_Subset
<1>2. QED
  BY <1>1, FS_CardinalityType, FS_EmptySet

\* The invariant holds at first.
LEMMA InitInv == BreakdownInit => Inv
<1> SUFFICES ASSUME BreakdownInit PROVE Inv
  OBVIOUS
<1> USE DEF BreakdownInit
<1>1. InProgress = {}
  BY DEF InProgress
<1>2. Levels
  BY <1>1, InProgressFinite DEF Levels
<1>3. QED
  BY <1>2 DEF Inv, BreakdownTypeOK, Atomic, Times, Current, SelfTime

\* A child that begins or ends changes who is in progress by one.
LEMMA OneMore ==
  ASSUME NEW c \in Children, c \notin InProgress, InProgress' = InProgress \cup {c}
  PROVE  Cardinality(InProgress') = Cardinality(InProgress) + 1
BY InProgressFinite, FS_AddElement

LEMMA OneLess ==
  ASSUME NEW c \in Children, c \in InProgress, InProgress' = InProgress \ {c}
  PROVE  Cardinality(InProgress') = Cardinality(InProgress) - 1
BY InProgressFinite, FS_RemoveElement

\* start and stop keep the types.
DurationsType == [level : Int, start : Int, duration : Int]
LEMMA StartedStoppedType ==
  ASSUME NEW d \in DurationsType, NEW t \in Int
  PROVE  Started(d, t) \in DurationsType /\ Stopped(d, t) \in DurationsType
<1>1. d.level \in Int /\ d.start \in Int /\ d.duration \in Int
  BY DEF DurationsType
<1>2. Started(d, t) \in DurationsType
  BY <1>1 DEF DurationsType, Started
<1>3. Stopped(d, t) \in DurationsType
  BY <1>1 DEF DurationsType, Stopped
<1>4. QED
  BY <1>2, <1>3

ChildType == [at : {"no", "begun", "open", "ending", "ended"}, time : Nat]

\* Every step keeps the types, of threads as well.
LEMMA NextTypes ==
  ASSUME BreakdownTypeOK, BreakdownNext
  PROVE  BreakdownTypeOK'
<1>1. /\ child \in [Children -> ChildType] /\ durations \in DurationsType
      /\ clock \in Nat /\ threads \in BOOLEAN
  BY DEF BreakdownTypeOK, ChildType, DurationsType
<1>2. CASE Tick
  BY <1>2, BreakdownAssumption DEF Tick, BreakdownTypeOK
<1>3. ASSUME NEW c \in Children,
             ChildBegins(c) \/ ChildStarts(c) \/ ChildEnds(c) \/ ChildStops(c)
      PROVE  BreakdownTypeOK'
  <2>1. child[c].time \in Nat
    BY <1>1 DEF ChildType
  <2>2. \A t \in Nat, at \in {"no", "begun", "open", "ending", "ended"} :
          [child EXCEPT ![c] = [at |-> at, time |-> t]] \in [Children -> ChildType]
    BY <1>1 DEF ChildType
  <2>3. \A at \in {"no", "begun", "open", "ending", "ended"} :
          [child EXCEPT ![c].at = at] \in [Children -> ChildType]
    BY <1>1 DEF ChildType
  <2>4. child' \in [Children -> ChildType]
    <3>1. CASE ChildBegins(c)
      BY <3>1, <1>1, <2>2 DEF ChildBegins
    <3>2. CASE ChildStarts(c)
      BY <3>2, <2>3 DEF ChildStarts
    <3>3. CASE ChildEnds(c)
      BY <3>3, <1>1, <2>2 DEF ChildEnds
    <3>4. CASE ChildStops(c)
      BY <3>4, <2>3 DEF ChildStops
    <3>5. QED
      BY <1>3, <3>1, <3>2, <3>3, <3>4
  <2>5. durations' \in DurationsType
    BY <1>3, <1>1, <2>1, StartedStoppedType
       DEF ChildBegins, ChildStarts, ChildEnds, ChildStops
  <2>6. UNCHANGED <<threads, clock, parent, covered>>
    BY <1>3 DEF ChildBegins, ChildStarts, ChildEnds, ChildStops
  <2>7. QED
    BY <2>4, <2>5, <2>6 DEF BreakdownTypeOK, ChildType, DurationsType
<1>4. CASE ParentEnds
  <2>1. parent' \in [at : {"open", "ended", "tracked"}, ended : Int, self : Int]
    BY <1>4, <1>1 DEF ParentEnds, Tracked, DurationsType
  <2>2. QED
    BY <1>4, <2>1 DEF ParentEnds, BreakdownTypeOK
<1>5. CASE ParentTracked
  BY <1>5 DEF ParentTracked, Tracked, BreakdownTypeOK
<1>6. QED
  BY <1>2, <1>3, <1>4, <1>5 DEF BreakdownNext

\* Every step of tasks keeps the sums and the levels.
LEMMA NextTasks ==
  ASSUME Inv, BreakdownNext, ~threads
  PROVE  (Atomic /\ Levels /\ Times /\ SelfTime)'
<1> USE DEF Inv, BreakdownTypeOK, Atomic
<1>1. CASE Tick
  <2>1. InProgress' = InProgress
    BY <1>1 DEF Tick, InProgress
  <2>2. durations.level > 0 <=> InProgress # {}
    BY InProgressFinite DEF Levels
  <2>3. QED
    BY <1>1, <2>1, <2>2 DEF Tick, Levels, Times, Current, SelfTime
<1>2. ASSUME NEW c \in Children, ChildBegins(c)
      PROVE  (Atomic /\ Levels /\ Times /\ SelfTime)'
  <2>1. /\ durations' = Started(durations, clock)
        /\ child' = [child EXCEPT ![c] = [at |-> "open", time |-> clock]]
        /\ child[c].at = "no"
    BY <1>2 DEF ChildBegins
  <2>2. c \notin InProgress /\ InProgress' = InProgress \cup {c}
    BY <2>1 DEF InProgress
  <2>3. Levels'
    BY <2>1, <2>2, OneMore DEF Levels, Started
  <2>4. durations.level \in Nat
    BY InProgressFinite DEF Levels
  <2>5. QED
    BY <1>2, <2>1, <2>3, <2>4 DEF ChildBegins, Started, Times, Current, SelfTime
<1>3. ASSUME NEW c \in Children, ChildStarts(c)
      PROVE  (Atomic /\ Levels /\ Times /\ SelfTime)'
  BY <1>3 DEF ChildStarts
<1>4. ASSUME NEW c \in Children, ChildEnds(c)
      PROVE  (Atomic /\ Levels /\ Times /\ SelfTime)'
  <2>1. /\ durations' = Stopped(durations, clock)
        /\ child' = [child EXCEPT ![c] = [at |-> "ended", time |-> clock]]
        /\ child[c].at = "open"
    BY <1>4 DEF ChildEnds
  <2>2. c \in InProgress /\ InProgress' = InProgress \ {c}
    BY <2>1 DEF InProgress
  <2>3. Levels'
    BY <2>1, <2>2, OneLess DEF Levels, Stopped
  <2>4. durations.level \in Nat \ {0}
    BY <2>2, InProgressFinite DEF Levels
  <2>5. QED
    BY <1>4, <2>1, <2>3, <2>4 DEF ChildEnds, Stopped, Times, Current, SelfTime
<1>5. ASSUME NEW c \in Children, ChildStops(c)
      PROVE  (Atomic /\ Levels /\ Times /\ SelfTime)'
  BY <1>5 DEF ChildStops
<1>6. CASE ParentEnds
  <2>1. parent.at = "open" /\ parent' = Tracked(clock) /\ UNCHANGED <<clock, child, durations, covered>>
    BY <1>6 DEF ParentEnds
  <2>2. InProgress' = InProgress
    BY <2>1 DEF InProgress
  <2>3. InProgress = {} => durations.level = 0
    BY InProgressFinite DEF Levels
  <2>4. Levels' /\ Atomic'
    BY <2>1, <2>2 DEF Levels, Tracked
  <2>5. Times' /\ SelfTime'
    BY <2>1, <2>2, <2>3 DEF Times, Current, Tracked, SelfTime
  <2>6. QED
    BY <2>4, <2>5
<1>7. CASE ParentTracked
  BY <1>7 DEF ParentTracked
<1>8. QED
  BY <1>1, <1>2, <1>3, <1>4, <1>5, <1>6, <1>7 DEF BreakdownNext

\* The invariant is inductive.
LEMMA NextInv == Inv /\ [BreakdownNext]_breakdownVars => Inv'
<1> SUFFICES ASSUME Inv, [BreakdownNext]_breakdownVars PROVE Inv'
  OBVIOUS
<1>1. CASE UNCHANGED breakdownVars
  BY <1>1 DEF breakdownVars, Inv, BreakdownTypeOK, Atomic, Levels, Times, Current,
              SelfTime, InProgress
<1>2. CASE BreakdownNext
  <2>1. BreakdownTypeOK'
    BY <1>2, NextTypes DEF Inv
  <2>2. threads' = threads
    BY <1>2 DEF BreakdownNext, Tick, ChildBegins, ChildStarts, ChildEnds,
                ChildStops, ParentEnds, ParentTracked
  <2>3. ~threads => (Atomic /\ Levels /\ Times /\ SelfTime)'
    BY <1>2, NextTasks
  <2>4. SelfTime'
    BY <2>2, <2>3 DEF SelfTime
  <2>5. QED
    BY <2>1, <2>2, <2>3, <2>4 DEF Inv
<1>3. QED
  BY <1>1, <1>2

\* For any number of children and any clock: the self time of a span is its
\* duration without the time in which children were in progress, and never
\* negative.
THEOREM SelfTimeIsRight == BreakdownSpec => []SelfTime
<1>1. Inv => SelfTime
  BY DEF Inv
<1>2. QED
  BY InitInv, NextInv, <1>1, PTL DEF BreakdownSpec
=============================================================================
