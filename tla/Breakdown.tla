-------------------------------- MODULE Breakdown --------------------------------
(***************************************************************************)
(* The self time of a span or transaction (ChildDuration and               *)
(* track_span_duration of elasticapm/traces.py): its duration without the  *)
(* time in which any of its children was in progress.  The children may    *)
(* overlap, so the code counts how many there are and adds up the time     *)
(* from the first that starts to the last that stops.                      *)
(*                                                                         *)
(* The parent begins at time 0.  Children that are tasks do all of their   *)
(* beginning or ending without others in between; threads read the clock   *)
(* first and tell the parent afterwards.                                   *)
(***************************************************************************)
EXTENDS Integers, FiniteSets

CONSTANTS
  Children,
  MaxTime      \* bound of the clock

ASSUME BreakdownAssumption == IsFiniteSet(Children) /\ MaxTime \in Nat

VARIABLES
  threads,     \* whether the children are threads
  clock,
  child,       \* what each child does and the clock that it read last
  durations,   \* ChildDuration of the parent
  parent,      \* whether it has ended, its ended_time and its self time
  covered      \* in how many units of time a child was in progress

breakdownVars == <<threads, clock, child, durations, parent, covered>>

BreakdownInit ==
  /\ threads \in BOOLEAN
  /\ clock = 0
  /\ child = [c \in Children |-> [at |-> "no", time |-> 0]]
  /\ durations = [level |-> 0, start |-> 0, duration |-> 0]
  /\ parent = [at |-> "open", ended |-> 0, self |-> 0]
  /\ covered = 0

\* ChildDuration.start and stop, under its lock.
Started(d, t) ==
  [level |-> d.level + 1, start |-> IF d.level = 0 THEN t ELSE d.start,
   duration |-> d.duration]
MutantStopped(d, t) == [d EXCEPT !.level = @ - 1, !.duration = @ + t - d.start]
Stopped(d, t) ==
  [level |-> d.level - 1, start |-> d.start,
   duration |-> IF d.level = 1 THEN d.duration + t - d.start ELSE d.duration]

InProgress == {c \in Children : child[c].at \in {"begun", "open"}}

\* What comes after the parent's self time was tracked does not change it.
Tick ==
  /\ clock < MaxTime /\ parent.at # "tracked"
  /\ clock' = clock + 1
  /\ covered' = IF parent.at = "open" /\ InProgress # {} THEN covered + 1
                                                         ELSE covered
  /\ UNCHANGED <<threads, child, durations, parent>>

ChildBegins(c) ==
  /\ parent.at # "tracked" /\ child[c].at = "no"
  /\ child' = [child EXCEPT ![c] = [at |-> IF threads THEN "begun" ELSE "open",
                                    time |-> clock]]
  /\ durations' = IF threads THEN durations ELSE Started(durations, clock)
  /\ UNCHANGED <<threads, clock, parent, covered>>

ChildStarts(c) ==
  /\ parent.at # "tracked" /\ child[c].at = "begun"
  /\ child' = [child EXCEPT ![c].at = "open"]
  /\ durations' = Started(durations, child[c].time)
  /\ UNCHANGED <<threads, clock, parent, covered>>

ChildEnds(c) ==
  /\ parent.at # "tracked" /\ child[c].at = "open"
  /\ child' = [child EXCEPT ![c] = [at |-> IF threads THEN "ending" ELSE "ended",
                                    time |-> clock]]
  /\ durations' = IF threads THEN durations ELSE Stopped(durations, clock)
  /\ UNCHANGED <<threads, clock, parent, covered>>

ChildStops(c) ==
  /\ parent.at # "tracked" /\ child[c].at = "ending"
  /\ child' = [child EXCEPT ![c].at = "ended"]
  /\ durations' = Stopped(durations, child[c].time)
  /\ UNCHANGED <<threads, clock, parent, covered>>

Tracked(ended) ==
  [at |-> "tracked", ended |-> ended, self |-> ended - durations.duration]

ParentEnds ==
  /\ parent.at = "open"
  /\ parent' = IF threads THEN [at |-> "ended", ended |-> clock, self |-> 0]
                          ELSE Tracked(clock)
  /\ UNCHANGED <<threads, clock, child, durations, covered>>

ParentTracked ==
  /\ parent.at = "ended"
  /\ parent' = Tracked(parent.ended)
  /\ UNCHANGED <<threads, clock, child, durations, covered>>

BreakdownNext ==
  \/ Tick
  \/ \E c \in Children :
       ChildBegins(c) \/ ChildStarts(c) \/ ChildEnds(c) \/ ChildStops(c)
  \/ ParentEnds \/ ParentTracked

BreakdownSpec == BreakdownInit /\ [][BreakdownNext]_breakdownVars

-----------------------------------------------------------------------------
\* The self time is neither negative nor longer than the span, however its
\* children overlapped and whether they ended before it; if they did, it is the
\* time in which none of them was in progress.  (With threads it may be negative:
\* a child that read the clock before another one ended, and starts after that, is
\* counted twice.)
SelfTime ==
  ~threads /\ parent.at = "tracked" =>
    /\ parent.self \in 0 .. parent.ended
    /\ InProgress = {} => parent.self = parent.ended - covered
=============================================================================
