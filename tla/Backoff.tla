-------------------------------- MODULE Backoff --------------------------------
(***************************************************************************)
(* TransportState (elasticapm/transport/base.py) and the flushes of the    *)
(* worker that it holds back while the server cannot be reached.  Time is  *)
(* the number of seconds since last_check, up to the longest interval.     *)
(* Transport, which the runs check with all threads, leaves open when      *)
(* should_try is true: here it is computed.                                *)
(***************************************************************************)
EXTENDS Integers

MaxRetry == 6
MaxInterval == 36

VARIABLES
  state,    \* status, retry_number and the time since last_check
  up        \* whether the server takes what is sent

backoffVars == <<state, up>>

Online == [status |-> "ONLINE", retry_number |-> -1, elapsed |-> 0]

BackoffInit == state = Online /\ up \in BOOLEAN

\* min(self.retry_number, 6) ** 2; what is above 6 makes no difference.
Interval(n) == IF n > MaxRetry THEN MaxInterval ELSE n * n

\* The comparison is strict: the clock has to move after the first failure.
ShouldTry ==
  state.status = "ONLINE" \/ state.elapsed > Interval(state.retry_number)

Passes ==
  /\ state.status = "ERROR" /\ state.elapsed <= MaxInterval
  /\ state' = [state EXCEPT !.elapsed = @ + 1]
  /\ UNCHANGED up

ServerChanges == up' = ~up /\ UNCHANGED state

SetSuccess == state' = Online
SetFail ==
  state' = [status |-> "ERROR", elapsed |-> 0,
            retry_number |-> IF state.retry_number > MaxRetry THEN state.retry_number
                               ELSE state.retry_number + 1]
Send == (IF up THEN SetSuccess ELSE SetFail) /\ UNCHANGED up

\* _flush of a buffer with events: sent or dropped.
SendBuffer == ShouldTry /\ Send
MutantDrop == SetFail /\ UNCHANGED up
Drop == UNCHANGED backoffVars
DropBuffer == ~ShouldTry /\ Drop

\* The empty payload of a forced flush to a local server does not ask.
SendEmpty == Send

BackoffNext == Passes \/ ServerChanges \/ SendBuffer \/ DropBuffer \/ SendEmpty

\* Time goes on, and the application makes events that fill a buffer or become
\* due, so the worker flushes from time to time.
BackoffFairness == WF_backoffVars(Passes) /\ WF_backoffVars(SendBuffer)

-----------------------------------------------------------------------------
\* However often it failed, and however many buffers were dropped meanwhile, the
\* transport is online again for good when the server is up for good.
Recovers == <>[]up => <>[](state = Online)
=============================================================================
