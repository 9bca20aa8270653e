------------------------- MODULE CentralConfigProofs ------------------------
(***************************************************************************)
(* The agent never reports a version that it does not have, and what the   *)
(* callbacks applied is what the configuration says, for any options,      *)
(* values and versions.                                                    *)
(***************************************************************************)
EXTENDS CentralConfig, TLAPS

\* What the agent works with between the poll and the swap: the answer is a
\* version with its configuration or has none, and what is to be swapped in
\* has every option of the answer.
ResponseOK ==
  /\ response.config # Nothing =>
       /\ response.version \in Versions
       /\ response.config = Remote[response.version]
  /\ pc = "swap" =>
       /\ response.config # Nothing
       /\ \A o \in DOMAIN response.config :
            o \in DOMAIN todo /\ todo[o] = response.config[o]

HonestInv == VersionHonest /\ ResponseOK /\ remote \in Versions

\* What update makes of a configuration without invalid values has all of it.
LEMMA NewConfigHas ==
  ASSUME ~Rejected(response.config)
  PROVE  \A o \in DOMAIN response.config :
           o \in DOMAIN NewConfig /\ NewConfig[o] = response.config[o]
<1> SUFFICES ASSUME NEW o \in DOMAIN response.config
             PROVE  o \in DOMAIN NewConfig /\ NewConfig[o] = response.config[o]
  OBVIOUS
<1>1. response.config[o] \notin Invalid
  BY DEF Rejected
<1>2. /\ o \in DOMAIN Valid(response.config)
      /\ Valid(response.config)[o] = response.config[o]
  BY <1>1 DEF Valid
<1> QED
  BY <1>2 DEF NewConfig

LEMMA InitHonest == Init => HonestInv
BY DEF Init, HonestInv, VersionHonest, ResponseOK, NoAnswer, Answer

LEMMA NextHonest == HonestInv /\ [Next]_vars => HonestInv'
<1> SUFFICES ASSUME HonestInv, [Next]_vars
             PROVE  HonestInv'
  OBVIOUS
<1> USE DEF HonestInv, VersionHonest, ResponseOK
<1>1. ASSUME NEW v \in Versions, ServerChange(v)
      PROVE  HonestInv'
  BY <1>1 DEF ServerChange
<1>2. ASSUME NEW answer, Fetch(answer),
             answer.config # Nothing =>
               /\ answer.version \in Versions
               /\ answer.config = Remote[answer.version]
      PROVE  HonestInv'
  BY <1>2 DEF Fetch
<1>3. CASE FetchOk
  <2>1. CASE version = remote
    BY <1>2, <1>3, <2>1, Zenon DEF FetchOk, Answer
  <2>2. CASE version # remote
    BY <1>2, <1>3, <2>2, Zenon DEF FetchOk, Answer
  <2> QED
    BY <2>1, <2>2
<1>4. CASE FetchFails
  BY <1>2, <1>4, Zenon DEF FetchFails, Answer
<1>5. CASE FetchRefused
  BY <1>2, <1>5, Zenon DEF FetchRefused, Answer
<1>6. CASE Update
  <2>1. /\ response.config # Nothing
        /\ pc = "fetched"
        /\ UNCHANGED <<remote, config, version, response>>
    BY <1>6 DEF Update, HasConfig
  <2>2. CASE Rejected(response.config)
    BY <1>6, <2>1, <2>2 DEF Update
  <2>3. CASE ~Rejected(response.config)
    <3>1. pc' = "swap" /\ todo' = NewConfig
      BY <1>6, <2>3 DEF Update
    <3> QED
      BY <2>1, <2>3, <3>1, NewConfigHas
  <2> QED
    BY <2>2, <2>3
<1>7. CASE Swap
  BY <1>7, CentralConfigAssumption DEF Swap
<1>8. CASE Keep
  BY <1>8 DEF Keep
<1>9. CASE Reset
  BY <1>9 DEF Reset, ResetVersion
<1>10. CASE RunCallbacks
  BY <1>10 DEF RunCallbacks
<1>11. CASE UNCHANGED vars
  BY <1>11 DEF vars
<1> QED
  BY <1>1, <1>3, <1>4, <1>5, <1>6, <1>7, <1>8, <1>9, <1>10, <1>11
  DEF Next, UpdateConfig

\* Whatever the server publishes, withdraws or answers wrongly, the version
\* that update_config reports is one whose options are all in effect.
THEOREM VersionIsHonest == Spec => []VersionHonest
<1>1. HonestInv => VersionHonest
  BY DEF HonestInv
<1> QED
  BY <1>1, InitHonest, NextHonest, PTL DEF Spec

-----------------------------------------------------------------------------
(***************************************************************************)
(* The callbacks.  Between two polls they have applied what the            *)
(* configuration says; in the middle of an update what will be swapped in; *)
(* in the middle of a reset, what is not the first value is in todo.       *)
(***************************************************************************)
Watched(o) == o \in WithCallback \cap DOMAIN First /\ OnlyWithAccepted(o)

OptionInv(o) ==
  /\ o \in DOMAIN config
  /\ pc \in {"idle", "fetched"} => applied[o] = config[o]
  /\ pc = "swap" => o \in DOMAIN todo /\ applied[o] = todo[o]
  /\ pc = "callbacks" =>
       /\ config = First
       /\ IF o \in DOMAIN todo THEN todo[o] = First[o] ELSE applied[o] = First[o]

PlaceOK == pc \in {"idle", "fetched", "swap", "callbacks"}
SyncInv == HonestInv /\ PlaceOK /\ \A o : Watched(o) => OptionInv(o)

\* The values of a watched option in the configuration that update makes: one
\* that is then rejected has no other value of it.
LEMMA NewValue ==
  ASSUME HonestInv, response.config # Nothing, NEW o, Watched(o), o \in DOMAIN config
  PROVE  /\ o \in DOMAIN NewConfig
         /\ Rejected(response.config) => NewConfig[o] = config[o]
<1>1. o \in DOMAIN NewConfig
  BY DEF NewConfig
<1>2. ASSUME Rejected(response.config)
      PROVE  NewConfig[o] = config[o]
  <2>1. /\ response.version \in Versions
        /\ response.config = Remote[response.version]
    BY DEF HonestInv, ResponseOK
  <2>2. o \notin DOMAIN Valid(response.config)
    BY <1>2, <2>1 DEF Watched, OnlyWithAccepted
  <2>3. QED
    BY <1>1, <2>2 DEF NewConfig
<1>3. QED
  BY <1>1, <1>2

\* What Callbacks applies.
LEMMA Applies ==
  ASSUME NEW S, NEW c, Callbacks(S, c), NEW o \in WithCallback
  PROVE  applied'[o] = IF o \in S THEN Value(c, o) ELSE applied[o]
BY DEF Callbacks

LEMMA InitSync == Init => SyncInv
<1> SUFFICES ASSUME Init PROVE SyncInv
  OBVIOUS
<1>1. ASSUME NEW o, Watched(o) PROVE OptionInv(o)
  BY <1>1 DEF Init, Watched, OptionInv, Value
<1>2. QED
  BY <1>1, InitHonest DEF SyncInv, PlaceOK, Init

LEMMA NextSync == SyncInv /\ [Next]_vars => SyncInv'
<1> SUFFICES ASSUME SyncInv, [Next]_vars PROVE SyncInv'
  OBVIOUS
<1>1. PlaceOK'
  BY DEF SyncInv, PlaceOK, Next, UpdateConfig, ServerChange, FetchOk, FetchFails,
         FetchRefused, Fetch, Update, Swap, Keep, Reset, RunCallbacks, vars
<1>2. ASSUME NEW o, Watched(o)
      PROVE  OptionInv(o)'
  <2>1. OptionInv(o) /\ o \in Options /\ o \in WithCallback /\ o \in DOMAIN First
    BY <1>2, CentralConfigAssumption DEF SyncInv, Watched
  <2>2. CASE Update
    <3>1. /\ pc = "fetched" /\ response.config # Nothing /\ config' = config
          /\ Callbacks({p \in Options : Value(config, p) # Value(NewConfig, p)}, NewConfig)
      BY <2>2 DEF Update, HasConfig
    <3>2. /\ o \in DOMAIN NewConfig
          /\ Rejected(response.config) => NewConfig[o] = config[o]
      BY <1>2, <2>1, <3>1, NewValue DEF SyncInv, OptionInv
    <3>3. applied[o] = config[o] /\ o \in DOMAIN config
      BY <2>1, <3>1 DEF OptionInv
    <3>4. applied'[o] = NewConfig[o]
      BY <2>1, <3>1, <3>2, <3>3, Applies DEF Value
    <3>5. CASE Rejected(response.config)
      <4>1. pc' = "idle"
        BY <2>2, <3>5 DEF Update
      <4>2. QED
        BY <3>1, <3>2, <3>3, <3>4, <3>5, <4>1 DEF OptionInv
    <3>6. CASE ~Rejected(response.config)
      <4>1. pc' = "swap" /\ todo' = NewConfig
        BY <2>2, <3>6 DEF Update
      <4>2. QED
        BY <3>1, <3>2, <3>3, <3>4, <4>1 DEF OptionInv
    <3>7. QED
      BY <3>5, <3>6
  <2>3. CASE Swap
    BY <2>1, <2>3 DEF Swap, OptionInv
  <2>4. CASE Reset
    BY <2>1, <2>4 DEF Reset, ResetCallbacks, OptionInv
  <2>5. CASE RunCallbacks
    <3>1. applied'[o] = First[o]
      BY <2>1, <2>5, Applies DEF RunCallbacks, OptionInv, Value
    <3>2. QED
      BY <2>1, <2>5, <3>1 DEF RunCallbacks, OptionInv
  <2>6. ASSUME UNCHANGED <<config, applied, todo>>,
               pc' = pc \/ (pc \in {"idle", "fetched"} /\ pc' \in {"idle", "fetched"})
        PROVE  OptionInv(o)'
    BY <2>1, <2>6 DEF OptionInv
  <2>7. CASE Keep \/ FetchOk \/ FetchFails \/ FetchRefused
    BY <2>6, <2>7 DEF Keep, FetchOk, FetchFails, FetchRefused, Fetch
  <2>8. CASE UNCHANGED vars \/ \E v \in Versions : ServerChange(v)
    BY <2>6, <2>8 DEF vars, ServerChange
  <2>9. QED
    BY <2>2, <2>3, <2>4, <2>5, <2>7, <2>8 DEF Next, UpdateConfig
<1>3. HonestInv'
  BY NextHonest DEF SyncInv
<1>4. QED
  BY <1>1, <1>2, <1>3 DEF SyncInv, Watched, OnlyWithAccepted, Rejected, Valid

\* Through updates, rejected updates, failing polls and resets: between two polls
\* the callbacks have applied what the configuration says.
THEOREM CallbacksStayInSync == Spec => []CallbacksInSync
<1>1. SyncInv => CallbacksInSync
  BY DEF SyncInv, Watched, OptionInv, CallbacksInSync, InSync, Value
<1>2. QED
  BY <1>1, InitSync, NextSync, PTL DEF Spec
=============================================================================
