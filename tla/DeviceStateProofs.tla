------------------------- MODULE DeviceStateProofs -------------------------
(***************************************************************************)
(* Why a quiet device and its record agree, for any number of users,       *)
(* devices, requests and messages.  What the device last said travels from *)
(* the device to the queue of statuses, from there to the callback, and    *)
(* from there to the row; Agreement says of each of the three places what  *)
(* is true of it until something overtakes it.                             *)
(***************************************************************************)
EXTENDS DeviceState, SequenceTheorems, TLAPS

\* A status, a state to be written or a row says what the device is.
TrueOf(s, d) == s.power = phys[d].power /\ s.level = phys[d].level

Awaited(d) == \E i \in DOMAIN statuses : statuses[i].dev = d

\* The last status of a device under way is true, unless one was missed since.
LastStatusIsTrue ==
    \A d \in Devices \ unheard : \A i \in DOMAIN statuses :
        /\ statuses[i].dev = d
        /\ \A j \in DOMAIN statuses : i < j => statuses[j].dev # d
        => TrueOf(statuses[i], d)

\* What the callback is about to write is true, unless a later status is under
\* way or was missed.
SyncIsTrue ==
    sync # Idle => \/ sync.dev \in unheard \/ Awaited(sync.dev)
                   \/ TrueOf(sync.state, sync.dev)

\* Nothing is under way that the row does not have.  A voice command between
\* its write and its publication is; one before its write is not.
Settled(d) ==
    /\ Exists(d) /\ d \notin unsent \union unheard
    /\ cmds[d] = <<>> /\ ~Awaited(d)
    /\ sync # Idle => sync.dev # d
    /\ \A v \in Voices : voice[v].pc = "publish" => voice[v].dev # d

RowIsTrue == \A d \in Devices : Settled(d) => TrueOf(row[d], d)

Agreement == LastStatusIsTrue /\ SyncIsTrue /\ RowIsTrue

Safety == TypeOK /\ Agreement /\ WritesInTheOwnersName

-----------------------------------------------------------------------------
(* Records and the merging of states *)

\* What a request, a command and the callback are when they are not idle.
LEMMA Busy ==
    ASSUME TypeOK
    PROVE  /\ \A p \in Puts : /\ put[p] # Idle => put[p] \in PutRequest
                              /\ put[p].pc \in {"check", "upsert"} => put[p] \in PutRequest
           /\ \A v \in Voices :
                /\ voice[v] # Idle => voice[v] \in VoiceRun
                /\ voice[v].pc = "read" =>
                     voice[v] \in [pc : {"read"}, dev : Devices, user : Users, cmd : Commands]
                /\ voice[v].pc \in {"check", "upsert", "publish"} =>
                     voice[v] \in [pc : {"check", "upsert", "publish"}, dev : Devices,
                                   user : Users, cmd : Commands, state : State]
           /\ sync.pc = "upsert" => sync # Idle
           /\ sync # Idle => sync \in [pc : {"upsert"}, dev : Devices, state : State]
<1>1. Idle.pc = "idle"
  BY DEF Idle
<1>2. \A p \in Puts : put[p] \in PutRequest \union {Idle}
  BY DEF TypeOK
<1>3. \A v \in Voices : voice[v] \in VoiceRun \union {Idle}
  BY DEF TypeOK
<1>4. sync \in [pc : {"upsert"}, dev : Devices, state : State] \union {Idle}
  BY DEF TypeOK
<1> QED
  BY <1>1, <1>2, <1>3, <1>4 DEF PutRequest, VoiceRun

\* Merging a body, or a command, into a row gives a row.
LEMMA Merged ==
    ASSUME NEW s \in State
    PROVE  /\ \A e \in Edit : Merge(s, e) \in State
           /\ \A c \in Command : ApplyAction(s, c) \in State
<1>1. s.power \in BOOLEAN /\ s.level \in Levels \union {None} /\ s = [power |-> s.power, level |-> s.level]
  BY DEF State
<1>2. ASSUME NEW e \in Edit
      PROVE  Merge(s, e) \in State
  <2>1. e.power = None \/ e.power \in BOOLEAN
    BY DEF Edit
  <2>2. e.level \in Levels \union {None}
    BY DEF Edit
  <2>3. (IF e.power = None THEN s.power ELSE e.power) \in BOOLEAN
    BY <1>1, <2>1
  <2>4. (IF e.level = None THEN s.level ELSE e.level) \in Levels \union {None}
    BY <1>1, <2>2
  <2> QED
    BY <2>3, <2>4 DEF Merge, State
<1>3. ASSUME NEW c \in Command
      PROVE  ApplyAction(s, c) \in State
  <2>1. c.action \in Actions /\ c.level \in Levels \union {None}
    BY DEF Command
  <2>2. CASE c.action = "turn_on"
    BY <1>1, <2>2 DEF ApplyAction, State
  <2>3. CASE c.action = "turn_off"
    BY <1>1, <2>3 DEF ApplyAction, State
  <2>4. CASE c.action = "set"
    BY <2>1, <2>4 DEF ApplyAction, State
  <2>5. CASE c.action = "set_other"
    BY <1>1, <2>5 DEF ApplyAction, State
  <2> QED
    BY <2>1, <2>2, <2>3, <2>4, <2>5 DEF Actions
<1> QED
  BY <1>2, <1>3

\* A status leaves nothing of the row it is merged into.
LEMMA StatusMerged ==
    ASSUME NEW s \in State, NEW m \in Status
    PROVE  Merge(s, m) \in State /\ Merge(s, m).power = m.power /\ Merge(s, m).level = m.level
<1>1. m.power \in BOOLEAN /\ m.level \in Levels
  BY DEF Status
<1>2. m.power # None /\ m.level # None
  BY <1>1, StateAssumption
<1>3. Merge(s, m) = [power |-> m.power, level |-> m.level]
  BY <1>2 DEF Merge
<1> QED
  BY <1>1, <1>3 DEF State

PhysState == [kind : Kinds, power : BOOLEAN, level : Levels]

\* A command leaves a device in a state it can be in.
LEMMA AppliedType ==
    ASSUME NEW f \in PhysState, NEW c \in Commands
    PROVE  Applied(f, c) \in PhysState
<1>1. /\ c.action \in Actions /\ c.level \in Levels \union {None}
      /\ c.action = "set" => c.level \in Levels
  BY StateAssumption DEF Command
<1>2. 0 \in Levels /\ 100 \in Levels
  BY StateAssumption
<1>3. CurtainApplied(f, c) \in PhysState
  <2>1. CASE c.action = "turn_on"
    BY <1>2, <2>1 DEF CurtainApplied, PhysState
  <2>2. CASE c.action = "turn_off"
    BY <1>2, <2>2 DEF CurtainApplied, PhysState
  <2>3. CASE c.action = "set"
    BY <1>1, <2>3 DEF CurtainApplied, PhysState
  <2>4. CASE c.action = "set_other"
    BY <2>4 DEF CurtainApplied
  <2> QED
    BY <1>1, <2>1, <2>2, <2>3, <2>4 DEF Actions
<1>4. SwitchApplied(f, c) \in PhysState
  <2>1. CASE c.action = "turn_on"
    <3>1. (IF f.kind = "light" /\ c.level # None THEN c.level ELSE f.level) \in Levels
      BY <1>1 DEF PhysState
    <3> QED
      BY <2>1, <3>1 DEF SwitchApplied, PhysState
  <2>2. CASE c.action = "turn_off"
    BY <2>2 DEF SwitchApplied, PhysState
  <2>3. CASE c.action = "set"
    BY <1>1, <2>3 DEF SwitchApplied, PhysState
  <2>4. CASE c.action = "set_other"
    BY <2>4 DEF SwitchApplied
  <2> QED
    BY <1>1, <2>1, <2>2, <2>3, <2>4 DEF Actions
<1> QED
  BY <1>3, <1>4 DEF Applied

-----------------------------------------------------------------------------

\* What a report adds to the statuses on their way.
LEMMA Reported ==
    ASSUME TypeOK, NEW d \in Devices, NEW f \in PhysState, Report(d, f)
    PROVE  /\ statuses' \in Seq(Status) /\ Len(statuses') <= MaxStatuses
           /\ unheard' \subseteq Devices
           /\ DOMAIN statuses = 1..Len(statuses) /\ Len(statuses) \in Nat
           /\ \/ /\ unheard' = unheard \ {d}
                 /\ DOMAIN statuses' = 1..(Len(statuses) + 1)
                 /\ \A i \in DOMAIN statuses : statuses'[i] = statuses[i]
                 /\ statuses'[Len(statuses) + 1] = [dev |-> d, power |-> f.power, level |-> f.level]
              \/ unheard' = unheard \union {d} /\ statuses' = statuses
<1> DEFINE m == [dev |-> d, power |-> f.power, level |-> f.level]
<1>1. /\ statuses \in Seq(Status) /\ Len(statuses) \in Nat /\ Len(statuses) <= MaxStatuses
      /\ DOMAIN statuses = 1..Len(statuses) /\ unheard \subseteq Devices /\ MaxStatuses \in Nat
  BY LenProperties, StateAssumption DEF TypeOK
<1>2. m \in Status
  BY DEF Status, PhysState
<1>3. CASE bridge
  <2>1. statuses' = Append(statuses, m) /\ Len(statuses) < MaxStatuses /\ unheard' = unheard \ {d}
    BY <1>3 DEF Report
  <2> HIDE DEF m
  <2>2. /\ statuses' \in Seq(Status) /\ Len(statuses') = Len(statuses) + 1
        /\ DOMAIN statuses' = 1..(Len(statuses) + 1)
        /\ \A i \in 1..Len(statuses) : statuses'[i] = statuses[i]
        /\ statuses'[Len(statuses) + 1] = m
    BY <1>1, <1>2, <2>1, AppendProperties, LenProperties
  <2>3. statuses'[Len(statuses) + 1] = [dev |-> d, power |-> f.power, level |-> f.level]
    BY <2>2 DEF m
  <2>4. Len(statuses') <= MaxStatuses /\ unheard' \subseteq Devices
    BY <1>1, <2>1, <2>2
  <2> QED
    BY <1>1, <2>1, <2>2, <2>3, <2>4
<1>4. CASE ~bridge
  BY <1>1, <1>4 DEF Report
<1> QED
  BY <1>3, <1>4

\* Every step keeps the types.
LEMMA TypeStep ==
    ASSUME TypeOK, [Next]_vars
    PROVE  TypeOK'
<1> USE DEF TypeOK
<1>1. /\ statuses \in Seq(Status) /\ Len(statuses) \in Nat /\ MaxStatuses \in Nat /\ MaxCmds \in Nat
      /\ row \in [Devices -> State] /\ phys \in [Devices -> PhysState]
      /\ cmds \in [Devices -> Seq(Commands)]
  BY LenProperties, StateAssumption DEF PhysState
<1>2. ASSUME NEW p \in Puts, NEW u \in Users, NEW d \in Devices, NEW e \in Edits, PutRead(p, u, d, e)
      PROVE  TypeOK'
  <2>1. Merge(row[d], e) \in State
    BY StateAssumption, Merged
  <2>2. [pc |-> "check", dev |-> d, user |-> u, edit |-> e, state |-> Merge(row[d], e)] \in PutRequest
    BY <2>1 DEF PutRequest
  <2> QED
    BY <1>2, <2>2 DEF PutRead, mqttVars, ghosts
<1>3. ASSUME NEW p \in Puts, PutCheck(p)
      PROVE  TypeOK'
  <2>1. put[p] \in PutRequest
    BY <1>3, Busy DEF PutCheck
  <2>2. [put[p] EXCEPT !.pc = "upsert"] \in PutRequest
    BY <2>1 DEF PutRequest
  <2> QED
    BY <1>3, <2>2 DEF PutCheck, mqttVars, ghosts
<1>4. ASSUME NEW p \in Puts, PutUpsert(p)
      PROVE  TypeOK'
  <2>1. put[p].dev \in Devices /\ put[p].state \in State
    BY <1>4, Busy DEF PutUpsert, PutRequest
  <2>2. row' \in [Devices -> State]
    BY <1>1, <1>4, <2>1 DEF PutUpsert, Upsert
  <2> QED
    BY <1>4, <2>1, <2>2 DEF PutUpsert, mqttVars
<1>5. ASSUME NEW v \in Voices, NEW d \in Devices, NEW c \in Commands, VoiceLookup(v, d, c)
      PROVE  TypeOK'
  <2>1. [pc |-> "read", dev |-> d, user |-> owner[d], cmd |-> c] \in VoiceRun
    BY <1>5 DEF VoiceLookup, VoiceRun
  <2> QED
    BY <1>5, <2>1 DEF VoiceLookup, VoiceStep, mqttVars, ghosts
<1>6. ASSUME NEW v \in Voices, VoiceRead(v)
      PROVE  TypeOK'
  <2> DEFINE r == voice[v]
             q == [pc |-> "check", dev |-> r.dev, user |-> r.user,
                   cmd |-> r.cmd, state |-> ApplyAction(row[r.dev], r.cmd)]
  <2>1. r.dev \in Devices /\ r.user \in Users /\ r.cmd \in Commands
    BY <1>6, Busy DEF VoiceRead
  <2>2. ApplyAction(row[r.dev], r.cmd) \in State
    BY <1>1, <2>1, Merged, StateAssumption
  <2>3. q \in VoiceRun
    BY <2>1, <2>2 DEF VoiceRun
  <2>4. voice' = [voice EXCEPT ![v] = q] \/ voice' = [voice EXCEPT ![v] = Idle]
    BY <1>6 DEF VoiceRead, VoiceStep
  <2> HIDE DEF q
  <2> QED
    BY <1>6, <2>3, <2>4 DEF VoiceRead, VoiceStep, mqttVars, ghosts
<1>7. ASSUME NEW v \in Voices, VoiceCheck(v)
      PROVE  TypeOK'
  <2>1. [voice[v] EXCEPT !.pc = "upsert"] \in VoiceRun
    <3>1. voice[v] \in [pc : {"check", "upsert", "publish"}, dev : Devices,
                        user : Users, cmd : Commands, state : State]
      BY <1>7, Busy DEF VoiceCheck
    <3> QED
      BY <3>1 DEF VoiceRun
  <2> QED
    BY <1>7, <2>1 DEF VoiceCheck, VoiceStep, mqttVars, ghosts
<1>8. ASSUME NEW v \in Voices, VoiceUpsert(v)
      PROVE  TypeOK'
  <2>1. voice[v] \in [pc : {"check", "upsert", "publish"}, dev : Devices,
                      user : Users, cmd : Commands, state : State]
    BY <1>8, Busy DEF VoiceUpsert
  <2>2. [voice[v] EXCEPT !.pc = "publish"] \in VoiceRun
    BY <2>1 DEF VoiceRun
  <2>3. row' \in [Devices -> State]
    BY <1>1, <1>8, <2>1 DEF VoiceUpsert, Upsert
  <2> QED
    BY <1>8, <2>2, <2>3 DEF VoiceUpsert, VoiceStep, mqttVars, ghosts
<1>9. ASSUME NEW v \in Voices, VoicePublish(v)
      PROVE  TypeOK'
  <2>1. PICK d \in Devices, c \in Commands : d = voice[v].dev /\ c = voice[v].cmd
    BY <1>9, Busy DEF VoicePublish
  <2>2. \/ /\ Len(cmds[d]) < MaxCmds /\ cmds' = [cmds EXCEPT ![d] = Append(cmds[d], c)]
           /\ UNCHANGED unsent
        \/ unsent' = unsent \union {d} /\ UNCHANGED cmds
    BY <1>9, <2>1 DEF VoicePublish
  <2>3. Append(cmds[d], c) \in Seq(Commands) /\ Len(Append(cmds[d], c)) = Len(cmds[d]) + 1 /\ Len(cmds[d]) \in Nat
    BY <1>1, <2>1, AppendProperties, LenProperties
  <2>4. cmds' \in [Devices -> Seq(Commands)] /\ \A e \in Devices : Len(cmds'[e]) <= MaxCmds
    <3>1. CASE UNCHANGED cmds
      BY <1>1, <3>1
    <3>2. CASE Len(cmds[d]) < MaxCmds /\ cmds' = [cmds EXCEPT ![d] = Append(cmds[d], c)]
      <4> DEFINE a == Append(cmds[d], c)
      <4> HIDE DEF a
      <4>1. a \in Seq(Commands) /\ Len(a) = Len(cmds[d]) + 1
        BY <2>3 DEF a
      <4>2. Len(a) <= MaxCmds
        BY <1>1, <2>3, <3>2, <4>1
      <4>3. cmds' = [cmds EXCEPT ![d] = a]
        BY <3>2 DEF a
      <4> QED
        BY <1>1, <4>1, <4>2, <4>3
    <3> QED
      BY <2>2, <3>1, <3>2
  <2> QED
    BY <1>9, <2>2, <2>4 DEF VoicePublish, VoiceStep
<1>10. ASSUME NEW d \in Devices, DeviceConnect(d)
       PROVE  TypeOK'
  <2>1. statuses' \in Seq(Status) /\ Len(statuses') <= MaxStatuses /\ unheard' \subseteq Devices
    <3>1. phys[d] \in PhysState /\ Report(d, phys[d])
      BY <1>1, <1>10 DEF DeviceConnect
    <3> HIDE DEF TypeOK
    <3> QED
      BY <3>1, Reported
  <2> QED
    BY <1>10, <2>1 DEF DeviceConnect, srvVars
<1>11. ASSUME NEW d \in Devices, DeviceDrop(d)
       PROVE  TypeOK'
  <2>1. <<>> \in Seq(Commands) /\ Len(<<>>) <= MaxCmds
    BY <1>1
  <2>2. cmds' \in [Devices -> Seq(Commands)] /\ \A e \in Devices : Len(cmds'[e]) <= MaxCmds
    BY <1>1, <1>11, <2>1 DEF DeviceDrop
  <2> QED
    BY <1>11, <2>2 DEF DeviceDrop, srvVars
<1>12. ASSUME NEW d \in Devices, DeviceApply(d)
       PROVE  TypeOK'
  <2> DEFINE f == Applied(phys[d], Head(cmds[d]))
  <2>1. cmds[d] \in Seq(Commands) /\ cmds[d] # <<>>
    BY <1>1, <1>12 DEF DeviceApply
  <2>2. /\ Head(cmds[d]) \in Commands /\ Tail(cmds[d]) \in Seq(Commands)
        /\ Len(Tail(cmds[d])) = Len(cmds[d]) - 1 /\ Len(cmds[d]) \in Nat
    BY <2>1, HeadTailProperties, LenProperties
  <2>3. f \in PhysState
    BY <1>1, <2>2, AppliedType
  <2>4. phys' = [phys EXCEPT ![d] = f] /\ Report(d, f) /\ cmds' = [cmds EXCEPT ![d] = Tail(cmds[d])]
    BY <1>12 DEF DeviceApply
  <2> HIDE DEF f
  <2>5. phys' \in [Devices -> PhysState]
    BY <1>1, <2>3, <2>4
  <2>6. statuses' \in Seq(Status) /\ Len(statuses') <= MaxStatuses /\ unheard' \subseteq Devices
    BY <2>3, <2>4, Reported
  <2>7. cmds' \in [Devices -> Seq(Commands)] /\ \A e \in Devices : Len(cmds'[e]) <= MaxCmds
    BY <1>1, <2>2, <2>4
  <2> QED
    BY <1>12, <2>5, <2>6, <2>7 DEF DeviceApply, srvVars, PhysState
<1>13. CASE BridgeDrop
  <2>1. <<>> \in Seq(Status) /\ Len(<<>>) <= MaxStatuses
    BY <1>1
  <2>2. unheard' \subseteq Devices
    <3>1. \A s \in Range(statuses) : s \in Status
      BY <1>1, RangeOfSeq DEF Range
    <3> QED
      BY <1>13, <3>1 DEF BridgeDrop, Status
  <2> QED
    BY <1>13, <2>1, <2>2 DEF BridgeDrop, srvVars
<1>14. CASE BridgeConnect
  BY <1>14 DEF BridgeConnect, srvVars, ghosts
<1>15. CASE SyncRead
  <2> DEFINE m == Head(statuses)
  <2>1. /\ m \in Status /\ Tail(statuses) \in Seq(Status)
        /\ Len(Tail(statuses)) = Len(statuses) - 1
    BY <1>1, <1>15, HeadTailProperties DEF SyncRead
  <2>2. m.dev \in Devices /\ Merge(row[m.dev], m) \in State
    <3>1. m.dev \in Devices
      BY <2>1 DEF Status
    <3> QED
      BY <1>1, <2>1, <3>1, StatusMerged
  <2>3. \/ sync' = Idle
        \/ sync' = [pc |-> "upsert", dev |-> m.dev, state |-> Merge(row[m.dev], m)]
    BY <1>15 DEF SyncRead
  <2>4. statuses' \in Seq(Status) /\ Len(statuses') <= MaxStatuses
    BY <1>1, <1>15, <2>1 DEF SyncRead
  <2> HIDE DEF m
  <2> QED
    BY <1>15, <2>2, <2>3, <2>4 DEF SyncRead, ghosts
<1>16. CASE SyncUpsert
  <2>1. sync.dev \in Devices /\ sync.state \in State
    BY <1>16, Busy DEF SyncUpsert
  <2>2. row' \in [Devices -> State]
    BY <1>1, <1>16, <2>1 DEF SyncUpsert, Upsert
  <2> QED
    BY <1>16, <2>2 DEF SyncUpsert, mqttVars
<1>17. CASE OwnershipStep
  <2>1. owner' \in [Devices -> Users \union {Pool, Orphan, Gone}]
    BY <1>17 DEF OwnershipStep, Own!Next, Own!Bind, Own!Abandon, Own!Remove
  <2> QED
    BY <1>17, <2>1 DEF OwnershipStep, srvVars, mqttVars, ghosts
<1>18. CASE UNCHANGED vars
  BY <1>18 DEF vars, srvVars, mqttVars, ghosts
<1> QED
  BY <1>2, <1>3, <1>4, <1>5, <1>6, <1>7, <1>8, <1>9, <1>10, <1>11, <1>12, <1>13, <1>14, <1>15,
     <1>16, <1>17, <1>18 DEF Next

-----------------------------------------------------------------------------
(* Agreement *)

\* A step that leaves the device and its statuses alone keeps the agreement if
\* the rows of the devices it leaves settled are what they were.
LEMMA AgreementStays ==
    ASSUME Agreement, UNCHANGED <<phys, statuses, sync, unheard>>,
           \A d \in Devices : Settled(d)' => Settled(d) /\ row'[d] = row[d]
    PROVE  Agreement'
<1>1. \A s, d : TrueOf(s, d)' <=> TrueOf(s, d)
  BY DEF TrueOf
<1>2. LastStatusIsTrue'
  BY DEF Agreement, LastStatusIsTrue, TrueOf
<1>3. SyncIsTrue'
  BY DEF Agreement, SyncIsTrue, Awaited, TrueOf
<1>4. RowIsTrue'
  BY DEF Agreement, RowIsTrue, TrueOf
<1> QED
  BY <1>2, <1>3, <1>4 DEF Agreement

\* A device that exists after a step existed before it.
LEMMA GoneForEver ==
    ASSUME TypeOK, OwnershipStep, NEW d \in Devices, Exists(d)'
    PROVE  Exists(d)
<1>1. owner' # owner => (owner[d] = Gone => owner'[d] = Gone)
  BY StateAssumption DEF OwnershipStep, Own!Next, Own!Bind, Own!Abandon, Own!Remove, TypeOK
<1> QED
  BY <1>1 DEF Exists

\* A report makes the last status true of the device as it is now.
LEMMA ReportAgrees ==
    ASSUME TypeOK, Agreement, NEW d \in Devices, NEW f \in PhysState, Report(d, f),
           UNCHANGED <<owner, row, voice, sync, unsent>>, phys'[d] = f,
           \A e \in Devices \ {d} : phys'[e] = phys[e] /\ cmds'[e] = cmds[e]
    PROVE  Agreement'
<1>1. /\ DOMAIN statuses = 1..Len(statuses) /\ Len(statuses) \in Nat
      /\ \/ /\ unheard' = unheard \ {d}
            /\ DOMAIN statuses' = 1..(Len(statuses) + 1)
            /\ \A i \in DOMAIN statuses : statuses'[i] = statuses[i]
            /\ statuses'[Len(statuses) + 1] = [dev |-> d, power |-> f.power, level |-> f.level]
         \/ unheard' = unheard \union {d} /\ statuses' = statuses
  BY Reported
<1>2. \A e \in Devices \ {d} : Awaited(e)' <=> Awaited(e)
  BY <1>1 DEF Awaited
<1>3. ~Settled(d)' /\ (d \in unheard' \/ Awaited(d)')
  BY <1>1 DEF Settled, Awaited
<1>4. LastStatusIsTrue'
  <2>1. SUFFICES ASSUME NEW e \in Devices \ unheard', NEW i \in DOMAIN statuses',
                        statuses'[i].dev = e,
                        \A j \in DOMAIN statuses' : i < j => statuses'[j].dev # e
                 PROVE  statuses'[i].power = phys'[e].power /\ statuses'[i].level = phys'[e].level
    BY DEF LastStatusIsTrue, TrueOf
  <2>2. CASE e = d
    BY <1>1, <2>1, <2>2
  <2>3. CASE e # d
    <3>1. i \in DOMAIN statuses /\ statuses'[i] = statuses[i] /\ e \notin unheard
      BY <1>1, <2>1, <2>3
    <3>2. \A j \in DOMAIN statuses : i < j => statuses[j].dev # e
      BY <1>1, <2>1
    <3> QED
      BY <2>1, <2>3, <3>1, <3>2 DEF Agreement, LastStatusIsTrue, TrueOf
  <2> QED
    BY <2>2, <2>3
<1>5. SyncIsTrue'
  <2>1. SUFFICES ASSUME sync # Idle, sync.dev # d
                 PROVE  \/ sync.dev \in unheard' \/ Awaited(sync.dev)'
                        \/ TrueOf(sync.state, sync.dev)'
    BY <1>3 DEF SyncIsTrue
  <2>2. PICK e \in Devices : e = sync.dev
    BY <2>1, Busy
  <2>3. e \in unheard \/ Awaited(e) \/ TrueOf(sync.state, e)
    BY <2>1, <2>2 DEF Agreement, SyncIsTrue
  <2>4. e \in unheard' \/ Awaited(e)' \/ TrueOf(sync.state, e)'
    BY <1>1, <1>2, <2>1, <2>2, <2>3 DEF TrueOf
  <2> QED
    BY <2>2, <2>4 DEF TrueOf, Awaited
<1>6. RowIsTrue'
  <2>1. SUFFICES ASSUME NEW e \in Devices, Settled(e)'
                 PROVE  TrueOf(row[e], e)'
    BY DEF RowIsTrue
  <2>2. e # d
    BY <1>3, <2>1
  <2>3. Settled(e)
    BY <1>1, <1>2, <2>1, <2>2 DEF Settled, Exists
  <2> QED
    BY <2>2, <2>3 DEF Agreement, RowIsTrue, TrueOf
<1> QED
  BY <1>4, <1>5, <1>6 DEF Agreement

\* Every step keeps the agreement.
LEMMA AgreementStep ==
    ASSUME TypeOK, Agreement, [Next]_vars
    PROVE  Agreement'
<1>1. ASSUME UNCHANGED <<owner, row, voice, sync, cmds, phys, statuses, unsent, unheard>>
      PROVE  Agreement'
  BY <1>1, AgreementStays DEF Settled, Exists, Awaited
<1>2. ASSUME NEW p \in Puts, NEW u \in Users, NEW d \in Devices, NEW e \in Edits, PutRead(p, u, d, e)
      PROVE  Agreement'
  BY <1>1, <1>2 DEF PutRead, mqttVars, ghosts
<1>3. ASSUME NEW p \in Puts, PutCheck(p)
      PROVE  Agreement'
  BY <1>1, <1>3 DEF PutCheck, mqttVars, ghosts
<1>4. ASSUME NEW p \in Puts, PutUpsert(p)
      PROVE  Agreement'
  <2>1. /\ unsent' = unsent \union {put[p].dev}
        /\ UNCHANGED <<owner, voice, sync, cmds, phys, statuses, unheard>>
        /\ \A d \in Devices : d # put[p].dev => row'[d] = row[d]
    BY <1>4 DEF PutUpsert, Upsert, mqttVars, TypeOK
  <2>2. \A d \in Devices : Settled(d)' => Settled(d) /\ row'[d] = row[d]
    BY <2>1 DEF Settled, Exists, Awaited
  <2> QED
    BY <2>1, <2>2, AgreementStays
\* A command that is not past its write changes nothing a device depends on.
<1>5. ASSUME NEW v \in Voices, NEW r, VoiceStep(v, r), voice[v].pc # "publish",
             UNCHANGED <<row, mqttVars, ghosts>>
      PROVE  Agreement'
  <2>1. /\ voice' = [voice EXCEPT ![v] = r]
        /\ UNCHANGED <<owner, row, sync, cmds, phys, statuses, unsent, unheard>>
    BY <1>5 DEF VoiceStep, mqttVars, ghosts
  <2>2. \A w \in Voices : voice[w].pc = "publish" => voice'[w] = voice[w]
    BY <1>5, <2>1 DEF TypeOK
  <2>3. \A d \in Devices : Settled(d)' => Settled(d)
    BY <2>1, <2>2 DEF Settled, Exists, Awaited
  <2> QED
    BY <2>1, <2>3, AgreementStays
<1>6. ASSUME NEW v \in Voices, NEW d \in Devices, NEW c \in Commands, VoiceLookup(v, d, c)
      PROVE  Agreement'
  BY <1>5, <1>6 DEF VoiceLookup, Idle
<1>7. ASSUME NEW v \in Voices, VoiceRead(v) \/ VoiceCheck(v)
      PROVE  Agreement'
  BY <1>5, <1>7 DEF VoiceRead, VoiceCheck
<1>8. ASSUME NEW v \in Voices, VoiceUpsert(v)
      PROVE  Agreement'
  <2>1. PICK d \in Devices : d = voice[v].dev
    BY <1>8, Busy DEF VoiceUpsert
  <2>2. /\ UNCHANGED <<owner, sync, cmds, phys, statuses, unsent, unheard>>
        /\ \A e \in Devices : e # d \/ ~Exists(d) => row'[e] = row[e]
        /\ \A w \in Voices \ {v} : voice'[w] = voice[w]
        /\ voice[v].pc = "upsert" /\ voice[v] \in VoiceRun
    <3>1. /\ UNCHANGED <<owner, sync, cmds, phys, statuses, unsent, unheard>>
          /\ row' = IF Exists(d) THEN [row EXCEPT ![d] = voice[v].state] ELSE row
          /\ voice' = [voice EXCEPT ![v] =
                         IF Exists(d) THEN [voice[v] EXCEPT !.pc = "publish"] ELSE Idle]
          /\ voice[v].pc = "upsert"
      BY <1>8, <2>1 DEF VoiceUpsert, VoiceStep, Upsert, mqttVars, ghosts
    <3>2. row \in [Devices -> State] /\ voice \in [Voices -> VoiceRun \union {Idle}]
      BY DEF TypeOK
    <3>3. voice[v] \in VoiceRun
      BY <3>1, Busy DEF VoiceRun
    <3> HIDE DEF VoiceRun
    <3> QED
      BY <3>1, <3>2, <3>3
  <2>3. Exists(d) => voice'[v].pc = "publish" /\ voice'[v].dev = d
    <3>1. voice[v] \in [pc : {"check", "upsert", "publish"}, dev : Devices,
                        user : Users, cmd : Commands, state : State]
      BY <2>2, Busy
    <3>2. Exists(d) => voice'[v] = [voice[v] EXCEPT !.pc = "publish"]
      BY <1>8, <2>1 DEF VoiceUpsert, VoiceStep, TypeOK
    <3> QED
      BY <2>1, <3>1, <3>2
  <2>4. \A e \in Devices : Settled(e)' => Settled(e) /\ row'[e] = row[e]
    BY <2>2, <2>3 DEF Settled, Exists, Awaited
  <2> QED
    BY <2>2, <2>4, AgreementStays
<1>9. ASSUME NEW v \in Voices, VoicePublish(v)
      PROVE  Agreement'
  <2>1. PICK d \in Devices, c \in Commands : d = voice[v].dev /\ c = voice[v].cmd
    BY <1>9, Busy DEF VoicePublish
  <2>2. /\ UNCHANGED <<owner, row, sync, phys, statuses, unheard>>
        /\ \/ cmds' = [cmds EXCEPT ![d] = Append(cmds[d], c)] /\ UNCHANGED unsent
           \/ unsent' = unsent \union {d} /\ UNCHANGED cmds
        /\ \A w \in Voices \ {v} : voice'[w] = voice[w]
    BY <1>9, <2>1 DEF VoicePublish, VoiceStep, TypeOK
  <2>3. Append(cmds[d], c) # <<>>
    <3>1. cmds[d] \in Seq(Commands)
      BY DEF TypeOK
    <3> QED
      BY <3>1, AppendProperties
  <2>4. cmds'[d] # <<>> \/ d \in unsent'
    BY <2>2, <2>3 DEF TypeOK
  <2>5. \A e \in Devices \ {d} : cmds'[e] = cmds[e] /\ (e \in unsent' <=> e \in unsent)
    BY <2>2 DEF TypeOK
  <2>6. \A e \in Devices : Settled(e)' => Settled(e)
    BY <2>1, <2>2, <2>4, <2>5 DEF Settled, Exists, Awaited
  <2> QED
    BY <2>2, <2>6, AgreementStays
<1>10. ASSUME NEW d \in Devices, DeviceConnect(d)
       PROVE  Agreement'
  <2>1. phys[d] \in PhysState
    BY DEF TypeOK, PhysState
  <2> QED
    BY <1>10, <2>1, ReportAgrees DEF DeviceConnect, srvVars
<1>11. ASSUME NEW d \in Devices, DeviceDrop(d)
       PROVE  Agreement'
  <2>1. /\ UNCHANGED <<owner, row, voice, sync, phys, statuses, unheard>>
        /\ cmds[d] # <<>> => d \in unsent'
        /\ unsent \subseteq unsent' /\ \A e \in Devices \ {d} : cmds'[e] = cmds[e]
    BY <1>11 DEF DeviceDrop, srvVars, TypeOK
  <2>2. \A e \in Devices : Settled(e)' => Settled(e)
    BY <2>1 DEF Settled, Exists, Awaited
  <2> QED
    BY <2>1, <2>2, AgreementStays
<1>12. ASSUME NEW d \in Devices, DeviceApply(d)
       PROVE  Agreement'
  <2>1. PICK f \in PhysState : f = Applied(phys[d], Head(cmds[d]))
    <3>1. phys[d] \in PhysState /\ cmds[d] \in Seq(Commands) /\ cmds[d] # <<>>
      BY <1>12 DEF DeviceApply, TypeOK, PhysState
    <3>2. Head(cmds[d]) \in Commands
      BY <3>1, HeadTailProperties
    <3> QED
      BY <3>1, <3>2, AppliedType
  <2>2. /\ phys' = [phys EXCEPT ![d] = f] /\ Report(d, f) /\ cmds' = [cmds EXCEPT ![d] = Tail(cmds[d])]
        /\ UNCHANGED <<owner, row, voice, sync, unsent>>
    BY <1>12, <2>1 DEF DeviceApply, srvVars
  <2>3. phys'[d] = f /\ \A e \in Devices \ {d} : phys'[e] = phys[e] /\ cmds'[e] = cmds[e]
    BY <2>2 DEF TypeOK
  <2> QED
    BY <2>2, <2>3, ReportAgrees
<1>13. CASE BridgeDrop
  <2>1. /\ UNCHANGED <<owner, row, voice, sync, phys, cmds, unsent>>
        /\ statuses' = <<>> /\ DOMAIN statuses' = {}
        /\ unheard \subseteq unheard' /\ \A i \in DOMAIN statuses : statuses[i].dev \in unheard'
    BY <1>13 DEF BridgeDrop, srvVars, Range
  <2>2. \A d \in Devices \ unheard' : ~Awaited(d) /\ d \notin unheard
    BY <2>1 DEF Awaited
  <2>3. LastStatusIsTrue'
    BY <2>1 DEF LastStatusIsTrue
  <2>4. SyncIsTrue'
    BY <2>1 DEF Agreement, SyncIsTrue, Awaited, TrueOf
  <2>5. \A d \in Devices : Settled(d)' => Settled(d)
    BY <2>1, <2>2 DEF Settled, Exists
  <2>6. RowIsTrue'
    BY <2>1, <2>5 DEF Agreement, RowIsTrue, TrueOf
  <2> QED
    BY <2>3, <2>4, <2>6 DEF Agreement
<1>14. CASE BridgeConnect
  BY <1>1, <1>14 DEF BridgeConnect, srvVars, ghosts
<1>15. CASE SyncRead
  <2>1. PICK m \in Status : m = Head(statuses)
    BY <1>15, HeadTailProperties DEF SyncRead, TypeOK
  <2>2. m.dev \in Devices /\ row[m.dev] \in State
    BY DEF Status, TypeOK
  <2>3. /\ UNCHANGED <<owner, row, voice, phys, cmds, unsent, unheard>> /\ sync = Idle
        /\ statuses' = Tail(statuses)
        /\ IF Exists(m.dev) THEN sync' = [pc |-> "upsert", dev |-> m.dev, state |-> Merge(row[m.dev], m)]
                            ELSE sync' = Idle
    BY <1>15, <2>1 DEF SyncRead, ghosts
  <2>4. /\ Len(statuses) \in Nat \ {0} /\ DOMAIN statuses = 1..Len(statuses) /\ statuses[1] = m
        /\ DOMAIN statuses' = 1..(Len(statuses) - 1)
        /\ \A i \in DOMAIN statuses' : statuses'[i] = statuses[i + 1]
    BY <1>15, <2>1, <2>3, HeadTailProperties, LenProperties, EmptySeq DEF SyncRead, TypeOK
  <2>5. \A d : Awaited(d) => Awaited(d)' \/ d = m.dev
    <3>1. SUFFICES ASSUME NEW d, NEW i \in DOMAIN statuses, statuses[i].dev = d, d # m.dev
                   PROVE  \E j \in DOMAIN statuses' : statuses'[j].dev = d
      BY DEF Awaited
    <3>2. i - 1 \in DOMAIN statuses' /\ statuses'[i - 1] = statuses[i]
      BY <2>4, <3>1
    <3> QED
      BY <3>1, <3>2
  <2>6. LastStatusIsTrue'
    <3>1. SUFFICES ASSUME NEW d \in Devices \ unheard, NEW i \in DOMAIN statuses',
                          statuses'[i].dev = d,
                          \A j \in DOMAIN statuses' : i < j => statuses'[j].dev # d
                   PROVE  TrueOf(statuses'[i], d)
      BY <2>3 DEF LastStatusIsTrue, TrueOf
    <3>2. i + 1 \in DOMAIN statuses /\ statuses'[i] = statuses[i + 1]
      BY <2>4
    <3>3. \A j \in DOMAIN statuses : i + 1 < j => statuses[j].dev # d
      <4>1. \A j \in DOMAIN statuses : i + 1 < j =>
              j - 1 \in DOMAIN statuses' /\ i < j - 1 /\ statuses'[j - 1] = statuses[j]
        BY <2>4
      <4> QED
        BY <3>1, <4>1
    <3> QED
      BY <3>1, <3>2, <3>3 DEF Agreement, LastStatusIsTrue
  <2>7. SyncIsTrue'
    <3>1. SUFFICES ASSUME Exists(m.dev), m.dev \notin unheard, ~Awaited(m.dev)'
                   PROVE  SyncIsTrue'
      BY <2>3 DEF SyncIsTrue, Awaited
    <3>2. \A j \in DOMAIN statuses : 1 < j => statuses[j].dev # m.dev
      <4>1. \A j \in DOMAIN statuses : 1 < j =>
              j - 1 \in DOMAIN statuses' /\ statuses'[j - 1] = statuses[j]
        BY <2>4
      <4> QED
        BY <3>1, <4>1 DEF Awaited
    <3>3. TrueOf(m, m.dev)
      BY <2>2, <2>4, <3>1, <3>2 DEF Agreement, LastStatusIsTrue
    <3>4. sync'.dev = m.dev /\ sync'.state.power = m.power /\ sync'.state.level = m.level
      BY <2>2, <2>3, <3>1, StatusMerged
    <3> QED
      BY <2>3, <3>3, <3>4 DEF SyncIsTrue, TrueOf
  <2>8. RowIsTrue'
    <3>1. SUFFICES ASSUME NEW d \in Devices, Settled(d)'
                   PROVE  Settled(d)
      BY <2>3 DEF Agreement, RowIsTrue, TrueOf
    <3>2. d # m.dev
      <4>1. Exists(m.dev) => sync' # Idle /\ sync'.dev = m.dev
        BY <2>3 DEF Idle
      <4> QED
        BY <2>3, <3>1, <4>1 DEF Settled, Exists
    <3> QED
      BY <2>3, <2>5, <3>1, <3>2 DEF Settled, Exists
  <2> QED
    BY <2>6, <2>7, <2>8 DEF Agreement
<1>16. CASE SyncUpsert
  <2>1. sync # Idle
    BY <1>16, Busy DEF SyncUpsert
  <2>2. PICK d \in Devices : d = sync.dev
    BY <2>1, Busy
  <2>3. /\ UNCHANGED <<owner, voice, phys, statuses, cmds, unheard>> /\ sync' = Idle
        /\ \A e \in Devices \ {d} : row'[e] = row[e] /\ (e \in unsent' <=> e \in unsent)
        /\ Exists(d) => row'[d] = sync.state
    BY <1>16, <2>2 DEF SyncUpsert, Upsert, mqttVars, TypeOK
  <2>4. LastStatusIsTrue' /\ SyncIsTrue'
    BY <2>3 DEF Agreement, LastStatusIsTrue, SyncIsTrue, TrueOf
  <2>5. ASSUME NEW e \in Devices, Settled(e)'
        PROVE  TrueOf(row[e], e)'
    <3>1. CASE e = d
      <4>1. Exists(d) /\ d \notin unheard /\ ~Awaited(d)
        BY <2>3, <2>5, <3>1 DEF Settled, Exists, Awaited
      <4>2. TrueOf(sync.state, d)
        BY <2>1, <2>2, <4>1 DEF Agreement, SyncIsTrue
      <4> QED
        BY <2>3, <3>1, <4>1, <4>2 DEF TrueOf
    <3>2. CASE e # d
      <4>1. Settled(e)
        BY <2>2, <2>3, <2>5, <3>2 DEF Settled, Exists, Awaited
      <4> QED
        BY <2>3, <3>2, <4>1 DEF Agreement, RowIsTrue, TrueOf
    <3> QED
      BY <3>1, <3>2
  <2> QED
    BY <2>4, <2>5 DEF Agreement, RowIsTrue
<1>17. CASE OwnershipStep
  <2>1. UNCHANGED <<row, voice, sync, cmds, phys, statuses, unsent, unheard>>
    BY <1>17 DEF OwnershipStep, srvVars, mqttVars, ghosts
  <2>2. \A d \in Devices : Settled(d)' => Settled(d)
    BY <1>17, <2>1, GoneForEver DEF Settled, Awaited
  <2> QED
    BY <2>1, <2>2, AgreementStays
<1>18. CASE UNCHANGED vars
  BY <1>1, <1>18 DEF vars, srvVars, mqttVars, ghosts
<1> QED
  BY <1>2, <1>3, <1>4, <1>6, <1>7, <1>8, <1>9, <1>10, <1>11, <1>12, <1>13, <1>14, <1>15,
     <1>16, <1>17, <1>18 DEF Next

-----------------------------------------------------------------------------
(* Ownership *)

\* Every step keeps requests past their check in the name of the owner, or of the
\* last one.
LEMMA OwnersNameStep ==
    ASSUME TypeOK, WritesInTheOwnersName, [Next]_vars
    PROVE  WritesInTheOwnersName'
<1> USE DEF WritesInTheOwnersName
<1>1. put \in [Puts -> PutRequest \union {Idle}]
  BY DEF TypeOK
<1>2. ASSUME UNCHANGED owner,
             \A p \in Puts : put'[p] = put[p] \/ put'[p].pc # "upsert"
                               \/ owner[put'[p].dev] = put'[p].user
      PROVE  WritesInTheOwnersName'
  BY <1>2
<1>3. Idle.pc # "upsert"
  BY DEF Idle
<1>4. ASSUME NEW p \in Puts, NEW u \in Users, NEW d \in Devices, NEW e \in Edits, PutRead(p, u, d, e)
      PROVE  WritesInTheOwnersName'
  BY <1>1, <1>2, <1>4 DEF PutRead
<1>5. ASSUME NEW p \in Puts, PutCheck(p)
      PROVE  WritesInTheOwnersName'
  <2> DEFINE u == [put[p] EXCEPT !.pc = "upsert"]
  <2>1. put[p] \in PutRequest /\ UNCHANGED owner
    BY <1>5, Busy DEF PutCheck
  <2>2. u.dev = put[p].dev /\ u.user = put[p].user
    BY <2>1 DEF PutRequest
  <2>3. put'[p] = Idle \/ (owner[put[p].dev] = put[p].user /\ put'[p] = u)
    BY <1>1, <1>5 DEF PutCheck
  <2>4. \A r \in Puts \ {p} : put'[r] = put[r]
    BY <1>1, <1>5 DEF PutCheck
  <2> HIDE DEF u
  <2> QED
    BY <1>2, <1>3, <2>1, <2>2, <2>3, <2>4
<1>6. ASSUME NEW p \in Puts, PutUpsert(p)
      PROVE  WritesInTheOwnersName'
  BY <1>1, <1>2, <1>3, <1>6 DEF PutUpsert
<1>7. ASSUME UNCHANGED <<owner, put>>
      PROVE  WritesInTheOwnersName'
  BY <1>7
<1>8. ASSUME NEW v \in Voices, NEW r, VoiceStep(v, r)
      PROVE  WritesInTheOwnersName'
  BY <1>7, <1>8 DEF VoiceStep
<1>9. ASSUME NEW v \in Voices, NEW d \in Devices, NEW c \in Commands, VoiceLookup(v, d, c)
      PROVE  WritesInTheOwnersName'
  BY <1>8, <1>9 DEF VoiceLookup
<1>10. ASSUME NEW v \in Voices,
              VoiceRead(v) \/ VoiceCheck(v) \/ VoiceUpsert(v) \/ VoicePublish(v)
       PROVE  WritesInTheOwnersName'
  BY <1>8, <1>10 DEF VoiceRead, VoiceCheck, VoiceUpsert, VoicePublish
<1>11. ASSUME NEW d \in Devices, DeviceConnect(d) \/ DeviceDrop(d) \/ DeviceApply(d)
       PROVE  WritesInTheOwnersName'
  BY <1>7, <1>11 DEF DeviceConnect, DeviceDrop, DeviceApply, srvVars
<1>12. CASE BridgeDrop \/ BridgeConnect \/ SyncRead \/ SyncUpsert
  BY <1>7, <1>12 DEF BridgeDrop, BridgeConnect, SyncRead, SyncUpsert, srvVars
\* The registry's promise: an owner is only ever lost.
<1>13. CASE OwnershipStep
  <2>1. UNCHANGED put
    BY <1>13 DEF OwnershipStep, srvVars
  <2>2. \A d \in Devices, u \in Users :
          owner[d] \in {u, Orphan, Gone} => owner'[d] \in {u, Orphan, Gone}
    BY <1>13, StateAssumption
       DEF OwnershipStep, Own!Next, Own!Bind, Own!Abandon, Own!Remove, TypeOK
  <2>3. \A p \in Puts : put[p].pc = "upsert" => put[p].dev \in Devices /\ put[p].user \in Users
    BY Busy DEF PutRequest
  <2> QED
    BY <2>1, <2>2, <2>3
<1>14. CASE UNCHANGED vars
  BY <1>7, <1>14 DEF vars, srvVars
<1> QED
  BY <1>4, <1>5, <1>6, <1>9, <1>10, <1>11, <1>12, <1>13, <1>14 DEF Next

-----------------------------------------------------------------------------

\* The server starts safely.
LEMMA InitIsSafe == Init => Safety
<1> SUFFICES ASSUME Init PROVE Safety
  OBVIOUS
<1>1. Len(<<>>) = 0 /\ DOMAIN <<>> = {} /\ MaxCmds \in Nat /\ MaxStatuses \in Nat
  BY StateAssumption
<1>2. TypeOK
  <2>1. [power |-> FALSE, level |-> None] \in State
    BY DEF State
  <2>2. phys \in [Devices -> [kind : Kinds, power : BOOLEAN, level : Levels]]
    <3>1. \A d \in Devices : phys[d] \in [kind : Kinds, power : BOOLEAN, level : Levels]
      BY StateAssumption DEF Init
    <3> QED
      BY <3>1 DEF Init
  <2>3. owner \in [Devices -> Users \union {Pool, Orphan, Gone}]
    BY DEF Init, Own!Init
  <2> QED
    BY <1>1, <2>1, <2>2, <2>3 DEF Init, TypeOK
<1>3. Agreement
  BY <1>1 DEF Init, Agreement, LastStatusIsTrue, SyncIsTrue, RowIsTrue, Settled
<1>4. WritesInTheOwnersName
  BY DEF Init, Idle, WritesInTheOwnersName
<1> QED
  BY <1>2, <1>3, <1>4 DEF Safety

\* What is true of the device stays true on its way to the row, and no late
\* write is in a stranger's name.
THEOREM SafetyHolds == Spec => []Safety
<1>1. Safety /\ [Next]_vars => Safety'
  BY TypeStep, AgreementStep, OwnersNameStep DEF Safety
<1> QED
  BY <1>1, InitIsSafe, PTL DEF Spec

\* Variables keep their types: no merge leaves a row without a power.
THEOREM TypeCorrect == Spec => []TypeOK
<1>1. Safety => TypeOK
  BY DEF Safety
<1> QED
  BY <1>1, SafetyHolds, PTL

\* Once nothing is under way for a device, its row is what the device is,
\* unless a REST write or a lost message came last (ExecuteControlDevice,
\* SyncStateFromDevice).
THEOREM QuietMeansAgreementHolds == Spec => []QuietMeansAgreement
<1>1. Safety => QuietMeansAgreement
  <2> SUFFICES ASSUME Safety, NEW d \in Devices, Exists(d), Quiet(d), d \notin unsent \union unheard
               PROVE  row[d] = [power |-> phys[d].power, level |-> phys[d].level]
    BY DEF QuietMeansAgreement
  <2>1. TypeOK /\ RowIsTrue
    BY DEF Safety, Agreement
  <2>2. ~Awaited(d)
    BY DEF Quiet, Awaited, Range
  <2>3. \A v \in Voices : voice[v].pc = "publish" => voice[v] # Idle
    BY DEF Idle
  <2>4. Settled(d)
    BY <2>2, <2>3 DEF Settled, Quiet
  <2>5. row[d] \in State /\ row[d].power = phys[d].power /\ row[d].level = phys[d].level
    BY <2>1, <2>4 DEF RowIsTrue, TrueOf, TypeOK
  <2> QED
    BY <2>5 DEF State
<1> QED
  BY <1>1, SafetyHolds, PTL

\* A write that is late by any number of steps of others finds the device its
\* user's, or nobody's (UpdateDeviceState).
THEOREM WritesInTheOwnersNameHolds == Spec => []WritesInTheOwnersName
<1>1. Safety => WritesInTheOwnersName
  BY DEF Safety
<1> QED
  BY <1>1, SafetyHolds, PTL
=============================================================================
