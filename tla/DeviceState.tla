---------------------------- MODULE DeviceState ----------------------------
(***************************************************************************)
(* The state of a device as the server records it (table device_states)    *)
(* and as the device itself has it, and the three writers of the record:   *)
(* PUT /devices/state, the control_device command of a voice turn, and the *)
(* status messages the device sends over MQTT.                             *)
(*                                                                         *)
(* Each writer reads the whole row, changes some fields in memory and      *)
(* writes the whole row back, without a transaction.  Only the voice       *)
(* command is forwarded to the device.  Ownership changes underneath, as   *)
(* the lifecycle of module Ownership allows.                               *)
(*                                                                         *)
(* A row has its power and one level: the brightness of a light, the       *)
(* temperature of an air conditioner, the position of a curtain.           *)
(***************************************************************************)
EXTENDS Naturals, Sequences, SequencesExt

CONSTANTS
    Users, Devices, Pool, Orphan, Gone,     \* see Ownership
    Puts,           \* goroutines serving PUT /devices/state
    Voices,         \* goroutines executing a control_device command
    Levels,         \* levels a client, a command or a device may use
    None,           \* a field that is absent: SQL NULL, Go nil
    Edits,          \* the bodies PUT requests may have
    Commands,       \* the commands the voice turn may issue
    Kinds,          \* the kinds of devices there are
    MaxCmds,        \* bound: commands on their way to one device
    MaxStatuses     \* bound: status messages on their way to the server

Actions == {"turn_on", "turn_off", "set", "set_other"}

State   == [power : BOOLEAN, level : Levels \union {None}]
Edit    == [power : BOOLEAN \union {None}, level : Levels \union {None}]
Command == [action : Actions, level : Levels \union {None}]

ASSUME StateAssumption ==
    /\ Pool \notin Users /\ Orphan \notin Users /\ Gone \notin Users
    /\ Pool # Orphan /\ Pool # Gone /\ Orphan # Gone
    /\ {0, 100} \subseteq Levels /\ Levels \subseteq 0..100
    /\ None \notin Levels /\ None \notin BOOLEAN
    /\ Edits \subseteq Edit
    /\ Commands \subseteq { c \in Command : c.action = "set" => c.level # None }
    /\ Kinds \subseteq {"light", "aircon", "curtain"}
    /\ MaxCmds \in Nat \ {0} /\ MaxStatuses \in Nat \ {0}

VARIABLES
    owner,      \* see Ownership; d has a row in device_states unless Gone
    row,        \* row[d]: the state recorded for d
    put,        \* put[p]: the request p is serving
    voice,      \* voice[v]: the command v is executing
    sync,       \* the status message the MQTT callback is handling
    bridge,     \* is the server connected to the broker?
    online,     \* the devices connected to the broker
    phys,       \* phys[d]: the state of the device itself, and its kind
    cmds,       \* cmds[d]: commands on their way to d
    statuses,   \* status messages on their way to the server
    unsent,     \* ghost: d's row took a write that will not reach the device
    unheard     \* ghost: the server missed the last status d sent

srvVars == <<put, voice, sync>>
mqttVars == <<bridge, online, phys, cmds, statuses>>
ghosts  == <<unsent, unheard>>
vars    == <<owner, row, srvVars, mqttVars, ghosts>>

Own  == INSTANCE Ownership
Idle == [pc |-> "idle"]

PutRequest == [pc : {"check", "upsert"}, dev : Devices, user : Users,
               edit : Edits, state : State]
VoiceRun   == [pc : {"read"}, dev : Devices, user : Users, cmd : Commands]
         \union [pc : {"check", "upsert", "publish"}, dev : Devices,
                 user : Users, cmd : Commands, state : State]
Status     == [dev : Devices, power : BOOLEAN, level : Levels]

\* The type invariant.  What it can catch: a merge that copies the fields the
\* request left out, so that a NULL reaches the power column.
TypeOK ==
    /\ owner \in [Devices -> Users \union {Pool, Orphan, Gone}]
    /\ row \in [Devices -> State]
    /\ put \in [Puts -> PutRequest \union {Idle}]
    /\ voice \in [Voices -> VoiceRun \union {Idle}]
    /\ sync \in [pc : {"upsert"}, dev : Devices, state : State] \union {Idle}
    /\ bridge \in BOOLEAN
    /\ online \subseteq Devices
    /\ phys \in [Devices -> [kind : Kinds, power : BOOLEAN, level : Levels]]
    /\ cmds \in [Devices -> Seq(Commands)] /\ \A d \in Devices : Len(cmds[d]) <= MaxCmds
    /\ statuses \in Seq(Status) /\ Len(statuses) <= MaxStatuses
    /\ unsent \subseteq Devices /\ unheard \subseteq Devices

\* Right after the server starts: rows as the migrations seed them, devices
\* not connected yet.
Init ==
    /\ Own!Init
    /\ row = [d \in Devices |-> [power |-> FALSE, level |-> None]]
    /\ put = [p \in Puts |-> Idle]
    /\ voice = [v \in Voices |-> Idle]
    /\ sync = Idle
    /\ bridge = TRUE
    /\ online = {}
    /\ phys \in [Devices -> [kind : Kinds, power : {FALSE}, level : {0}]]
    /\ cmds = [d \in Devices |-> <<>>]
    /\ statuses = <<>>
    /\ unsent = Devices
    /\ unheard = Devices

-----------------------------------------------------------------------------
(* Reading, merging and writing a row. *)

Exists(d) == owner[d] # Gone

\* Faulty variants: the fields replace the row's whether given or not, and a
\* power that is off is taken for one that was left out.
MergeAll(s, e) == [power |-> e.power, level |-> e.level]
MergeTruthy(s, e) == [power |-> s.power \/ e.power = TRUE,
                      level |-> IF e.level = None THEN s.level ELSE e.level]

Merge(s, e) == [power |-> IF e.power = None THEN s.power ELSE e.power,
                level |-> IF e.level = None THEN s.level ELSE e.level]

\* The upsert fails on the foreign key once the device is deleted.
Upsert(d, s) == row' = IF Exists(d) THEN [row EXCEPT ![d] = s] ELSE row

-----------------------------------------------------------------------------
(* PUT /devices/state *)

PutRead(p, u, d, e) ==
    /\ put[p] = Idle
    /\ Exists(d)
    /\ put' = [put EXCEPT ![p] = [pc |-> "check", dev |-> d, user |-> u,
                                  edit |-> e, state |-> Merge(row[d], e)]]
    /\ UNCHANGED <<owner, row, voice, sync, mqttVars, ghosts>>

\* Faulty variant: the owner check is forgotten.
PutCheckNobody(p) ==
    /\ put[p].pc = "check"
    /\ put' = [put EXCEPT ![p].pc = "upsert"]
    /\ UNCHANGED <<owner, row, voice, sync, mqttVars, ghosts>>

PutCheck(p) ==
    /\ put[p].pc = "check"
    /\ put' = [put EXCEPT ![p] =
                 IF owner[put[p].dev] = put[p].user THEN [put[p] EXCEPT !.pc = "upsert"]
                                                    ELSE Idle]
    /\ UNCHANGED <<owner, row, voice, sync, mqttVars, ghosts>>

PutUpsert(p) ==
    /\ put[p].pc = "upsert"
    /\ Upsert(put[p].dev, put[p].state)
    /\ unsent' = unsent \union {put[p].dev}
    /\ put' = [put EXCEPT ![p] = Idle]
    /\ UNCHANGED <<owner, voice, sync, mqttVars, unheard>>

-----------------------------------------------------------------------------
(* ExecuteControlDevice *)

\* What the server expects the command to do to a device.
ApplyAction(s, c) ==
    CASE c.action = "turn_on"   -> [s EXCEPT !.power = TRUE]
      [] c.action = "turn_off"  -> [s EXCEPT !.power = FALSE]
      [] c.action = "set"       -> [power |-> TRUE, level |-> c.level]
      [] c.action = "set_other" -> [s EXCEPT !.power = TRUE]

VoiceStep(v, r) ==
    /\ voice' = [voice EXCEPT ![v] = r]
    /\ UNCHANGED <<owner, put, sync>>

\* GetDevice: the owner found here is the one checked later.
VoiceLookup(v, d, c) ==
    /\ voice[v] = Idle
    /\ owner[d] \in Users
    /\ VoiceStep(v, [pc |-> "read", dev |-> d, user |-> owner[d], cmd |-> c])
    /\ UNCHANGED <<row, mqttVars, ghosts>>

\* GetDeviceState and applyAction.
VoiceRead(v) ==
    /\ voice[v].pc = "read"
    /\ LET r == voice[v] IN
         VoiceStep(v, IF Exists(r.dev)
                        THEN [pc |-> "check", dev |-> r.dev, user |-> r.user,
                              cmd |-> r.cmd, state |-> ApplyAction(row[r.dev], r.cmd)]
                        ELSE Idle)
    /\ UNCHANGED <<row, mqttVars, ghosts>>

VoiceCheck(v) ==
    /\ voice[v].pc = "check"
    /\ VoiceStep(v, IF owner[voice[v].dev] = voice[v].user
                      THEN [voice[v] EXCEPT !.pc = "upsert"] ELSE Idle)
    /\ UNCHANGED <<row, mqttVars, ghosts>>

VoiceUpsert(v) ==
    /\ voice[v].pc = "upsert"
    /\ Upsert(voice[v].dev, voice[v].state)
    /\ VoiceStep(v, IF Exists(voice[v].dev)
                      THEN [voice[v] EXCEPT !.pc = "publish"] ELSE Idle)
    /\ UNCHANGED <<mqttVars, ghosts>>

\* PublishCommand.  The message reaches the broker or, when the server is not
\* connected or the connection breaks meanwhile, it does not; the broker has
\* nobody to give it to when the device is away.  The error is swallowed.
VoicePublish(v) ==
    /\ voice[v].pc = "publish"
    /\ LET d == voice[v].dev IN
         \/ /\ bridge /\ d \in online
            /\ Len(cmds[d]) < MaxCmds
            /\ cmds' = [cmds EXCEPT ![d] = Append(@, voice[v].cmd)]
            /\ UNCHANGED unsent
         \/ /\ unsent' = unsent \union {d}
            /\ UNCHANGED cmds
    /\ VoiceStep(v, Idle)
    /\ UNCHANGED <<row, bridge, online, phys, statuses, unheard>>

-----------------------------------------------------------------------------
(* The device and the broker *)

\* What the command does to the device itself.  A curtain has no power switch
\* and a device ignores a command of another kind of device.
CurtainApplied(f, c) ==
    CASE c.action = "turn_on"   -> [f EXCEPT !.level = 100]
      [] c.action = "turn_off"  -> [f EXCEPT !.level = 0]
      [] c.action = "set"       -> [f EXCEPT !.level = c.level]
      [] c.action = "set_other" -> f

SwitchApplied(f, c) ==
    CASE c.action = "turn_on"   ->
             [f EXCEPT !.power = TRUE,
                       !.level = IF f.kind = "light" /\ c.level # None THEN c.level ELSE @]
      [] c.action = "turn_off"  -> [f EXCEPT !.power = FALSE]
      [] c.action = "set"       -> [f EXCEPT !.power = TRUE, !.level = c.level]
      [] c.action = "set_other" -> f

Applied(f, c) == IF f.kind = "curtain" THEN CurtainApplied(f, c) ELSE SwitchApplied(f, c)

\* The device sends its whole state; the server hears it when it is subscribed.
Report(d, f) ==
    IF bridge
      THEN /\ Len(statuses) < MaxStatuses
           /\ statuses' = Append(statuses, [dev |-> d, power |-> f.power, level |-> f.level])
           /\ unheard' = unheard \ {d}
      ELSE /\ unheard' = unheard \union {d}
           /\ UNCHANGED statuses

DeviceConnect(d) ==
    /\ d \notin online
    /\ online' = online \union {d}
    /\ Report(d, phys[d])
    /\ UNCHANGED <<owner, row, srvVars, bridge, phys, cmds, unsent>>

\* The session is clean: what was on its way to the device is dropped.
DeviceDrop(d) ==
    /\ d \in online
    /\ online' = online \ {d}
    /\ unsent' = IF cmds[d] = <<>> THEN unsent ELSE unsent \union {d}
    /\ cmds' = [cmds EXCEPT ![d] = <<>>]
    /\ UNCHANGED <<owner, row, srvVars, bridge, phys, statuses, unheard>>

DeviceApply(d) ==
    /\ cmds[d] # <<>>
    /\ LET f == Applied(phys[d], Head(cmds[d])) IN
         /\ phys' = [phys EXCEPT ![d] = f]
         /\ Report(d, f)
    /\ cmds' = [cmds EXCEPT ![d] = Tail(@)]
    /\ UNCHANGED <<owner, row, srvVars, bridge, online, unsent>>

BridgeDrop ==
    /\ bridge
    /\ bridge' = FALSE
    /\ unheard' = unheard \union { s.dev : s \in Range(statuses) }
    /\ statuses' = <<>>
    /\ UNCHANGED <<owner, row, srvVars, online, phys, cmds, unsent>>

\* The flag is set and the topics are subscribed to; module Server has these as
\* the steps they are.
BridgeConnect ==
    /\ ~bridge
    /\ bridge' = TRUE
    /\ UNCHANGED <<owner, row, srvVars, online, phys, cmds, statuses, ghosts>>

-----------------------------------------------------------------------------
(* SyncStateFromDevice, called for one message at a time *)

SyncRead ==
    /\ sync = Idle
    /\ statuses # <<>>
    /\ LET m == Head(statuses) IN
         sync' = IF Exists(m.dev) THEN [pc |-> "upsert", dev |-> m.dev,
                                        state |-> Merge(row[m.dev], m)]
                                  ELSE Idle
    /\ statuses' = Tail(statuses)
    /\ UNCHANGED <<owner, row, put, voice, bridge, online, phys, cmds, ghosts>>

SyncUpsert ==
    /\ sync.pc = "upsert"
    /\ Upsert(sync.dev, sync.state)
    /\ unsent' = unsent \ {sync.dev}
    /\ sync' = Idle
    /\ UNCHANGED <<owner, put, voice, mqttVars, unheard>>

OwnershipStep ==
    /\ Own!Next
    /\ UNCHANGED <<row, srvVars, mqttVars, ghosts>>

Next ==
    \/ \E p \in Puts :
         \/ \E u \in Users, d \in Devices, e \in Edits : PutRead(p, u, d, e)
         \/ PutCheck(p) \/ PutUpsert(p)
    \/ \E v \in Voices :
         \/ \E d \in Devices, c \in Commands : VoiceLookup(v, d, c)
         \/ VoiceRead(v) \/ VoiceCheck(v) \/ VoiceUpsert(v) \/ VoicePublish(v)
    \/ \E d \in Devices : DeviceConnect(d) \/ DeviceDrop(d) \/ DeviceApply(d)
    \/ BridgeDrop \/ BridgeConnect
    \/ SyncRead \/ SyncUpsert
    \/ OwnershipStep

Spec == Init /\ [][Next]_vars

-----------------------------------------------------------------------------
(* Properties *)

\* Nothing that could still change d's row or the device is under way.
Quiet(d) ==
    /\ \A p \in Puts : put[p] # Idle => put[p].dev # d
    /\ \A v \in Voices : voice[v] # Idle => voice[v].dev # d
    /\ sync # Idle => sync.dev # d
    /\ cmds[d] = <<>>
    /\ \A s \in Range(statuses) : s.dev # d

\* Whatever the interleaving of voice commands and status messages, and though
\* the server's idea of a command differs from the device's, once all is quiet
\* the record is the state of the device, unless a REST write or a lost message
\* came after the last status (voice_command.go, mqtt_handlers.go).
QuietMeansAgreement ==
    \A d \in Devices :
        Exists(d) /\ Quiet(d) /\ d \notin unsent \union unheard =>
            row[d] = [power |-> phys[d].power, level |-> phys[d].level]

\* A request that passed the owner check may write late, but the device is
\* then still its user's, or nobody's any more (UpdateDeviceState).  A command
\* acts for whoever the device belongs to, so the check turns none away but one
\* whose device was given up since.
WritesInTheOwnersName ==
    \A p \in Puts : put[p].pc = "upsert" =>
        owner[put[p].dev] \in {put[p].user, Orphan, Gone}

=============================================================================
