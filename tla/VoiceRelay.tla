----------------------------- MODULE VoiceRelay -----------------------------
(***************************************************************************)
(* One /v1/voice session in the server: the pump that relays frames        *)
(* between the furniture (the client) and the worker, the goroutines that  *)
(* execute the worker's device commands, and the rows the session writes   *)
(* to the conversation history.                                            *)
(*                                                                         *)
(* The worker is the environment here: it announces turns (asr_final),     *)
(* issues commands for a turn and replies to it, in any order its          *)
(* concurrent turns may produce.  Tool ids are unique.  What a command     *)
(* does to a device is the subject of module DeviceState.  The lock on     *)
(* writes to the client is left out: only the down pump ever takes it.     *)
(***************************************************************************)
EXTENDS Naturals, Sequences, SequencesExt, FiniteSets

CONSTANTS
    MaxFrames,      \* bound: frames the client sends
    MaxTurns,       \* bound: turns the worker announces
    MaxReplies,     \* bound: turns the worker replies to
    MaxCommands     \* bound: commands the worker issues

ASSUME RelayAssumption ==
    /\ MaxFrames \in Nat /\ MaxTurns \in Nat
    /\ MaxReplies \in Nat /\ MaxCommands \in Nat

VARIABLES
    clientUp, workerUp,     \* is the peer still there?
    sent, taken,    \* frames the client has sent; those the up pump has read
    said, heard,    \* what the worker has sent; what the down pump has read of it
    upPump,         \* the frame the client -> worker goroutine is at, or its end
    downPump,       \* the event the worker -> client goroutine is at, or its end
    session,        \* the goroutine of the HTTP handler
    open,           \* can workerConn still be written to?
    writing,        \* who is inside workerConn.WriteMessage
    clash,          \* two were: a panic, or a corrupted stream
    workerIn,       \* what has been written to the worker
    clientIn,       \* what has been written to the client
    cmd,            \* cmd[i]: the goroutine executing the i-th command
    recording,      \* does the session have a conversation row?
    appends,        \* goroutines that append to the history
    messages,       \* the rows of table messages, by id
    lastUser,       \* lastUserMessageID
    records,        \* records[i]: the row of table commands for i, or none
    byTool,         \* commands with an entry in cmdByToolID
    failed          \* ghost: commands a write to whose row failed

peerVars == <<clientUp, workerUp, sent, said>>
pumpVars == <<taken, heard, upPump, downPump, session>>
wireVars == <<open, writing, clash, workerIn>>
histVars == <<appends, messages, lastUser, records, byTool, failed>>
vars     == <<peerVars, pumpVars, wireVars, clientIn, cmd, recording, histVars>>

Turns    == 1..MaxTurns
Commands == 1..MaxCommands
Pump     == 0       \* the up pump, among the writers to the worker

Final(k)      == [type |-> "asr_final", turn |-> k]
Reply(k)      == [type |-> "llm_result", turn |-> k]
Command(i, k) == [type |-> "device_command", turn |-> k, id |-> i]
Frame(n)      == [type |-> "frame", id |-> n]
Result(i, ok) == [type |-> "device_command_result", id |-> i, ok |-> ok]

isDeviceCommand(e) == e.type = "device_command"

Speech == { Final(k) : k \in Turns } \union { Reply(k) : k \in Turns }
Events == Speech \union { Command(i, k) : i \in Commands, k \in Turns }

\* What is written to the worker.
WorkerFrame == [type : {"frame"}, id : 1..MaxFrames]
         \union [type : {"device_command_result"}, id : Commands, ok : BOOLEAN]

Issued == { e.id : e \in { e \in Range(said) : isDeviceCommand(e) } }
Replied == { k \in Turns : Reply(k) \in Range(said) }
Announced == { k \in Turns : Final(k) \in Range(said) }

Reading == [pc |-> "read"]
Done    == [pc |-> "done"]

\* The type invariant.
TypeOK ==
    /\ clientUp \in BOOLEAN /\ workerUp \in BOOLEAN
    /\ sent \in 0..MaxFrames /\ taken \in 0..sent
    /\ said \in Seq(Events) /\ heard \in 0..Len(said)
    /\ upPump \in {Reading, Done} \union [pc : {"write"}, frame : 1..sent]
    /\ downPump \in {Reading, Done} \union [pc : {"write"}, event : Speech]
    /\ session \in {"pumping", "draining", "ended"}
    /\ open \in BOOLEAN /\ clash \in BOOLEAN /\ recording \in BOOLEAN
    /\ writing \subseteq {Pump} \union Commands
    /\ workerIn \in Seq(WorkerFrame) /\ clientIn \in Seq(Speech)
    /\ DOMAIN cmd \subseteq Commands
    /\ \A i \in DOMAIN cmd :
         cmd[i] \in [pc : {"record", "insert", "execute", "write", "mark", "done"},
                     message : 0..Len(messages), ok : BOOLEAN]
    /\ appends \subseteq ([pc : {"insert"}, event : Speech]
                            \union [pc : {"set"}, id : 1..Len(messages)])
    /\ messages \in Seq(Speech)
    /\ lastUser \in 0..Len(messages)
    /\ DOMAIN records \subseteq Commands /\ byTool \subseteq Commands
    /\ \A i \in DOMAIN records :
         records[i] \in [message : 1..Len(messages), result : {"pending", "success", "failure"}]
    /\ failed \subseteq Commands

\* The worker has been dialled and told the devices; the conversation is
\* recorded when the device has an owner and the insert of its row succeeded.
Init ==
    /\ clientUp = TRUE /\ workerUp = TRUE
    /\ sent = 0 /\ taken = 0 /\ said = <<>> /\ heard = 0
    /\ upPump = Reading /\ downPump = Reading /\ session = "pumping"
    /\ open = TRUE /\ writing = {} /\ clash = FALSE
    /\ workerIn = <<>> /\ clientIn = <<>>
    /\ cmd = <<>>
    /\ recording \in BOOLEAN
    /\ appends = {} /\ messages = <<>> /\ lastUser = 0
    /\ records = <<>> /\ byTool = {} /\ failed = {}

-----------------------------------------------------------------------------
(* The peers *)

ClientSend ==
    /\ clientUp
    /\ sent < MaxFrames
    /\ sent' = sent + 1
    /\ UNCHANGED <<clientUp, workerUp, said>>

WorkerSend ==
    /\ workerUp
    /\ \/ \E k \in Turns : /\ k = Cardinality(Announced) + 1
                           /\ said' = Append(said, Final(k))
       \/ \E k \in Announced \ Replied : /\ Cardinality(Replied) < MaxReplies
                                         /\ said' = Append(said, Reply(k))
       \/ \E k \in Announced, i \in Commands :
            /\ i = Cardinality(Issued) + 1
            /\ said' = Append(said, Command(i, k))
    /\ UNCHANGED <<clientUp, workerUp, sent>>

ClientGone ==
    /\ clientUp
    /\ clientUp' = FALSE
    /\ UNCHANGED <<workerUp, sent, said>>

WorkerGone ==
    /\ workerUp
    /\ workerUp' = FALSE
    /\ UNCHANGED <<clientUp, sent, said>>

Peers ==
    /\ ClientSend \/ WorkerSend \/ ClientGone \/ WorkerGone
    /\ UNCHANGED <<pumpVars, wireVars, clientIn, cmd, recording, histVars>>

-----------------------------------------------------------------------------
(* Writing to the worker, which no lock protects.  A write to a worker that *)
(* has just gone fails, or is lost without the writer noticing.            *)

BeginWrite(who) ==
    /\ writing' = writing \union {who}
    /\ clash' = (writing # {})

Written(who, m) == /\ open /\ workerUp
                   /\ workerIn' = Append(workerIn, m)
                   /\ writing' = writing \ {who}
                   /\ UNCHANGED <<open, clash>>

WriteLost(who) == /\ open /\ ~workerUp
                  /\ writing' = writing \ {who}
                  /\ UNCHANGED <<open, clash, workerIn>>

WriteFails(who) == /\ ~open \/ ~workerUp
                   /\ open' = FALSE
                   /\ writing' = writing \ {who}
                   /\ UNCHANGED <<clash, workerIn>>

-----------------------------------------------------------------------------
(* pump: client -> worker.  ReadMessage returns and WriteMessage begins.   *)

UpRead ==
    /\ session # "ended"
    /\ upPump = Reading
    /\ taken < sent
    /\ taken' = taken + 1
    /\ upPump' = [pc |-> "write", frame |-> taken + 1]
    /\ BeginWrite(Pump)
    /\ UNCHANGED <<peerVars, heard, downPump, session, open, workerIn, clientIn,
                   cmd, recording, histVars>>

UpWrite ==
    /\ upPump.pc = "write"
    /\ \/ (Written(Pump, Frame(upPump.frame)) \/ WriteLost(Pump)) /\ upPump' = Reading
       \/ WriteFails(Pump) /\ upPump' = Done
    /\ UNCHANGED <<peerVars, taken, heard, downPump, session, clientIn,
                   cmd, recording, histVars>>

\* The client is gone, or the deadline set when the pumps stop has passed: the
\* worker is sent a close message, after which nothing else can be written.
\* The close message is given up after a second if somebody else is writing.
UpReadFails ==
    /\ upPump = Reading
    /\ ~clientUp \/ session = "draining"
    /\ upPump' = Done
    /\ open' = FALSE \/ (writing # {} /\ UNCHANGED open)
    /\ UNCHANGED <<peerVars, taken, heard, downPump, session, writing, clash, workerIn,
                   clientIn, cmd, recording, histVars>>

-----------------------------------------------------------------------------
(* pump: worker -> client.  A command gets a goroutine of its own and is   *)
(* not forwarded; anything else is, and is then recorded.                  *)

\* Faulty variant: the furniture gets a copy of a command.
DownReadForwarding ==
    /\ downPump = Reading
    /\ heard < Len(said)
    /\ heard' = heard + 1
    /\ LET e == said[heard + 1] IN
         /\ cmd' = IF isDeviceCommand(e)
                     THEN [i \in DOMAIN cmd \union {e.id} |->
                             IF i = e.id THEN [pc |-> "record", message |-> 0, ok |-> FALSE]
                                         ELSE cmd[i]]
                     ELSE cmd
         /\ downPump' = [pc |-> "write", event |-> e]
    /\ UNCHANGED <<peerVars, taken, upPump, session, wireVars, clientIn, recording, histVars>>

DownRead ==
    /\ downPump = Reading
    /\ heard < Len(said)
    /\ heard' = heard + 1
    /\ LET e == said[heard + 1] IN
         IF isDeviceCommand(e)
           THEN /\ cmd' = [i \in DOMAIN cmd \union {e.id} |->
                             IF i = e.id THEN [pc |-> "record", message |-> 0, ok |-> FALSE]
                                         ELSE cmd[i]]
                /\ UNCHANGED downPump
           ELSE /\ downPump' = [pc |-> "write", event |-> e]
                /\ UNCHANGED cmd
    /\ UNCHANGED <<peerVars, taken, upPump, session, wireVars, clientIn, recording, histVars>>

\* recordWorkerEvent, called once the event has been written: an event with a
\* text starts a goroutine that appends it.  A reply may have none.
Recorded(e) ==
    \/ /\ recording
       /\ appends' = appends \union {[pc |-> "insert", event |-> e]}
    \/ /\ recording => e.type = "llm_result"
       /\ UNCHANGED appends

DownWrite ==
    /\ downPump.pc = "write"
    /\ \/ /\ clientUp
          /\ clientIn' = Append(clientIn, downPump.event)
          /\ downPump' = Reading
          /\ Recorded(downPump.event)
       \/ /\ ~clientUp
          /\ downPump' = Done
          /\ UNCHANGED <<clientIn, appends>>
    /\ UNCHANGED <<peerVars, taken, heard, upPump, session, wireVars, cmd, recording,
                   messages, lastUser, records, byTool, failed>>

DownReadFails ==
    /\ downPump = Reading
    /\ ~workerUp \/ session = "draining"
    /\ downPump' = Done
    /\ UNCHANGED <<peerVars, taken, heard, upPump, session, wireVars, clientIn, cmd,
                   recording, histVars>>

-----------------------------------------------------------------------------
(* pump and ServeHTTP: once a pump is over both reads get a deadline; once *)
(* both are over the handler returns and closes the two connections.       *)

\* Faulty variant: the worker's connection gets no deadline, only a pump
\* that is over by itself lets the handler return.
StopAtClientOnly ==
    /\ session = "pumping"
    /\ upPump = Done
    /\ session' = "draining"
    /\ UNCHANGED <<peerVars, taken, heard, upPump, downPump, wireVars, clientIn, cmd,
                   recording, histVars>>

Stop ==
    /\ session = "pumping"
    /\ upPump = Done \/ downPump = Done
    /\ session' = "draining"
    /\ UNCHANGED <<peerVars, taken, heard, upPump, downPump, wireVars, clientIn, cmd,
                   recording, histVars>>

End ==
    /\ session = "draining"
    /\ upPump = Done /\ downPump = Done
    /\ session' = "ended"
    /\ open' = FALSE
    /\ clientUp' = FALSE /\ workerUp' = FALSE
    /\ UNCHANGED <<sent, taken, said, heard, upPump, downPump, writing, clash, workerIn,
                   clientIn, cmd, recording, histVars>>

-----------------------------------------------------------------------------
(* appendUser and appendAssistant.  An insert that fails is only logged.   *)

\* Faulty variant: the id of any message is remembered, not only a user's.
InsertRemember(a) ==
    /\ a \in appends /\ a.pc = "insert"
    /\ messages' = Append(messages, a.event)
    /\ appends' = (appends \ {a}) \union {[pc |-> "set", id |-> Len(messages) + 1]}
    /\ UNCHANGED <<peerVars, pumpVars, wireVars, clientIn, cmd, recording, lastUser,
                   records, byTool, failed>>

Insert(a) ==
    /\ a \in appends /\ a.pc = "insert"
    /\ \/ /\ messages' = Append(messages, a.event)
          /\ appends' = (appends \ {a}) \union
               (IF a.event.type = "asr_final" THEN {[pc |-> "set", id |-> Len(messages) + 1]}
                                              ELSE {})
       \/ /\ appends' = appends \ {a}
          /\ UNCHANGED messages
    /\ UNCHANGED <<peerVars, pumpVars, wireVars, clientIn, cmd, recording, lastUser,
                   records, byTool, failed>>

SetLastUser(a) ==
    /\ a \in appends /\ a.pc = "set"
    /\ lastUser' = a.id
    /\ appends' = appends \ {a}
    /\ UNCHANGED <<peerVars, pumpVars, wireVars, clientIn, cmd, recording, messages,
                   records, byTool, failed>>

-----------------------------------------------------------------------------
(* handleDeviceCommand *)

At(i, pc) == i \in DOMAIN cmd /\ cmd[i].pc = pc
Step(i, r) ==
    /\ cmd' = [cmd EXCEPT ![i] = r]
    /\ UNCHANGED <<peerVars, pumpVars, clientIn, recording, appends, messages, lastUser>>

\* Faulty variant: a command is recorded though there is no message yet.
CmdRecordAlways(i) ==
    /\ At(i, "record")
    /\ Step(i, [cmd[i] EXCEPT !.message = lastUser, !.pc = "insert"])
    /\ UNCHANGED <<wireVars, records, byTool, failed>>

\* recordCommand: which message does the command belong to?  With none yet it
\* is not recorded.
CmdRecord(i) ==
    /\ At(i, "record")
    /\ Step(i, [cmd[i] EXCEPT !.message = lastUser,
                              !.pc = IF lastUser = 0 THEN "execute" ELSE "insert"])
    /\ UNCHANGED <<wireVars, records, byTool, failed>>

CmdInsert(i) ==
    /\ At(i, "insert")
    /\ Step(i, [cmd[i] EXCEPT !.pc = "execute"])
    /\ \/ /\ records' = [j \in DOMAIN records \union {i} |->
                           IF j = i THEN [message |-> cmd[i].message, result |-> "pending"]
                                    ELSE records[j]]
          /\ byTool' = byTool \union {i}
          /\ UNCHANGED failed
       \/ /\ failed' = failed \union {i}
          /\ UNCHANGED <<records, byTool>>
    /\ UNCHANGED wireVars

\* The command has been executed, with some outcome, and the result is about
\* to be written to the worker.  (What cannot be parsed is answered with no id
\* and not recorded; the worker writes commands of this very format.)
CmdExecute(i) ==
    /\ At(i, "execute")
    /\ \E ok \in BOOLEAN : Step(i, [cmd[i] EXCEPT !.pc = "write", !.ok = ok])
    /\ BeginWrite(i)
    /\ UNCHANGED <<open, workerIn, records, byTool, failed>>

\* Faulty variant: a failed command is reported by its row only.
CmdReplySuccessOnly(i) ==
    /\ At(i, "write")
    /\ Step(i, [cmd[i] EXCEPT !.pc = "mark"])
    /\ IF cmd[i].ok
         THEN Written(i, Result(i, TRUE)) \/ WriteLost(i) \/ WriteFails(i)
         ELSE writing' = writing \ {i} /\ UNCHANGED <<open, clash, workerIn>>
    /\ UNCHANGED <<records, byTool, failed>>

\* sendCommandResult, whose error is only logged.
CmdReply(i) ==
    /\ At(i, "write")
    /\ Step(i, [cmd[i] EXCEPT !.pc = "mark"])
    /\ Written(i, Result(i, cmd[i].ok)) \/ WriteLost(i) \/ WriteFails(i)
    /\ UNCHANGED <<records, byTool, failed>>

\* Faulty variant: whatever was executed counts as a success.
CmdMarkSuccess(i) ==
    /\ At(i, "mark")
    /\ Step(i, [cmd[i] EXCEPT !.pc = "done"])
    /\ byTool' = byTool \ {i}
    /\ records' = IF i \in byTool THEN [records EXCEPT ![i].result = "success"] ELSE records
    /\ UNCHANGED <<wireVars, failed>>

\* markCommandResult
CmdMark(i) ==
    /\ At(i, "mark")
    /\ Step(i, [cmd[i] EXCEPT !.pc = "done"])
    /\ byTool' = byTool \ {i}
    /\ \/ /\ i \in byTool
          /\ records' = [records EXCEPT ![i].result = IF cmd[i].ok THEN "success" ELSE "failure"]
          /\ UNCHANGED failed
       \/ /\ failed' = IF i \in byTool THEN failed \union {i} ELSE failed
          /\ UNCHANGED records
    /\ UNCHANGED wireVars

CmdSteps(i) ==
    CmdRecord(i) \/ CmdInsert(i) \/ CmdExecute(i) \/ CmdReply(i) \/ CmdMark(i)

UpSteps   == UpRead \/ UpWrite \/ UpReadFails
DownSteps == DownRead \/ DownWrite \/ DownReadFails

Next ==
    /\ ~clash
    /\ \/ Peers
       \/ UpSteps \/ DownSteps
       \/ Stop \/ End
       \/ \E a \in appends : Insert(a) \/ SetLastUser(a)
       \/ \E i \in DOMAIN cmd : CmdSteps(i)

Spec == Init /\ [][Next]_vars

\* The scheduler runs the goroutines of the session, and a deadline passes.
\* A write ends: its peer reads, or the network reports that it does not.
Fairness ==
    /\ WF_vars(~clash /\ UpSteps)
    /\ WF_vars(~clash /\ DownSteps)
    /\ WF_vars(~clash /\ Stop)
    /\ WF_vars(~clash /\ End)

FairSpec == Spec /\ Fairness

-----------------------------------------------------------------------------
(* Properties *)

\* The furniture hears what the worker says to it, all of it in order and no
\* command; the worker hears the furniture's frames in order.
RelayedInOrder ==
    /\ \E at \in [1..Len(clientIn) -> 1..Len(said)] :
         /\ \A k \in 1..Len(clientIn) :
              clientIn[k] = said[at[k]] /\ ~isDeviceCommand(said[at[k]])
         /\ \A j, k \in 1..Len(clientIn) : j < k => at[j] < at[k]
         /\ \A k \in 1..Len(clientIn) : \A i \in 1..at[k] :
              isDeviceCommand(said[i]) \/ \E j \in 1..Len(clientIn) : at[j] = i
    /\ \A i, j \in 1..Len(workerIn) :
         i < j /\ workerIn[i].type = "frame" /\ workerIn[j].type = "frame" =>
             workerIn[i].id < workerIn[j].id

\* A command is answered once, with its own outcome, unless the worker's
\* connection ended (handleDeviceCommand, sendCommandResult).
AnsweredOnce ==
    \A i \in DOMAIN cmd :
        LET answers == { n \in 1..Len(workerIn) : /\ workerIn[n].type = "device_command_result"
                                                  /\ workerIn[n].id = i } IN
        /\ Cardinality(answers) <= 1
        /\ \A n \in answers : workerIn[n].ok = cmd[i].ok
        /\ cmd[i].pc \in {"mark", "done"} /\ open /\ workerUp => answers # {}

\* A command's row says how the command ended once its goroutine is over,
\* unless a write to the row failed (recordCommand, markCommandResult).
RecordsTellTheTruth ==
    \A i \in DOMAIN cmd \ failed :
        cmd[i].pc = "done" /\ i \in DOMAIN records =>
            records[i].result = (IF cmd[i].ok THEN "success" ELSE "failure")

\* A recorded command hangs off a user's message that the furniture was sent,
\* never off a reply (voiceSession, lastUserMessageID), although the comment on
\* AppendCommand has it recorded under a message of the assistant.
HangsOffUserMessage ==
    \A i \in DOMAIN records :
        LET m == messages[records[i].message] IN
        m.type = "asr_final" /\ m \in Range(clientIn)

\* When a peer is gone the session ends, whatever the commands are doing.
SessionEnds == ~clientUp \/ ~workerUp ~> session = "ended" \/ clash

\* The comments on the client's lock and on WriteJSON ask that writers of one
\* connection exclude each other.
NoConcurrentWorkerWrite == Cardinality(writing) <= 1

=============================================================================
