-------------------------- MODULE VoiceRelayProofs --------------------------
(***************************************************************************)
(* What holds of a voice session for any number of frames, turns, replies  *)
(* and commands.  Safety is inductive.  Its parts are about the two pumps, *)
(* the commands, their rows and the history; each part is kept by every    *)
(* step, given the types and, for the commands, the parts before it.       *)
(***************************************************************************)
EXTENDS VoiceRelay, SequenceTheorems, FiniteSetTheorems, TLAPS

\* What the furniture got is what the worker said to it, as far as the down
\* pump is: only the event it has just read may be missing (DownRead, DownWrite).
Forwards(at) ==
    /\ \A k \in 1..Len(clientIn) :
         clientIn[k] = said[at[k]] /\ ~isDeviceCommand(said[at[k]])
    /\ \A j, k \in 1..Len(clientIn) : j < k => at[j] < at[k]
    /\ downPump.pc = "write" => \A k \in 1..Len(clientIn) : at[k] < heard
    /\ \A i \in 1..heard : \/ isDeviceCommand(said[i])
                           \/ \E k \in 1..Len(clientIn) : at[k] = i
                           \/ i = heard /\ downPump # Reading
Forwarded ==
    /\ downPump.pc = "write" => heard >= 1 /\ downPump.event = said[heard]
    /\ \E at \in [1..Len(clientIn) -> 1..heard] : Forwards(at)

\* The frame the up pump is at is the last it has read, and later than those
\* the worker got (UpRead, UpWrite).
FramesInOrder ==
    /\ upPump.pc = "write" => upPump.frame = taken
    /\ \A n \in 1..Len(workerIn) : workerIn[n].type = "frame" =>
         workerIn[n].id <= taken /\ (upPump.pc = "write" => workerIn[n].id < taken)
    /\ \A i, j \in 1..Len(workerIn) :
         i < j /\ workerIn[i].type = "frame" /\ workerIn[j].type = "frame" =>
             workerIn[i].id < workerIn[j].id

\* No two commands have one tool id, and each goroutine has read its own.
IdsAreUnique ==
    /\ \E n \in Nat : Issued = 1..n
    /\ \A i, j \in 1..Len(said) :
         isDeviceCommand(said[i]) /\ isDeviceCommand(said[j]) /\ said[i].id = said[j].id => i = j
    /\ \A i \in DOMAIN cmd : \E j \in 1..heard : isDeviceCommand(said[j]) /\ said[j].id = i

\* Is the n-th message to the worker the answer to command i?
Answers(n, i) == workerIn[n].type = "device_command_result" /\ workerIn[n].id = i

\* An answer comes from a goroutine past its reply, which leaves no other.
AnswersFit ==
    /\ \A n \in 1..Len(workerIn) : \A i \in Commands : Answers(n, i) =>
         i \in DOMAIN cmd /\ cmd[i].pc \in {"mark", "done"} /\ workerIn[n].ok = cmd[i].ok
    /\ \A i \in Commands : \A m, n \in 1..Len(workerIn) :
         Answers(m, i) /\ Answers(n, i) => m = n
    /\ \A i \in DOMAIN cmd : cmd[i].pc \in {"mark", "done"} /\ open /\ workerUp =>
         \E n \in 1..Len(workerIn) : Answers(n, i)

\* A row has a goroutine, which still knows of it until it has marked it.
RowsFollow ==
    /\ DOMAIN records \subseteq DOMAIN cmd
    /\ \A i \in DOMAIN records : /\ cmd[i].pc \notin {"record", "insert"}
                                 /\ cmd[i].pc # "done" => i \in byTool
    /\ RecordsTellTheTruth

\* Who is remembered as a user's message is one, and was written to the
\* furniture before it was stored (recordWorkerEvent, appendUser).
UsersMessage(id) == id # 0 => messages[id].type = "asr_final"
HistoryIsUsers ==
    /\ \A a \in appends : /\ a.pc = "insert" => a.event \in Range(clientIn)
                          /\ a.pc = "set" => UsersMessage(a.id)
    /\ \A id \in 1..Len(messages) : messages[id] \in Range(clientIn)
    /\ UsersMessage(lastUser)
    /\ \A i \in DOMAIN cmd : /\ UsersMessage(cmd[i].message)
                             /\ cmd[i].pc = "insert" => cmd[i].message # 0
    /\ \A i \in DOMAIN records : UsersMessage(records[i].message)

\* The inductive invariant.
Safety ==
    /\ TypeOK
    /\ Forwarded /\ FramesInOrder
    /\ IdsAreUnique /\ AnswersFit
    /\ RowsFollow /\ HistoryIsUsers

-----------------------------------------------------------------------------
(* Helpers *)

\* What the worker says is a command with an id, or speech.
LEMMA EventKinds ==
    ASSUME NEW e \in Events
    PROVE  /\ isDeviceCommand(e) <=> e \notin Speech
           /\ isDeviceCommand(e) => e.id \in Commands
BY DEF Events, Speech, Final, Reply, Command, isDeviceCommand

\* What an element added to a sequence changes (AppendProperties, as the steps
\* below use it).
LEMMA Appended ==
    ASSUME NEW S, NEW s \in Seq(S), NEW e \in S
    PROVE  /\ Append(s, e) \in Seq(S) /\ Len(s) \in Nat /\ Len(Append(s, e)) = Len(s) + 1
           /\ Append(s, e)[Len(s) + 1] = e
           /\ \A i \in 1..Len(s) : Append(s, e)[i] = s[i]
           /\ Range(Append(s, e)) = Range(s) \union {e}
<1>1. /\ Append(s, e) \in Seq(S) /\ Len(s) \in Nat /\ Len(Append(s, e)) = Len(s) + 1
      /\ Append(s, e)[Len(s) + 1] = e
      /\ \A i \in 1..Len(s) : Append(s, e)[i] = s[i]
  BY AppendProperties, LenProperties
<1>2. DOMAIN s = 1..Len(s) /\ DOMAIN Append(s, e) = 1..(Len(s) + 1)
  BY <1>1, LenProperties
<1>3. Range(Append(s, e)) = Range(s) \union {e}
  <2>1. 1..(Len(s) + 1) = 1..Len(s) \union {Len(s) + 1}
    BY <1>1
  <2> DEFINE a == Append(s, e)
  <2>2. DOMAIN a = DOMAIN s \union {Len(s) + 1} /\ a[Len(s) + 1] = e
        /\ \A i \in DOMAIN s : a[i] = s[i]
    BY <1>1, <1>2, <2>1
  <2> HIDE DEF a
  <2>3. Range(a) = Range(s) \union {e}
    BY <2>2 DEF Range
  <2> QED
    BY <2>3 DEF a
<1> QED
  BY <1>1, <1>3

\* What a step of a command's goroutine changes.
CmdType == [pc : {"record", "insert", "execute", "write", "mark", "done"},
            message : 0..Len(messages), ok : BOOLEAN]
LEMMA CmdMoves ==
    ASSUME TypeOK, NEW i, CmdSteps(i)
    PROVE  /\ i \in DOMAIN cmd /\ i \in Commands /\ DOMAIN cmd' = DOMAIN cmd
           /\ \A j \in DOMAIN cmd \ {i} : cmd'[j] = cmd[j]
           /\ cmd'[i] \in CmdType
           /\ UNCHANGED <<peerVars, pumpVars, clientIn, recording, appends, messages, lastUser>>
           /\ \/ CmdRecord(i) /\ cmd[i].pc = "record" /\ cmd'[i].message = lastUser
                              /\ cmd'[i].pc = IF lastUser = 0 THEN "execute" ELSE "insert"
              \/ /\ cmd'[i].message = cmd[i].message
                 /\ \/ CmdInsert(i)  /\ cmd[i].pc = "insert"  /\ cmd'[i].pc = "execute"
                    \/ CmdExecute(i) /\ cmd[i].pc = "execute" /\ cmd'[i].pc = "write"
                    \/ /\ cmd'[i].ok = cmd[i].ok
                       /\ \/ CmdReply(i) /\ cmd[i].pc = "write" /\ cmd'[i].pc = "mark"
                          \/ CmdMark(i)  /\ cmd[i].pc = "mark"  /\ cmd'[i].pc = "done"
<1>1. i \in DOMAIN cmd /\ i \in Commands /\ cmd[i] \in CmdType /\ lastUser \in 0..Len(messages)
  BY DEF CmdSteps, CmdRecord, CmdInsert, CmdExecute, CmdReply, CmdMark, At, TypeOK, CmdType
<1>2. PICK c \in CmdType : c = cmd[i]
  BY <1>1
<1>3. ASSUME NEW r, Step(i, r)
      PROVE  /\ DOMAIN cmd' = DOMAIN cmd /\ cmd'[i] = r
             /\ \A j \in DOMAIN cmd \ {i} : cmd'[j] = cmd[j]
             /\ UNCHANGED <<peerVars, pumpVars, clientIn, recording, appends, messages, lastUser>>
  BY <1>1, <1>3 DEF Step
<1>4. CASE CmdRecord(i)
  <2> DEFINE r == [c EXCEPT !.message = lastUser, !.pc = IF lastUser = 0 THEN "execute" ELSE "insert"]
  <2>1. Step(i, r) /\ c.pc = "record"
    BY <1>2, <1>4 DEF CmdRecord, At
  <2>2. r \in CmdType /\ r.message = lastUser
        /\ r.pc = IF lastUser = 0 THEN "execute" ELSE "insert"
    BY <1>1 DEF CmdType
  <2> HIDE DEF r
  <2> QED
    BY <1>1, <1>2, <1>3, <1>4, <2>1, <2>2
<1>5. CASE CmdInsert(i)
  <2> DEFINE r == [c EXCEPT !.pc = "execute"]
  <2>1. Step(i, r) /\ c.pc = "insert"
    BY <1>2, <1>5 DEF CmdInsert, At
  <2>2. r \in CmdType /\ r.message = c.message /\ r.pc = "execute"
    BY DEF CmdType
  <2> HIDE DEF r
  <2> QED
    BY <1>1, <1>2, <1>3, <1>5, <2>1, <2>2
<1>6. CASE CmdExecute(i)
  <2>1. PICK ok \in BOOLEAN : Step(i, [c EXCEPT !.pc = "write", !.ok = ok])
    BY <1>2, <1>6 DEF CmdExecute
  <2> DEFINE r == [c EXCEPT !.pc = "write", !.ok = ok]
  <2>2. r \in CmdType /\ r.message = c.message /\ r.pc = "write"
    BY DEF CmdType
  <2>3. Step(i, r) /\ c.pc = "execute"
    BY <1>2, <1>6, <2>1 DEF CmdExecute, At
  <2> HIDE DEF r
  <2> QED
    BY <1>1, <1>2, <1>3, <1>6, <2>2, <2>3
<1>7. CASE CmdReply(i)
  <2> DEFINE r == [c EXCEPT !.pc = "mark"]
  <2>1. Step(i, r) /\ c.pc = "write"
    BY <1>2, <1>7 DEF CmdReply, At
  <2>2. r \in CmdType /\ r.message = c.message /\ r.pc = "mark" /\ r.ok = c.ok
    BY DEF CmdType
  <2> HIDE DEF r
  <2> QED
    BY <1>1, <1>2, <1>3, <1>7, <2>1, <2>2
<1>8. CASE CmdMark(i)
  <2> DEFINE r == [c EXCEPT !.pc = "done"]
  <2>1. Step(i, r) /\ c.pc = "mark"
    BY <1>2, <1>8 DEF CmdMark, At
  <2>2. r \in CmdType /\ r.message = c.message /\ r.pc = "done" /\ r.ok = c.ok
    BY DEF CmdType
  <2> HIDE DEF r
  <2> QED
    BY <1>1, <1>2, <1>3, <1>8, <2>1, <2>2
<1> QED
  BY <1>4, <1>5, <1>6, <1>7, <1>8 DEF CmdSteps

\* What the worker may say next.
LEMMA WorkerSays ==
    ASSUME TypeOK, WorkerSend
    PROVE  \E e \in Events :
             /\ said' = Append(said, e)
             /\ isDeviceCommand(e) => e.id = Cardinality(Issued) + 1
<1>1. CASE \E k \in Turns : said' = Append(said, Final(k))
  BY <1>1 DEF Events, Speech, Final, isDeviceCommand
<1>2. CASE \E k \in Announced : said' = Append(said, Reply(k))
  BY <1>2 DEF Events, Speech, Reply, Announced, isDeviceCommand
<1>3. CASE \E k \in Announced, i \in Commands :
             i = Cardinality(Issued) + 1 /\ said' = Append(said, Command(i, k))
  <2>1. PICK k \in Turns, i \in Commands :
               i = Cardinality(Issued) + 1 /\ said' = Append(said, Command(i, k))
    BY <1>3 DEF Announced
  <2>2. Command(i, k) \in Events /\ Command(i, k).id = i
    BY DEF Events, Command
  <2> QED
    BY <2>1, <2>2
<1> QED
  BY <1>1, <1>2, <1>3 DEF WorkerSend

-----------------------------------------------------------------------------
(* The down pump *)

\* Nothing between the worker and the furniture is lost, added or overtaken.
LEMMA ForwardedStep == TypeOK /\ Forwarded /\ [Next]_vars => Forwarded'
<1> SUFFICES ASSUME TypeOK, Forwarded, [Next]_vars
             PROVE  Forwarded'
  OBVIOUS
<1> DEFINE n == Len(clientIn)
<1>1. /\ said \in Seq(Events) /\ heard \in 0..Len(said) /\ Len(said) \in Nat
      /\ clientIn \in Seq(Speech) /\ n \in Nat
      /\ downPump \in {Reading, Done} \union [pc : {"write"}, event : Speech]
  BY LenProperties DEF TypeOK
<1>2. PICK at \in [1..n -> 1..heard] : Forwards(at)
  BY DEF Forwarded
<1>3. CASE UNCHANGED <<said, heard, clientIn, downPump>>
  BY <1>3 DEF Forwarded, Forwards
<1>4. CASE WorkerSend /\ UNCHANGED <<heard, clientIn, downPump>>
  <2>1. PICK e \in Events : said' = Append(said, e)
    BY <1>4, WorkerSays
  <2>2. \A i \in 1..heard : said'[i] = said[i]
    BY <1>1, <2>1, Appended
  <2>3. \A k \in 1..n : said'[at[k]] = said[at[k]]
    BY <1>2, <2>2
  <2>4. at \in [1..Len(clientIn)' -> 1..heard'] /\ Forwards(at)'
    BY <1>2, <1>4, <2>2, <2>3 DEF Forwards
  <2>5. downPump'.pc = "write" => heard' >= 1 /\ downPump'.event = said'[heard']
    BY <1>1, <1>4, <2>2 DEF Forwarded
  <2> QED
    BY <2>4, <2>5 DEF Forwarded
<1>5. CASE DownRead
  <2> DEFINE e == said[heard + 1]
  <2>1. /\ downPump = Reading /\ heard' = heard + 1 /\ UNCHANGED <<said, clientIn>>
        /\ heard + 1 \in 1..Len(said)
        /\ IF isDeviceCommand(e) THEN downPump' = Reading
                                 ELSE downPump' = [pc |-> "write", event |-> e]
    BY <1>1, <1>5 DEF DownRead, peerVars
  <2>2. at \in [1..Len(clientIn)' -> 1..heard'] /\ \A k \in 1..n : at[k] \in 1..heard
    BY <1>1, <1>2, <2>1, SMTT(30)
  <2>3. Forwards(at)'
    <3>1. \A i \in 1..heard' : \/ isDeviceCommand(said[i])
                               \/ \E k \in 1..n : at[k] = i
                               \/ i = heard' /\ downPump' # Reading
      BY <1>1, <1>2, <2>1 DEF Forwards, Reading
    <3>2. downPump'.pc = "write" => \A k \in 1..n : at[k] < heard'
      BY <1>1, <2>1, <2>2
    <3> QED
      BY <1>2, <2>1, <2>2, <3>1, <3>2 DEF Forwards
  <2>4. downPump'.pc = "write" => heard' >= 1 /\ downPump'.event = said'[heard']
    BY <1>1, <2>1 DEF Reading
  <2> QED
    BY <2>2, <2>3, <2>4 DEF Forwarded
<1>6. CASE DownWrite
  <2>1. downPump.pc = "write" /\ UNCHANGED <<said, heard>> /\ heard >= 1
        /\ downPump.event = said[heard] /\ downPump.event \in Speech
    BY <1>1, <1>6 DEF DownWrite, peerVars, Forwarded, Reading, Done
  <2>2. CASE clientIn' = Append(clientIn, downPump.event) /\ downPump' = Reading
    <3>0. PICK f : f = [k \in 1..(n + 1) |-> IF k <= n THEN at[k] ELSE heard]
      OBVIOUS
    <3>1. /\ Len(clientIn)' = n + 1 /\ clientIn'[n + 1] = said[heard]
          /\ \A k \in 1..n : clientIn'[k] = clientIn[k]
      BY <1>1, <2>1, <2>2, Appended
    <3>2. /\ f \in [1..(n + 1) -> 1..heard] /\ f[n + 1] = heard
          /\ \A k \in 1..n : f[k] = at[k] /\ at[k] \in 1..heard
      BY <1>1, <1>2, <2>1, <3>0
    <3>3. ~isDeviceCommand(said[heard])
      BY <1>1, <2>1, EventKinds
    <3>4. \A k \in 1..(n + 1) : k \in 1..n \/ k = n + 1
      BY <1>1
    <3>5. \A k \in 1..(n + 1) : clientIn'[k] = said[f[k]] /\ ~isDeviceCommand(said[f[k]])
      BY <1>2, <3>1, <3>2, <3>3, <3>4 DEF Forwards
    <3>6. \A j, k \in 1..(n + 1) : j < k => f[j] < f[k]
      <4>1. ASSUME NEW j \in 1..(n + 1), NEW k \in 1..(n + 1), j < k
            PROVE  f[j] < f[k]
        <5>1. j \in 1..n
          BY <1>1, <4>1
        <5>2. CASE k \in 1..n
          BY <1>2, <3>2, <4>1, <5>1, <5>2 DEF Forwards
        <5>3. CASE k = n + 1
          BY <1>2, <2>1, <3>2, <5>1, <5>3 DEF Forwards
        <5> QED
          BY <3>4, <5>2, <5>3
      <4> QED
        BY <4>1
    <3>7. \A i \in 1..heard : \/ isDeviceCommand(said[i])
                              \/ \E k \in 1..(n + 1) : f[k] = i
      BY <1>1, <1>2, <3>2 DEF Forwards
    <3>8. downPump'.pc # "write"
      BY <2>2 DEF Reading
    <3>9. f \in [1..Len(clientIn)' -> 1..heard'] /\ Forwards(f)'
      BY <2>1, <3>1, <3>2, <3>5, <3>6, <3>7, <3>8 DEF Forwards
    <3> QED
      BY <3>8, <3>9 DEF Forwarded
  <2>3. CASE downPump' = Done /\ UNCHANGED clientIn
    <3>1. downPump'.pc # "write" /\ downPump' # Reading
      BY <2>3 DEF Done, Reading
    <3>2. at \in [1..Len(clientIn)' -> 1..heard'] /\ Forwards(at)'
      BY <1>2, <2>1, <2>3, <3>1 DEF Forwards
    <3> QED
      BY <3>1, <3>2 DEF Forwarded
  <2> QED
    BY <1>6, <2>2, <2>3 DEF DownWrite
<1>7. CASE DownReadFails
  <2>1. downPump' = Done /\ UNCHANGED <<said, heard, clientIn>>
    BY <1>7 DEF DownReadFails, peerVars
  <2>2. downPump'.pc # "write" /\ downPump' # Reading
    BY <2>1 DEF Done, Reading
  <2>3. at \in [1..Len(clientIn)' -> 1..heard'] /\ Forwards(at)'
    BY <1>2, <2>1, <2>2 DEF Forwards
  <2> QED
    BY <2>2, <2>3 DEF Forwarded
<1>8. CASE Peers
  BY <1>3, <1>4, <1>8 DEF Peers, ClientSend, ClientGone, WorkerGone, pumpVars
<1>9. CASE UpSteps \/ Stop \/ End
  BY <1>3, <1>9 DEF UpSteps, UpRead, UpWrite, UpReadFails, Stop, End, peerVars, pumpVars
<1>10. CASE \E a \in appends : Insert(a) \/ SetLastUser(a)
  BY <1>3, <1>10 DEF Insert, SetLastUser, peerVars, pumpVars
<1>11. CASE \E i \in DOMAIN cmd : CmdSteps(i)
  BY <1>3, <1>11, CmdMoves DEF peerVars, pumpVars
<1>12. CASE UNCHANGED vars
  BY <1>3, <1>12 DEF vars, peerVars, pumpVars
<1> QED
  BY <1>5, <1>6, <1>7, <1>8, <1>9, <1>10, <1>11, <1>12 DEF Next, DownSteps

-----------------------------------------------------------------------------
(* Types *)

\* What the pumps, the peers and the goroutines write has the type of where it
\* is written.
LEMMA TypeStep == TypeOK /\ HistoryIsUsers /\ [Next]_vars => TypeOK'
<1> SUFFICES ASSUME TypeOK, HistoryIsUsers, [Next]_vars
             PROVE  TypeOK'
  OBVIOUS
<1>1. /\ Len(said) \in Nat /\ Len(messages) \in Nat
      /\ heard \in Nat /\ sent \in Nat /\ taken \in Nat /\ MaxFrames \in Nat
  BY LenProperties, RelayAssumption DEF TypeOK
<1>2. CASE Peers
  <2>1. CASE ClientSend
    BY <1>1, <1>2, <2>1 DEF TypeOK, Peers, ClientSend, pumpVars, wireVars, histVars
  <2>2. CASE WorkerSend
    <3>1. PICK e \in Events : said' = Append(said, e)
      BY <2>2, WorkerSays
    <3>2. said' \in Seq(Events) /\ heard \in 0..Len(said')
      BY <1>1, <3>1, Appended DEF TypeOK
    <3>3. UNCHANGED <<clientUp, workerUp, sent, pumpVars, wireVars, clientIn, cmd, recording, histVars>>
      BY <1>2, <2>2 DEF Peers, WorkerSend
    <3> QED
      BY <3>2, <3>3 DEF TypeOK, pumpVars, wireVars, histVars
  <2>3. CASE ClientGone \/ WorkerGone
    BY <1>2, <2>3, ZenonT(40) DEF TypeOK, Peers, ClientGone, WorkerGone, pumpVars, wireVars, histVars
  <2> QED
    BY <1>2, <2>1, <2>2, <2>3 DEF Peers
<1>3. CASE UpRead
  BY <1>1, <1>3 DEF TypeOK, UpRead, BeginWrite, peerVars, histVars
<1>4. CASE UpWrite
  <2>1. /\ UNCHANGED <<peerVars, taken, heard, downPump, session, clientIn, cmd, recording, histVars, clash>>
        /\ upPump' \in {Reading, Done} /\ upPump.pc = "write"
        /\ writing' = writing \ {Pump} /\ open' \in BOOLEAN
        /\ workerIn' = workerIn \/ workerIn' = Append(workerIn, Frame(upPump.frame))
    BY <1>4 DEF UpWrite, Written, WriteLost, WriteFails, TypeOK
  <2>2. Frame(upPump.frame) \in WorkerFrame
    BY <1>1, <2>1 DEF TypeOK, Frame, WorkerFrame, Reading, Done
  <2>3. workerIn \in Seq(WorkerFrame)
    BY DEF TypeOK
  <2>4. Append(workerIn, Frame(upPump.frame)) \in Seq(WorkerFrame)
    BY <2>2, <2>3, Appended
  <2> QED
    BY <2>1, <2>3, <2>4 DEF TypeOK, peerVars, histVars
<1>5. CASE UpReadFails
  BY <1>5 DEF TypeOK, UpReadFails, peerVars, histVars
<1>6. CASE DownRead
  <2> DEFINE e == said[heard + 1]
  <2>1. heard + 1 \in 1..Len(said) /\ e \in Events
    <3>1. heard + 1 \in 1..Len(said)
      BY <1>1, <1>6 DEF DownRead
    <3> QED
      BY <3>1, ElementOfSeq DEF TypeOK
  <2>2. heard' = heard + 1 /\ heard + 1 \in 0..Len(said)
        /\ UNCHANGED <<peerVars, taken, upPump, session, wireVars, clientIn, recording, histVars>>
    BY <1>1, <1>6, <2>1 DEF DownRead
  <2>3. CASE isDeviceCommand(e)
    <3> DEFINE new == [pc |-> "record", message |-> 0, ok |-> FALSE]
    <3>1. /\ UNCHANGED downPump /\ e.id \in Commands
          /\ DOMAIN cmd' = DOMAIN cmd \union {e.id}
          /\ \A i \in DOMAIN cmd' : cmd'[i] = IF i = e.id THEN new ELSE cmd[i]
      BY <1>6, <2>1, <2>3, EventKinds DEF DownRead
    <3>2. new \in CmdType
      BY <1>1 DEF CmdType
    <3> HIDE DEF new
    <3>3. \A i \in DOMAIN cmd' : cmd'[i] \in CmdType
      BY <3>1, <3>2 DEF TypeOK, CmdType
    <3> QED
      BY <2>2, <3>1, <3>3 DEF TypeOK, CmdType, peerVars, wireVars, histVars
  <2>4. CASE ~isDeviceCommand(e)
    <3>1. UNCHANGED cmd /\ downPump' \in [pc : {"write"}, event : Speech]
      BY <1>6, <2>1, <2>4, EventKinds DEF DownRead
    <3> QED
      BY <2>2, <3>1 DEF TypeOK, peerVars, wireVars, histVars
  <2> QED
    BY <2>3, <2>4
<1>7. CASE DownWrite
  <2>1. downPump.event \in Speech
    BY <1>7 DEF DownWrite, TypeOK, Reading, Done
  <2>2. /\ UNCHANGED <<peerVars, taken, heard, upPump, session, wireVars, cmd, recording,
                       messages, lastUser, records, byTool, failed>>
        /\ downPump' \in {Reading, Done}
        /\ clientIn' = clientIn \/ clientIn' = Append(clientIn, downPump.event)
        /\ appends' \subseteq appends \union {[pc |-> "insert", event |-> downPump.event]}
    BY <1>7 DEF DownWrite, Recorded
  <2>3. clientIn \in Seq(Speech)
    BY DEF TypeOK
  <2>4. Append(clientIn, downPump.event) \in Seq(Speech)
    BY <2>1, <2>3, Appended
  <2>5. clientIn' \in Seq(Speech)
    BY <2>2, <2>3, <2>4
  <2>6. appends' \subseteq ([pc : {"insert"}, event : Speech]
                               \union [pc : {"set"}, id : 1..Len(messages)])
    BY <2>1, <2>2 DEF TypeOK
  <2> QED
    BY <2>2, <2>5, <2>6 DEF TypeOK, peerVars, wireVars
<1>8. CASE DownReadFails \/ Stop \/ End
  BY <1>8 DEF TypeOK, DownReadFails, Stop, End, peerVars, wireVars, histVars
<1>9. CASE \E a \in appends : Insert(a)
  <2>1. PICK a \in appends : Insert(a)
    BY <1>9
  <2>2. a.event \in Speech /\ Append(messages, a.event) \in Seq(Speech)
        /\ Len(Append(messages, a.event)) = Len(messages) + 1
    <3>1. a.event \in Speech
      BY <2>1 DEF Insert, TypeOK
    <3> QED
      BY <3>1, Appended DEF TypeOK
  <2>3. UNCHANGED <<peerVars, pumpVars, wireVars, clientIn, cmd, recording, lastUser,
                    records, byTool, failed>>
    BY <2>1 DEF Insert
  <2>4. CASE messages' = messages
    <3>1. appends' \subseteq appends
      BY <1>1, <2>1, <2>2, <2>4 DEF Insert
    <3> QED
      BY <2>3, <2>4, <3>1 DEF TypeOK, peerVars, pumpVars, wireVars
  <2>5. CASE messages' = Append(messages, a.event)
    <3>1. messages' \in Seq(Speech) /\ Len(messages') = Len(messages) + 1
      BY <2>2, <2>5
    <3>2. appends' \subseteq appends \union {[pc |-> "set", id |-> Len(messages) + 1]}
      BY <2>1 DEF Insert
    <3>3. appends' \subseteq ([pc : {"insert"}, event : Speech]
                                 \union [pc : {"set"}, id : 1..Len(messages')])
      <4>1. 1..Len(messages) \subseteq 1..Len(messages') /\ Len(messages) + 1 \in 1..Len(messages')
        BY <1>1, <3>1
      <4>2. \A b \in [pc : {"set"}, id : 1..Len(messages)] : b \in [pc : {"set"}, id : 1..Len(messages')]
        BY <4>1
      <4> QED
        BY <3>2, <4>1, <4>2 DEF TypeOK
    <3>4. 0..Len(messages) \subseteq 0..Len(messages') /\ 1..Len(messages) \subseteq 1..Len(messages')
      BY <1>1, <3>1
    <3>5. \A i \in DOMAIN cmd' : cmd'[i] \in CmdType'
      BY <2>3, <3>4 DEF TypeOK, CmdType
    <3>6. \A i \in DOMAIN records' :
            records'[i] \in [message : 1..Len(messages'), result : {"pending", "success", "failure"}]
      BY <2>3, <3>4 DEF TypeOK
    <3>7. lastUser' \in 0..Len(messages')
      BY <2>3, <3>4 DEF TypeOK
    <3> QED
      BY <2>3, <3>1, <3>3, <3>5, <3>6, <3>7 DEF TypeOK, CmdType, peerVars, pumpVars, wireVars
  <2> QED
    BY <2>1, <2>4, <2>5 DEF Insert
<1>10. CASE \E a \in appends : SetLastUser(a)
  <2>1. PICK a \in appends : SetLastUser(a)
    BY <1>10
  <2>2. a.id \in 0..Len(messages)
    BY <1>1, <2>1 DEF SetLastUser, TypeOK
  <2>3. lastUser' \in 0..Len(messages) /\ appends' \subseteq appends
    BY <2>1, <2>2 DEF SetLastUser
  <2>4. UNCHANGED <<peerVars, pumpVars, wireVars, clientIn, cmd, recording, messages,
                    records, byTool, failed>>
    BY <2>1 DEF SetLastUser
  <2> QED
    BY <2>3, <2>4 DEF TypeOK, peerVars, pumpVars, wireVars
<1>11. CASE \E i \in DOMAIN cmd : CmdSteps(i)
  <2>1. PICK i \in DOMAIN cmd : CmdSteps(i)
    BY <1>11
  <2>2. /\ i \in Commands /\ DOMAIN cmd' = DOMAIN cmd
        /\ UNCHANGED <<peerVars, pumpVars, clientIn, recording, appends, messages, lastUser>>
        /\ \A j \in DOMAIN cmd' : cmd'[j] \in CmdType
    <3>1. \A j \in DOMAIN cmd : cmd[j] \in CmdType
      BY DEF TypeOK, CmdType
    <3> QED
      BY <2>1, <3>1, CmdMoves
  <2>3. /\ writing' \subseteq {Pump} \union Commands /\ clash' \in BOOLEAN /\ open' \in BOOLEAN
        /\ workerIn' \in Seq(WorkerFrame)
    <3>1. CASE wireVars' = wireVars
      BY <3>1 DEF TypeOK, wireVars
    <3>2. CASE CmdExecute(i)
      BY <2>2, <3>2 DEF TypeOK, CmdExecute, BeginWrite
    <3>3. CASE CmdReply(i)
      <4>1. Result(i, cmd[i].ok) \in WorkerFrame
        BY <2>1, <2>2 DEF TypeOK, WorkerFrame, Result
      <4>2. Append(workerIn, Result(i, cmd[i].ok)) \in Seq(WorkerFrame)
        BY <4>1, Appended DEF TypeOK
      <4> QED
        BY <3>3, <4>2 DEF TypeOK, CmdReply, Written, WriteLost, WriteFails
    <3> QED
      BY <2>1, <3>1, <3>2, <3>3 DEF CmdSteps, CmdRecord, CmdInsert, CmdMark
  <2>4. /\ byTool' \subseteq Commands /\ failed' \subseteq Commands /\ DOMAIN records' \subseteq Commands
        /\ \A j \in DOMAIN records' :
             records'[j] \in [message : 1..Len(messages), result : {"pending", "success", "failure"}]
    <3>1. CASE UNCHANGED <<records, byTool, failed>>
      BY <3>1 DEF TypeOK
    <3>2. CASE CmdInsert(i)
      <4>1. cmd[i].message \in 1..Len(messages)
        BY <1>1, <2>1, <3>2 DEF CmdInsert, At, HistoryIsUsers, TypeOK
      <4> QED
        BY <2>2, <3>2, <4>1 DEF TypeOK, CmdInsert
    <3>3. CASE CmdMark(i)
      <4>1. byTool' \subseteq Commands /\ failed' \subseteq Commands
        BY <2>2, <3>3 DEF TypeOK, CmdMark
      <4>2. PICK r \in {"success", "failure"} :
              records' = [records EXCEPT ![i].result = r] \/ records' = records
        BY <3>3 DEF CmdMark
      <4>3. DOMAIN records' = DOMAIN records
            /\ \A j \in DOMAIN records : \/ records'[j] = records[j]
                                         \/ records'[j] = [records[j] EXCEPT !.result = r]
        BY <4>2
      <4>4. ASSUME NEW j \in DOMAIN records
            PROVE  [records[j] EXCEPT !.result = r] \in
                      [message : 1..Len(messages), result : {"pending", "success", "failure"}]
        BY DEF TypeOK
      <4>5. DOMAIN records \subseteq Commands /\ \A j \in DOMAIN records :
              records[j] \in [message : 1..Len(messages), result : {"pending", "success", "failure"}]
        BY DEF TypeOK
      <4> QED
        BY <4>1, <4>3, <4>4, <4>5
    <3> QED
      BY <2>1, <3>1, <3>2, <3>3 DEF CmdSteps, CmdRecord, CmdExecute, CmdReply
  <2> QED
    BY <2>2, <2>3, <2>4 DEF TypeOK, CmdType, peerVars, pumpVars
<1>12. CASE UNCHANGED vars
  BY <1>12 DEF TypeOK, vars, peerVars, pumpVars, wireVars, histVars
<1> QED
  BY <1>2, <1>3, <1>4, <1>5, <1>6, <1>7, <1>8, <1>9, <1>10, <1>11, <1>12
  DEF Next, UpSteps, DownSteps

-----------------------------------------------------------------------------
(* The wire to the worker *)

\* What a message that is added leaves of those before it.
LEMMA WorkerGets ==
    ASSUME TypeOK, NEW m \in WorkerFrame, workerIn' = Append(workerIn, m)
    PROVE  /\ Len(workerIn) \in Nat /\ Len(workerIn') = Len(workerIn) + 1
           /\ workerIn'[Len(workerIn) + 1] = m
           /\ \A n \in 1..Len(workerIn) : workerIn'[n] = workerIn[n]
           /\ \A n \in 1..Len(workerIn') : n \in 1..Len(workerIn) \/ n = Len(workerIn) + 1
<1>1. workerIn \in Seq(WorkerFrame)
  BY DEF TypeOK
<1> QED
  BY <1>1, Appended

\* What the worker has been written is left alone by all but two steps.
LEMMA WorkerHears ==
    ASSUME TypeOK, [Next]_vars
    PROVE  \/ UNCHANGED workerIn
           \/ UpWrite /\ upPump.pc = "write" /\ workerIn' = Append(workerIn, Frame(upPump.frame))
           \/ \E i \in DOMAIN cmd :
                CmdReply(i) /\ workerIn' = Append(workerIn, Result(i, cmd[i].ok))
<1>1. CASE Peers \/ Stop \/ End \/ DownSteps
  BY <1>1 DEF Peers, Stop, End, DownSteps, DownRead, DownWrite, DownReadFails, wireVars
<1>2. CASE UpSteps
  BY <1>2 DEF UpSteps, UpRead, UpWrite, UpReadFails, Written, WriteLost, WriteFails
<1>3. CASE \E a \in appends : Insert(a) \/ SetLastUser(a)
  BY <1>3 DEF Insert, SetLastUser, wireVars
<1>4. CASE \E i \in DOMAIN cmd : CmdSteps(i)
  BY <1>4 DEF CmdSteps, CmdRecord, CmdInsert, CmdExecute, CmdReply, CmdMark, wireVars,
              Written, WriteLost, WriteFails
<1>5. CASE UNCHANGED vars
  BY <1>5 DEF vars, wireVars
<1> QED
  BY <1>1, <1>2, <1>3, <1>4, <1>5 DEF Next

\* The worker gets the furniture's frames in order, whatever comes between.
LEMMA FramesStep == TypeOK /\ FramesInOrder /\ [Next]_vars => FramesInOrder'
<1> SUFFICES ASSUME TypeOK, FramesInOrder, [Next]_vars
             PROVE  FramesInOrder'
  OBVIOUS
<1> DEFINE L == Len(workerIn)
           Framed(n) == workerIn[n].type = "frame"
<1>1. /\ workerIn \in Seq(WorkerFrame) /\ taken \in Nat
      /\ upPump \in {Reading, Done} \union [pc : {"write"}, frame : 1..sent]
      /\ \A n \in 1..L : Framed(n) => workerIn[n].id \in Nat
  <2>1. workerIn \in Seq(WorkerFrame) /\ taken \in Nat
        /\ upPump \in {Reading, Done} \union [pc : {"write"}, frame : 1..sent]
    BY DEF TypeOK
  <2>2. \A n \in 1..L : workerIn[n] \in WorkerFrame
    BY <2>1, ElementOfSeq
  <2>3. \A n \in 1..L : Framed(n) => workerIn[n].id \in Nat
    BY <2>2 DEF WorkerFrame
  <2> QED
    BY <2>1, <2>3
<1>2. Reading.pc # "write" /\ Done.pc # "write"
  BY DEF Reading, Done
<1>3. CASE UNCHANGED workerIn
  <2>1. CASE UpRead
    <3>1. taken' = taken + 1 /\ upPump' = [pc |-> "write", frame |-> taken + 1]
      BY <2>1 DEF UpRead
    <3> QED
      BY <1>1, <1>3, <3>1 DEF FramesInOrder
  <2>2. CASE taken' = taken /\ (upPump' = upPump \/ upPump' \in {Reading, Done})
    BY <1>1, <1>2, <1>3, <2>2 DEF FramesInOrder
  <2>3. CASE Peers \/ Stop \/ End \/ DownSteps
    BY <2>2, <2>3 DEF Peers, Stop, End, DownSteps, DownRead, DownWrite, DownReadFails, pumpVars
  <2>4. CASE UpSteps
    BY <2>1, <2>2, <2>4 DEF UpSteps, UpWrite, UpReadFails
  <2>5. CASE \E a \in appends : Insert(a) \/ SetLastUser(a)
    BY <2>2, <2>5 DEF Insert, SetLastUser, pumpVars
  <2>6. CASE \E i \in DOMAIN cmd : CmdSteps(i)
    BY <2>2, <2>6, CmdMoves DEF pumpVars
  <2>7. CASE UNCHANGED vars
    BY <2>2, <2>7 DEF vars, pumpVars
  <2> QED
    BY <2>3, <2>4, <2>5, <2>6, <2>7 DEF Next
<1>4. CASE UpWrite /\ upPump.pc = "write" /\ workerIn' = Append(workerIn, Frame(upPump.frame))
  <2>1. upPump.frame = taken /\ upPump.frame \in 1..sent
    BY <1>1, <1>2, <1>4 DEF FramesInOrder
  <2>2. Frame(taken) \in WorkerFrame /\ Frame(taken).type = "frame" /\ Frame(taken).id = taken
    <3>1. taken \in 1..MaxFrames
      BY <1>1, <2>1, RelayAssumption DEF TypeOK
    <3> QED
      BY <3>1 DEF Frame, WorkerFrame
  <2>3. /\ L \in Nat /\ Len(workerIn') = L + 1 /\ workerIn'[L + 1] = Frame(taken)
        /\ \A n \in 1..L : workerIn'[n] = workerIn[n]
        /\ \A n \in 1..(L + 1) : n \in 1..L \/ n = L + 1
    BY <1>4, <2>1, <2>2, WorkerGets
  <2>4. taken' = taken /\ upPump'.pc # "write"
    BY <1>2, <1>4 DEF UpWrite, WriteFails
  <2>5. \A n \in 1..L : Framed(n) => workerIn[n].id < taken
    BY <1>4 DEF FramesInOrder
  <2>6. \A n \in 1..(L + 1) : workerIn'[n].type = "frame" => workerIn'[n].id <= taken
    BY <1>1, <2>2, <2>3, <2>5
  <2>7. \A i, j \in 1..(L + 1) :
          i < j /\ workerIn'[i].type = "frame" /\ workerIn'[j].type = "frame" =>
            workerIn'[i].id < workerIn'[j].id
    <3>1. ASSUME NEW i \in 1..(L + 1), NEW j \in 1..(L + 1), i < j,
                 workerIn'[i].type = "frame", workerIn'[j].type = "frame"
          PROVE  workerIn'[i].id < workerIn'[j].id
      <4>1. i \in 1..L
        BY <2>3, <3>1
      <4>2. CASE j \in 1..L
        BY <2>3, <3>1, <4>1, <4>2 DEF FramesInOrder
      <4>3. CASE j = L + 1
        BY <2>2, <2>3, <2>5, <3>1, <4>1, <4>3
      <4> QED
        BY <2>3, <4>2, <4>3
    <3> QED
      BY <3>1
  <2> QED
    BY <2>3, <2>4, <2>6, <2>7 DEF FramesInOrder
<1>5. ASSUME NEW i \in DOMAIN cmd, CmdReply(i), workerIn' = Append(workerIn, Result(i, cmd[i].ok))
      PROVE  FramesInOrder'
  <2>1. Result(i, cmd[i].ok) \in WorkerFrame /\ Result(i, cmd[i].ok).type # "frame"
    BY DEF TypeOK, WorkerFrame, Result
  <2>2. /\ L \in Nat /\ Len(workerIn') = L + 1 /\ workerIn'[L + 1].type # "frame"
        /\ \A n \in 1..L : workerIn'[n] = workerIn[n]
        /\ \A n \in 1..(L + 1) : n \in 1..L \/ n = L + 1
    BY <1>5, <2>1, WorkerGets
  <2>3. UNCHANGED <<taken, upPump>>
    BY <1>5, CmdMoves DEF CmdSteps, pumpVars
  <2> QED
    BY <2>2, <2>3 DEF FramesInOrder
<1> QED
  BY <1>3, <1>4, <1>5, WorkerHears

-----------------------------------------------------------------------------
(* The commands *)

\* A command that is read has an id that no goroutine has (DownRead).
LEMMA DownReads ==
    ASSUME TypeOK, IdsAreUnique, DownRead
    PROVE  \/ UNCHANGED cmd
           \/ \E i \in Commands \ DOMAIN cmd :
                /\ isDeviceCommand(said[heard + 1]) /\ said[heard + 1].id = i
                /\ DOMAIN cmd' = DOMAIN cmd \union {i}
                /\ cmd'[i].pc = "record" /\ cmd'[i].message = 0
                /\ \A j \in DOMAIN cmd : cmd'[j] = cmd[j]
<1> DEFINE e == said[heard + 1]
<1>1. heard \in Nat /\ Len(said) \in Nat /\ heard + 1 \in 1..Len(said) /\ e \in Events
  <2>1. said \in Seq(Events) /\ Len(said) \in Nat /\ heard \in 0..Len(said) /\ heard < Len(said)
    BY LenProperties DEF TypeOK, DownRead
  <2>2. heard \in Nat /\ heard + 1 \in 1..Len(said)
    BY <2>1
  <2> QED
    BY <2>1, <2>2, ElementOfSeq
<1>2. CASE ~isDeviceCommand(e)
  BY <1>2 DEF DownRead
<1>3. CASE isDeviceCommand(e)
  <2>1. /\ DOMAIN cmd' = DOMAIN cmd \union {e.id}
        /\ \A j \in DOMAIN cmd' :
             cmd'[j] = IF j = e.id THEN [pc |-> "record", message |-> 0, ok |-> FALSE] ELSE cmd[j]
    BY <1>3 DEF DownRead
  <2>2. e.id \in Commands
    BY <1>1, <1>3, EventKinds
  <2>3. ASSUME e.id \in DOMAIN cmd PROVE FALSE
    <3>1. PICK j \in 1..heard : isDeviceCommand(said[j]) /\ said[j].id = e.id
      BY <2>3 DEF IdsAreUnique
    <3>2. j \in 1..Len(said) /\ j # heard + 1
      BY <1>1
    <3> QED
      BY <1>1, <1>3, <3>1, <3>2 DEF IdsAreUnique
  <2> QED
    BY <1>3, <2>1, <2>2, <2>3
<1> QED
  BY <1>2, <1>3

\* No other step begins or forgets a goroutine.
LEMMA CmdsStay ==
    ASSUME TypeOK, [Next]_vars
    PROVE  DownRead \/ (\E i \in DOMAIN cmd : CmdSteps(i)) \/ UNCHANGED cmd
<1>1. CASE Peers \/ Stop \/ End \/ UpSteps
  BY <1>1 DEF Peers, Stop, End, UpSteps, UpRead, UpWrite, UpReadFails
<1>2. CASE DownSteps
  BY <1>2 DEF DownSteps, DownWrite, DownReadFails
<1>3. CASE \E a \in appends : Insert(a) \/ SetLastUser(a)
  BY <1>3 DEF Insert, SetLastUser
<1>4. CASE UNCHANGED vars
  BY <1>4 DEF vars
<1> QED
  BY <1>1, <1>2, <1>3, <1>4 DEF Next

\* What the worker says and what the down pump has heard only grow.
LEMMA SaidGrows ==
    ASSUME TypeOK, [Next]_vars
    PROVE  (Peers /\ WorkerSend) \/ UNCHANGED said
<1>1. CASE Peers \/ Stop \/ End \/ UpSteps
  BY <1>1 DEF Peers, ClientSend, ClientGone, WorkerGone, Stop, End, UpSteps, UpRead, UpWrite, UpReadFails, peerVars
<1>2. CASE DownSteps
  BY <1>2 DEF DownSteps, DownRead, DownWrite, DownReadFails, peerVars
<1>3. CASE \E a \in appends : Insert(a) \/ SetLastUser(a)
  BY <1>3 DEF Insert, SetLastUser, peerVars
<1>4. CASE \E i \in DOMAIN cmd : CmdSteps(i)
  BY <1>4, CmdMoves DEF peerVars
<1>5. CASE UNCHANGED vars
  BY <1>5 DEF vars, peerVars
<1> QED
  BY <1>1, <1>2, <1>3, <1>4, <1>5 DEF Next

\* Tool ids stay unique, and goroutines read their commands.
LEMMA IdsStep == TypeOK /\ IdsAreUnique /\ [Next]_vars => IdsAreUnique'
<1> SUFFICES ASSUME TypeOK, IdsAreUnique, [Next]_vars
             PROVE  IdsAreUnique'
  OBVIOUS
<1> DEFINE L == Len(said)
<1>1. said \in Seq(Events) /\ L \in Nat /\ heard \in 0..L /\ heard \in Nat
      /\ DOMAIN said = 1..L
  BY LenProperties DEF TypeOK
<1>2. heard' = heard \/ heard' = heard + 1
  <2>1. CASE Peers \/ Stop \/ End \/ UpSteps
    BY <2>1 DEF Peers, Stop, End, UpSteps, UpRead, UpWrite, UpReadFails, pumpVars
  <2>2. CASE DownSteps
    BY <2>2 DEF DownSteps, DownRead, DownWrite, DownReadFails, pumpVars
  <2>3. CASE \E a \in appends : Insert(a) \/ SetLastUser(a)
    BY <2>3 DEF Insert, SetLastUser, pumpVars
  <2>4. CASE \E i \in DOMAIN cmd : CmdSteps(i)
    BY <2>4, CmdMoves DEF pumpVars
  <2>5. CASE UNCHANGED vars
    BY <2>5 DEF vars, pumpVars
  <2> QED
    BY <2>1, <2>2, <2>3, <2>4, <2>5 DEF Next
<1>3. CASE UNCHANGED said
  <2>1. UNCHANGED Issued
    BY <1>3 DEF Issued
  <2>2. \A i \in DOMAIN cmd' : \E j \in 1..heard' : isDeviceCommand(said[j]) /\ said[j].id = i
    <3>1. 1..heard \subseteq 1..heard'
      BY <1>1, <1>2
    <3>2. CASE DOMAIN cmd' = DOMAIN cmd
      BY <3>1, <3>2 DEF IdsAreUnique
    <3>3. CASE DownRead
      <4>1. heard' = heard + 1 /\ heard + 1 \in 1..heard'
        BY <1>1, <3>3 DEF DownRead
      <4> QED
        BY <3>1, <3>3, <4>1, DownReads DEF IdsAreUnique
    <3> QED
      BY <3>2, <3>3, CmdsStay, CmdMoves
  <2> QED
    BY <1>3, <2>1, <2>2 DEF IdsAreUnique
<1>4. CASE Peers /\ WorkerSend
  <2>1. PICK e \in Events : /\ said' = Append(said, e)
                            /\ isDeviceCommand(e) => e.id = Cardinality(Issued) + 1
    BY <1>4, WorkerSays
  <2>2. PICK n \in Nat : Issued = 1..n
    BY DEF IdsAreUnique
  <2>3. Cardinality(Issued) = n
    <3>1. Cardinality(1..n) = IF 1 > n THEN 0 ELSE n - 1 + 1
      BY <2>2, FS_Interval
    <3> QED
      BY <2>2, <3>1
  <2>4. /\ Len(said') = L + 1 /\ said'[L + 1] = e /\ Range(said') = Range(said) \union {e}
        /\ \A i \in 1..L : said'[i] = said[i]
        /\ \A i \in 1..(L + 1) : i \in 1..L \/ i = L + 1
    BY <1>1, <2>1, Appended
  <2>5. Issued' = IF isDeviceCommand(e) THEN 1..(n + 1) ELSE 1..n
    <3>1. Issued' = { d.id : d \in { d \in Range(said) \union {e} : isDeviceCommand(d) } }
      BY <2>4 DEF Issued
    <3>2. CASE isDeviceCommand(e)
      <4>1. Issued' = Issued \union {e.id}
        BY <3>1, <3>2 DEF Issued
      <4>2. 1..(n + 1) = 1..n \union {n + 1}
        BY <2>2
      <4> QED
        BY <2>1, <2>2, <2>3, <3>2, <4>1, <4>2
    <3>3. CASE ~isDeviceCommand(e)
      BY <2>2, <3>1, <3>3 DEF Issued
    <3> QED
      BY <3>2, <3>3
  <2>6. \A i \in 1..L : isDeviceCommand(said[i]) => said[i].id \in 1..n
    BY <1>1, <2>2 DEF Issued, Range
  <2>7. \A i, j \in 1..(L + 1) :
          isDeviceCommand(said'[i]) /\ isDeviceCommand(said'[j]) /\ said'[i].id = said'[j].id => i = j
    <3>1. isDeviceCommand(e) => e.id \notin 1..n
      BY <2>1, <2>2, <2>3
    <3> QED
      BY <2>4, <2>6, <3>1 DEF IdsAreUnique
  <2>8. heard' = heard /\ cmd' = cmd
    BY <1>4 DEF Peers, pumpVars
  <2>9. \A i \in DOMAIN cmd : \E j \in 1..heard : isDeviceCommand(said'[j]) /\ said'[j].id = i
    <3>1. \A j \in 1..heard : said'[j] = said[j]
      BY <1>1, <2>4
    <3> QED
      BY <3>1 DEF IdsAreUnique
  <2>10. \E m \in Nat : Issued' = 1..m
    BY <2>2, <2>5
  <2> QED
    BY <2>4, <2>7, <2>8, <2>9, <2>10 DEF IdsAreUnique
<1> QED
  BY <1>3, <1>4, SaidGrows

\* Each command is answered by its own goroutine, at one place.
LEMMA AnswersStep == TypeOK /\ IdsAreUnique /\ AnswersFit /\ [Next]_vars => AnswersFit'
<1> SUFFICES ASSUME TypeOK, IdsAreUnique, AnswersFit, [Next]_vars
             PROVE  AnswersFit'
  OBVIOUS
<1> DEFINE L == Len(workerIn)
<1>1. \A i \in DOMAIN cmd : i \in Commands /\ cmd[i] \in CmdType
  BY DEF TypeOK, CmdType
<1>2. (open' => open) /\ (workerUp' => workerUp)
  <2>1. CASE Peers \/ Stop \/ End \/ DownSteps
    BY <2>1 DEF Peers, ClientSend, WorkerSend, ClientGone, WorkerGone, Stop, End, DownSteps,
                DownRead, DownWrite, DownReadFails, peerVars, wireVars
  <2>2. CASE UpSteps
    BY <2>2 DEF UpSteps, UpRead, UpWrite, UpReadFails, Written, WriteLost, WriteFails, peerVars
  <2>3. CASE \E a \in appends : Insert(a) \/ SetLastUser(a)
    BY <2>3 DEF Insert, SetLastUser, peerVars, wireVars
  <2>4. CASE \E i \in DOMAIN cmd : CmdSteps(i)
    <3>1. PICK i \in DOMAIN cmd : CmdSteps(i)
      BY <2>4
    <3>2. UNCHANGED workerUp
      BY <3>1, CmdMoves DEF peerVars
    <3>3. UNCHANGED open \/ open' = FALSE
      BY <3>1 DEF CmdSteps, CmdRecord, CmdInsert, CmdExecute, CmdReply, CmdMark, wireVars,
                  Written, WriteLost, WriteFails
    <3> QED
      BY <3>2, <3>3
  <2>5. CASE UNCHANGED vars
    BY <2>5 DEF vars, peerVars, wireVars
  <2> QED
    BY <2>1, <2>2, <2>3, <2>4, <2>5 DEF Next
<1>3. CASE UNCHANGED cmd
  <2>1. CASE UNCHANGED workerIn
    BY <1>2, <1>3, <2>1 DEF AnswersFit, Answers
  <2>2. CASE UpWrite /\ upPump.pc = "write" /\ workerIn' = Append(workerIn, Frame(upPump.frame))
    <3>1. upPump.frame \in 1..MaxFrames
      <4>1. upPump.frame \in 1..sent /\ sent \in 0..MaxFrames
        BY <2>2 DEF TypeOK, Reading, Done
      <4> QED
        BY <4>1, RelayAssumption
    <3>2. Frame(upPump.frame) \in WorkerFrame /\ Frame(upPump.frame).type = "frame"
      BY <3>1 DEF Frame, WorkerFrame
    <3>3. /\ L \in Nat /\ Len(workerIn') = L + 1 /\ workerIn'[L + 1].type = "frame"
          /\ \A n \in 1..L : workerIn'[n] = workerIn[n]
          /\ \A n \in 1..(L + 1) : n \in 1..L \/ n = L + 1
      BY <2>2, <3>2, WorkerGets
    <3>4. \A i \in Commands : \A n \in 1..(L + 1) : Answers(n, i)' => n \in 1..L /\ Answers(n, i)
      BY <3>3 DEF Answers
    <3>5. \A i \in Commands : \A n \in 1..L : Answers(n, i) => n \in 1..(L + 1) /\ Answers(n, i)'
      BY <3>3 DEF Answers
    <3> QED
      BY <1>1, <1>2, <1>3, <3>3, <3>4, <3>5 DEF AnswersFit
  <2>3. ASSUME NEW i \in DOMAIN cmd, CmdReply(i) PROVE FALSE
    <3>1. cmd'[i].pc # cmd[i].pc
      BY <2>3, CmdMoves DEF CmdSteps, CmdReply, At
    <3> QED
      BY <1>3, <3>1
  <2> QED
    BY <2>1, <2>2, <2>3, WorkerHears
<1>4. CASE DownRead /\ cmd' # cmd
  <2>1. PICK i \in Commands \ DOMAIN cmd :
          /\ DOMAIN cmd' = DOMAIN cmd \union {i} /\ cmd'[i].pc = "record"
          /\ \A j \in DOMAIN cmd : cmd'[j] = cmd[j]
    BY <1>4, DownReads
  <2>2. UNCHANGED workerIn
    BY <1>4 DEF DownRead, wireVars
  <2> QED
    BY <1>2, <2>1, <2>2 DEF AnswersFit, Answers
<1>5. ASSUME NEW i \in DOMAIN cmd, CmdSteps(i), cmd[i].pc # "write"
      PROVE  AnswersFit'
  <2>1. /\ i \in Commands /\ DOMAIN cmd' = DOMAIN cmd
        /\ \A j \in DOMAIN cmd \ {i} : cmd'[j] = cmd[j]
        /\ cmd[i].pc \in {"mark", "done"} <=> cmd'[i].pc \in {"mark", "done"}
        /\ cmd[i].pc \in {"mark", "done"} => cmd'[i].ok = cmd[i].ok
    BY <1>5, CmdMoves
  <2>2. UNCHANGED workerIn
    BY <1>5 DEF CmdSteps, CmdRecord, CmdInsert, CmdExecute, CmdReply, CmdMark, At, wireVars
  <2> QED
    BY <1>2, <2>1, <2>2 DEF AnswersFit, Answers
<1>6. ASSUME NEW i \in DOMAIN cmd, CmdReply(i)
      PROVE  AnswersFit'
  <2>1. /\ i \in Commands /\ DOMAIN cmd' = DOMAIN cmd /\ cmd[i].pc = "write"
        /\ \A j \in DOMAIN cmd \ {i} : cmd'[j] = cmd[j]
        /\ cmd'[i].pc = "mark" /\ cmd'[i].ok = cmd[i].ok /\ cmd[i].ok \in BOOLEAN
        /\ UNCHANGED workerUp
    <3>1. cmd[i].pc = "write"
      BY <1>6 DEF CmdReply, At
    <3> QED
      BY <1>1, <1>6, <3>1, CmdMoves DEF CmdSteps, peerVars, CmdType
  <2>2. \A n \in 1..L : ~Answers(n, i)
    BY <2>1 DEF AnswersFit
  <2>3. CASE UNCHANGED workerIn
    <3>1. open' = FALSE \/ workerUp' = FALSE
      <4>1. CASE Written(i, Result(i, cmd[i].ok))
        <5>1. Result(i, cmd[i].ok) \in WorkerFrame
          BY <2>1 DEF Result, WorkerFrame
        <5>2. Len(workerIn') = Len(workerIn) + 1 /\ Len(workerIn) \in Nat
          BY <4>1, <5>1, WorkerGets DEF Written
        <5> QED
          BY <2>3, <5>2
      <4>2. CASE WriteLost(i)
        BY <2>1, <4>2 DEF WriteLost, TypeOK
      <4>3. CASE WriteFails(i)
        BY <4>3 DEF WriteFails
      <4> QED
        BY <1>6, <4>1, <4>2, <4>3 DEF CmdReply
    <3> QED
      BY <1>2, <2>1, <2>2, <2>3, <3>1 DEF AnswersFit, Answers
  <2>4. CASE workerIn' = Append(workerIn, Result(i, cmd[i].ok))
    <3>1. /\ Result(i, cmd[i].ok) \in WorkerFrame
          /\ Result(i, cmd[i].ok).type = "device_command_result"
          /\ Result(i, cmd[i].ok).id = i /\ Result(i, cmd[i].ok).ok = cmd[i].ok
      BY <2>1 DEF Result, WorkerFrame
    <3>0. PICK p : p = L + 1
      OBVIOUS
    <3>2. /\ L \in Nat /\ Len(workerIn') = p
          /\ Answers(p, i)' /\ workerIn'[p].ok = cmd[i].ok
          /\ \A j \in Commands : Answers(p, j)' => j = i
          /\ \A n \in 1..L : workerIn'[n] = workerIn[n]
          /\ \A n \in 1..p : n \in 1..L \/ n = p
      BY <2>4, <3>0, <3>1, WorkerGets DEF Answers
    <3>3. \A j \in Commands : \A n \in 1..L : /\ Answers(n, j)' <=> Answers(n, j)
                                              /\ n \in 1..p
      BY <3>0, <3>2 DEF Answers
    <3>4. \A n \in 1..p : \A j \in Commands : Answers(n, j)' =>
            j \in DOMAIN cmd' /\ cmd'[j].pc \in {"mark", "done"} /\ workerIn'[n].ok = cmd'[j].ok
      BY <2>1, <2>2, <3>2, <3>3 DEF AnswersFit
    <3>5. \A j \in Commands : \A m, n \in 1..p :
            Answers(m, j)' /\ Answers(n, j)' => m = n
      BY <2>2, <3>2, <3>3 DEF AnswersFit
    <3>6. \A j \in DOMAIN cmd' : cmd'[j].pc \in {"mark", "done"} /\ open' /\ workerUp' =>
            \E n \in 1..p : Answers(n, j)'
      <4>1. p \in 1..p
        BY <3>0, <3>2
      <4> QED
        BY <1>1, <1>2, <2>1, <3>2, <3>3, <4>1 DEF AnswersFit
    <3> QED
      BY <3>2, <3>4, <3>5, <3>6 DEF AnswersFit
  <2> QED
    BY <1>6, <2>3, <2>4 DEF CmdReply, Written, WriteLost, WriteFails
<1>7. ASSUME NEW i \in DOMAIN cmd, CmdSteps(i), cmd[i].pc = "write"
      PROVE  CmdReply(i)
  BY <1>7, CmdMoves
<1> QED
  BY <1>3, <1>4, <1>5, <1>6, <1>7, CmdsStay

-----------------------------------------------------------------------------
(* The rows *)

\* What a step of a goroutine does to the rows: only CmdInsert adds one, only
\* CmdMark writes a result, and neither touches the row of another command.
LEMMA RowMoves ==
    ASSUME TypeOK, NEW i \in DOMAIN cmd, CmdSteps(i)
    PROVE  \/ UNCHANGED <<records, byTool, failed>> /\ cmd[i].pc \notin {"insert", "mark"}
           \/ /\ cmd[i].pc = "insert" /\ failed \subseteq failed'
              /\ \/ i \in failed' /\ UNCHANGED <<records, byTool>>
                 \/ /\ DOMAIN records' = DOMAIN records \union {i}
                    /\ records'[i].message = cmd[i].message
                    /\ \A j \in DOMAIN records \ {i} : records'[j] = records[j]
                    /\ byTool' = byTool \union {i}
           \/ /\ cmd[i].pc = "mark" /\ failed \subseteq failed' /\ byTool' = byTool \ {i}
              /\ DOMAIN records' = DOMAIN records
              /\ \A j \in DOMAIN records \ {i} : records'[j] = records[j]
              /\ \A j \in DOMAIN records : records'[j].message = records[j].message
              /\ i \in byTool /\ i \in DOMAIN records => i \in failed' \/
                   records'[i].result = (IF cmd[i].ok THEN "success" ELSE "failure")
<1>1. CASE CmdRecord(i) \/ CmdExecute(i) \/ CmdReply(i)
  BY <1>1 DEF CmdRecord, CmdExecute, CmdReply, At
<1>2. CASE CmdInsert(i)
  BY <1>2 DEF CmdInsert, At
<1>3. CASE CmdMark(i)
  <2>1. cmd[i].pc = "mark" /\ byTool' = byTool \ {i} /\ failed \subseteq failed'
    BY <1>3 DEF CmdMark, At
  <2>2. \A j \in DOMAIN records :
          records[j] \in [message : 1..Len(messages), result : {"pending", "success", "failure"}]
    BY DEF TypeOK
  <2>3. CASE records' = [records EXCEPT ![i].result = IF cmd[i].ok THEN "success" ELSE "failure"]
    <3>1. DOMAIN records' = DOMAIN records
          /\ \A j \in DOMAIN records \ {i} : records'[j] = records[j]
      BY <2>3
    <3>2. ASSUME i \in DOMAIN records
          PROVE  /\ records'[i].message = records[i].message
                 /\ records'[i].result = (IF cmd[i].ok THEN "success" ELSE "failure")
      BY <2>2, <2>3, <3>2
    <3> QED
      BY <2>1, <3>1, <3>2
  <2>4. CASE records' = records /\ failed' = IF i \in byTool THEN failed \union {i} ELSE failed
    BY <2>1, <2>4
  <2> QED
    BY <1>3, <2>3, <2>4 DEF CmdMark
<1> QED
  BY <1>1, <1>2, <1>3 DEF CmdSteps

\* The rows are left alone by everybody else.
LEMMA RowsStay ==
    ASSUME TypeOK, [Next]_vars
    PROVE  (\E i \in DOMAIN cmd : CmdSteps(i)) \/ UNCHANGED <<records, byTool, failed>>
<1>1. CASE Peers \/ Stop \/ End \/ UpSteps
  BY <1>1 DEF Peers, Stop, End, UpSteps, UpRead, UpWrite, UpReadFails, histVars
<1>2. CASE DownSteps
  BY <1>2 DEF DownSteps, DownRead, DownWrite, DownReadFails, histVars
<1>3. CASE \E a \in appends : Insert(a) \/ SetLastUser(a)
  BY <1>3 DEF Insert, SetLastUser
<1>4. CASE UNCHANGED vars
  BY <1>4 DEF vars, histVars
<1> QED
  BY <1>1, <1>2, <1>3, <1>4 DEF Next

\* A row has its command's goroutine, and says in the end how it ended.
LEMMA RowsStep == TypeOK /\ IdsAreUnique /\ RowsFollow /\ [Next]_vars => RowsFollow'
<1> SUFFICES ASSUME TypeOK, IdsAreUnique, RowsFollow, [Next]_vars
             PROVE  RowsFollow'
  OBVIOUS
<1>1. CASE UNCHANGED <<cmd, records, byTool, failed>>
  BY <1>1 DEF RowsFollow, RecordsTellTheTruth
<1>2. CASE DownRead /\ UNCHANGED <<records, byTool, failed>> /\ cmd' # cmd
  <2>1. PICK i \in Commands \ DOMAIN cmd :
          /\ DOMAIN cmd' = DOMAIN cmd \union {i} /\ cmd'[i].pc = "record"
          /\ \A j \in DOMAIN cmd : cmd'[j] = cmd[j]
    BY <1>2, DownReads
  <2> QED
    BY <1>2, <2>1 DEF RowsFollow, RecordsTellTheTruth
<1>3. ASSUME NEW i \in DOMAIN cmd, CmdSteps(i)
      PROVE  RowsFollow'
  <2>1. DOMAIN cmd' = DOMAIN cmd /\ \A j \in DOMAIN cmd \ {i} : cmd'[j] = cmd[j]
    BY <1>3, CmdMoves
  <2>2. ASSUME UNCHANGED <<records, byTool, failed>>, cmd[i].pc \notin {"insert", "mark"}
        PROVE  RowsFollow'
    <3>1. cmd[i].pc = "record" \/ (cmd'[i].pc \in {"write", "mark"} /\ cmd[i].pc # "done")
      BY <1>3, <2>2, CmdMoves
    <3> QED
      BY <2>1, <2>2, <3>1 DEF RowsFollow, RecordsTellTheTruth
  <2>3. ASSUME cmd[i].pc = "insert", failed \subseteq failed',
               \/ i \in failed' /\ UNCHANGED <<records, byTool>>
               \/ /\ DOMAIN records' = DOMAIN records \union {i}
                  /\ \A j \in DOMAIN records \ {i} : records'[j] = records[j]
                  /\ byTool' = byTool \union {i}
        PROVE  RowsFollow'
    <3>1. cmd'[i].pc = "execute" /\ i \notin DOMAIN records
      BY <1>3, <2>3, CmdMoves DEF RowsFollow
    <3> QED
      BY <2>1, <2>3, <3>1 DEF RowsFollow, RecordsTellTheTruth
  <2>4. ASSUME cmd[i].pc = "mark", failed \subseteq failed', byTool' = byTool \ {i},
               DOMAIN records' = DOMAIN records,
               \A j \in DOMAIN records \ {i} : records'[j] = records[j],
               i \in byTool /\ i \in DOMAIN records => i \in failed' \/
                 records'[i].result = (IF cmd[i].ok THEN "success" ELSE "failure")
        PROVE  RowsFollow'
    <3>1. cmd'[i].pc = "done" /\ cmd'[i].ok = cmd[i].ok
      BY <1>3, <2>4, CmdMoves
    <3>2. i \in DOMAIN records => i \in byTool
      BY <2>4 DEF RowsFollow
    <3> QED
      BY <2>1, <2>4, <3>1, <3>2 DEF RowsFollow, RecordsTellTheTruth
  <2> QED
    BY <1>3, <2>2, <2>3, <2>4, RowMoves
<1> QED
  BY <1>1, <1>2, <1>3, RowsStay, CmdsStay

-----------------------------------------------------------------------------
(* The history *)

\* What is remembered is a user's message, at every step of the goroutines
\* that store it.
LEMMA HistoryStep == TypeOK /\ IdsAreUnique /\ HistoryIsUsers /\ [Next]_vars => HistoryIsUsers'
<1> SUFFICES ASSUME TypeOK, IdsAreUnique, HistoryIsUsers, [Next]_vars
             PROVE  HistoryIsUsers'
  OBVIOUS
<1>1. /\ clientIn \in Seq(Speech) /\ messages \in Seq(Speech) /\ Len(messages) \in Nat
      /\ lastUser \in 0..Len(messages)
      /\ \A a \in appends : a.pc = "set" => a.id \in 1..Len(messages)
      /\ \A i \in DOMAIN cmd : cmd[i].message \in 0..Len(messages)
      /\ \A i \in DOMAIN records : records[i].message \in 1..Len(messages)
  BY LenProperties DEF TypeOK
<1>2. CASE UNCHANGED <<clientIn, appends, messages, lastUser, cmd, records>>
  BY <1>2 DEF HistoryIsUsers, UsersMessage
<1>3. CASE Peers \/ Stop \/ End \/ UpSteps
  BY <1>2, <1>3 DEF Peers, Stop, End, UpSteps, UpRead, UpWrite, UpReadFails, histVars
<1>4. CASE DownReadFails \/ UNCHANGED vars
  BY <1>2, <1>4 DEF DownReadFails, vars, histVars
<1>5. CASE DownRead
  <2>1. UNCHANGED <<clientIn, appends, messages, lastUser, records>>
    BY <1>5 DEF DownRead, histVars
  <2>2. CASE cmd' # cmd
    <3>1. PICK i \in Commands \ DOMAIN cmd :
            /\ DOMAIN cmd' = DOMAIN cmd \union {i} /\ cmd'[i].pc = "record" /\ cmd'[i].message = 0
            /\ \A j \in DOMAIN cmd : cmd'[j] = cmd[j]
      BY <1>5, <2>2, DownReads
    <3> QED
      BY <2>1, <3>1 DEF HistoryIsUsers, UsersMessage
  <2> QED
    BY <1>2, <2>1, <2>2
<1>6. CASE DownWrite
  <2>1. /\ UNCHANGED <<messages, lastUser, cmd, records>> /\ downPump.event \in Speech
        /\ \/ UNCHANGED <<clientIn, appends>>
           \/ /\ clientIn' = Append(clientIn, downPump.event)
              /\ appends' \subseteq appends \union {[pc |-> "insert", event |-> downPump.event]}
    BY <1>6 DEF DownWrite, Recorded, TypeOK, Reading, Done
  <2>2. CASE clientIn' = Append(clientIn, downPump.event)
             /\ appends' \subseteq appends \union {[pc |-> "insert", event |-> downPump.event]}
    <3>1. Range(clientIn') = Range(clientIn) \union {downPump.event}
      BY <1>1, <2>1, <2>2, Appended
    <3> QED
      BY <2>1, <2>2, <3>1 DEF HistoryIsUsers, UsersMessage
  <2> QED
    BY <1>2, <2>1, <2>2
<1>7. ASSUME NEW a \in appends, Insert(a)
      PROVE  HistoryIsUsers'
  <2>1. /\ UNCHANGED <<clientIn, lastUser, cmd, records>>
        /\ a.pc = "insert" /\ a.event \in Range(clientIn) /\ a.event \in Speech
    BY <1>7 DEF Insert, HistoryIsUsers, TypeOK
  <2>2. CASE appends' = appends \ {a} /\ UNCHANGED messages
    BY <2>1, <2>2 DEF HistoryIsUsers, UsersMessage
  <2>3. CASE messages' = Append(messages, a.event)
    <3>1. PICK p : p = Len(messages) + 1
      OBVIOUS
    <3>2. /\ Len(messages') = p /\ messages'[p] = a.event
          /\ \A id \in 1..Len(messages) : messages'[id] = messages[id]
          /\ \A id \in 1..p : id \in 1..Len(messages) \/ id = p
      BY <1>1, <2>1, <2>3, <3>1, Appended
    <3>3. \A id \in 0..Len(messages) : UsersMessage(id) => UsersMessage(id)'
      BY <1>1, <3>2 DEF UsersMessage
    <3>4. \A b \in appends' : \/ b \in appends
                              \/ b = [pc |-> "set", id |-> p] /\ a.event.type = "asr_final"
      <4>1. Len(messages') # Len(messages)
        BY <1>1, <3>1, <3>2
      <4> QED
        BY <1>7, <3>1, <4>1 DEF Insert
    <3>5. \A b \in appends' : /\ b.pc = "insert" => b.event \in Range(clientIn)
                              /\ b.pc = "set" => UsersMessage(b.id)'
      <4>1. ASSUME NEW b \in appends', b \in appends
            PROVE  /\ b.pc = "insert" => b.event \in Range(clientIn)
                   /\ b.pc = "set" => UsersMessage(b.id)'
        <5>1. b.pc = "set" => b.id \in 0..Len(messages) /\ UsersMessage(b.id)
          BY <1>1, <4>1 DEF HistoryIsUsers
        <5> QED
          BY <3>3, <4>1, <5>1 DEF HistoryIsUsers
      <4>2. ASSUME NEW b \in appends', b = [pc |-> "set", id |-> p], a.event.type = "asr_final"
            PROVE  b.pc # "insert" /\ UsersMessage(b.id)'
        BY <3>2, <4>2 DEF UsersMessage
      <4> QED
        BY <3>4, <4>1, <4>2
    <3>6. \A id \in 1..Len(messages') : messages'[id] \in Range(clientIn)
      BY <2>1, <3>2 DEF HistoryIsUsers
    <3>7. /\ UsersMessage(lastUser)'
          /\ \A i \in DOMAIN cmd : UsersMessage(cmd[i].message)'
          /\ \A i \in DOMAIN records : UsersMessage(records[i].message)'
      <4>1. /\ UsersMessage(lastUser) /\ \A i \in DOMAIN cmd : UsersMessage(cmd[i].message)
            /\ \A i \in DOMAIN records : UsersMessage(records[i].message)
        BY DEF HistoryIsUsers
      <4>2. \A i \in DOMAIN records : records[i].message \in 0..Len(messages)
        BY <1>1
      <4> QED
        BY <1>1, <2>1, <3>2, <4>1, <4>2 DEF UsersMessage
    <3> QED
      BY <2>1, <3>5, <3>6, <3>7 DEF HistoryIsUsers
  <2> QED
    BY <1>7, <2>2, <2>3 DEF Insert
<1>8. ASSUME NEW a \in appends, SetLastUser(a)
      PROVE  HistoryIsUsers'
  <2>1. UNCHANGED <<clientIn, messages, cmd, records>> /\ appends' \subseteq appends
        /\ lastUser' = a.id /\ a.pc = "set"
    BY <1>8 DEF SetLastUser
  <2> QED
    BY <2>1 DEF HistoryIsUsers, UsersMessage
<1>9. ASSUME NEW i \in DOMAIN cmd, CmdSteps(i)
      PROVE  HistoryIsUsers'
  <2>1. /\ UNCHANGED <<clientIn, appends, messages, lastUser>> /\ DOMAIN cmd' = DOMAIN cmd
        /\ \A j \in DOMAIN cmd \ {i} : cmd'[j] = cmd[j]
        /\ \/ cmd'[i].message = cmd[i].message /\ cmd'[i].pc # "insert"
           \/ cmd'[i].message = lastUser /\ cmd'[i].pc = IF lastUser = 0 THEN "execute" ELSE "insert"
    BY <1>9, CmdMoves
  <2>2. \A j \in DOMAIN records' : \/ j \in DOMAIN records /\ records'[j].message = records[j].message
                                   \/ j = i /\ records'[j].message = cmd[i].message
    BY <1>9, RowMoves
  <2>3. \A j \in DOMAIN cmd' : /\ UsersMessage(cmd[j].message)'
                               /\ cmd'[j].pc = "insert" => cmd'[j].message # 0
    BY <2>1 DEF HistoryIsUsers, UsersMessage
  <2>4. \A j \in DOMAIN records' : UsersMessage(records[j].message)'
    BY <2>1, <2>2 DEF HistoryIsUsers, UsersMessage
  <2> QED
    BY <2>1, <2>3, <2>4 DEF HistoryIsUsers, UsersMessage
<1> QED
  BY <1>3, <1>4, <1>5, <1>6, <1>7, <1>8, <1>9 DEF Next, DownSteps

-----------------------------------------------------------------------------

\* A session begins safely.
LEMMA InitIsSafe == Init => Safety
<1> SUFFICES ASSUME Init PROVE Safety
  OBVIOUS
<1>1. /\ Len(<<>>) = 0 /\ DOMAIN <<>> = {} /\ 1..0 = {} /\ Range(<<>>) = {}
      /\ Reading.pc # "write"
      /\ \A S : <<>> \in Seq(S)
  BY DEF Reading, Range
<1>2. /\ 0 \in 0..MaxFrames
      /\ cmd = <<>> /\ records = <<>> /\ said = <<>> /\ clientIn = <<>> /\ workerIn = <<>>
      /\ messages = <<>> /\ appends = {} /\ heard = 0 /\ lastUser = 0
  BY RelayAssumption DEF Init
<1>3. TypeOK
  <2>1. /\ said \in Seq(Events) /\ workerIn \in Seq(WorkerFrame)
        /\ clientIn \in Seq(Speech) /\ messages \in Seq(Speech)
    BY <1>1, <1>2
  <2>2. taken \in 0..sent /\ heard \in 0..Len(said) /\ lastUser \in 0..Len(messages)
    BY <1>1, <1>2 DEF Init
  <2>3. DOMAIN cmd = {} /\ DOMAIN records = {}
    BY <1>1, <1>2
  <2>4. /\ clientUp \in BOOLEAN /\ workerUp \in BOOLEAN /\ sent \in 0..MaxFrames
        /\ upPump = Reading /\ downPump = Reading
        /\ session \in {"pumping", "draining", "ended"}
        /\ open \in BOOLEAN /\ clash \in BOOLEAN /\ recording \in BOOLEAN
        /\ writing = {} /\ byTool = {} /\ failed = {}
    BY <1>2 DEF Init
  <2> QED
    BY <1>2, <2>1, <2>2, <2>3, <2>4 DEF TypeOK
<1>4. Forwarded
  <2>0. PICK at : at = [k \in 1..0 |-> 0]
    OBVIOUS
  <2>1. at \in [1..0 -> 1..0]
    BY <1>1, <2>0
  <2>2. downPump.pc # "write"
    BY <1>1 DEF Init
  <2>3. at \in [1..Len(clientIn) -> 1..heard] /\ Forwards(at)
    BY <1>1, <1>2, <2>1, <2>2 DEF Forwards
  <2> QED
    BY <2>2, <2>3 DEF Forwarded
<1>5. FramesInOrder
  BY <1>1, <1>2 DEF Init, FramesInOrder
<1>6. IdsAreUnique
  <2>1. Issued = 1..0
    BY <1>1, <1>2 DEF Issued
  <2> QED
    BY <1>1, <1>2, <2>1 DEF IdsAreUnique
<1>7. AnswersFit
  BY <1>1, <1>2 DEF AnswersFit
<1>8. RowsFollow
  BY <1>1, <1>2 DEF RowsFollow, RecordsTellTheTruth
<1>9. HistoryIsUsers
  BY <1>1, <1>2 DEF HistoryIsUsers, UsersMessage
<1> QED
  BY <1>3, <1>4, <1>5, <1>6, <1>7, <1>8, <1>9 DEF Safety

\* Frames and events are relayed in order, each command has one goroutine, one
\* answer and at most one row, and the history knows users' messages from
\* replies (pump, handleDeviceCommand, recordWorkerEvent).
THEOREM SafetyHolds == Spec => []Safety
<1>1. Safety /\ [Next]_vars => Safety'
  BY TypeStep, ForwardedStep, FramesStep, IdsStep, AnswersStep, RowsStep, HistoryStep DEF Safety
<1> QED
  BY <1>1, InitIsSafe, PTL DEF Spec

\* The variables of a session keep their types: what is said to the furniture is
\* speech, and every message id is that of a stored row.
THEOREM TypeCorrect == Spec => []TypeOK
<1>1. Safety => TypeOK
  BY DEF Safety
<1> QED
  BY <1>1, SafetyHolds, PTL

\* The furniture hears all of what is said to it, in order and no command, and
\* the worker hears the furniture's frames in order (pump).
THEOREM RelayedInOrderHolds == Spec => []RelayedInOrder
<1>1. Safety => RelayedInOrder
  <2> SUFFICES ASSUME Safety PROVE RelayedInOrder
    OBVIOUS
  <2> DEFINE n == Len(clientIn)
  <2>1. heard \in 0..Len(said) /\ Len(said) \in Nat /\ n \in Nat
    BY LenProperties DEF Safety, TypeOK
  <2>2. PICK at \in [1..n -> 1..heard] : Forwards(at)
    BY DEF Safety, Forwarded
  <2>3. at \in [1..n -> 1..Len(said)] /\ \A k \in 1..n : at[k] \in 1..heard
    BY <2>1, <2>2
  <2>4. \A k \in 1..n : \A i \in 1..at[k] :
          isDeviceCommand(said[i]) \/ \E j \in 1..n : at[j] = i
    <3>1. ASSUME NEW k \in 1..n, NEW i \in 1..at[k]
          PROVE  isDeviceCommand(said[i]) \/ \E j \in 1..n : at[j] = i
      <4>1. i \in 1..heard /\ (i = heard => at[k] = i)
        BY <2>1, <2>3
      <4> QED
        BY <2>2, <4>1 DEF Forwards
    <3> QED
      BY <3>1
  <2>5. /\ \A k \in 1..n : clientIn[k] = said[at[k]] /\ ~isDeviceCommand(said[at[k]])
        /\ \A j, k \in 1..n : j < k => at[j] < at[k]
    BY <2>2 DEF Forwards
  <2> QED
    BY <2>3, <2>4, <2>5 DEF Safety, FramesInOrder, RelayedInOrder
<1> QED
  BY <1>1, SafetyHolds, PTL

\* A command is answered once, with its own outcome (handleDeviceCommand).
THEOREM AnsweredOnceHolds == Spec => []AnsweredOnce
<1>1. Safety => AnsweredOnce
  <2> SUFFICES ASSUME Safety, NEW i \in DOMAIN cmd
               PROVE  LET answers == { n \in 1..Len(workerIn) :
                              /\ workerIn[n].type = "device_command_result"
                              /\ workerIn[n].id = i }
                      IN  /\ Cardinality(answers) <= 1
                          /\ \A n \in answers : workerIn[n].ok = cmd[i].ok
                          /\ cmd[i].pc \in {"mark", "done"} /\ open /\ workerUp => answers # {}
    BY DEF AnsweredOnce
  <2> DEFINE answers == { n \in 1..Len(workerIn) : Answers(n, i) }
  <2>1. i \in Commands /\ AnswersFit
    BY DEF Safety, TypeOK
  <2>2. \A m, n \in answers : m = n
    BY <2>1 DEF AnswersFit
  <2>3. Cardinality(answers) <= 1
    <3>1. CASE answers = {}
      BY <3>1, FS_EmptySet
    <3>2. CASE answers # {}
      <4>1. PICK n : n \in answers
        BY <3>2
      <4> HIDE DEF answers
      <4>2. answers = {n}
        BY <2>2, <4>1
      <4>3. Cardinality({n}) = 1
        BY FS_Singleton
      <4> QED
        BY <4>2, <4>3
    <3> QED
      BY <3>1, <3>2
  <2>4. \A n \in answers : workerIn[n].ok = cmd[i].ok
    BY <2>1 DEF AnswersFit
  <2>5. cmd[i].pc \in {"mark", "done"} /\ open /\ workerUp => answers # {}
    BY <2>1 DEF AnswersFit
  <2> QED
    BY <2>3, <2>4, <2>5 DEF Answers
<1> QED
  BY <1>1, SafetyHolds, PTL

\* The row of a command that is over says how it ended (recordCommand,
\* markCommandResult).
THEOREM RecordsHold == Spec => []RecordsTellTheTruth
<1>1. Safety => RecordsTellTheTruth
  BY DEF Safety, RowsFollow
<1> QED
  BY <1>1, SafetyHolds, PTL

\* A recorded command hangs off a user's message that the furniture was sent
\* (recordCommand, appendUser).
THEOREM HangsOffUserMessageHolds == Spec => []HangsOffUserMessage
<1>1. Safety => HangsOffUserMessage
  <2> SUFFICES ASSUME Safety, NEW i \in DOMAIN records
               PROVE  LET m == messages[records[i].message]
                      IN  m.type = "asr_final" /\ m \in Range(clientIn)
    BY DEF HangsOffUserMessage
  <2>1. Len(messages) \in Nat /\ records[i].message \in 1..Len(messages)
    BY LenProperties DEF Safety, TypeOK
  <2> QED
    BY <2>1 DEF Safety, HistoryIsUsers, UsersMessage
<1> QED
  BY <1>1, SafetyHolds, PTL

=============================================================================
