------------------------------- MODULE Worker -------------------------------
(***************************************************************************)
(* One /v1/orchestrate session in the worker: the pump that handles the    *)
(* server's frames, the pump that handles the speech recogniser's events,  *)
(* and the goroutines that ask the language model, issue device commands,  *)
(* ask again with a command's result, and synthesise speech.               *)
(*                                                                         *)
(* Every write to the server holds writeMu and is one step here.  A turn   *)
(* begins with a text_input or with the end of a spoken segment.  The      *)
(* server answers each command it receives once, in any order (module      *)
(* VoiceRelay); the tool ids a model makes up are distinct.  Frames that   *)
(* begin no turn (start, audio, ping, device_info) and events that end     *)
(* none (asr_partial, eos) are left out.                                   *)
(***************************************************************************)
EXTENDS Naturals, Sequences, SequencesExt, FiniteSets

CONSTANTS
    MaxTurns,       \* bound: turns the server begins
    MaxCalls,       \* bound: tool calls the model makes
    Recognised      \* what the recogniser may report at the end of a segment

ASSUME WorkerAssumption ==
    /\ MaxTurns \in Nat /\ MaxCalls \in Nat
    /\ Recognised \subseteq {"speech", "blank", "nothing"}

VARIABLES
    configured,     \* is any model provider configured?
    live,           \* do the pumps and the connections still exist?
    asked,          \* asked[k]: how turn k began
    upQueue,        \* frames from the server, not handled yet
    asrQueue,       \* segments the recogniser has been given
    upPump, asrPump,    \* the turn a pump has echoed and is about to pass on, or 0
    tasks,          \* the goroutines
    calls,          \* calls[n]: the n-th tool call a model has made
    pending,        \* the calls in toolCalls
    out             \* what has been written to the server

inputs == <<asked, upQueue, asrQueue>>
vars == <<configured, live, inputs, upPump, asrPump, tasks, calls, pending, out>>

Turns == 1..MaxTurns
Calls == 1..MaxCalls

\* Frames from the server and events to it.  A reply is a llm_result or a
\* llm_error; its call is 0 when it is made without a command.
TextInput(k)     == [type |-> "text_input", turn |-> k]
SegmentEnd(k)    == [type |-> "end", turn |-> k]
CommandResult(n) == [type |-> "device_command_result", call |-> n]
Final(k)         == [type |-> "asr_final", turn |-> k]
Command(n)       == [type |-> "device_command", call |-> n]
Reply(k, n)      == [type |-> "reply", turn |-> k, call |-> n]
Audio(k, n)      == [type |-> "tts_audio", turn |-> k, call |-> n]

\* The goroutines: the first question to the model, the loop over the calls in
\* its answer, what follows a command's result, and speech synthesis.
Task == [pc : {"llm"}, turn : Turns]
  \union [pc : {"remember", "command"}, turn : Turns, next : Calls, last : Calls]
  \union [pc : {"pop"}, call : Calls]
  \union [pc : {"second"}, call : Calls, replays : {0} \union Calls]
  \union [pc : {"tts"}, turn : Turns, call : {0} \union Calls]

UpFrame == [type : {"text_input", "end"}, turn : Turns]
     \union [type : {"device_command_result"}, call : Calls]
Event   == [type : {"asr_final"}, turn : Turns]
     \union [type : {"device_command"}, call : Calls]
     \union [type : {"reply", "tts_audio"}, turn : Turns, call : {0} \union Calls]

\* The type invariant.
TypeOK ==
    /\ configured \in BOOLEAN /\ live \in BOOLEAN
    /\ asked \in Seq({"text", "empty", "voice"}) /\ Len(asked) <= MaxTurns
    /\ upQueue \in Seq(UpFrame) /\ asrQueue \in Seq(Turns)
    /\ upPump \in 0..MaxTurns /\ asrPump \in 0..MaxTurns
    /\ tasks \subseteq Task
    /\ calls \in Seq([turn : Turns, valid : BOOLEAN]) /\ Len(calls) <= MaxCalls
    /\ pending \subseteq 1..Len(calls)
    /\ out \in Seq(Event)

Init ==
    /\ configured \in BOOLEAN /\ live = TRUE
    /\ asked = <<>> /\ upQueue = <<>> /\ asrQueue = <<>>
    /\ upPump = 0 /\ asrPump = 0
    /\ tasks = {} /\ calls = <<>> /\ pending = {} /\ out = <<>>

-----------------------------------------------------------------------------
(* The server *)

Ask(kind) ==
    /\ live
    /\ Len(asked) < MaxTurns
    /\ asked' = Append(asked, kind)
    /\ upQueue' = LET k == Len(asked) + 1 IN
                    Append(upQueue, IF kind = "voice" THEN SegmentEnd(k) ELSE TextInput(k))
    /\ UNCHANGED <<configured, live, asrQueue, upPump, asrPump, tasks, calls, pending, out>>

Answered(n) == \/ CommandResult(n) \in Range(upQueue)
               \/ \E t \in tasks : t.pc \in {"pop", "second"} /\ t.call = n
               \/ Reply(calls[n].turn, n) \in Range(out)

ServerResult(n) ==
    /\ live
    /\ Command(n) \in Range(out) /\ ~Answered(n)
    /\ upQueue' = Append(upQueue, CommandResult(n))
    /\ UNCHANGED <<configured, live, asked, asrQueue, upPump, asrPump, tasks, calls, pending, out>>

\* Either peer goes away: both pumps return and the connections are closed.
\* The goroutines stay.
SessionDone ==
    /\ live
    /\ live' = FALSE
    /\ upPump' = 0 /\ asrPump' = 0
    /\ UNCHANGED <<configured, inputs, tasks, calls, pending, out>>

\* A write after that fails, and nobody looks at the error.
Write(e) == out' = IF live THEN Append(out, e) ELSE out

Spawn(t)      == tasks' = tasks \union {t}
Become(t, us) == tasks' = (tasks \ {t}) \union us

-----------------------------------------------------------------------------
(* pumpUpstreamToASR, with handleUpstreamControl *)

\* Faulty variant: the echo is not sent, as for a spoken turn.
UpHandleNoEcho ==
    /\ live /\ upPump = 0 /\ upQueue # <<>>
    /\ upQueue' = Tail(upQueue)
    /\ LET m == Head(upQueue) IN
         CASE m.type = "end" ->
                /\ asrQueue' = Append(asrQueue, m.turn)
                /\ UNCHANGED <<upPump, tasks, out>>
           [] m.type = "device_command_result" ->
                /\ Spawn([pc |-> "pop", call |-> m.call])
                /\ UNCHANGED <<asrQueue, upPump, out>>
           [] m.type = "text_input" /\ asked[m.turn] = "empty" ->
                /\ Write(Reply(m.turn, 0))
                /\ UNCHANGED <<asrQueue, upPump, tasks>>
           [] OTHER ->
                /\ upPump' = m.turn
                /\ UNCHANGED <<asrQueue, tasks, out>>
    /\ UNCHANGED <<configured, live, asked, asrPump, calls, pending>>

\* The end of a segment goes on to the recogniser; a result starts a goroutine;
\* an empty text is answered at once and any other is echoed as asr_final.
UpHandle ==
    /\ live /\ upPump = 0 /\ upQueue # <<>>
    /\ upQueue' = Tail(upQueue)
    /\ LET m == Head(upQueue) IN
         CASE m.type = "end" ->
                /\ asrQueue' = Append(asrQueue, m.turn)
                /\ UNCHANGED <<upPump, tasks, out>>
           [] m.type = "device_command_result" ->
                /\ Spawn([pc |-> "pop", call |-> m.call])
                /\ UNCHANGED <<asrQueue, upPump, out>>
           [] m.type = "text_input" /\ asked[m.turn] = "empty" ->
                /\ Write(Reply(m.turn, 0))
                /\ UNCHANGED <<asrQueue, upPump, tasks>>
           [] OTHER ->
                /\ upPump' = m.turn
                /\ Write(Final(m.turn))
                /\ UNCHANGED <<asrQueue, tasks>>
    /\ UNCHANGED <<configured, live, asked, asrPump, calls, pending>>

UpTrigger ==
    /\ live /\ upPump # 0
    /\ upPump' = 0
    /\ IF configured THEN Spawn([pc |-> "llm", turn |-> upPump]) /\ UNCHANGED out
                     ELSE Write(Reply(upPump, 0)) /\ UNCHANGED tasks
    /\ UNCHANGED <<configured, live, inputs, asrPump, calls, pending>>

-----------------------------------------------------------------------------
(* pumpASRToUpstream, with maybeTriggerLLM.  The recogniser reports         *)
(* segments one after the other; without a model nothing follows.          *)

AsrForward ==
    /\ live /\ asrPump = 0 /\ asrQueue # <<>>
    /\ asrQueue' = Tail(asrQueue)
    /\ LET k == Head(asrQueue) IN
         \/ /\ Recognised \intersect {"speech", "blank"} # {}
            /\ asrPump' = k
            /\ Write(Final(k))
         \/ /\ "nothing" \in Recognised
            /\ UNCHANGED <<asrPump, out>>
    /\ UNCHANGED <<configured, live, asked, upQueue, upPump, tasks, calls, pending>>

AsrTrigger ==
    /\ live /\ asrPump # 0
    /\ asrPump' = 0
    /\ \/ ~configured /\ UNCHANGED <<tasks, out>>
       \/ /\ configured /\ "speech" \in Recognised
          /\ Spawn([pc |-> "llm", turn |-> asrPump])
          /\ UNCHANGED out
       \/ /\ configured /\ "blank" \in Recognised
          /\ Write(Reply(asrPump, 0))
          /\ UNCHANGED tasks
    /\ UNCHANGED <<configured, live, inputs, upPump, calls, pending>>

-----------------------------------------------------------------------------
(* handleLLMWithTools *)

Base == <<configured, live, inputs, upPump, asrPump>>

\* All providers failed, or the answer has no choices: an error or an empty
\* result; or it is a text, which is spoken too.
FirstReply(t) ==
    /\ t.pc = "llm"
    /\ Write(Reply(t.turn, 0))
    /\ \/ Become(t, {})
       \/ Become(t, {[pc |-> "tts", turn |-> t.turn, call |-> 0]})
    /\ UNCHANGED <<Base, calls, pending>>

\* Faulty variant: the turn is replied to as well as the calls are issued.
FirstCallsAndReply(t) ==
    /\ t.pc = "llm"
    /\ \E m \in 1..(MaxCalls - Len(calls)), v \in BOOLEAN :
         /\ calls' = calls \o [i \in 1..m |-> [turn |-> t.turn, valid |-> v]]
         /\ Become(t, {[pc |-> "remember", turn |-> t.turn,
                        next |-> Len(calls) + 1, last |-> Len(calls) + m]})
    /\ Write(Reply(t.turn, 0))
    /\ UNCHANGED <<Base, pending>>

\* The answer is a list of tool calls, whose arguments are the model's own
\* text: it need not be JSON.
FirstCalls(t) ==
    /\ t.pc = "llm"
    /\ \E m \in 1..(MaxCalls - Len(calls)) : \E v \in [1..m -> BOOLEAN] :
         /\ calls' = calls \o [i \in 1..m |-> [turn |-> t.turn, valid |-> v[i]]]
         /\ Become(t, {[pc |-> "remember", turn |-> t.turn,
                        next |-> Len(calls) + 1, last |-> Len(calls) + m]})
    /\ UNCHANGED <<Base, pending, out>>

\* Faulty variant: a call is sent without being remembered.
RememberNot(t) ==
    /\ t.pc = "remember"
    /\ Become(t, {[t EXCEPT !.pc = "command"]})
    /\ UNCHANGED <<Base, calls, pending, out>>

Remember(t) ==
    /\ t.pc = "remember"
    /\ pending' = pending \union {t.next}
    /\ Become(t, {[t EXCEPT !.pc = "command"]})
    /\ UNCHANGED <<Base, calls, out>>

\* Arguments that are not JSON make the marshalling of the command fail: it is
\* not sent, and nobody looks at the error.
Issue(t) ==
    /\ t.pc = "command"
    /\ IF calls[t.next].valid THEN Write(Command(t.next)) ELSE UNCHANGED out
    /\ Become(t, IF t.next = t.last THEN {}
                 ELSE {[t EXCEPT !.pc = "remember", !.next = @ + 1]})
    /\ UNCHANGED <<Base, calls, pending>>

-----------------------------------------------------------------------------
(* handleCommandResult *)

\* The call to replay to the model is popped; 0 stands for the made-up call
\* that replaces one that is not found.
Pop(t) ==
    /\ t.pc = "pop"
    /\ pending' = pending \ {t.call}
    /\ Become(t, {[pc |-> "second", call |-> t.call,
                   replays |-> IF t.call \in pending THEN t.call ELSE 0]})
    /\ UNCHANGED <<Base, calls, out>>

\* Faulty variant: an error of the second question is only logged.
SecondReplyOnSuccess(t) ==
    /\ t.pc = "second"
    /\ LET k == calls[t.call].turn IN
         \/ Become(t, {}) /\ UNCHANGED out
         \/ /\ Write(Reply(k, t.call))
            /\ Become(t, {[pc |-> "tts", turn |-> k, call |-> t.call]})
    /\ UNCHANGED <<Base, calls, pending>>

SecondReply(t) ==
    /\ t.pc = "second"
    /\ LET k == calls[t.call].turn IN
         /\ Write(Reply(k, t.call))
         /\ \/ Become(t, {})
            \/ Become(t, {[pc |-> "tts", turn |-> k, call |-> t.call]})
    /\ UNCHANGED <<Base, calls, pending>>

\* synthesizeAndSendTTS: a failure is only logged.
Synthesize(t) ==
    /\ t.pc = "tts"
    /\ Write(Audio(t.turn, t.call)) \/ UNCHANGED out
    /\ Become(t, {})
    /\ UNCHANGED <<Base, calls, pending>>

TaskStep(t) ==
    \/ FirstReply(t) \/ FirstCalls(t) \/ Remember(t) \/ Issue(t)
    \/ Pop(t) \/ SecondReply(t) \/ Synthesize(t)

UpSteps  == UpHandle \/ UpTrigger
AsrSteps == AsrForward \/ AsrTrigger

Next ==
    \/ \E kind \in {"text", "empty", "voice"} : Ask(kind)
    \/ \E n \in DOMAIN calls : ServerResult(n)
    \/ SessionDone
    \/ UpSteps \/ AsrSteps
    \/ \E t \in tasks : TaskStep(t)

Spec == Init /\ [][Next]_vars

\* The scheduler runs the goroutines, every request to the model or to speech
\* synthesis has a timeout, the recogniser reports, and the server answers.
Fairness ==
    /\ WF_vars(UpSteps)
    /\ WF_vars(AsrSteps)
    /\ WF_vars(\E t \in tasks : TaskStep(t))
    /\ WF_vars(\E n \in DOMAIN calls : ServerResult(n))

FairSpec == Spec /\ Fairness

-----------------------------------------------------------------------------
(* Properties *)

Before(e, i) == \E j \in 1..(i - 1) : out[j] = e

\* Although turns run concurrently, a reply comes after the asr_final of its
\* own turn, and speech after the reply it speaks.
InTurnOrder ==
    \A i \in DOMAIN out :
        /\ out[i].type = "reply" /\ asked[out[i].turn] # "empty" => Before(Final(out[i].turn), i)
        /\ out[i].type = "tts_audio" => Before(Reply(out[i].turn, out[i].call), i)

\* A turn is replied to once, or once for each of its commands that was sent.
RepliesCounted ==
    \A i \in DOMAIN out : out[i].type = "reply" =>
        /\ ~Before(out[i], i)
        /\ IF out[i].call = 0 THEN \A n \in DOMAIN calls : calls[n].turn # out[i].turn
                              ELSE Before(Command(out[i].call), i)

\* The second question replays the very call that was made, never the made-up
\* one (the comments on callLLMSecondRound and toolCalls).
TruthfulHistory == \A t \in tasks : t.pc = "second" => t.replays = t.call

RepliedTo(k) == \E i \in DOMAIN out : out[i].type = "reply" /\ out[i].turn = k

\* The recogniser is done with k and has sent no final: it made nothing of it.
Unheard(k) ==
    /\ k \in DOMAIN asked /\ asked[k] = "voice"
    /\ SegmentEnd(k) \notin Range(upQueue) /\ k \notin Range(asrQueue)
    /\ Final(k) \notin Range(out)

\* Every turn is replied to, unless the session ends first.  Three ways out are
\* left by the code: a spoken turn when no model is configured (maybeTriggerLLM),
\* one in which nothing is recognised (the recogniser sends no final, although
\* the use case UC-06, 4a, has an empty reply follow), and a model that calls
\* tools with arguments that are not JSON (handleLLMWithTools).
Forsaken(k) ==
    \/ k \in DOMAIN asked /\ asked[k] = "voice" /\ ~configured
    \/ Unheard(k)
    \/ \E n \in DOMAIN calls : calls[n].turn = k /\ ~calls[n].valid

TurnsAnswered ==
    \A k \in Turns : k \in DOMAIN asked ~> ~live \/ RepliedTo(k) \/ Forsaken(k)
=============================================================================
