----------------------------- MODULE VoiceTurn -----------------------------
(***************************************************************************)
(* The two ends of a spoken turn: the furniture, which cuts what its       *)
(* microphone hears into segments and waits for a reply after each, and    *)
(* the speech recogniser, which turns each segment into text.              *)
(*                                                                         *)
(* Between them are the server and the worker (modules VoiceRelay and      *)
(* Worker).  They pass frames on in order, and answer a recognised segment *)
(* with any number of replies, at any time: none when no model is          *)
(* configured, one more for each device command.                           *)
(*                                                                         *)
(* The furniture's main loop and its receiver are coroutines of one event  *)
(* loop; the microphone's callback runs on a thread of its own.  A capture *)
(* is a frame of 30 ms; what a frame sounds like is whether it is voice.   *)
(* What the main loop writes goes out at once, and the loop waits there    *)
(* while the socket's buffer is full: it can be interrupted (Ctrl+C) in    *)
(* the middle of a segment's start, of a chunk, of its rest or of its end. *)
(***************************************************************************)
EXTENDS Integers, Sequences, SequencesExt

CONSTANTS
    QueueSize,      \* frames the microphone may be ahead of the main loop
    MinSpeech,      \* voiced frames in a row that start a segment
    MinSilence,     \* silent frames in a row that end it
    Lookback,       \* frames before its start that a segment takes along
    Chunk,          \* frames sent, and recognised, at a time
    MaxFrames,      \* bound: frames the microphone captures
    MaxReplies      \* bound: replies to one segment

ASSUME VoiceTurnAssumption ==
    /\ {QueueSize, MinSpeech, MinSilence, Chunk} \subseteq Nat \ {0}
    /\ {Lookback, MaxFrames, MaxReplies} \subseteq Nat
    /\ MinSpeech <= Lookback + 1    \* 3 frames and 10

VARIABLES
    mic,        \* the callback: frames captured, one it holds, is the stream on?
    q,          \* frames waiting for the main loop
    vad,        \* VadSegmenter
    pre, seg,   \* pre_buf and seg_buf
    loop,       \* where the main loop is: "loop", "wait" (for llm_done), a write or "left"
    frame,      \* the frame in its hand while the start is written, or 0
    paused,     \* vad_paused
    llmDone,    \* the event llm_done
    link,       \* is the connection up?
    up,         \* frames on their way to the recogniser
    owed,       \* replies that are still to come
    asr,        \* the recogniser: its connection and the segment it is in
    \* history
    spoken,     \* spoken[k]: the frames sent in the k-th segment
    onset,      \* onset[k]: the voiced frames that started it
    run,        \* the voiced frames heard in a row
    ended,      \* segments closed: the ends written
    cut,        \* the writes that were interrupted
    credit,     \* replies and timeouts, less the times the loop resumed
    heard       \* heard[k]: what the recogniser made of the k-th segment

devVars == <<vad, pre, seg, loop, frame, paused>>
ghosts  == <<spoken, onset, run, ended, cut>>
vars == <<mic, q, devVars, llmDone, link, up, owed, asr, ghosts, credit, heard>>

Ids    == 1..MaxFrames
Frame  == [id : Ids, voice : BOOLEAN]
Quiet  == [speaking |-> FALSE, silence |-> 0, speech |-> 0]

\* The writes the loop waits for: the start of a segment, a chunk of it, the
\* rest of it and its end; the last two also after the loop.
Writes == {"start", "chunk", "rest", "end", "lastRest", "lastEnd"}

Start    == [type |-> "start"]
End      == [type |-> "end"]
Audio(s) == [type |-> "audio", frames |-> s]

\* The recogniser between two segments.
Between == [open |-> TRUE, in |-> FALSE, buf |-> <<>>, text |-> <<>>, fed |-> <<>>]

\* A frame between the two: a control frame, or audio (a binary frame).
Message == {Start, End} \union [type : {"audio"}, frames : Seq(Ids)]

\* The type invariant, with the bounds of the buffers.
TypeOK ==
    /\ mic \in [captured : 0..MaxFrames, held : {<<>>} \union { <<f>> : f \in Frame },
                on : BOOLEAN]
    /\ q \in Seq(Frame) /\ Len(q) <= QueueSize
    /\ vad \in [speaking : BOOLEAN, silence : 0 .. MinSilence - 1, speech : 0 .. MinSpeech - 1]
    /\ pre \in Seq(Ids) /\ Len(pre) <= Lookback
    /\ seg \in Seq(Ids) /\ Len(seg) <= Lookback + Chunk
    /\ loop \in {"loop", "wait"} => Len(seg) < Chunk
    /\ loop \in {"loop", "wait", "left"} \union Writes
    /\ frame \in 0..MaxFrames /\ cut \in SUBSET Writes /\ link \in {"up", "down"}
    /\ paused \in BOOLEAN /\ llmDone \in BOOLEAN
    /\ up \in Seq(Message) /\ owed \in Nat
    /\ asr \in [open : BOOLEAN, in : BOOLEAN, buf : Seq(Ids), text : Seq(Ids), fed : Seq(Ids)]
    /\ spoken \in Seq(Seq(Ids)) /\ onset \in Seq(Seq(Ids)) /\ run \in Seq(Ids)
    /\ ended \in Nat /\ credit \in Int
    /\ heard \in Seq([fed : Seq(Ids), text : Seq(Ids)])

Init ==
    /\ mic = [captured |-> 0, held |-> <<>>, on |-> TRUE]
    /\ q = <<>>
    /\ vad = Quiet /\ pre = <<>> /\ seg = <<>> /\ loop = "loop" /\ paused = FALSE
    /\ frame = 0 /\ cut = {}
    /\ llmDone = FALSE /\ link = "up" /\ up = <<>> /\ owed = 0
    /\ asr = Between
    /\ spoken = <<>> /\ onset = <<>> /\ run = <<>> /\ ended = 0
    /\ credit = 0 /\ heard = <<>>

-----------------------------------------------------------------------------
(* The microphone's callback.  It does not block: when the queue is full   *)
(* it throws out the oldest frame, in a step of its own.                   *)

restOfMic == <<devVars, llmDone, link, up, owed, asr, ghosts, credit, heard>>

MicCapture(v) ==
    /\ mic.on /\ mic.held = <<>> /\ mic.captured < MaxFrames
    /\ LET f == [id |-> mic.captured + 1, voice |-> v] IN
         IF Len(q) < QueueSize
           THEN /\ q' = Append(q, f)
                /\ mic' = [mic EXCEPT !.captured = @ + 1]
           ELSE /\ mic' = [mic EXCEPT !.captured = @ + 1, !.held = <<f>>]
                /\ UNCHANGED q
    /\ UNCHANGED restOfMic

\* If the main loop has emptied the queue meanwhile, the new frame is lost.
MicEvict ==
    /\ mic.held # <<>>
    /\ q' = IF q = <<>> THEN q ELSE Tail(q) \o mic.held
    /\ mic' = [mic EXCEPT !.held = <<>>]
    /\ UNCHANGED restOfMic

MicStops ==
    /\ mic.on /\ mic.held = <<>>
    /\ mic' = [mic EXCEPT !.on = FALSE]
    /\ UNCHANGED <<q, restOfMic>>

-----------------------------------------------------------------------------
(* The main loop.  What is written after the connection broke is lost, or  *)
(* raises (SendRaises).                                                    *)

Transmit(m) == up' = IF link = "up" THEN Append(up, m) ELSE up

Starts(f) == ~vad.speaking /\ f.voice /\ vad.speech + 1 >= MinSpeech
Ends(f)   == vad.speaking /\ ~f.voice /\ vad.silence + 1 >= MinSilence

VadFeed(f) ==
    vad' = IF Starts(f) THEN [Quiet EXCEPT !.speaking = TRUE]
           ELSE IF Ends(f) THEN Quiet
           ELSE IF vad.speaking
             THEN [vad EXCEPT !.silence = IF f.voice THEN 0 ELSE @ + 1]
             ELSE [vad EXCEPT !.speech = IF f.voice THEN @ + 1 ELSE 0]

\* The frame at the head of the queue is taken, when the loop is not paused.
Consumed(f) ==
    /\ loop = "loop" /\ ~paused
    /\ q' = Tail(q)
    /\ run' = IF f.voice THEN Append(run, f.id) ELSE <<>>
    /\ VadFeed(f)
    /\ UNCHANGED <<mic, paused, llmDone, link, owed, asr, cut, credit, heard>>

\* Frames that are sent belong to the last segment begun.
Sent(s) == spoken' = [spoken EXCEPT ![Len(spoken)] = @ \o s]

\* seg_buf with what a step adds to it; a full chunk is written, and cleared
\* once it is (ChunkSent).
Full(s) == Len(s) >= Chunk
Flush(s) ==
    /\ seg' = s
    /\ \/ Full(s) /\ Transmit(Audio(s)) /\ Sent(s) /\ loop' = "chunk"
       \/ ~Full(s) /\ loop' = "loop" /\ UNCHANGED <<up, spoken>>

\* The end of a segment is written, and waited for.
WriteEnd(at) ==
    /\ Transmit(End)
    /\ ended' = ended + 1
    /\ loop' = at

\* What is left of the segment is written, or its end when nothing is.
CloseSegment(rest, end) ==
    \/ seg # <<>> /\ Transmit(Audio(seg)) /\ Sent(seg) /\ loop' = rest /\ UNCHANGED ended
    \/ seg = <<>> /\ WriteEnd(end) /\ UNCHANGED spoken

SegmentStart(f) ==
    /\ Starts(f)
    /\ Consumed(f)
    /\ Transmit(Start) /\ loop' = "start" /\ frame' = f.id
    /\ spoken' = Append(spoken, <<>>)
    /\ onset' = Append(onset, run')
    /\ UNCHANGED <<pre, seg, ended>>

SegmentEnd(f) ==
    /\ Ends(f)
    /\ Consumed(f)
    /\ CloseSegment("rest", "end")
    /\ UNCHANGED <<pre, seg, frame, onset>>

\* Faulty variant: the buffer is never sent before the end.
SegmentAudioHoard(f) ==
    /\ vad.speaking /\ ~Ends(f)
    /\ Consumed(f)
    /\ seg' = Append(seg, f.id)
    /\ UNCHANGED <<up, pre, loop, frame, spoken, onset, ended>>

SegmentAudio(f) ==
    /\ vad.speaking /\ ~Ends(f)
    /\ Consumed(f)
    /\ Flush(Append(seg, f.id))
    /\ UNCHANGED <<pre, frame, onset, ended>>

\* No segment: remember the last Lookback frames.
OutsideSegment(f) ==
    /\ ~vad.speaking /\ ~Starts(f)
    /\ Consumed(f)
    /\ LET s == Append(pre, f.id)
           n == Len(s)
       IN pre' = IF n > Lookback THEN SubSeq(s, n - Lookback + 1, n) ELSE s
    /\ UNCHANGED <<up, seg, loop, frame, spoken, onset, ended>>

(* A write is over: the loop goes on where it waited.                      *)

restOfLoop == <<mic, q, vad, llmDone, link, owed, asr, onset, run, cut, credit, heard>>

\* Faulty variant: the frames kept from before the start are left out.
SegmentBeginsBare ==
    /\ loop = "start"
    /\ Flush(<<frame>>)
    /\ pre' = <<>> /\ frame' = 0
    /\ UNCHANGED <<restOfLoop, paused, ended>>

\* The start has been written: the segment begins with the frames kept from
\* before it.
SegmentBegins ==
    /\ loop = "start"
    /\ Flush(Append(pre, frame))
    /\ pre' = <<>> /\ frame' = 0
    /\ UNCHANGED <<restOfLoop, paused, ended>>

\* Faulty variant: the chunk is not cleared.
ChunkSentKept ==
    /\ loop = "chunk"
    /\ loop' = "loop"
    /\ UNCHANGED <<restOfLoop, up, pre, seg, frame, paused, spoken, ended>>

ChunkSent ==
    /\ loop = "chunk"
    /\ loop' = "loop"
    /\ seg' = <<>>
    /\ UNCHANGED <<restOfLoop, up, pre, frame, paused, spoken, ended>>

RestSent ==
    /\ loop \in {"rest", "lastRest"}
    /\ WriteEnd(IF loop = "rest" THEN "end" ELSE "lastEnd")
    /\ seg' = <<>>
    /\ UNCHANGED <<restOfLoop, pre, frame, paused, spoken>>

\* A segment is over: the loop is paused until it has been answered.
EndSent ==
    /\ loop = "end"
    /\ loop' = "loop" /\ paused' = TRUE
    /\ UNCHANGED <<restOfLoop, up, pre, seg, frame, spoken, ended>>

LastEndSent ==
    /\ loop = "lastEnd"
    /\ loop' = "left"
    /\ UNCHANGED <<restOfLoop, up, pre, seg, frame, paused, spoken, ended>>

\* Paused, the loop takes one frame more and waits for the reply.
TakePaused ==
    /\ loop = "loop" /\ paused /\ q # <<>>
    /\ q' = Tail(q)
    /\ loop' = "wait"
    /\ UNCHANGED <<mic, vad, pre, seg, frame, paused, llmDone, link, up, owed, asr, ghosts,
                   credit, heard>>

Resume ==
    /\ loop = "wait"
    /\ loop' = "loop" /\ paused' = FALSE
    /\ llmDone' = FALSE
    /\ vad' = Quiet /\ run' = <<>>
    /\ UNCHANGED <<mic, q, pre, seg, frame, link, up, owed, asr, spoken, onset, ended, cut,
                   heard>>

\* Faulty variant: what follows the wait is indented into the branch of the timeout.
ResumeOnReplyIndented ==
    /\ loop = "wait" /\ llmDone
    /\ loop' = "loop"
    /\ credit' = credit - 1
    /\ UNCHANGED <<mic, q, vad, pre, seg, frame, paused, llmDone, link, up, owed, asr, ghosts,
                   heard>>

ResumeOnReply ==
    /\ llmDone
    /\ Resume
    /\ credit' = credit - 1

\* Faulty variant: the loop times out only once a reply has come.
WaitTimeoutNever ==
    /\ llmDone
    /\ Resume
    /\ UNCHANGED credit

\* After LLM_WAIT_TIMEOUT_S the loop resumes without a reply.
WaitTimeout ==
    /\ Resume
    /\ UNCHANGED credit

MicOff == mic' = [mic EXCEPT !.on = FALSE, !.held = <<>>]

\* Faulty variant: an open segment is left open.
LeaveAbruptly ==
    /\ MicOff
    /\ loop' = "left" /\ frame' = 0
    /\ UNCHANGED <<q, vad, pre, seg, paused, llmDone, link, up, owed, asr, spoken, onset,
                   run, ended, credit, heard>>

\* The loop is over: a segment the detector is in is closed.
Leave ==
    /\ MicOff
    /\ frame' = 0
    /\ \/ vad.speaking /\ CloseSegment("lastRest", "lastEnd")
       \/ ~vad.speaking /\ loop' = "left" /\ UNCHANGED <<up, spoken, ended>>
    /\ UNCHANGED <<q, vad, pre, seg, paused, llmDone, link, owed, asr, onset, run, credit,
                   heard>>

StreamOver == loop = "loop" /\ q = <<>> /\ ~mic.on /\ Leave /\ UNCHANGED cut

\* Ctrl+C cancels the loop where it awaits something: a frame, a reply, or that
\* what it wrote goes out.
Interrupted ==
    /\ loop \in {"loop", "wait", "start", "chunk", "rest", "end"}
    /\ cut' = cut \union (Writes \intersect {loop})
    /\ Leave

\* After the loop it is not caught.
InterruptedLast ==
    /\ loop \in {"lastRest", "lastEnd"}
    /\ cut' = cut \union {loop}
    /\ loop' = "left"
    /\ UNCHANGED <<mic, q, vad, pre, seg, frame, paused, llmDone, link, up, owed, asr, spoken,
                   onset, run, ended, credit, heard>>

\* A write to a connection that is down raises out of the loop.
SendRaises ==
    /\ loop \in Writes /\ link = "down"
    /\ MicOff
    /\ loop' = "left" /\ frame' = 0
    /\ UNCHANGED <<q, vad, pre, seg, paused, llmDone, link, up, owed, asr, ghosts, credit,
                   heard>>

\* main_async closes the connection when the loop has ended.
Close ==
    /\ loop = "left" /\ link = "up"
    /\ link' = "down"
    /\ UNCHANGED <<mic, q, devVars, llmDone, up, owed, asr, ghosts, credit, heard>>

\* The receiver: any llm_result or llm_error, with text or without.
ReplyReceived ==
    /\ link = "up" /\ owed > 0
    /\ owed' = owed - 1
    /\ llmDone' = TRUE
    /\ credit' = credit + 1
    /\ UNCHANGED <<mic, q, devVars, link, up, asr, ghosts, heard>>

-----------------------------------------------------------------------------
(* The recogniser, one coroutine per connection.                           *)

restOfAsr == <<mic, q, devVars, llmDone, link, ghosts, credit>>

\* The connection breaks; frames on their way may be lost.
LinkBreaks ==
    /\ link = "up"
    /\ link' = "down"
    /\ \E n \in 0..Len(up) : up' = SubSeq(up, 1, n)
    /\ UNCHANGED <<mic, q, devVars, llmDone, owed, asr, ghosts, credit, heard>>

Receives(type) ==
    /\ asr.open /\ Len(asr.buf) < Chunk
    /\ up # <<>> /\ Head(up).type = type
    /\ up' = Tail(up)
    /\ UNCHANGED restOfAsr

AsrStart ==
    /\ Receives("start")
    /\ asr' = [Between EXCEPT !.in = TRUE]
    /\ UNCHANGED <<owed, heard>>

\* Audio outside a segment starts one.
AsrAudio ==
    /\ Receives("audio")
    /\ asr' = [asr EXCEPT !.in = TRUE, !.buf = @ \o Head(up).frames]
    /\ UNCHANGED <<owed, heard>>

\* The model may make nothing of what it is fed.
Recognise(s) == {<<>>, s}

\* A full stride is recognised as it comes, and a partial sent.
AsrChunk ==
    /\ asr.open /\ Len(asr.buf) >= Chunk
    /\ LET s == SubSeq(asr.buf, 1, Chunk) IN
         \E t \in Recognise(s) :
           asr' = [asr EXCEPT !.buf = SubSeq(@, Chunk + 1, Len(@)),
                              !.fed = @ \o s, !.text = @ \o t]
    /\ UNCHANGED <<restOfAsr, up, owed, heard>>

\* The final of a segment, which is sent unless it is empty, and its replies.
AsrFinal(fed, text) ==
    /\ heard' = Append(heard, [fed |-> fed, text |-> text])
    /\ \E n \in 0..MaxReplies : owed' = owed + (IF text # <<>> THEN n ELSE 0)

\* Faulty variant: the bytes short of a stride are forgotten.
AsrEndStridesOnly ==
    /\ Receives("end") /\ asr.in
    /\ AsrFinal(asr.fed, asr.text)
    /\ asr' = Between
AsrEnd ==
    /\ Receives("end")
    /\ IF asr.in
         THEN \E t \in Recognise(asr.buf) : AsrFinal(asr.fed \o asr.buf, asr.text \o t)
         ELSE UNCHANGED <<owed, heard>>
    /\ asr' = IF asr.in THEN Between ELSE asr

\* The model raises: the recogniser closes its connection, and with it the
\* worker's session and the furniture's are over.
AsrFails ==
    /\ asr.open
    /\ \/ Len(asr.buf) >= Chunk
       \/ up # <<>> /\ Head(up).type = "end" /\ asr.in
    /\ asr' = [asr EXCEPT !.open = FALSE]
    /\ link' = "down"
    /\ UNCHANGED <<mic, q, devVars, llmDone, up, owed, ghosts, credit, heard>>

AsrDisconnected ==
    /\ asr.open /\ link = "down"
    /\ asr' = [asr EXCEPT !.open = FALSE]
    /\ UNCHANGED <<restOfAsr, up, owed, heard>>

-----------------------------------------------------------------------------
Microphone == (\E v \in BOOLEAN : MicCapture(v)) \/ MicEvict \/ MicStops

Consume ==
    \/ q # <<>> /\ SegmentStart(Head(q))
    \/ q # <<>> /\ SegmentEnd(Head(q))
    \/ q # <<>> /\ SegmentAudio(Head(q))
    \/ q # <<>> /\ OutsideSegment(Head(q))
    \/ TakePaused
    \/ StreamOver

Written == SegmentBegins \/ ChunkSent \/ RestSent \/ EndSent \/ LastEndSent

Recogniser == AsrStart \/ AsrAudio \/ AsrChunk \/ AsrEnd

Next ==
    \/ Microphone
    \/ Consume
    \/ Written
    \/ ResumeOnReply
    \/ WaitTimeout
    \/ Interrupted
    \/ InterruptedLast
    \/ SendRaises
    \/ Close
    \/ ReplyReceived
    \/ LinkBreaks
    \/ Recogniser
    \/ AsrFails
    \/ AsrDisconnected

Spec == Init /\ [][Next]_vars

\* The event loop runs what is ready and fires its timers, the sound driver
\* keeps calling until the recording ends, and the recogniser answers.  No
\* reply is promised, no connection has to break, and no write has to end.
Fairness ==
    /\ WF_vars(Microphone)
    /\ WF_vars(Consume)
    /\ WF_vars(WaitTimeout)
    /\ WF_vars(Recogniser)

FairSpec == Spec /\ Fairness

-----------------------------------------------------------------------------
(* Properties *)

\* The recogniser is fed exactly the frames the furniture sent between the
\* start and the end of a segment, whichever way they were cut into messages
\* and strides, and its text comes from these alone (asr_stream; "cache is
\* reset between end and start").
HeardIsSpoken ==
    \A k \in DOMAIN heard :
        /\ heard[k].fed = spoken[k]
        /\ ToSet(heard[k].text) \subseteq ToSet(spoken[k])

\* A closed segment has the voiced frames that started it, although they were
\* heard before it was known to be one (LOOKBACK_MS, "so that the first word
\* is not lost").  Only an interrupt while its start is written leaves them out:
\* the segment is then closed at once, with nothing in it.
FirstWordKept ==
    \A k \in 1..ended :
        \/ ToSet(onset[k]) \subseteq ToSet(spoken[k])
        \/ k = Len(spoken) /\ spoken[k] = <<>> /\ "start" \in cut

\* The ids of s increase, and those of s are less than those of t.
Increasing(s) == \A i, j \in DOMAIN s : i < j => s[i] < s[j]
Below(s, t)   == \A i \in DOMAIN s, j \in DOMAIN t : s[i] < t[j]

\* What s ends with, n ids, it has twice; before that its ids increase.
TwiceAtEnd(s, n) ==
    /\ n + n <= Len(s)
    /\ \A i, j \in 1..(Len(s) - n) : i < j => s[i] < s[j]
    /\ \A i \in 1..n : s[Len(s) - n + i] = s[Len(s) - n - n + i]

\* What seg_buf has that has not been written.
Unsent == IF loop = "loop" THEN seg ELSE <<>>

\* No frame is sent twice or out of order, within a segment and across them,
\* and those to be sent next are later ones (stream_live, seg_buf and pre_buf);
\* but for an interrupt while a chunk is written: that chunk is sent once more,
\* right after itself, and nothing else is.
InCaptureOrder ==
    /\ \A k \in DOMAIN spoken :
         /\ \/ Increasing(spoken[k])
            \/ /\ k = Len(spoken) /\ "chunk" \in cut
               /\ \E n \in 1..Len(spoken[k]) : TwiceAtEnd(spoken[k], n)
         /\ Below(spoken[k], Unsent)
         /\ \A l \in DOMAIN spoken : k < l => Below(spoken[k], spoken[l])
    /\ Increasing(seg)

\* The loop resumes once per reply or timeout: one reply does not end the wait
\* of two turns (stream_live, llm_done.clear).
EveryResumeIsEarned == credit >= 0

\* Once the loop has ended on a connection that still works, every segment it
\* began has been closed; before, all but the last.  Only an interrupt while the
\* rest of a segment is written leaves it open: the detector is then out of the
\* segment already, or the loop is over.
EverySegmentEnded ==
    /\ ended >= Len(spoken) - 1
    /\ loop = "left" /\ link = "up" => \/ ended = Len(spoken)
                                       \/ {"rest", "lastRest"} \intersect cut # {}

\* The furniture does not stay deaf, although some turns get no reply
\* (LLM_WAIT_TIMEOUT_S, "so that it never blocks for ever").
ConversationGoesOn == paused ~> (~paused \/ loop = "left")

=============================================================================
