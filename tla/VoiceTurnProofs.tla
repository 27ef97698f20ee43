--------------------------- MODULE VoiceTurnProofs ---------------------------
(***************************************************************************)
(* What holds of a spoken turn for queues, segments and chunks of any      *)
(* size, and any number of frames and replies.  Safety is inductive.  Its  *)
(* parts are about the furniture's loop and its buffers, the frames it     *)
(* has sent, and what is on the way to the recogniser and in its hands.    *)
(***************************************************************************)
EXTENDS VoiceTurn, SequenceTheorems, TLAPS

\* What the place of the loop says of the detector and of the buffers: it waits
\* for a reply only when paused and not within a segment, one buffer at most is
\* in use, and after an interrupt it only closes what it was in.
LoopRules ==
    /\ loop = "wait" => paused
    /\ paused => ~vad.speaking /\ loop \in {"loop", "wait", "left"}
    /\ loop \in {"start", "chunk", "lastRest", "lastEnd"} => vad.speaking
    /\ loop \in {"rest", "end"} => ~vad.speaking
    /\ loop \in {"wait", "start", "end", "lastEnd"} => seg = <<>>
    /\ loop = "loop" /\ ~vad.speaking => seg = <<>>
    /\ loop \in {"loop", "chunk"} /\ vad.speaking => pre = <<>>
    /\ loop = "start" <=> frame # 0
    /\ cut # {} => loop \in {"lastRest", "lastEnd", "left"}
    /\ "start" \in cut => loop # "lastRest"

\* The last segment is the only one that may be open, and is while the loop is
\* in it.
SegmentsCounted ==
    /\ Len(onset) = Len(spoken)
    /\ ended = Len(spoken) \/ ended + 1 = Len(spoken)
    /\ loop \in {"start", "chunk", "rest", "lastRest"} => ended # Len(spoken)
    /\ loop \in {"wait", "end", "lastEnd"} => ended = Len(spoken)
    /\ loop = "loop" => (ended # Len(spoken) <=> vad.speaking)
    /\ loop = "left" /\ link = "up" => \/ ended = Len(spoken)
                                       \/ {"rest", "lastRest"} \intersect cut # {}

\* The frames of the segment that have not been written.
Waiting == { x \in Ids : \/ loop = "loop" /\ x \in ToSet(seg)
                         \/ loop = "start" /\ (x \in ToSet(pre) \/ x = frame) }

\* The frames that started a segment have been sent with it, or are about to
\* be, unless its start was cut short or the connection broke; those that may
\* start the next one are the last in pre_buf.
FirstWords ==
    /\ \A k \in DOMAIN spoken : \A i \in DOMAIN onset[k] :
         \/ onset[k][i] \in ToSet(spoken[k])
         \/ k > ended /\ (onset[k][i] \in Waiting \/ loop = "left")
         \/ k = Len(spoken) /\ spoken[k] = <<>> /\ "start" \in cut
    /\ ~vad.speaking =>
         /\ Len(run) = vad.speech /\ Len(run) <= Len(pre)
         /\ \A i \in DOMAIN run : run[i] = pre[Len(pre) - Len(run) + i]
    /\ loop = "start" => spoken[Len(spoken)] = <<>>

\* The event llm_done stands for a reply that has not ended a wait.
CreditCovers == credit >= 0 /\ (llmDone => credit >= 1)

\* The frames the loop has taken and sent, or kept to be sent.
Past ==
    { x \in Ids : \/ x \in ToSet(seg) \/ x \in ToSet(pre) \/ x = frame
                 \/ \E k \in DOMAIN spoken : x \in ToSet(spoken[k]) }

\* The frames that wait are in order, and later than those taken.
QueueInOrder ==
    /\ \A i \in DOMAIN q :
         /\ q[i].id <= mic.captured
         /\ \A j \in DOMAIN q : i < j => q[i].id < q[j].id
         /\ \A x \in Past : x < q[i].id
    /\ \A x \in Past : x <= mic.captured
    /\ mic.held # <<>> =>
         /\ mic.held[1].id = mic.captured
         /\ \A i \in DOMAIN q : q[i].id < mic.captured
         /\ \A x \in Past : x < mic.captured

\* The frames kept from before a segment are in order, and later than all sent;
\* the frame that starts it is later still.
PreInOrder ==
    /\ Increasing(pre) /\ \A k \in DOMAIN spoken : Below(spoken[k], pre)
    /\ frame # 0 =>
         /\ \A x \in ToSet(pre) : x < frame
         /\ \A k \in DOMAIN spoken : \A x \in ToSet(spoken[k]) : x < frame

\* A chunk that is being written is the last that has been sent.
ChunkIsLast ==
    loop = "chunk" =>
        LET s == spoken[Len(spoken)] IN
        /\ Len(seg) <= Len(s)
        /\ \A i \in 1..Len(seg) : s[Len(s) - Len(seg) + i] = seg[i]

\* A place in what has been sent: after the first n frames of the k-th segment,
\* and whether that segment is still open.
Place == [k : Nat, n : Nat, open : BOOLEAN]
Within(a, sp) == a.k <= Len(sp) /\ (a.open => a.k >= 1 /\ a.n <= Len(sp[a.k]))

\* Message m leads from place a to place b of sp, where the first e segments
\* have been ended.
Moves(a, m, b, sp, e) ==
    \/ m = Start /\ ~a.open /\ b = [k |-> a.k + 1, n |-> 0, open |-> TRUE]
    \/ /\ m \in [type : {"audio"}, frames : Seq(Ids)]
       /\ a.open /\ b = [k |-> a.k, n |-> a.n + Len(m.frames), open |-> TRUE]
       /\ \A j \in 1..Len(m.frames) : m.frames[j] = sp[a.k][a.n + j]
    \/ /\ m = End /\ a.open /\ a.k <= e /\ a.n = Len(sp[a.k])
       /\ b = [k |-> a.k, n |-> 0, open |-> FALSE]

\* The messages u lead from place a to place b, message i to place at[i].
Follows(u, at, sp, e) ==
    /\ at \in [0..Len(u) -> Place]
    /\ \A i \in 0..Len(u) : Within(at[i], sp)
    /\ \A i \in 1..Len(u) : Moves(at[i - 1], u[i], at[i], sp, e)
Leads(u, a, b, sp, e) ==
    \E at : Follows(u, at, sp, e) /\ at[0] = a /\ at[Len(u)] = b

\* Where the recogniser is, and where the furniture is.
ReaderAt == [k |-> Len(heard) + (IF asr.in THEN 1 ELSE 0),
             n |-> Len(asr.fed) + Len(asr.buf), open |-> asr.in]
WriterAt == [k |-> Len(spoken),
             n |-> IF ended = Len(spoken) THEN 0 ELSE Len(spoken[Len(spoken)]),
             open |-> ended # Len(spoken)]

\* What is under way continues what the recogniser has, and on a connection
\* that works it leads to all that has been sent.
Delivery ==
    \E b : Leads(up, ReaderAt, b, spoken, ended) /\ (link = "up" => b = WriterAt)

\* What the recogniser has of a segment is its beginning.
InHand ==
    /\ ~asr.in => asr.fed = <<>> /\ asr.buf = <<>> /\ asr.text = <<>>
    /\ asr.in => \A j \in 1..(Len(asr.fed) + Len(asr.buf)) :
                   (asr.fed \o asr.buf)[j] = spoken[Len(heard) + 1][j]
    /\ ToSet(asr.text) \subseteq ToSet(asr.fed)
    /\ Len(heard) <= ended

-----------------------------------------------------------------------------
(* Buffers and segments *)

\* The frames that are sent join the last segment, and no other.
LEMMA SentJoins ==
    ASSUME spoken \in Seq(Seq(Ids)), spoken # <<>>, NEW s \in Seq(Ids), Sent(s),
           NEW n \in Nat, n = Len(spoken)
    PROVE  /\ n \in 1..n /\ DOMAIN spoken = 1..n /\ DOMAIN spoken' = 1..n
           /\ spoken' \in Seq(Seq(Ids)) /\ Len(spoken') = n
           /\ spoken[n] \in Seq(Ids) /\ spoken'[n] = spoken[n] \o s
           /\ \A k \in 1..n : k # n => spoken'[k] = spoken[k]
<1>1. n \in 1..n /\ spoken[n] \in Seq(Ids)
  BY EmptySeq, ElementOfSeq
<1>2. spoken[n] \o s \in Seq(Ids)
  BY <1>1, ConcatProperties
<1>3. spoken' = [spoken EXCEPT ![n] = spoken[n] \o s]
  BY DEF Sent
<1>4. /\ spoken' \in Seq(Seq(Ids)) /\ Len(spoken') = n
      /\ \A k \in 1..n : spoken'[k] = IF k = n THEN spoken[n] \o s ELSE spoken[k]
  BY <1>1, <1>2, <1>3, ExceptSeq
<1> QED
  BY <1>1, <1>4, LenProperties

\* A sequence that has grown by an element.
LEMMA Grows ==
    ASSUME NEW S, NEW s \in Seq(S), NEW e \in S, NEW n \in Nat, n = Len(s)
    PROVE  /\ Append(s, e) \in Seq(S) /\ Len(Append(s, e)) = n + 1
           /\ DOMAIN s = 1..n /\ DOMAIN Append(s, e) = 1..(n + 1)
           /\ \A i \in 1..n : Append(s, e)[i] = s[i]
           /\ Append(s, e)[n + 1] = e
  BY AppendProperties, LenProperties

\* What a concatenation holds is what its parts hold.
LEMMA SetOfConcat ==
    ASSUME NEW S, NEW s \in Seq(S), NEW t \in Seq(S)
    PROVE  ToSet(s \o t) = ToSet(s) \union ToSet(t)
<1>1. PICK m, n \in Nat : m = Len(s) /\ n = Len(t)
  BY LenProperties
<1> DEFINE c == s \o t
<1>2. /\ DOMAIN s = 1..m /\ DOMAIN t = 1..n /\ DOMAIN c = 1..(m + n)
      /\ \A i \in 1..(m + n) : c[i] = IF i <= m THEN s[i] ELSE t[i - m]
  BY <1>1, ConcatProperties, LenProperties
<1> HIDE DEF c
<1>3. ASSUME NEW i \in DOMAIN s PROVE i \in DOMAIN c /\ c[i] = s[i]
  BY <1>2
<1>4. ASSUME NEW i \in DOMAIN t PROVE m + i \in DOMAIN c /\ c[m + i] = t[i]
  <2>1. m + i \in 1..(m + n) /\ ~(m + i <= m) /\ (m + i) - m = i
    BY <1>2
  <2> QED
    BY <1>2, <2>1
<1>5. ASSUME NEW i \in DOMAIN c
      PROVE  (i \in DOMAIN s /\ c[i] = s[i]) \/ (i - m \in DOMAIN t /\ c[i] = t[i - m])
  BY <1>2
<1>6. ToSet(c) = ToSet(s) \union ToSet(t)
  BY <1>3, <1>4, <1>5 DEF ToSet
<1> QED
  BY <1>6 DEF c

LEMMA SetOfSeq ==
    ASSUME NEW S, NEW s \in Seq(S)
    PROVE  ToSet(s) \subseteq S
<1>1. \A i \in DOMAIN s : s[i] \in S
  BY LenProperties, ElementOfSeq
<1> QED
  BY <1>1 DEF ToSet

\* A sequence that has lost its first element.
LEMMA Shrinks ==
    ASSUME NEW S, NEW s \in Seq(S), s # <<>>, NEW n \in Nat, n = Len(s)
    PROVE  /\ n >= 1 /\ Tail(s) \in Seq(S) /\ Len(Tail(s)) = n - 1
           /\ Head(s) = s[1] /\ Head(s) \in S
           /\ DOMAIN s = 1..n /\ DOMAIN Tail(s) = 1..(n - 1)
           /\ \A i \in 1..(n - 1) : Tail(s)[i] = s[i + 1]
<1>1. n # 0
  BY EmptySeq
<1>2. Head(s) = s[1]
  OBVIOUS
<1> QED
  BY <1>1, <1>2, HeadTailProperties, LenProperties

\* A segment the loop is in has been begun, and not ended.
LEMMA OpenSegment ==
    ASSUME TypeOK, LoopRules, SegmentsCounted,
           \/ loop \in {"start", "chunk", "rest", "lastRest"}
           \/ vad.speaking /\ loop \in {"loop", "wait", "end"}
    PROVE  /\ spoken # <<>> /\ ended # Len(spoken) /\ ended + 1 = Len(spoken)
           /\ ended \in Nat /\ Len(spoken) \in Nat
<1>1. ended \in Nat /\ Len(spoken) \in Nat
  BY LenProperties DEF TypeOK
<1>2. ended # Len(spoken)
  BY DEF LoopRules, SegmentsCounted
<1>3. ended + 1 = Len(spoken)
  BY <1>2 DEF SegmentsCounted
<1>4. spoken # <<>>
  BY <1>1, <1>3
<1> QED
  BY <1>1, <1>2, <1>3, <1>4

-----------------------------------------------------------------------------
(* Types *)

\* The detector's counters stay below what makes a segment start or end.
LEMMA FeedTypes ==
    ASSUME TypeOK, NEW f \in Frame, VadFeed(f)
    PROVE  vad' \in [speaking : BOOLEAN, silence : 0 .. MinSilence - 1,
                     speech : 0 .. MinSpeech - 1]
<1>1. MinSilence \in Nat \ {0} /\ MinSpeech \in Nat \ {0}
  BY VoiceTurnAssumption
<1> DEFINE T == [speaking : BOOLEAN, silence : 0 .. MinSilence - 1, speech : 0 .. MinSpeech - 1]
<1>2. Quiet \in T /\ [Quiet EXCEPT !.speaking = TRUE] \in T
  <2>1. 0 \in 0 .. MinSilence - 1 /\ 0 \in 0 .. MinSpeech - 1
    BY <1>1
  <2>2. Quiet \in T
    BY <2>1 DEF Quiet
  <2> QED
    BY <2>2
<1>3. f.voice \in BOOLEAN /\ vad \in T /\ vad.silence \in Nat /\ vad.speech \in Nat
  BY <1>1 DEF Frame, TypeOK
<1>4. CASE Starts(f) \/ Ends(f)
  BY <1>2, <1>4 DEF VadFeed
<1>5. CASE ~Starts(f) /\ ~Ends(f) /\ vad.speaking
  <2>1. vad' = [vad EXCEPT !.silence = IF f.voice THEN 0 ELSE vad.silence + 1]
    BY <1>5 DEF VadFeed
  <2>2. (IF f.voice THEN 0 ELSE vad.silence + 1) \in 0 .. MinSilence - 1
    BY <1>1, <1>3, <1>5 DEF Ends
  <2> QED
    BY <1>3, <2>1, <2>2
<1>6. CASE ~Starts(f) /\ ~Ends(f) /\ ~vad.speaking
  <2>1. vad' = [vad EXCEPT !.speech = IF f.voice THEN vad.speech + 1 ELSE 0]
    BY <1>6 DEF VadFeed
  <2>2. (IF f.voice THEN vad.speech + 1 ELSE 0) \in 0 .. MinSpeech - 1
    BY <1>1, <1>3, <1>6 DEF Starts
  <2> QED
    BY <1>3, <2>1, <2>2
<1> QED
  BY <1>4, <1>5, <1>6

\* Consuming a frame keeps the types of what it writes and leaves alone.
LEMMA ConsumedTypes ==
    ASSUME TypeOK, q # <<>>, NEW f, f = Head(q), Consumed(f)
    PROVE  /\ f \in Frame /\ f.id \in Ids /\ f.voice \in BOOLEAN
           /\ q' \in Seq(Frame) /\ Len(q') <= QueueSize
           /\ run' \in Seq(Ids)
           /\ vad' \in [speaking : BOOLEAN, silence : 0 .. MinSilence - 1,
                        speech : 0 .. MinSpeech - 1]
           /\ UNCHANGED <<mic, paused, llmDone, link, owed, asr, cut, credit, heard>>
<1>1. q \in Seq(Frame) /\ Len(q) \in Nat /\ QueueSize \in Nat
  BY LenProperties, VoiceTurnAssumption DEF TypeOK
<1>2. f \in Frame /\ Tail(q) \in Seq(Frame) /\ Len(Tail(q)) = Len(q) - 1
  BY <1>1, Shrinks
<1>3. f.id \in Ids /\ f.voice \in BOOLEAN
  BY <1>2 DEF Frame
<1>4. run' \in Seq(Ids)
  BY <1>3 DEF Consumed, TypeOK
<1>5. Len(q) - 1 <= QueueSize
  BY <1>1 DEF TypeOK
<1>6. q' = Tail(q) /\ VadFeed(f)
  BY DEF Consumed
<1>7. UNCHANGED <<mic, paused, llmDone, link, owed, asr, cut, credit, heard>>
  BY DEF Consumed
<1>8. vad' \in [speaking : BOOLEAN, silence : 0 .. MinSilence - 1, speech : 0 .. MinSpeech - 1]
  BY <1>2, <1>6, FeedTypes
<1> QED
  BY <1>2, <1>3, <1>4, <1>5, <1>6, <1>7, <1>8

\* What is transmitted are messages.
LEMMA TransmitTypes ==
    ASSUME TypeOK, NEW m \in Message, Transmit(m)
    PROVE  up' \in Seq(Message)
  BY AppendProperties DEF TypeOK, Transmit

\* What filling seg_buf writes, and leaves in it.
LEMMA FlushTypes ==
    ASSUME TypeOK, spoken # <<>>, NEW s \in Seq(Ids), Len(s) <= Lookback + Chunk, Flush(s)
    PROVE  /\ seg' \in Seq(Ids) /\ Len(seg') <= Lookback + Chunk
           /\ loop' \in {"loop", "chunk"} /\ (loop' = "loop" => Len(seg') < Chunk)
           /\ up' \in Seq(Message) /\ spoken' \in Seq(Seq(Ids))
<1>1. Len(s) \in Nat /\ Chunk \in Nat /\ seg' = s /\ Audio(s) \in Message
  BY LenProperties, VoiceTurnAssumption DEF Flush, Audio, Message
<1>2. CASE Full(s) /\ Transmit(Audio(s)) /\ Sent(s) /\ loop' = "chunk"
  <2>1. spoken' \in Seq(Seq(Ids))
    BY <1>2, SentJoins, LenProperties DEF TypeOK
  <2> QED
    BY <1>1, <1>2, <2>1, TransmitTypes
<1>3. CASE ~Full(s) /\ loop' = "loop" /\ UNCHANGED <<up, spoken>>
  BY <1>1, <1>3 DEF TypeOK, Full
<1> QED
  BY <1>2, <1>3 DEF Flush

\* What closing a segment writes.
LEMMA EndTypes ==
    ASSUME TypeOK, NEW a, WriteEnd(a)
    PROVE  up' \in Seq(Message) /\ ended' \in Nat /\ loop' = a
<1>1. End \in Message /\ ended \in Nat
  BY DEF End, Message, TypeOK
<1> QED
  BY <1>1, TransmitTypes DEF WriteEnd

LEMMA CloseTypes ==
    ASSUME TypeOK, spoken # <<>>, NEW a, NEW b, CloseSegment(a, b)
    PROVE  /\ up' \in Seq(Message) /\ spoken' \in Seq(Seq(Ids)) /\ ended' \in Nat
           /\ loop' \in {a, b}
<1>1. CASE Transmit(Audio(seg)) /\ Sent(seg) /\ loop' = a /\ UNCHANGED ended
  <2>1. Audio(seg) \in Message /\ seg \in Seq(Ids) /\ spoken \in Seq(Seq(Ids))
        /\ Len(spoken) \in Nat
    BY LenProperties DEF Audio, Message, TypeOK
  <2>2. up' \in Seq(Message)
    BY <1>1, <2>1, TransmitTypes
  <2>3. spoken' \in Seq(Seq(Ids))
    BY <1>1, <2>1, SentJoins
  <2> QED
    BY <1>1, <2>2, <2>3 DEF TypeOK
<1>2. CASE WriteEnd(b) /\ UNCHANGED spoken
  BY <1>2, EndTypes DEF TypeOK
<1> QED
  BY <1>1, <1>2 DEF CloseSegment

\* Every step of the loop that consumes a frame keeps the types.
LEMMA ConsumeTypes ==
    ASSUME TypeOK, LoopRules, SegmentsCounted, q # <<>>, NEW f, f = Head(q),
           SegmentStart(f) \/ SegmentEnd(f) \/ SegmentAudio(f) \/ OutsideSegment(f)
    PROVE  TypeOK'
<1>0. Consumed(f) /\ loop = "loop"
  BY DEF SegmentStart, SegmentEnd, SegmentAudio, OutsideSegment, Consumed
<1>1. f \in Frame /\ f.id \in Ids
  BY <1>0, ConsumedTypes
<1>2. /\ Len(spoken) \in Nat /\ Lookback \in Nat /\ Chunk \in Nat \ {0}
      /\ <<>> \in Seq(Ids) /\ Len(<<>>) = 0 /\ MaxFrames \in Nat
      /\ Append(pre, f.id) \in Seq(Ids)
  BY <1>1, LenProperties, VoiceTurnAssumption DEF TypeOK
<1>3. vad.speaking => spoken # <<>>
  BY <1>0, OpenSegment
<1>4. CASE SegmentStart(f)
  <2>1. /\ Transmit(Start) /\ loop' = "start" /\ frame' = f.id
        /\ spoken' = Append(spoken, <<>>) /\ onset' = Append(onset, run')
        /\ UNCHANGED <<pre, seg, ended>>
    BY <1>4 DEF SegmentStart
  <2>2. up' \in Seq(Message)
    <3>1. Start \in Message
      BY DEF Start, Message
    <3> QED
      BY <2>1, <3>1, TransmitTypes
  <2>3. spoken' \in Seq(Seq(Ids)) /\ onset' \in Seq(Seq(Ids))
    BY <1>0, <1>2, <2>1, ConsumedTypes, AppendProperties DEF TypeOK
  <2>4. frame' \in 0..MaxFrames
    BY <1>1, <1>2, <2>1 DEF Ids
  <2> QED
    BY <1>0, <2>1, <2>2, <2>3, <2>4, ConsumedTypes DEF TypeOK, Writes
<1>5. CASE SegmentEnd(f)
  <2>1. CloseSegment("rest", "end") /\ UNCHANGED <<pre, seg, frame, onset>> /\ spoken # <<>>
    BY <1>3, <1>5 DEF SegmentEnd, Ends
  <2>2. /\ up' \in Seq(Message) /\ spoken' \in Seq(Seq(Ids)) /\ ended' \in Nat
        /\ loop' \in {"rest", "end"}
    BY <2>1, CloseTypes
  <2> QED
    BY <1>0, <2>1, <2>2, ConsumedTypes DEF TypeOK, Writes
<1>6. CASE SegmentAudio(f)
  <2>1. PICK s \in Seq(Ids) : s = Append(seg, f.id) /\ Len(s) = Len(seg) + 1
    <3>1. PICK x \in Ids : x = f.id
      BY <1>1
    <3>2. Append(seg, x) \in Seq(Ids) /\ Len(Append(seg, x)) = Len(seg) + 1
      BY AppendProperties DEF TypeOK
    <3> QED
      BY <3>1, <3>2
  <2>2. Flush(s) /\ UNCHANGED <<pre, frame, onset, ended>> /\ spoken # <<>>
    BY <1>3, <1>6, <2>1 DEF SegmentAudio
  <2>3. Len(s) <= Lookback + Chunk
    <3>1. Len(seg) < Chunk /\ Len(seg) \in Nat
      BY <1>0, LenProperties DEF TypeOK
    <3> QED
      BY <1>2, <2>1, <3>1
  <2>4. /\ seg' \in Seq(Ids) /\ Len(seg') <= Lookback + Chunk
        /\ loop' \in {"loop", "chunk"} /\ (loop' = "loop" => Len(seg') < Chunk)
        /\ up' \in Seq(Message) /\ spoken' \in Seq(Seq(Ids))
    BY <2>2, <2>3, FlushTypes
  <2> QED
    BY <1>0, <2>2, <2>4, ConsumedTypes DEF TypeOK, Writes
<1>7. CASE OutsideSegment(f)
  <2> DEFINE s == Append(pre, f.id)
             n == Len(s)
  <2>1. s \in Seq(Ids) /\ n \in Nat /\ n = Len(pre) + 1
    BY <1>1, AppendProperties, LenProperties DEF TypeOK
  <2>2. /\ pre' = IF n > Lookback THEN SubSeq(s, n - Lookback + 1, n) ELSE s
        /\ UNCHANGED <<up, seg, loop, frame, spoken, onset, ended>>
    BY <1>7 DEF OutsideSegment
  <2>3. pre' \in Seq(Ids) /\ Len(pre') <= Lookback
    <3>1. CASE n > Lookback
      <4>1. \A i \in (n - Lookback + 1)..n : s[i] \in Ids
        BY <1>2, <2>1, <3>1, ElementOfSeq
      <4>2. /\ SubSeq(s, n - Lookback + 1, n) \in Seq(Ids)
            /\ Len(SubSeq(s, n - Lookback + 1, n)) =
                 IF n - Lookback + 1 <= n THEN n - (n - Lookback + 1) + 1 ELSE 0
        <5> HIDE DEF n, s
        <5> QED
          BY <1>2, <2>1, <4>1, SubSeqProperties
      <4> HIDE DEF n, s
      <4> QED
        BY <1>2, <2>1, <2>2, <3>1, <4>2
    <3>2. CASE ~(n > Lookback)
      BY <1>2, <2>1, <2>2, <3>2
    <3> QED
      BY <3>1, <3>2
  <2> QED
    BY <1>0, <2>2, <2>3, ConsumedTypes DEF TypeOK
<1> QED
  BY <1>4, <1>5, <1>6, <1>7

\* So does every step that goes on after a write.
LEMMA WrittenTypes ==
    ASSUME TypeOK, LoopRules, SegmentsCounted, Written
    PROVE  TypeOK'
<1>1. /\ Lookback \in Nat /\ Chunk \in Nat \ {0} /\ MaxFrames \in Nat
      /\ <<>> \in Seq(Ids) /\ Len(<<>>) = 0
  BY VoiceTurnAssumption
<1>2. CASE SegmentBegins
  <2>1. loop = "start" /\ pre' = <<>> /\ frame' = 0 /\ UNCHANGED <<restOfLoop, paused, ended>>
    BY <1>2 DEF SegmentBegins
  <2>2. frame \in Ids /\ pre \in Seq(Ids) /\ spoken # <<>>
    <3>1. frame # 0
      BY <2>1 DEF LoopRules
    <3> QED
      BY <2>1, <3>1, OpenSegment DEF TypeOK, Ids
  <2>3. PICK s \in Seq(Ids) : s = Append(pre, frame) /\ Len(s) = Len(pre) + 1
    BY <2>2, AppendProperties
  <2>4. Len(s) <= Lookback + Chunk
    <3>1. Len(pre) \in Nat /\ Len(pre) <= Lookback
      BY <2>2, LenProperties DEF TypeOK
    <3> QED
      BY <1>1, <2>3, <3>1
  <2>5. /\ seg' \in Seq(Ids) /\ Len(seg') <= Lookback + Chunk
        /\ loop' \in {"loop", "chunk"} /\ (loop' = "loop" => Len(seg') < Chunk)
        /\ up' \in Seq(Message) /\ spoken' \in Seq(Seq(Ids))
    <3>1. Flush(s)
      BY <1>2, <2>3 DEF SegmentBegins
    <3> QED
      BY <2>2, <2>4, <3>1, FlushTypes
  <2>6. UNCHANGED <<mic, q, vad, llmDone, link, owed, asr, onset, run, cut, credit, heard,
                    paused, ended>>
    BY <2>1 DEF restOfLoop
  <2>7. /\ pre' \in Seq(Ids) /\ Len(pre') <= Lookback /\ frame' \in 0..MaxFrames
        /\ loop' \in {"loop", "wait", "left"} \union Writes /\ loop' # "wait"
    BY <1>1, <2>1, <2>5 DEF Writes
  <2> QED
    BY <2>5, <2>6, <2>7 DEF TypeOK
<1>3. CASE ChunkSent
  BY <1>1, <1>3 DEF ChunkSent, TypeOK, Writes, restOfLoop
<1>4. CASE RestSent
  <2>1. PICK at \in {"end", "lastEnd"} : WriteEnd(at)
    BY <1>4 DEF RestSent
  <2>2. up' \in Seq(Message) /\ ended' \in Nat /\ loop' \in {"end", "lastEnd"}
    BY <2>1, EndTypes
  <2>3. UNCHANGED <<mic, q, vad, llmDone, link, owed, asr, onset, run, cut, credit, heard,
                    pre, frame, paused, spoken>>
    BY <1>4 DEF RestSent, restOfLoop
  <2>4. seg' = <<>> /\ <<>> \in Seq(Ids) /\ Len(<<>>) = 0
    BY <1>4 DEF RestSent
  <2>5. Len(seg') <= Lookback + Chunk /\ loop' \in Writes /\ loop' \notin {"loop", "wait"}
    BY <1>1, <2>2, <2>4 DEF Writes
  <2> QED
    BY <2>2, <2>3, <2>4, <2>5 DEF TypeOK
<1>5. CASE EndSent
  <2>1. seg = <<>>
    BY <1>5 DEF EndSent, LoopRules
  <2> QED
    BY <1>1, <1>5, <2>1 DEF EndSent, TypeOK, Writes, restOfLoop
<1>6. CASE LastEndSent
  BY <1>6 DEF LastEndSent, TypeOK, Writes, restOfLoop
<1> QED
  BY <1>2, <1>3, <1>4, <1>5, <1>6 DEF Written

\* So do the steps that leave the loop.
LEMMA LeaveTypes ==
    ASSUME TypeOK, LoopRules, SegmentsCounted,
           loop \in {"loop", "wait", "start", "chunk", "rest", "end"}, Leave,
           cut' \in SUBSET Writes
    PROVE  TypeOK'
<1>1. /\ MicOff /\ frame' = 0
      /\ UNCHANGED <<q, vad, pre, seg, paused, llmDone, link, owed, asr, onset, run, credit,
                     heard>>
  BY DEF Leave
<1>2. mic' \in [captured : 0..MaxFrames, held : {<<>>} \union { <<f>> : f \in Frame }, on : BOOLEAN]
  BY <1>1 DEF MicOff, TypeOK
<1>3. /\ up' \in Seq(Message) /\ spoken' \in Seq(Seq(Ids)) /\ ended' \in Nat
      /\ loop' \in {"lastRest", "lastEnd", "left"}
  <2>1. CASE vad.speaking
    <3>1. CloseSegment("lastRest", "lastEnd") /\ spoken # <<>>
      BY <2>1, OpenSegment DEF Leave
    <3> QED
      BY <3>1, CloseTypes
  <2>2. CASE ~vad.speaking
    BY <2>2 DEF Leave, TypeOK
  <2> QED
    BY <2>1, <2>2
<1>4. 0 \in 0..MaxFrames
  BY VoiceTurnAssumption
<1> QED
  BY <1>1, <1>2, <1>3, <1>4 DEF TypeOK, Writes

\* Every step keeps the types.
LEMMA TypeStep == TypeOK /\ LoopRules /\ SegmentsCounted /\ [Next]_vars => TypeOK'
<1> SUFFICES ASSUME TypeOK, LoopRules, SegmentsCounted, [Next]_vars PROVE TypeOK'
  OBVIOUS
<1>0. /\ q \in Seq(Frame) /\ QueueSize \in Nat \ {0} /\ Len(q) \in Nat /\ MaxFrames \in Nat
      /\ MaxReplies \in Nat /\ Chunk \in Nat \ {0}
      /\ mic.captured \in 0..MaxFrames /\ <<>> \in Seq(Ids) /\ Len(<<>>) = 0
  BY LenProperties, VoiceTurnAssumption DEF TypeOK
<1>1. ASSUME NEW v \in BOOLEAN, MicCapture(v) PROVE TypeOK'
  <2> DEFINE f == [id |-> mic.captured + 1, voice |-> v]
  <2>1. f \in Frame /\ mic.captured + 1 \in 0..MaxFrames
    BY <1>0, <1>1 DEF MicCapture, Frame, Ids
  <2>2. /\ Append(q, f) \in Seq(Frame) /\ Len(Append(q, f)) = Len(q) + 1
    BY <1>0, <2>1, Grows
  <2>3. \/ q' = Append(q, f) /\ Len(q) < QueueSize /\ mic' = [mic EXCEPT !.captured = mic.captured + 1]
        \/ q' = q /\ mic' = [mic EXCEPT !.captured = mic.captured + 1, !.held = <<f>>]
    BY <1>1 DEF MicCapture
  <2> HIDE DEF f
  <2>4. q' \in Seq(Frame) /\ Len(q') <= QueueSize
    <3>1. Len(q) < QueueSize => Len(q) + 1 <= QueueSize
      BY <1>0
    <3>2. CASE q' = q
      BY <3>2 DEF TypeOK
    <3>3. CASE q' = Append(q, f) /\ Len(q) < QueueSize
      BY <2>2, <3>1, <3>3
    <3> QED
      BY <2>3, <3>2, <3>3
  <2>5. mic' \in [captured : 0..MaxFrames, held : {<<>>} \union { <<g>> : g \in Frame }, on : BOOLEAN]
    BY <2>1, <2>3 DEF TypeOK
  <2> QED
    BY <1>1, <2>4, <2>5 DEF TypeOK, MicCapture, restOfMic, devVars, ghosts
<1>2. CASE MicEvict \/ MicStops
  <2>1. mic' \in [captured : 0..MaxFrames, held : {<<>>} \union { <<f>> : f \in Frame }, on : BOOLEAN]
    BY <1>2 DEF MicEvict, MicStops, TypeOK
  <2>2. q' \in Seq(Frame) /\ Len(q') <= QueueSize
    <3>1. CASE q' = q
      BY <3>1 DEF TypeOK
    <3>2. CASE mic.held # <<>> /\ q # <<>> /\ q' = Tail(q) \o mic.held
      <4>1. PICK f \in Frame : mic.held = <<f>>
        BY <3>2 DEF TypeOK
      <4>2. Tail(q) \in Seq(Frame) /\ Len(Tail(q)) = Len(q) - 1
        BY <1>0, <3>2, Shrinks
      <4>3. <<f>> \in Seq(Frame) /\ Len(<<f>>) = 1
        OBVIOUS
      <4>4. q' \in Seq(Frame) /\ Len(q') = Len(Tail(q)) + 1
        <5>1. Tail(q) \o <<f>> \in Seq(Frame) /\ Len(Tail(q) \o <<f>>) = Len(Tail(q)) + Len(<<f>>)
          BY <4>2, <4>3, ConcatProperties
        <5> QED
          BY <3>2, <4>1, <4>3, <5>1
      <4> QED
        BY <1>0, <4>2, <4>4 DEF TypeOK
    <3> QED
      BY <1>2, <3>1, <3>2 DEF MicEvict, MicStops
  <2> QED
    BY <1>2, <2>1, <2>2 DEF TypeOK, MicEvict, MicStops, restOfMic, devVars, ghosts
<1>3. ASSUME q # <<>>,
             \/ SegmentStart(Head(q)) \/ SegmentEnd(Head(q))
             \/ SegmentAudio(Head(q)) \/ OutsideSegment(Head(q))
      PROVE  TypeOK'
  BY <1>3, ConsumeTypes
<1>4. CASE TakePaused
  <2>1. Tail(q) \in Seq(Frame) /\ Len(Tail(q)) <= QueueSize
    BY <1>0, <1>4, Shrinks DEF TakePaused, TypeOK
  <2> QED
    BY <1>4, <2>1 DEF TypeOK, TakePaused, ghosts
<1>5. CASE Resume /\ (credit' = credit - 1 \/ credit' = credit)
  <2>1. vad' \in [speaking : BOOLEAN, silence : 0 .. MinSilence - 1, speech : 0 .. MinSpeech - 1]
    BY <1>5, VoiceTurnAssumption DEF Resume, Quiet
  <2>2. credit \in Int
    BY DEF TypeOK
  <2>3. credit' \in Int
    BY <1>5, <2>2
  <2> QED
    BY <1>0, <1>5, <2>1, <2>3 DEF TypeOK, Resume
<1>6. CASE StreamOver \/ Interrupted
  <2>1. /\ loop \in {"loop", "wait", "start", "chunk", "rest", "end"} /\ Leave
        /\ cut' \in SUBSET Writes
    BY <1>6 DEF StreamOver, Interrupted, TypeOK
  <2> QED
    BY <2>1, LeaveTypes
<1>7. CASE SendRaises \/ InterruptedLast
  <2>1. mic' \in [captured : 0..MaxFrames, held : {<<>>} \union { <<f>> : f \in Frame }, on : BOOLEAN]
    BY <1>7 DEF SendRaises, InterruptedLast, MicOff, TypeOK
  <2>2. frame' \in 0..MaxFrames /\ cut' \in SUBSET Writes
    <3>1. frame \in 0..MaxFrames /\ 0 \in 0..MaxFrames /\ cut \in SUBSET Writes
      BY <1>0 DEF TypeOK
    <3>2. CASE SendRaises
      BY <3>1, <3>2 DEF SendRaises, ghosts
    <3>3. CASE InterruptedLast
      BY <3>1, <3>3 DEF InterruptedLast, Writes
    <3> QED
      BY <1>7, <3>2, <3>3
  <2> QED
    BY <1>7, <2>1, <2>2 DEF TypeOK, SendRaises, InterruptedLast, ghosts
<1>8. CASE Close \/ ReplyReceived
  <2>1. owed \in Nat /\ credit \in Int
    BY DEF TypeOK
  <2>2. owed' \in Nat /\ credit' \in Int
    BY <1>8, <2>1 DEF Close, ReplyReceived
  <2> QED
    BY <1>8, <2>2 DEF TypeOK, Close, ReplyReceived, devVars, ghosts
<1>9. CASE LinkBreaks
  <2>1. PICK n \in 0..Len(up) : up' = SubSeq(up, 1, n)
    BY <1>9 DEF LinkBreaks
  <2>2. n \in Int /\ \A i \in 1..n : up[i] \in Message
    <3>1. up \in Seq(Message)
      BY DEF TypeOK
    <3>2. Len(up) \in Nat /\ \A i \in 1..Len(up) : up[i] \in Message
      BY <3>1, LenProperties, ElementOfSeq
    <3> QED
      BY <3>2
  <2>3. up' \in Seq(Message)
    BY <2>1, <2>2, SubSeqProperties
  <2> QED
    BY <1>9, <2>3 DEF TypeOK, LinkBreaks, devVars, ghosts
<1> DEFINE Asr == [open : BOOLEAN, in : BOOLEAN, buf : Seq(Ids), text : Seq(Ids), fed : Seq(Ids)]
<1>10. /\ asr \in Asr /\ Between \in Asr /\ [Between EXCEPT !.in = TRUE] \in Asr
       /\ asr.buf \in Seq(Ids) /\ asr.fed \in Seq(Ids) /\ asr.text \in Seq(Ids)
  BY <1>0 DEF TypeOK, Between
<1>11. CASE \E t \in {"start", "audio", "end"} : Receives(t) /\ asr' \in Asr /\ owed' \in Nat
                /\ heard' \in Seq([fed : Seq(Ids), text : Seq(Ids)])
  <2>1. up' \in Seq(Message)
    BY <1>11, Shrinks, LenProperties DEF Receives, TypeOK
  <2> QED
    BY <1>11, <2>1 DEF TypeOK, Receives, restOfAsr, devVars, ghosts
<1>12. CASE AsrStart
  BY <1>10, <1>11, <1>12 DEF AsrStart, TypeOK
<1>13. CASE AsrAudio
  <2>1. Head(up) \in Message /\ Head(up).type = "audio"
    BY <1>13, Shrinks, LenProperties DEF AsrAudio, Receives, TypeOK
  <2>2. Head(up).frames \in Seq(Ids)
    BY <2>1 DEF Message, Start, End
  <2>3. asr.buf \o Head(up).frames \in Seq(Ids)
    BY <1>10, <2>2, ConcatProperties
  <2>4. asr' = [asr EXCEPT !.in = TRUE, !.buf = asr.buf \o Head(up).frames]
    BY <1>13 DEF AsrAudio
  <2>5. asr' \in Asr
    BY <1>10, <2>3, <2>4
  <2> QED
    BY <1>11, <1>13, <2>5 DEF AsrAudio, TypeOK
<1>14. CASE AsrChunk
  <2> DEFINE s == SubSeq(asr.buf, 1, Chunk)
             r == SubSeq(asr.buf, Chunk + 1, Len(asr.buf))
  <2>1. Len(asr.buf) \in Nat /\ \A i \in 1..Len(asr.buf) : asr.buf[i] \in Ids
    BY <1>10, LenProperties, ElementOfSeq
  <2>2. s \in Seq(Ids)
    BY <1>0, <1>14, <2>1, SubSeqProperties DEF AsrChunk
  <2>3. r \in Seq(Ids)
    BY <1>0, <2>1, SubSeqProperties
  <2>4. PICK t \in {<<>>, s} : asr' = [asr EXCEPT !.buf = r, !.fed = asr.fed \o s, !.text = asr.text \o t]
    BY <1>14 DEF AsrChunk, Recognise
  <2> HIDE DEF s, r
  <2>5. asr.fed \o s \in Seq(Ids) /\ asr.text \o t \in Seq(Ids)
    BY <1>0, <1>10, <2>2, ConcatProperties
  <2>6. asr' \in Asr
    BY <1>10, <2>3, <2>4, <2>5
  <2> QED
    BY <1>14, <2>6 DEF AsrChunk, TypeOK, restOfAsr, devVars, ghosts
<1>15. CASE AsrEnd
  <2>1. asr' \in Asr
    BY <1>10, <1>15 DEF AsrEnd
  <2>2. CASE asr.in
    <3>1. PICK t \in {<<>>, asr.buf} : AsrFinal(asr.fed \o asr.buf, asr.text \o t)
      BY <1>15, <2>2 DEF AsrEnd, Recognise
    <3>2. asr.fed \o asr.buf \in Seq(Ids) /\ asr.text \o t \in Seq(Ids)
      BY <1>0, <1>10, ConcatProperties
    <3>3. [fed |-> asr.fed \o asr.buf, text |-> asr.text \o t] \in [fed : Seq(Ids), text : Seq(Ids)]
      BY <3>2
    <3>4. heard' \in Seq([fed : Seq(Ids), text : Seq(Ids)])
      BY <3>1, <3>3, AppendProperties DEF AsrFinal, TypeOK
    <3>5. owed' \in Nat
      BY <1>0, <3>1 DEF AsrFinal, TypeOK
    <3> QED
      BY <1>11, <1>15, <2>1, <3>4, <3>5 DEF AsrEnd
  <2>3. CASE ~asr.in
    BY <1>11, <1>15, <2>1, <2>3 DEF AsrEnd, TypeOK
  <2> QED
    BY <2>2, <2>3
<1>16. CASE AsrFails \/ AsrDisconnected
  <2>1. asr' \in Asr
    BY <1>10, <1>16 DEF AsrFails, AsrDisconnected
  <2> QED
    BY <1>16, <2>1 DEF TypeOK, AsrFails, AsrDisconnected, restOfAsr, devVars, ghosts
<1>17. CASE UNCHANGED vars
  BY <1>17 DEF TypeOK, vars, devVars, ghosts
<1>18. CASE Consume
  BY <1>3, <1>4, <1>6, <1>18 DEF Consume
<1>19. CASE Written
  BY <1>19, WrittenTypes
<1> QED
  BY <1>1, <1>2, <1>5, <1>6, <1>7, <1>8, <1>9, <1>12, <1>13, <1>14, <1>15, <1>16, <1>17, <1>18,
     <1>19
  DEF Next, Microphone, ResumeOnReply, WaitTimeout, Recogniser

-----------------------------------------------------------------------------
(* The loop, its segments and its waits *)

\* What a step has to leave alone for the loop to be as it was.
LEMMA LoopStays ==
    ASSUME UNCHANGED <<vad, pre, seg, spoken, onset, run, ended, cut, loop, frame, paused,
                       llmDone, credit>>,
           link' = link \/ link' = "down", LoopRules, SegmentsCounted, FirstWords, CreditCovers
    PROVE  LoopRules' /\ SegmentsCounted' /\ FirstWords' /\ CreditCovers'
<1>1. LoopRules' /\ SegmentsCounted' /\ CreditCovers'
  BY DEF LoopRules, SegmentsCounted, CreditCovers
<1>2. FirstWords'
  BY DEF FirstWords, Waiting, ToSet
<1> QED
  BY <1>1, <1>2

\* A detector that has just been reset waits for the first voiced frame.
LEMMA ResetStarts ==
    ASSUME TypeOK, vad' = Quiet, run' = <<>>, pre' = pre
    PROVE  /\ vad'.speaking = FALSE
           /\ Len(run') = vad'.speech /\ Len(run') <= Len(pre')
           /\ \A i \in DOMAIN run' : run'[i] = pre'[Len(pre') - Len(run') + i]
<1>1. Len(pre) \in Nat
  BY LenProperties DEF TypeOK
<1> QED
  BY <1>1 DEF Quiet

\* The frames that are kept from before the start of a segment hold those that
\* may start it.
LEMMA RunIsKept ==
    ASSUME TypeOK, FirstWords, ~vad.speaking
    PROVE  \A i \in DOMAIN run : run[i] \in ToSet(pre)
<1>1. /\ Len(run) \in Nat /\ Len(pre) \in Nat
      /\ DOMAIN run = 1..Len(run) /\ DOMAIN pre = 1..Len(pre)
  BY LenProperties DEF TypeOK
<1>2. ASSUME NEW i \in DOMAIN run PROVE run[i] \in ToSet(pre)
  <2>1. run[i] = pre[Len(pre) - Len(run) + i] /\ Len(pre) - Len(run) + i \in DOMAIN pre
    BY <1>1 DEF FirstWords
  <2> QED
    BY <2>1 DEF ToSet
<1> QED
  BY <1>2


\* A segment that begins has sent nothing.
LEMMA BegunSegment ==
    ASSUME spoken \in Seq(Seq(Ids)), spoken' = Append(spoken, <<>>),
           NEW n \in Nat, n = Len(spoken)
    PROVE  /\ spoken' \in Seq(Seq(Ids))
           /\ DOMAIN spoken = 1..n /\ DOMAIN spoken' = 1..(n + 1) /\ Len(spoken') = n + 1
           /\ spoken'[n + 1] = <<>> /\ \A k \in 1..n : spoken'[k] = spoken[k]
<1> DEFINE Grown(e) ==
      /\ Append(spoken, e) \in Seq(Seq(Ids))
      /\ DOMAIN spoken = 1..n /\ DOMAIN Append(spoken, e) = 1..(n + 1)
      /\ Len(Append(spoken, e)) = n + 1
      /\ Append(spoken, e)[n + 1] = e /\ \A k \in 1..n : Append(spoken, e)[k] = spoken[k]
<1>1. ASSUME NEW e \in Seq(Ids) PROVE Grown(e)
  BY Grows
<1>2. <<>> \in Seq(Ids)
  OBVIOUS
<1> HIDE DEF Grown
<1>3. Grown(<<>>)
  BY <1>1, <1>2, Zenon
<1> QED
  BY <1>3 DEF Grown

\* The step that starts a segment: the frames that started it wait in pre_buf,
\* and the last is in the loop's hand.
LEMMA StartKeepsLoop ==
    ASSUME TypeOK, LoopRules, SegmentsCounted, FirstWords, CreditCovers,
           q # <<>>, NEW f, f = Head(q), SegmentStart(f)
    PROVE  LoopRules' /\ SegmentsCounted' /\ FirstWords' /\ CreditCovers'
<1>1. /\ f \in Frame /\ f.id \in Ids /\ run' = Append(run, f.id)
      /\ vad'.speaking = TRUE /\ ~vad.speaking
      /\ UNCHANGED <<pre, seg, paused, llmDone, link, credit, cut, ended>>
      /\ loop = "loop" /\ ~paused /\ loop' = "start" /\ frame' = f.id
      /\ spoken' = Append(spoken, <<>>) /\ onset' = Append(onset, run')
  BY ConsumedTypes DEF SegmentStart, Consumed, Starts, VadFeed, Quiet
<1>2. cut = {} /\ seg = <<>> /\ ended = Len(spoken) /\ Len(onset) = Len(spoken)
  BY <1>1 DEF LoopRules, SegmentsCounted
<1>3. f.id # 0 /\ run' \in Seq(Ids)
  <2>1. PICK x \in Ids : x = f.id
    BY <1>1
  <2>2. Append(run, x) \in Seq(Ids) /\ x # 0
    BY AppendProperties DEF Ids, TypeOK
  <2> QED
    BY <1>1, <2>1, <2>2
<1>4. LoopRules' /\ CreditCovers'
  BY <1>1, <1>2, <1>3 DEF LoopRules, CreditCovers
<1>5. PICK n \in Nat, o \in Seq(Ids) : n = Len(spoken) /\ n = Len(onset) /\ o = run'
  BY <1>2, <1>3, LenProperties DEF TypeOK
<1>6. /\ DOMAIN spoken = 1..n /\ DOMAIN spoken' = 1..(n + 1) /\ Len(spoken') = n + 1
      /\ spoken'[n + 1] = <<>> /\ \A k \in 1..n : spoken'[k] = spoken[k]
  <2>1. spoken \in Seq(Seq(Ids))
    BY DEF TypeOK
  <2> QED
    BY <1>1, <1>5, <2>1, BegunSegment
<1>7. /\ Len(onset') = n + 1
      /\ onset'[n + 1] = o /\ \A k \in 1..n : onset'[k] = onset[k]
  <2>1. onset' = Append(onset, o) /\ onset \in Seq(Seq(Ids))
    BY <1>1, <1>5 DEF TypeOK
  <2> QED
    BY <1>5, <2>1, Grows
<1>8. SegmentsCounted'
  BY <1>1, <1>2, <1>5, <1>6, <1>7 DEF SegmentsCounted
<1>9. \A i \in DOMAIN o : o[i] \in Waiting'
  <2>1. PICK m \in Nat : m = Len(run)
    BY LenProperties DEF TypeOK
  <2>2. /\ DOMAIN run = 1..m /\ DOMAIN o = 1..(m + 1) /\ o[m + 1] = f.id
        /\ \A i \in 1..m : o[i] = run[i]
    BY <1>1, <1>5, <2>1, Grows DEF TypeOK
  <2>3. \A i \in 1..m : o[i] \in ToSet(pre)
    BY <1>1, <2>2, RunIsKept
  <2>4. ToSet(pre) \subseteq Ids
    BY SetOfSeq DEF TypeOK
  <2>5. ASSUME NEW i \in DOMAIN o PROVE o[i] \in ToSet(pre) \/ o[i] = f.id
    BY <2>2, <2>3
  <2> QED
    BY <1>1, <2>4, <2>5 DEF Waiting, ToSet
<1>10. ASSUME NEW k \in 1..(n + 1), NEW i \in DOMAIN onset'[k]
       PROVE  \/ onset'[k][i] \in ToSet(spoken'[k])
              \/ k > ended' /\ onset'[k][i] \in Waiting'
  <2>1. CASE k = n + 1
    BY <1>1, <1>2, <1>5, <1>7, <1>9, <2>1
  <2>2. CASE k # n + 1
    <3>1. k \in 1..n /\ ~(k > ended)
      BY <1>2, <1>5, <2>2
    <3> QED
      BY <1>2, <1>6, <1>7, <3>1 DEF FirstWords
  <2> QED
    BY <2>1, <2>2
<1>11. \A k \in DOMAIN spoken' : \A i \in DOMAIN onset'[k] :
          \/ onset'[k][i] \in ToSet(spoken'[k])
          \/ k > ended' /\ onset'[k][i] \in Waiting'
  BY <1>6, <1>10
<1>12. vad'.speaking /\ spoken'[Len(spoken')] = <<>>
  BY <1>1, <1>6
<1>13. FirstWords'
  BY <1>11, <1>12 DEF FirstWords
<1> QED
  BY <1>4, <1>8, <1>13

\* What is sent holds all that waits: the words that started a segment are not
\* lost on the way.
LEMMA WordsJoin ==
    ASSUME TypeOK, SegmentsCounted, FirstWords, ended + 1 = Len(spoken), spoken # <<>>,
           loop # "left", "start" \notin cut,
           NEW s \in Seq(Ids), Sent(s), onset' = onset, \A v \in Waiting : v \in ToSet(s)
    PROVE  /\ Len(spoken') = Len(spoken)
           /\ \A k \in DOMAIN spoken' : \A i \in DOMAIN onset'[k] :
                onset'[k][i] \in ToSet(spoken'[k])
<1>1. PICK n \in Nat : n = Len(spoken) /\ n > ended
  BY LenProperties DEF TypeOK
<1>2. /\ n \in 1..n /\ DOMAIN spoken = 1..n /\ DOMAIN spoken' = 1..n /\ Len(spoken') = n
      /\ spoken[n] \in Seq(Ids) /\ spoken'[n] = spoken[n] \o s
      /\ \A k \in 1..n : k # n => spoken'[k] = spoken[k]
  BY <1>1, SentJoins DEF TypeOK
<1>3. ToSet(spoken'[n]) = ToSet(spoken[n]) \union ToSet(s)
  BY <1>2, SetOfConcat
<1>4. ASSUME NEW k \in 1..n, NEW i \in DOMAIN onset[k]
      PROVE  onset[k][i] \in ToSet(spoken'[k])
  <2>1. onset[k][i] \in ToSet(spoken[k]) \/ (k > ended /\ onset[k][i] \in Waiting)
    BY <1>2 DEF FirstWords
  <2>2. CASE k # n
    <3>1. ~(k > ended)
      <4>1. ended \in Nat
        BY DEF TypeOK
      <4> QED
        BY <1>1, <2>2, <4>1
    <3> QED
      BY <1>2, <2>1, <2>2, <3>1
  <2>3. CASE k = n
    BY <1>3, <2>1, <2>3
  <2> QED
    BY <2>2, <2>3
<1> QED
  BY <1>1, <1>2, <1>4

\* Nothing waits: they have been sent.
LEMMA WordsSent ==
    ASSUME TypeOK, FirstWords, loop # "left", "start" \notin cut, Waiting = {},
           spoken' = spoken, onset' = onset
    PROVE  \A k \in DOMAIN spoken' : \A i \in DOMAIN onset'[k] :
             onset'[k][i] \in ToSet(spoken'[k])
  BY DEF FirstWords

\* Frames join the segment, in the buffer or in what is sent.
LEMMA FlushKeepsWords ==
    ASSUME TypeOK, SegmentsCounted, FirstWords, ended + 1 = Len(spoken), spoken # <<>>,
           loop # "left", cut = {},
           NEW s \in Seq(Ids), Flush(s), onset' = onset, ended' = ended,
           \A v \in Waiting : v \in ToSet(s)
    PROVE  /\ Len(spoken') = Len(spoken)
           /\ \A k \in DOMAIN spoken' : \A i \in DOMAIN onset'[k] :
                \/ onset'[k][i] \in ToSet(spoken'[k])
                \/ k > ended' /\ onset'[k][i] \in Waiting'
<1>1. CASE Sent(s)
  BY <1>1, WordsJoin
<1>2. CASE loop' = "loop" /\ UNCHANGED spoken
  <2>1. seg' = s
    BY DEF Flush
  <2>2. ToSet(s) \subseteq Ids
    BY SetOfSeq
  <2>3. \A v \in Waiting : v \in Waiting'
    BY <1>2, <2>1, <2>2 DEF Waiting
  <2> QED
    BY <1>2, <2>3 DEF FirstWords
<1> QED
  BY <1>1, <1>2 DEF Flush

\* The segment begins: what was kept from before it joins it.
LEMMA BeginsKeepsLoop ==
    ASSUME TypeOK, LoopRules, SegmentsCounted, FirstWords, CreditCovers, SegmentBegins
    PROVE  LoopRules' /\ SegmentsCounted' /\ FirstWords' /\ CreditCovers'
<1>1. /\ loop = "start" /\ pre' = <<>> /\ frame' = 0 /\ loop' \in {"loop", "chunk"}
      /\ UNCHANGED <<vad, llmDone, link, onset, run, cut, credit, paused, ended>>
  BY DEF SegmentBegins, restOfLoop, Flush
<1>2. vad.speaking /\ ~paused /\ cut = {} /\ frame \in Ids
  BY <1>1 DEF LoopRules, TypeOK, Ids
<1>3. PICK s \in Seq(Ids) : s = Append(pre, frame) /\ Flush(s)
  BY <1>2, AppendProperties DEF SegmentBegins, TypeOK
<1>4. \A v \in Waiting : v \in ToSet(s)
  <2>1. PICK l \in Nat : l = Len(pre)
    BY LenProperties DEF TypeOK
  <2>2. /\ DOMAIN pre = 1..l /\ DOMAIN s = 1..(l + 1) /\ s[l + 1] = frame
        /\ \A i \in 1..l : s[i] = pre[i]
    BY <1>2, <1>3, <2>1, Grows DEF TypeOK
  <2>3. l + 1 \in DOMAIN s /\ \A i \in DOMAIN pre : i \in DOMAIN s /\ s[i] = pre[i]
    BY <2>2
  <2> QED
    BY <1>1, <2>2, <2>3 DEF Waiting, ToSet
<1>5. spoken # <<>> /\ ended + 1 = Len(spoken)
  BY <1>1, OpenSegment
<1>6. /\ Len(spoken') = Len(spoken)
      /\ \A k \in DOMAIN spoken' : \A i \in DOMAIN onset'[k] :
           \/ onset'[k][i] \in ToSet(spoken'[k])
           \/ k > ended' /\ onset'[k][i] \in Waiting'
  BY <1>1, <1>2, <1>3, <1>4, <1>5, FlushKeepsWords
<1>7. LoopRules' /\ CreditCovers'
  BY <1>1, <1>2 DEF LoopRules, CreditCovers
<1>8. SegmentsCounted'
  BY <1>1, <1>2, <1>5, <1>6 DEF SegmentsCounted
<1>9. FirstWords'
  BY <1>1, <1>2, <1>6 DEF FirstWords
<1> QED
  BY <1>7, <1>8, <1>9

\* The step that takes a frame within a segment.
LEMMA AudioKeepsLoop ==
    ASSUME TypeOK, LoopRules, SegmentsCounted, FirstWords, CreditCovers,
           q # <<>>, NEW f, f = Head(q), SegmentAudio(f)
    PROVE  LoopRules' /\ SegmentsCounted' /\ FirstWords' /\ CreditCovers'
<1>1. /\ f.id \in Ids /\ vad.speaking /\ vad' = [vad EXCEPT !.silence = IF f.voice THEN 0 ELSE vad.silence + 1]
      /\ UNCHANGED <<llmDone, link, credit, cut, pre, frame, paused, onset, ended>>
      /\ loop = "loop" /\ ~paused /\ loop' \in {"loop", "chunk"}
  BY ConsumedTypes DEF SegmentAudio, Consumed, Starts, VadFeed, Flush
<1>2. vad'.speaking = TRUE /\ cut = {} /\ frame = 0
  BY <1>1 DEF TypeOK, LoopRules
<1>3. PICK s \in Seq(Ids) : s = Append(seg, f.id) /\ Flush(s)
  <2>1. PICK x \in Ids : x = f.id
    BY <1>1
  <2>2. Append(seg, x) \in Seq(Ids)
    BY AppendProperties DEF TypeOK
  <2> QED
    BY <2>1, <2>2 DEF SegmentAudio
<1>4. \A v \in Waiting : v \in ToSet(s)
  <2>1. PICK l \in Nat, x \in Ids : l = Len(seg) /\ x = f.id
    BY <1>1, LenProperties DEF TypeOK
  <2>2. DOMAIN seg = 1..l /\ DOMAIN s = 1..(l + 1) /\ \A i \in 1..l : s[i] = seg[i]
    BY <1>3, <2>1, Grows DEF TypeOK
  <2>3. \A i \in DOMAIN seg : i \in DOMAIN s /\ s[i] = seg[i]
    BY <2>2
  <2> QED
    BY <1>1, <2>3 DEF Waiting, ToSet
<1>5. spoken # <<>> /\ ended + 1 = Len(spoken)
  BY <1>1, OpenSegment
<1>6. /\ Len(spoken') = Len(spoken)
      /\ \A k \in DOMAIN spoken' : \A i \in DOMAIN onset'[k] :
           \/ onset'[k][i] \in ToSet(spoken'[k])
           \/ k > ended' /\ onset'[k][i] \in Waiting'
  BY <1>1, <1>2, <1>3, <1>4, <1>5, FlushKeepsWords
<1>7. LoopRules' /\ CreditCovers'
  BY <1>1, <1>2 DEF LoopRules, CreditCovers
<1>8. SegmentsCounted'
  BY <1>1, <1>2, <1>5, <1>6 DEF SegmentsCounted
<1>9. FirstWords'
  BY <1>1, <1>2, <1>6 DEF FirstWords
<1> QED
  BY <1>7, <1>8, <1>9

\* Closing a segment: what waits is sent, and if nothing does it is ended.
LEMMA CloseKeepsWords ==
    ASSUME TypeOK, SegmentsCounted, FirstWords, ended + 1 = Len(spoken), spoken # <<>>,
           loop # "left", cut = {}, loop # "start", NEW a, NEW b, CloseSegment(a, b),
           onset' = onset
    PROVE  /\ Len(spoken') = Len(spoken)
           /\ \A k \in DOMAIN spoken' : \A i \in DOMAIN onset'[k] :
                onset'[k][i] \in ToSet(spoken'[k])
           /\ \/ loop' = a /\ ended' = ended
              \/ loop' = b /\ ended' = ended + 1
<1>1. CASE Sent(seg) /\ loop' = a /\ UNCHANGED ended
  <2>1. \A v \in Waiting : v \in ToSet(seg)
    BY DEF Waiting
  <2>2. seg \in Seq(Ids)
    BY DEF TypeOK
  <2> QED
    BY <1>1, <2>1, <2>2, WordsJoin
<1>2. CASE seg = <<>> /\ WriteEnd(b) /\ UNCHANGED spoken
  <2>1. Waiting = {}
    BY <1>2 DEF Waiting, ToSet
  <2> QED
    BY <1>2, <2>1, WordsSent DEF WriteEnd
<1> QED
  BY <1>1, <1>2 DEF CloseSegment

\* The detector finds the end of a segment.
LEMMA EndKeepsLoop ==
    ASSUME TypeOK, LoopRules, SegmentsCounted, FirstWords, CreditCovers,
           NEW f, SegmentEnd(f)
    PROVE  LoopRules' /\ SegmentsCounted' /\ FirstWords' /\ CreditCovers'
<1>1. /\ vad.speaking /\ loop = "loop" /\ ~paused /\ CloseSegment("rest", "end")
      /\ UNCHANGED <<llmDone, link, credit, cut, pre, seg, frame, paused, onset>>
      /\ vad' = Quiet /\ run' = <<>>
  BY DEF SegmentEnd, Ends, Starts, Consumed, VadFeed
<1>2. cut = {} /\ frame = 0
  BY <1>1 DEF LoopRules
<1>3. spoken # <<>> /\ ended + 1 = Len(spoken) /\ ended \in Nat /\ Len(spoken) \in Nat
  BY <1>1, OpenSegment
<1>4. /\ Len(spoken') = Len(spoken)
      /\ \A k \in DOMAIN spoken' : \A i \in DOMAIN onset'[k] :
           onset'[k][i] \in ToSet(spoken'[k])
      /\ \/ loop' = "rest" /\ ended' = ended
         \/ loop' = "end" /\ ended' = ended + 1
  BY <1>1, <1>2, <1>3, CloseKeepsWords
<1>5. loop' = "end" => seg = <<>>
  BY <1>1 DEF CloseSegment, WriteEnd
<1>6. LoopRules' /\ CreditCovers'
  BY <1>1, <1>2, <1>4, <1>5 DEF LoopRules, CreditCovers, Quiet
<1>7. SegmentsCounted'
  BY <1>1, <1>3, <1>4 DEF SegmentsCounted
<1>8. FirstWords'
  BY <1>1, <1>4, ResetStarts DEF FirstWords
<1> QED
  BY <1>6, <1>7, <1>8

\* The loop is left: what it had of a segment is sent, unless its start was
\* cut short.
LEMMA LeaveKeepsLoop ==
    ASSUME TypeOK, LoopRules, SegmentsCounted, FirstWords, CreditCovers,
           loop \in {"loop", "wait", "start", "chunk", "rest", "end"}, Leave,
           cut' = Writes \intersect {loop} \/ (cut' = cut /\ loop = "loop")
    PROVE  LoopRules' /\ SegmentsCounted' /\ FirstWords' /\ CreditCovers'
<1>1. /\ frame' = 0
      /\ UNCHANGED <<vad, pre, seg, paused, llmDone, link, onset, run, credit>>
  BY DEF Leave
<1>2. cut = {}
  BY DEF LoopRules
<1>3. /\ cut' # {} => loop \in {"start", "chunk", "rest", "end"}
      /\ loop \in {"start", "rest"} => loop \in cut'
      /\ "start" \in cut' => loop = "start"
  BY <1>2 DEF Writes
<1>4. CreditCovers'
  BY <1>1 DEF CreditCovers
<1>5. CASE ~vad.speaking
  <2>1. loop' = "left" /\ UNCHANGED <<spoken, ended>> /\ loop \notin {"start", "chunk"}
    BY <1>5 DEF Leave, LoopRules
  <2>2. Waiting = {}
    BY <1>5, <2>1 DEF Waiting, LoopRules, ToSet
  <2>3. LoopRules'
    BY <1>1, <1>5, <2>1 DEF LoopRules
  <2>4. loop = "rest" \/ ended = Len(spoken)
    BY <1>5, <2>1 DEF SegmentsCounted
  <2>5. SegmentsCounted'
    BY <1>1, <1>3, <2>1, <2>4 DEF SegmentsCounted
  <2>6. \A k \in DOMAIN spoken' : \A i \in DOMAIN onset'[k] :
          onset'[k][i] \in ToSet(spoken'[k])
    BY <1>1, <1>2, <2>1, <2>2, WordsSent
  <2>7. FirstWords'
    BY <1>1, <2>1, <2>6 DEF FirstWords
  <2> QED
    BY <1>4, <2>3, <2>5, <2>7
<1>6. CASE vad.speaking
  <2>1. CloseSegment("lastRest", "lastEnd") /\ loop \notin {"wait", "rest", "end"} /\ ~paused
    BY <1>6 DEF Leave, LoopRules
  <2>2. spoken # <<>> /\ ended + 1 = Len(spoken) /\ ended \in Nat /\ Len(spoken) \in Nat
    BY <1>6, <2>1, OpenSegment
  <2>3. loop = "start" \/ \A k \in DOMAIN spoken' : \A i \in DOMAIN onset'[k] :
                            onset'[k][i] \in ToSet(spoken'[k])
    BY <1>1, <1>2, <2>1, <2>2, CloseKeepsWords
  <2>4. /\ Len(spoken') = Len(spoken)
        /\ \/ loop' = "lastRest" /\ ended' = ended
           \/ loop' = "lastEnd" /\ ended' = ended + 1
    <3>1. CASE loop = "start"
      BY <2>1, <3>1 DEF CloseSegment, WriteEnd, LoopRules
    <3>2. CASE loop # "start"
      BY <1>1, <1>2, <2>1, <2>2, <3>2, CloseKeepsWords
    <3> QED
      BY <3>1, <3>2
  <2>5. /\ loop' = "lastEnd" => seg = <<>>
        /\ loop = "start" => loop' = "lastEnd" /\ spoken' = spoken
    BY <2>1 DEF CloseSegment, WriteEnd, LoopRules
  <2>6. LoopRules'
    BY <1>1, <1>3, <1>6, <2>1, <2>4, <2>5 DEF LoopRules
  <2>7. SegmentsCounted'
    BY <1>1, <2>2, <2>4 DEF SegmentsCounted
  <2>8. ASSUME NEW k \in DOMAIN spoken', NEW i \in DOMAIN onset'[k]
        PROVE  \/ onset'[k][i] \in ToSet(spoken'[k])
               \/ k = Len(spoken') /\ spoken'[k] = <<>> /\ "start" \in cut'
    <3>1. CASE loop # "start"
      BY <2>3, <3>1
    <3>2. CASE loop = "start"
      <4>1. spoken' = spoken /\ "start" \in cut' /\ spoken[Len(spoken)] = <<>>
        BY <1>3, <2>5, <3>2 DEF FirstWords
      <4>2. \/ onset[k][i] \in ToSet(spoken[k])
            \/ k > ended
        BY <1>1, <1>2, <3>2, <4>1 DEF FirstWords
      <4>3. k > ended => k = Len(spoken)
        <5>1. k \in 1..Len(spoken)
          BY <4>1, LenProperties DEF TypeOK
        <5> QED
          BY <2>2, <5>1
      <4> QED
        BY <1>1, <4>1, <4>2, <4>3
    <3> QED
      BY <3>1, <3>2
  <2>9. FirstWords'
    BY <1>1, <1>6, <2>4, <2>8 DEF FirstWords
  <2> QED
    BY <1>4, <2>6, <2>7, <2>9
<1> QED
  BY <1>5, <1>6

\* A write is over, other than that of a start.
LEMMA WrittenKeepsLoop ==
    ASSUME TypeOK, LoopRules, SegmentsCounted, FirstWords, CreditCovers,
           ChunkSent \/ RestSent \/ EndSent \/ LastEndSent
    PROVE  LoopRules' /\ SegmentsCounted' /\ FirstWords' /\ CreditCovers'
<1>1. /\ UNCHANGED <<vad, pre, frame, llmDone, link, onset, run, cut, credit, spoken>>
      /\ loop \in {"chunk", "rest", "lastRest", "end", "lastEnd"}
  BY DEF ChunkSent, RestSent, EndSent, LastEndSent, restOfLoop
<1>2. Waiting = {} /\ CreditCovers'
  BY <1>1 DEF Waiting, CreditCovers
<1>3. CASE ChunkSent
  <2>1. /\ loop = "chunk" /\ loop' = "loop" /\ seg' = <<>> /\ UNCHANGED <<paused, ended>>
        /\ vad.speaking /\ ~paused /\ pre = <<>> /\ frame = 0 /\ cut = {}
        /\ ended # Len(spoken)
    BY <1>3 DEF ChunkSent, LoopRules, SegmentsCounted
  <2>2. LoopRules' /\ SegmentsCounted'
    BY <1>1, <2>1 DEF LoopRules, SegmentsCounted
  <2>3. \A k \in DOMAIN spoken' : \A i \in DOMAIN onset'[k] :
          onset'[k][i] \in ToSet(spoken'[k])
    BY <1>1, <1>2, <2>1, WordsSent
  <2>4. FirstWords'
    BY <1>1, <2>1, <2>3 DEF FirstWords
  <2> QED
    BY <1>2, <2>2, <2>4
<1>4. CASE RestSent
  <2>1. /\ \/ loop = "rest" /\ loop' = "end"
           \/ loop = "lastRest" /\ loop' = "lastEnd"
        /\ seg' = <<>> /\ ended' = ended + 1 /\ UNCHANGED paused
    BY <1>4 DEF RestSent, WriteEnd
  <2>2. ended + 1 = Len(spoken) /\ ended \in Nat /\ Len(spoken) \in Nat
    BY <2>1, OpenSegment
  <2>3. LoopRules'
    BY <1>1, <2>1 DEF LoopRules
  <2>4. SegmentsCounted'
    BY <1>1, <2>1, <2>2 DEF SegmentsCounted
  <2>5. "start" \notin cut
    BY <2>1 DEF LoopRules
  <2>6. \A k \in DOMAIN spoken' : \A i \in DOMAIN onset'[k] :
          onset'[k][i] \in ToSet(spoken'[k])
    BY <1>1, <1>2, <2>1, <2>5, WordsSent
  <2>7. FirstWords'
    BY <1>1, <2>1, <2>6 DEF FirstWords
  <2> QED
    BY <1>2, <2>3, <2>4, <2>7
<1>5. CASE EndSent \/ LastEndSent
  <2>1. /\ \/ loop = "end" /\ loop' = "loop" /\ paused' = TRUE
           \/ loop = "lastEnd" /\ loop' = "left" /\ paused' = paused
        /\ UNCHANGED <<seg, ended>> /\ seg = <<>> /\ ended = Len(spoken)
    BY <1>5 DEF EndSent, LastEndSent, LoopRules, SegmentsCounted
  <2>2. LoopRules' /\ SegmentsCounted'
    BY <1>1, <2>1 DEF LoopRules, SegmentsCounted
  <2>3. FirstWords'
    BY <1>1, <1>2, <2>1 DEF FirstWords
  <2> QED
    BY <1>2, <2>2, <2>3
<1> QED
  BY <1>3, <1>4, <1>5

\* The step that only remembers a frame: the last ones are kept, and those
\* that are voiced are among them.
LEMMA OutsideKeepsLoop ==
    ASSUME TypeOK, LoopRules, SegmentsCounted, FirstWords, CreditCovers,
           q # <<>>, NEW f, f = Head(q), OutsideSegment(f)
    PROVE  LoopRules' /\ SegmentsCounted' /\ FirstWords' /\ CreditCovers'
<1>1. /\ f.id \in Ids /\ f.voice \in BOOLEAN /\ ~vad.speaking /\ ~Starts(f)
      /\ UNCHANGED <<loop, frame, llmDone, link, credit, cut, seg, paused, spoken, onset, ended>>
      /\ loop = "loop" /\ ~paused
      /\ vad' = [vad EXCEPT !.speech = IF f.voice THEN vad.speech + 1 ELSE 0]
      /\ run' = IF f.voice THEN Append(run, f.id) ELSE <<>>
  BY ConsumedTypes DEF OutsideSegment, Consumed, Ends, VadFeed
<1>2. vad'.speaking = FALSE /\ vad'.speech = IF f.voice THEN vad.speech + 1 ELSE 0
  BY <1>1 DEF TypeOK
<1>3. /\ LoopRules' /\ SegmentsCounted' /\ CreditCovers'
      /\ \A k \in DOMAIN spoken' : \A i \in DOMAIN onset'[k] :
           onset'[k][i] \in ToSet(spoken'[k])
  <2>1. seg = <<>> /\ cut = {} /\ frame = 0
    BY <1>1 DEF LoopRules
  <2>2. Waiting = {}
    BY <1>1, <2>1 DEF Waiting, ToSet
  <2>3. \A k \in DOMAIN spoken' : \A i \in DOMAIN onset'[k] :
          onset'[k][i] \in ToSet(spoken'[k])
    BY <1>1, <2>1, <2>2, WordsSent
  <2> QED
    BY <1>1, <1>2, <2>1, <2>3 DEF LoopRules, SegmentsCounted, CreditCovers
<1>4. PICK p, m \in Nat : p = Len(pre) /\ m = Len(run)
  BY LenProperties DEF TypeOK
<1> DEFINE s == Append(pre, f.id)
<1>5. s \in Seq(Ids) /\ Len(s) = p + 1 /\ s[p + 1] = f.id /\ \A i \in 1..p : s[i] = pre[i]
  BY <1>1, <1>4, Grows DEF TypeOK
<1>6. Lookback \in Nat /\ MinSpeech \in Nat /\ MinSpeech <= Lookback + 1
  BY VoiceTurnAssumption
<1> HIDE DEF s
\* What is kept: the last l frames of s.
<1>7. \E l \in 0..(p + 1) :
        /\ l = p + 1 \/ l = Lookback
        /\ Len(pre') = l /\ \A i \in 1..l : pre'[i] = s[(p + 1) - l + i]
  <2>1. pre' = IF p + 1 > Lookback THEN SubSeq(s, p + 1 - Lookback + 1, p + 1) ELSE s
    <3>1. pre' = IF Len(s) > Lookback THEN SubSeq(s, Len(s) - Lookback + 1, Len(s)) ELSE s
      BY DEF OutsideSegment, s
    <3>2. Len(s) = p + 1
      BY <1>5
    <3>3. CASE Len(s) > Lookback
      BY <1>5, <1>6, <3>1, <3>2, <3>3
    <3>4. CASE ~(Len(s) > Lookback)
      BY <3>1, <3>2, <3>4
    <3> QED
      BY <3>3, <3>4
  <2>2. CASE p + 1 > Lookback
    <3>1. \A i \in (p + 1 - Lookback + 1)..(p + 1) : s[i] \in Ids
      BY <1>5, <1>6, <2>2, ElementOfSeq
    <3>2. /\ Len(pre') = IF p + 1 - Lookback + 1 <= p + 1
                           THEN (p + 1) - (p + 1 - Lookback + 1) + 1 ELSE 0
          /\ \A i \in 1..((p + 1) - (p + 1 - Lookback + 1) + 1) :
               pre'[i] = s[(p + 1 - Lookback + 1) + i - 1]
      BY <1>6, <2>1, <2>2, <3>1, SubSeqProperties
    <3>3. Len(pre') = Lookback /\ \A i \in 1..Lookback : pre'[i] = s[(p + 1) - Lookback + i]
      BY <1>6, <2>2, <3>2
    <3> QED
      BY <1>6, <2>2, <3>3
  <2>3. CASE ~(p + 1 > Lookback)
    <3>1. pre' = s /\ \A i \in 1..(p + 1) : (p + 1) - (p + 1) + i = i
      BY <2>1, <2>3
    <3>2. Len(pre') = p + 1 /\ \A i \in 1..(p + 1) : pre'[i] = s[(p + 1) - (p + 1) + i]
      BY <1>5, <3>1
    <3>3. p + 1 \in 0..(p + 1)
      OBVIOUS
    <3> QED
      BY <3>2, <3>3
  <2> QED
    BY <2>2, <2>3
<1>8. PICK l \in 0..(p + 1) :
        /\ l = p + 1 \/ l = Lookback
        /\ Len(pre') = l /\ \A i \in 1..l : pre'[i] = s[(p + 1) - l + i]
  BY <1>7
<1>9. CASE f.voice
  <2>1. /\ Len(run') = m + 1 /\ DOMAIN run' = 1..(m + 1) /\ run'[m + 1] = f.id
        /\ DOMAIN run = 1..m /\ \A i \in 1..m : run'[i] = run[i]
    BY <1>1, <1>4, <1>9, Grows, SMTT(40) DEF TypeOK
  <2>2. m = vad.speech /\ m <= p /\ \A i \in 1..m : run[i] = pre[p - m + i]
    BY <1>1, <1>4, <2>1 DEF FirstWords
  <2>3. m + 1 <= Lookback
    BY <1>1, <1>6, <1>9, <2>2 DEF Starts
  <2>4. m + 1 <= l
    BY <1>6, <1>8, <2>2, <2>3
  <2>5. ASSUME NEW i \in 1..(m + 1) PROVE run'[i] = pre'[l - (m + 1) + i]
    <3>1. /\ l - (m + 1) + i \in 1..l
          /\ (p + 1) - l + (l - (m + 1) + i) = p - m + i
      BY <2>4
    <3>2. pre'[l - (m + 1) + i] = s[p - m + i]
      BY <1>8, <3>1
    <3>3. CASE i = m + 1
      BY <1>5, <2>1, <3>2, <3>3
    <3>4. CASE i # m + 1
      <4>1. i \in 1..m /\ p - m + i \in 1..p
        BY <2>2, <3>4
      <4> QED
        BY <1>5, <2>1, <2>2, <3>2, <4>1
    <3> QED
      BY <3>3, <3>4
  <2>6. /\ Len(run') = vad'.speech /\ Len(run') <= Len(pre')
        /\ \A i \in DOMAIN run' : run'[i] = pre'[Len(pre') - Len(run') + i]
    BY <1>2, <1>8, <1>9, <2>1, <2>2, <2>4, <2>5
  <2> QED
    BY <1>1, <1>2, <1>3, <2>6 DEF FirstWords
<1>10. CASE ~f.voice
  <2>1. /\ Len(run') = vad'.speech /\ Len(run') <= Len(pre')
        /\ \A i \in DOMAIN run' : run'[i] = pre'[Len(pre') - Len(run') + i]
    BY <1>1, <1>2, <1>8, <1>10
  <2> QED
    BY <1>1, <1>2, <1>3, <2>1 DEF FirstWords
<1> QED
  BY <1>9, <1>10

\* Every step keeps what is said of the loop.
LEMMA LoopStep ==
    ASSUME TypeOK, LoopRules, SegmentsCounted, FirstWords, CreditCovers, [Next]_vars
    PROVE  LoopRules' /\ SegmentsCounted' /\ FirstWords' /\ CreditCovers'
<1>1. CASE Microphone \/ Close \/ LinkBreaks \/ Recogniser \/ AsrFails \/ AsrDisconnected
           \/ UNCHANGED vars
  <2>1. /\ UNCHANGED <<vad, pre, seg, spoken, onset, run, ended, cut, loop, frame, paused, llmDone,
                      credit>>
        /\ link' = link \/ link' = "down"
    BY <1>1 DEF Microphone, MicCapture, MicEvict, MicStops, restOfMic, Close, LinkBreaks, Recogniser,
       AsrStart, AsrAudio, AsrChunk, AsrEnd, Receives, AsrFails, AsrDisconnected, restOfAsr,
       devVars, ghosts, vars
  <2> QED
    BY <2>1, LoopStays
<1>2. CASE Consume /\ ~TakePaused /\ ~StreamOver
  BY <1>2, StartKeepsLoop, AudioKeepsLoop, OutsideKeepsLoop, EndKeepsLoop, ConsumedTypes
  DEF Consume, SegmentEnd
<1>3. CASE TakePaused
  <2>1. /\ loop = "loop" /\ loop' = "wait" /\ paused /\ ~vad.speaking /\ seg = <<>>
        /\ UNCHANGED <<vad, pre, seg, spoken, onset, run, ended, cut, frame, paused, llmDone,
                       link, credit>>
    BY <1>3 DEF TakePaused, ghosts, LoopRules
  <2>2. Waiting = {} /\ cut = {}
    BY <2>1 DEF Waiting, ToSet, LoopRules
  <2>3. \A k \in DOMAIN spoken' : \A i \in DOMAIN onset'[k] :
          onset'[k][i] \in ToSet(spoken'[k])
    BY <2>1, <2>2, WordsSent
  <2>4. LoopRules' /\ SegmentsCounted' /\ CreditCovers'
    BY <2>1 DEF LoopRules, SegmentsCounted, CreditCovers
  <2>5. FirstWords'
    BY <2>1, <2>3 DEF FirstWords
  <2> QED
    BY <2>4, <2>5
<1>4. CASE ResumeOnReply \/ WaitTimeout
  <2>1. /\ vad' = Quiet /\ run' = <<>> /\ pre' = pre /\ loop = "wait" /\ loop' = "loop"
        /\ paused' = FALSE /\ llmDone' = FALSE
        /\ UNCHANGED <<seg, frame, cut, link, spoken, onset, ended>>
        /\ ~vad.speaking /\ seg = <<>> /\ ended = Len(spoken)
    BY <1>4 DEF ResumeOnReply, WaitTimeout, Resume, LoopRules, SegmentsCounted
  <2>2. LoopRules' /\ SegmentsCounted'
    BY <2>1 DEF LoopRules, SegmentsCounted, Quiet
  <2>3. Waiting = {} /\ cut = {}
    BY <2>1 DEF Waiting, LoopRules
  <2>4. \A k \in DOMAIN spoken' : \A i \in DOMAIN onset'[k] :
          onset'[k][i] \in ToSet(spoken'[k])
    BY <2>1, <2>3, WordsSent
  <2>5. FirstWords'
    BY <2>1, <2>4, ResetStarts DEF FirstWords
  <2>6. CreditCovers'
    <3>1. credit \in Int
      BY DEF TypeOK
    <3> QED
      BY <1>4, <2>1, <3>1 DEF CreditCovers, ResumeOnReply, WaitTimeout
  <2> QED
    BY <2>2, <2>5, <2>6
<1>5. CASE StreamOver \/ Interrupted
  <2>1. /\ loop \in {"loop", "wait", "start", "chunk", "rest", "end"} /\ Leave
        /\ cut' = cut \union (Writes \intersect {loop}) \/ (cut' = cut /\ loop = "loop")
    BY <1>5 DEF StreamOver, Interrupted
  <2>2. cut = {}
    BY <2>1 DEF LoopRules
  <2>3. cut' = Writes \intersect {loop} \/ (cut' = cut /\ loop = "loop")
    BY <2>1, <2>2
  <2> QED
    BY <2>1, <2>3, LeaveKeepsLoop
<1>6. CASE SendRaises \/ InterruptedLast
  <2>1. /\ UNCHANGED <<vad, pre, seg, spoken, onset, run, ended, paused, llmDone, link, credit>>
        /\ loop \in Writes /\ loop' = "left" /\ frame' = 0 /\ ~paused
        /\ \/ link = "down" /\ cut' = cut
           \/ cut' = cut \union {loop} /\ (loop = "lastRest" \/ ended = Len(spoken))
    BY <1>6 DEF SendRaises, InterruptedLast, ghosts, LoopRules, SegmentsCounted, Writes
  <2>2. LoopRules' /\ SegmentsCounted' /\ CreditCovers'
    BY <2>1 DEF LoopRules, SegmentsCounted, CreditCovers
  <2>3. FirstWords'
    BY <2>1 DEF FirstWords
  <2> QED
    BY <2>2, <2>3
<1>7. CASE ReplyReceived
  <2>1. credit \in Int /\ credit' = credit + 1
    BY <1>7 DEF TypeOK, ReplyReceived
  <2>2. CreditCovers'
    BY <2>1 DEF CreditCovers
  <2>3. UNCHANGED <<vad, pre, seg, spoken, onset, run, ended, cut, loop, frame, paused, link>>
    BY <1>7 DEF ReplyReceived, devVars, ghosts
  <2>4. LoopRules' /\ SegmentsCounted'
    BY <2>3 DEF LoopRules, SegmentsCounted
  <2>5. FirstWords'
    BY <2>3 DEF FirstWords, Waiting, ToSet
  <2> QED
    BY <2>2, <2>4, <2>5
<1>8. CASE Written
  BY <1>8, BeginsKeepsLoop, WrittenKeepsLoop DEF Written
<1> QED
  BY <1>1, <1>2, <1>3, <1>4, <1>5, <1>6, <1>7, <1>8 DEF Next, Consume

-----------------------------------------------------------------------------
(* The order of the frames *)

\* Order between sequences is order between what they hold.
LEMMA BelowIsOfSets ==
    ASSUME NEW s, NEW t
    PROVE  Below(s, t) <=> \A x \in ToSet(s), y \in ToSet(t) : x < y
  BY DEF Below, ToSet

LEMMA EmptyInOrder ==
    Increasing(<<>>) /\ \A s : Below(s, <<>>) /\ Below(<<>>, s)
  BY DEF Increasing, Below

\* A later frame keeps a sequence in order.
LEMMA AppendInOrder ==
    ASSUME NEW s \in Seq(Ids), NEW x \in Ids, Increasing(s), \A y \in ToSet(s) : y < x
    PROVE  /\ Append(s, x) \in Seq(Ids)
           /\ Increasing(Append(s, x)) /\ ToSet(Append(s, x)) = ToSet(s) \union {x}
<1>1. PICK n \in Nat : n = Len(s)
  BY LenProperties
<1> DEFINE t == Append(s, x)
<1>2. /\ t \in Seq(Ids) /\ DOMAIN s = 1..n /\ DOMAIN t = 1..(n + 1) /\ t[n + 1] = x
      /\ \A i \in 1..n : t[i] = s[i]
  BY <1>1, Grows
<1>3. \A i \in DOMAIN s : s[i] < x
  BY DEF ToSet
<1> HIDE DEF t
<1>4. Increasing(t)
  <2>1. ASSUME NEW i \in DOMAIN t, NEW j \in DOMAIN t, i < j PROVE t[i] < t[j]
    <3>1. i \in 1..n /\ (j = n + 1 \/ j \in 1..n)
      BY <1>2, <2>1
    <3> QED
      BY <1>2, <1>3, <2>1, <3>1 DEF Increasing
  <2> QED
    BY <2>1 DEF Increasing
<1>5. ToSet(t) = ToSet(s) \union {x}
  <2>1. ASSUME NEW i \in DOMAIN t PROVE i \in DOMAIN s \/ t[i] = x
    BY <1>2
  <2>2. n + 1 \in DOMAIN t /\ \A i \in DOMAIN s : i \in DOMAIN t
    BY <1>2
  <2> QED
    BY <1>2, <2>1, <2>2 DEF ToSet
<1> QED
  BY <1>2, <1>4, <1>5 DEF t

\* Two sequences in order make one, when the second comes later.
LEMMA ConcatInOrder ==
    ASSUME NEW s \in Seq(Ids), NEW t \in Seq(Ids), Increasing(s), Increasing(t), Below(s, t)
    PROVE  Increasing(s \o t)
<1>1. PICK m, n \in Nat : m = Len(s) /\ n = Len(t)
  BY LenProperties
<1> DEFINE c == s \o t
<1>2. /\ DOMAIN s = 1..m /\ DOMAIN t = 1..n /\ DOMAIN c = 1..(m + n)
      /\ \A i \in 1..(m + n) : c[i] = IF i <= m THEN s[i] ELSE t[i - m]
  BY <1>1, ConcatProperties, LenProperties
<1> HIDE DEF c
<1>3. ASSUME NEW i \in DOMAIN c, NEW j \in DOMAIN c, i < j PROVE c[i] < c[j]
  <2>1. CASE j <= m
    <3>1. i \in DOMAIN s /\ j \in DOMAIN s /\ c[i] = s[i] /\ c[j] = s[j]
      BY <1>2, <1>3, <2>1
    <3> QED
      BY <1>3, <3>1 DEF Increasing
  <2>2. CASE i <= m /\ ~(j <= m)
    <3>1. i \in DOMAIN s /\ j - m \in DOMAIN t /\ c[i] = s[i] /\ c[j] = t[j - m]
      BY <1>2, <2>2
    <3> QED
      BY <3>1 DEF Below
  <2>3. CASE ~(i <= m)
    <3>1. /\ i - m \in DOMAIN t /\ j - m \in DOMAIN t /\ i - m < j - m
          /\ c[i] = t[i - m] /\ c[j] = t[j - m]
      BY <1>2, <1>3, <2>3
    <3> QED
      BY <3>1 DEF Increasing
  <2> QED
    BY <1>2, <2>1, <2>2, <2>3
<1> QED
  BY <1>3 DEF Increasing, c

LEMMA PastTypes ==
    ASSUME TypeOK
    PROVE  /\ \A k \in DOMAIN spoken : spoken[k] \in Seq(Ids)
           /\ Past \subseteq Ids
           /\ \A x : x \in Past <=> \/ x \in ToSet(seg) \/ x \in ToSet(pre)
                                    \/ x = frame /\ frame # 0
                                    \/ \E k \in DOMAIN spoken : x \in ToSet(spoken[k])
<1>1. \A k \in DOMAIN spoken : spoken[k] \in Seq(Ids)
  BY LenProperties, ElementOfSeq DEF TypeOK
<1>2. /\ \A k \in DOMAIN spoken : ToSet(spoken[k]) \subseteq Ids
      /\ ToSet(seg) \subseteq Ids /\ ToSet(pre) \subseteq Ids
  BY <1>1, SetOfSeq DEF TypeOK
<1>3. frame \in Ids <=> frame # 0
  <2>1. MaxFrames \in Nat /\ frame \in 0..MaxFrames
    BY VoiceTurnAssumption DEF TypeOK
  <2> QED
    BY <2>1 DEF Ids
<1>4. \A x : x \in Past <=> \/ x \in ToSet(seg) \/ x \in ToSet(pre)
                            \/ x = frame /\ frame # 0
                            \/ \E k \in DOMAIN spoken : x \in ToSet(spoken[k])
  BY <1>2, <1>3 DEF Past
<1>5. Past \subseteq Ids
  BY DEF Past
<1> QED
  BY <1>1, <1>4, <1>5

\* Taking frames in order, the loop keeps the queue ahead of what it has taken.
LEMMA QueueTaken ==
    ASSUME TypeOK, QueueInOrder, q # <<>>, q' = Tail(q), mic' = mic,
           \A x \in Past' : x \in Past \/ x = Head(q).id
    PROVE  QueueInOrder'
<1>1. PICK n \in Nat : n = Len(q)
  BY LenProperties DEF TypeOK
<1>2. /\ n >= 1 /\ Head(q) = q[1] /\ DOMAIN q = 1..n /\ DOMAIN q' = 1..(n - 1)
      /\ \A i \in 1..(n - 1) : q'[i] = q[i + 1]
  BY <1>1, Shrinks DEF TypeOK
<1>3. ASSUME NEW i \in DOMAIN q'
      PROVE  i + 1 \in DOMAIN q /\ q'[i] = q[i + 1] /\ q[1].id < q[i + 1].id
  BY <1>2 DEF QueueInOrder
<1>4. \A x \in Past' : x <= mic.captured
  BY <1>2 DEF QueueInOrder
<1>5. ASSUME NEW i \in DOMAIN q'
      PROVE  /\ q'[i].id <= mic.captured
             /\ \A j \in DOMAIN q' : i < j => q'[i].id < q'[j].id
             /\ \A x \in Past' : x < q'[i].id
  <2>1. \A j \in DOMAIN q' : i < j => i + 1 < j + 1
    BY <1>2
  <2> QED
    BY <1>2, <1>3, <2>1 DEF QueueInOrder
<1>6. mic.held # <<>> =>
        /\ mic.held[1].id = mic.captured
        /\ \A i \in DOMAIN q' : q'[i].id < mic.captured
        /\ \A x \in Past' : x < mic.captured
  BY <1>2, <1>3 DEF QueueInOrder
<1> QED
  BY <1>4, <1>5, <1>6 DEF QueueInOrder

\* The microphone numbers its frames, and puts them in the queue in this order.
LEMMA QueueFilled ==
    ASSUME TypeOK, QueueInOrder, Past' = Past,
           (\E v \in BOOLEAN : MicCapture(v)) \/ MicEvict \/ MicStops
    PROVE  QueueInOrder'
<1>1. PICK n \in Nat : n = Len(q) /\ DOMAIN q = 1..n
  BY LenProperties DEF TypeOK
<1>2. PICK c \in Nat : c = mic.captured
  BY DEF TypeOK
<1>3. \A i \in DOMAIN q : q[i].id \in Int
  <2>1. \A i \in DOMAIN q : q[i] \in Frame
    BY <1>1, ElementOfSeq DEF TypeOK
  <2> QED
    BY <2>1 DEF Frame, Ids
<1>4. \A x \in Past : x \in Int
  BY PastTypes DEF Ids
<1>5. ASSUME NEW v \in BOOLEAN, MicCapture(v) PROVE QueueInOrder'
  <2> DEFINE f == [id |-> mic.captured + 1, voice |-> v]
  <2>1. f.id = c + 1 /\ f \in Frame
    <3>1. MaxFrames \in Nat /\ c < MaxFrames
      BY <1>2, <1>5, VoiceTurnAssumption DEF MicCapture
    <3>2. c + 1 \in 1..MaxFrames
      BY <3>1
    <3> QED
      BY <1>2, <3>2 DEF Frame, Ids
  <2>2. \/ q' = Append(q, f) /\ mic' = [mic EXCEPT !.captured = mic.captured + 1]
        \/ q' = q /\ mic' = [mic EXCEPT !.captured = mic.captured + 1, !.held = <<f>>]
    BY <1>5 DEF MicCapture
  <2>3. mic.held = <<>> /\ mic'.captured = c + 1
    BY <1>2, <1>5, <2>2 DEF MicCapture, TypeOK
  <2>4. CASE q' = Append(q, f) /\ mic' = [mic EXCEPT !.captured = mic.captured + 1]
    <3>1. mic'.held = <<>>
      BY <2>3, <2>4 DEF TypeOK
    <3>2. /\ DOMAIN q' = 1..(n + 1) /\ q'[n + 1] = f /\ \A i \in 1..n : q'[i] = q[i]
      BY <1>1, <2>1, <2>4, Grows DEF TypeOK
    <3> HIDE DEF f
    <3>3. \A i \in 1..n : q[i].id < c + 1 /\ q[i].id \in Int
      BY <1>1, <1>2, <1>3 DEF QueueInOrder
    <3>4. \A x \in Past : x < c + 1
      BY <1>2, <1>4 DEF QueueInOrder
    <3>5. ASSUME NEW i \in DOMAIN q'
          PROVE  /\ q'[i].id <= c + 1
                 /\ \A j \in DOMAIN q' : i < j => q'[i].id < q'[j].id
                 /\ \A x \in Past : x < q'[i].id
      <4>1. CASE i = n + 1
        BY <2>1, <3>2, <3>4, <4>1
      <4>2. CASE i \in 1..n
        <5>1. \A j \in DOMAIN q' : j = n + 1 \/ j \in 1..n
          BY <3>2
        <5>2. /\ \A j \in 1..n : i < j => q[i].id < q[j].id
              /\ \A x \in Past : x < q[i].id
          BY <1>1, <4>2 DEF QueueInOrder
        <5>3. q'[i] = q[i] /\ q[i].id < c + 1 /\ q[i].id <= c + 1
          BY <3>2, <3>3, <4>2
        <5> QED
          BY <2>1, <3>2, <5>1, <5>2, <5>3
      <4> QED
        BY <3>2, <4>1, <4>2
    <3>6. \A x \in Past : x <= c + 1
      BY <1>4, <3>4
    <3> QED
      BY <2>3, <3>1, <3>5, <3>6 DEF QueueInOrder
  <2>5. CASE q' = q /\ mic' = [mic EXCEPT !.captured = mic.captured + 1, !.held = <<f>>]
    <3>1. mic'.held = <<f>> /\ mic'.held[1] = f
      BY <2>5 DEF TypeOK
    <3> HIDE DEF f
    <3>2. \A i \in DOMAIN q : q[i].id < c + 1 /\ q[i].id <= c + 1
      BY <1>2, <1>3 DEF QueueInOrder
    <3>3. \A x \in Past : x < c + 1 /\ x <= c + 1
      BY <1>2, <1>4 DEF QueueInOrder
    <3> QED
      BY <2>1, <2>3, <2>5, <3>1, <3>2, <3>3 DEF QueueInOrder
  <2> QED
    BY <2>2, <2>4, <2>5
<1>6. CASE MicEvict
  <2>1. mic'.held = <<>> /\ mic'.captured = c
    BY <1>2, <1>6 DEF MicEvict, TypeOK
  <2>2. CASE q = <<>>
    <3>1. q' = <<>> /\ DOMAIN q' = {}
      BY <1>6, <2>2 DEF MicEvict
    <3> QED
      BY <1>2, <2>1, <3>1 DEF QueueInOrder
  <2>3. CASE q # <<>>
    <3>1. PICK f \in Frame : mic.held = <<f>> /\ q' = Tail(q) \o <<f>>
      BY <1>6, <2>3 DEF MicEvict, TypeOK
    <3>2. /\ n >= 1 /\ Tail(q) \in Seq(Frame) /\ Len(Tail(q)) = n - 1
          /\ \A i \in 1..(n - 1) : Tail(q)[i] = q[i + 1]
      BY <1>1, <2>3, Shrinks DEF TypeOK
    <3>3. /\ DOMAIN q' = 1..n /\ q'[n] = f /\ \A i \in 1..(n - 1) : q'[i] = q[i + 1]
      <4>1. Append(Tail(q), f) = q'
        BY <3>1, <3>2, AppendIsConcat
      <4>0. n - 1 \in Nat
        BY <3>2
      <4>2. PICK t \in Seq(Frame), m \in Nat : t = Tail(q) /\ m = n - 1 /\ m = Len(t)
        BY <3>2, <4>0
      <4>3. DOMAIN q' = 1..(m + 1) /\ q'[m + 1] = f /\ \A i \in 1..m : q'[i] = t[i]
        BY <4>1, <4>2, Grows
      <4>4. m + 1 = n
        BY <4>2
      <4> QED
        BY <3>2, <4>2, <4>3, <4>4
    <3>4. f.id = c /\ \A i \in DOMAIN q : q[i].id < c
      BY <1>2, <3>1 DEF QueueInOrder
    <3>5. \A x \in Past : x < c
      BY <1>2, <3>1 DEF QueueInOrder
    <3>6. ASSUME NEW i \in DOMAIN q'
          PROVE  /\ q'[i].id <= c
                 /\ \A j \in DOMAIN q' : i < j => q'[i].id < q'[j].id
                 /\ \A x \in Past : x < q'[i].id
      <4>1. CASE i = n
        BY <3>3, <3>4, <3>5, <4>1
      <4>2. CASE i # n
        <5>1. i + 1 \in DOMAIN q /\ q'[i] = q[i + 1]
          BY <1>1, <3>3, <4>2
        <5>2. ASSUME NEW j \in DOMAIN q', i < j PROVE q'[i].id < q'[j].id
          <6>1. CASE j = n
            BY <3>3, <3>4, <5>1, <6>1
          <6>2. CASE j # n
            <7>1. j + 1 \in DOMAIN q /\ q'[j] = q[j + 1] /\ i + 1 < j + 1
              BY <1>1, <3>3, <5>2, <6>2
            <7> QED
              BY <5>1, <7>1 DEF QueueInOrder
          <6> QED
            BY <6>1, <6>2
        <5> QED
          BY <1>2, <5>1, <5>2 DEF QueueInOrder
      <4> QED
        BY <4>1, <4>2
    <3> QED
      BY <1>2, <2>1, <3>6 DEF QueueInOrder
  <2> QED
    BY <2>2, <2>3
<1>7. CASE MicStops
  <2>1. mic'.held = mic.held /\ mic'.captured = mic.captured /\ q' = q
    BY <1>7 DEF MicStops, TypeOK
  <2> QED
    BY <2>1 DEF QueueInOrder
<1> QED
  BY <1>5, <1>6, <1>7

\* Where nothing is sent, and no buffer filled, all stays in order.
LEMMA NothingSentInOrder ==
    ASSUME InCaptureOrder, spoken' = spoken, cut \subseteq cut', seg' = seg \/ seg' = <<>>,
           Unsent' = Unsent \/ Unsent' = <<>>
    PROVE  InCaptureOrder'
<1>1. Increasing(seg')
  BY EmptyInOrder DEF InCaptureOrder
<1>2. \A k \in DOMAIN spoken : Below(spoken[k], Unsent')
  BY EmptyInOrder DEF InCaptureOrder
<1>3. "chunk" \in cut => "chunk" \in cut'
  OBVIOUS
<1>4. ASSUME NEW k \in DOMAIN spoken'
      PROVE  \/ Increasing(spoken'[k])
             \/ /\ k = Len(spoken') /\ "chunk" \in cut'
                /\ \E n \in 1..Len(spoken'[k]) : TwiceAtEnd(spoken'[k], n)
  BY <1>3 DEF InCaptureOrder
<1> QED
  BY <1>1, <1>2, <1>4 DEF InCaptureOrder

LEMMA NothingJoins ==
    ASSUME InCaptureOrder, PreInOrder, spoken' = spoken, pre' = pre, frame' = frame \/ frame' = 0,
           cut \subseteq cut', seg' = seg \/ seg' = <<>>, Unsent' = Unsent \/ Unsent' = <<>>
    PROVE  /\ InCaptureOrder' /\ PreInOrder'
           /\ \A x \in Past' : x \in Past
<1>1. PreInOrder'
  BY DEF PreInOrder, Increasing, Below, ToSet
<1>2. ToSet(<<>>) = {} /\ 0 \notin Ids
  BY VoiceTurnAssumption DEF ToSet, Ids
<1>3. \A x \in Past' : x \in Past
  BY <1>2 DEF Past
<1> QED
  BY <1>1, <1>3, NothingSentInOrder

\* What is sent comes after all that was.
LEMMA JoinInOrder ==
    ASSUME TypeOK, InCaptureOrder, spoken # <<>>, cut = {},
           NEW t \in Seq(Ids), Increasing(t), \A k \in DOMAIN spoken : Below(spoken[k], t),
           Sent(t), Increasing(seg'), Unsent' = <<>>
    PROVE  /\ InCaptureOrder'
           /\ \A x : (\E k \in DOMAIN spoken' : x \in ToSet(spoken'[k]))
                       <=> (\E k \in DOMAIN spoken : x \in ToSet(spoken[k])) \/ x \in ToSet(t)
<1>1. PICK n \in Nat : n = Len(spoken)
  BY LenProperties DEF TypeOK
<1>2. /\ n \in 1..n /\ DOMAIN spoken = 1..n /\ DOMAIN spoken' = 1..n
      /\ spoken[n] \in Seq(Ids) /\ spoken'[n] = spoken[n] \o t
      /\ \A k \in 1..n : k # n => spoken'[k] = spoken[k]
  BY <1>1, SentJoins DEF TypeOK
<1>3. \A x : x \in ToSet(spoken'[n]) <=> x \in ToSet(spoken[n]) \/ x \in ToSet(t)
  BY <1>2, SetOfConcat
<1>4. Increasing(spoken'[n])
  <2>1. Increasing(spoken[n]) /\ Below(spoken[n], t)
    BY <1>2 DEF InCaptureOrder
  <2> QED
    BY <1>2, <2>1, ConcatInOrder
<1>5. ASSUME NEW k \in 1..n, k # n
      PROVE  Increasing(spoken'[k]) /\ Below(spoken'[k], spoken'[n])
  <2>1. k < n
    BY <1>5
  <2>2. Below(spoken[k], spoken[n]) /\ Increasing(spoken[k]) /\ Below(spoken[k], t)
    BY <1>2, <2>1 DEF InCaptureOrder
  <2>3. Below(spoken[k], spoken'[n])
    BY <1>3, <2>2, BelowIsOfSets
  <2> QED
    BY <1>2, <1>5, <2>2, <2>3
<1>6. ASSUME NEW k \in 1..n, NEW l \in 1..n, k < l
      PROVE  Below(spoken'[k], spoken'[l])
  <2>1. k # n
    BY <1>6
  <2>2. CASE l = n
    BY <1>5, <2>1, <2>2
  <2>3. CASE l # n
    BY <1>2, <1>6, <2>1, <2>3 DEF InCaptureOrder
  <2> QED
    BY <2>2, <2>3
<1>7. \A k \in 1..n : Below(spoken'[k], Unsent')
  BY EmptyInOrder
<1>8. InCaptureOrder'
  BY <1>2, <1>4, <1>5, <1>6, <1>7 DEF InCaptureOrder
<1>9. ASSUME NEW x
      PROVE  (\E k \in 1..n : x \in ToSet(spoken'[k]))
                <=> (\E k \in 1..n : x \in ToSet(spoken[k])) \/ x \in ToSet(t)
  BY <1>2, <1>3
<1> QED
  BY <1>2, <1>8, <1>9

\* A chunk whose writing was interrupted is sent again, right after itself.
LEMMA ResentInOrder ==
    ASSUME TypeOK, InCaptureOrder, ChunkIsLast, spoken # <<>>, cut = {},
           loop = "chunk", seg # <<>>, Sent(seg), seg' = seg, "chunk" \in cut', Unsent' = <<>>
    PROVE  /\ InCaptureOrder'
           /\ \A x : (\E k \in DOMAIN spoken' : x \in ToSet(spoken'[k]))
                       <=> (\E k \in DOMAIN spoken : x \in ToSet(spoken[k]))
<1>1. PICK n \in Nat, g \in Nat : n = Len(spoken) /\ g = Len(seg)
  BY LenProperties DEF TypeOK
<1>2. /\ n \in 1..n /\ DOMAIN spoken = 1..n /\ DOMAIN spoken' = 1..n /\ Len(spoken') = n
      /\ spoken[n] \in Seq(Ids) /\ spoken'[n] = spoken[n] \o seg
      /\ \A k \in 1..n : k # n => spoken'[k] = spoken[k]
  BY <1>1, SentJoins DEF TypeOK
<1>3. PICK m \in Nat : m = Len(spoken[n]) /\ DOMAIN spoken[n] = 1..m
  BY <1>2, LenProperties
<1>4. g <= m /\ g # 0 /\ DOMAIN seg = 1..g /\ \A i \in 1..g : spoken[n][m - g + i] = seg[i]
  BY <1>1, <1>3, EmptySeq, LenProperties DEF ChunkIsLast, TypeOK
<1>5. /\ Len(spoken'[n]) = m + g /\ DOMAIN spoken'[n] = 1..(m + g)
      /\ \A i \in 1..(m + g) : spoken'[n][i] = IF i <= m THEN spoken[n][i] ELSE seg[i - m]
  BY <1>1, <1>2, <1>3, ConcatProperties, LenProperties DEF TypeOK
<1>6. TwiceAtEnd(spoken'[n], g)
  <2>1. g + g <= m + g /\ (m + g) - g = m
    BY <1>4
  <2>2. ASSUME NEW i \in 1..m, NEW j \in 1..m, i < j PROVE spoken'[n][i] < spoken'[n][j]
    <3>1. Increasing(spoken[n])
      <4>1. "chunk" \notin cut
        OBVIOUS
      <4> QED
        BY <1>2, <4>1 DEF InCaptureOrder
    <3>2. /\ spoken'[n][i] = spoken[n][i] /\ spoken'[n][j] = spoken[n][j]
          /\ i \in DOMAIN spoken[n] /\ j \in DOMAIN spoken[n]
      <4>1. i \in 1..(m + g) /\ i <= m /\ j \in 1..(m + g) /\ j <= m
        BY <1>4
      <4> QED
        BY <1>3, <1>5, <4>1
    <3> QED
      BY <2>2, <3>1, <3>2 DEF Increasing
  <2>3. ASSUME NEW i \in 1..g
        PROVE  spoken'[n][(m + g) - g + i] = spoken'[n][(m + g) - g - g + i]
    <3>1. /\ (m + g) - g + i \in 1..(m + g) /\ ~((m + g) - g + i <= m)
          /\ ((m + g) - g + i) - m = i
          /\ (m + g) - g - g + i \in 1..(m + g) /\ (m + g) - g - g + i <= m
          /\ (m + g) - g - g + i = m - g + i
      BY <1>4
    <3>2. spoken'[n][(m + g) - g + i] = seg[i]
      BY <1>5, <3>1
    <3>3. spoken'[n][(m + g) - g - g + i] = spoken[n][m - g + i]
      BY <1>5, <3>1
    <3> QED
      BY <1>4, <3>2, <3>3
  <2>4. g + g <= Len(spoken'[n]) /\ Len(spoken'[n]) - g = m
    BY <1>5, <2>1
  <2>5. \A i, j \in 1..(Len(spoken'[n]) - g) : i < j => spoken'[n][i] < spoken'[n][j]
    BY <2>2, <2>4
  <2>6. \A i \in 1..g : spoken'[n][Len(spoken'[n]) - g + i]
                           = spoken'[n][Len(spoken'[n]) - g - g + i]
    BY <1>5, <2>3
  <2> QED
    BY <2>4, <2>5, <2>6 DEF TwiceAtEnd
<1>7. g \in 1..Len(spoken'[n])
  BY <1>4, <1>5
<1>8. \A x : x \in ToSet(spoken'[n]) <=> x \in ToSet(spoken[n])
  <2>1. ToSet(spoken'[n]) = ToSet(spoken[n]) \union ToSet(seg)
    <3>1. seg \in Seq(Ids)
      BY DEF TypeOK
    <3> QED
      BY <1>2, <3>1, SetOfConcat
  <2>2. ASSUME NEW i \in 1..g PROVE seg[i] \in ToSet(spoken[n])
    <3>1. m - g + i \in DOMAIN spoken[n] /\ seg[i] = spoken[n][m - g + i]
      BY <1>3, <1>4
    <3> QED
      BY <3>1 DEF ToSet
  <2>3. \A x \in ToSet(seg) : x \in ToSet(spoken[n])
    BY <1>4, <2>2 DEF ToSet
  <2> QED
    BY <2>1, <2>3
<1>9. ASSUME NEW k \in 1..n, NEW l \in 1..n, k < l
      PROVE  Below(spoken'[k], spoken'[l])
  <2>1. k # n
    BY <1>9
  <2>2. Below(spoken[k], spoken[l])
    BY <1>2, <1>9 DEF InCaptureOrder
  <2>3. CASE l = n
    <3>1. Below(spoken[k], spoken'[n])
      BY <1>8, <2>2, <2>3, BelowIsOfSets
    <3> QED
      BY <1>2, <2>1, <2>3, <3>1
  <2>4. CASE l # n
    BY <1>2, <2>1, <2>2, <2>4
  <2> QED
    BY <2>3, <2>4
<1>10. ASSUME NEW k \in 1..n, k # n PROVE Increasing(spoken'[k])
  BY <1>2, <1>10 DEF InCaptureOrder
<1>11. (\A k \in 1..n : Below(spoken'[k], Unsent')) /\ Increasing(seg')
  BY EmptyInOrder DEF InCaptureOrder
<1>12. InCaptureOrder'
  BY <1>2, <1>6, <1>7, <1>9, <1>10, <1>11 DEF InCaptureOrder
<1> QED
  BY <1>2, <1>8, <1>12

\* The frames that are flushed go to the segment, or to the buffer, in order;
\* what is written is the last that has been sent.
LEMMA FlushInOrder ==
    ASSUME TypeOK, InCaptureOrder, spoken # <<>>, cut = {}, cut' = cut,
           NEW t \in Seq(Ids), Increasing(t), \A k \in DOMAIN spoken : Below(spoken[k], t),
           Flush(t)
    PROVE  /\ InCaptureOrder' /\ ChunkIsLast' /\ ToSet(seg') = ToSet(t)
           /\ \A x : (\E k \in DOMAIN spoken' : x \in ToSet(spoken'[k]))
                       => (\E k \in DOMAIN spoken : x \in ToSet(spoken[k])) \/ x \in ToSet(t)
<1>1. seg' = t
  BY DEF Flush
<1>2. CASE Sent(t) /\ loop' = "chunk"
  <2>1. Unsent' = <<>>
    BY <1>2 DEF Unsent
  <2>2. /\ InCaptureOrder'
        /\ \A x : (\E k \in DOMAIN spoken' : x \in ToSet(spoken'[k]))
                    <=> (\E k \in DOMAIN spoken : x \in ToSet(spoken[k])) \/ x \in ToSet(t)
    BY <1>1, <1>2, <2>1, JoinInOrder
  <2>3. PICK n \in Nat, g \in Nat : n = Len(spoken) /\ g = Len(t)
    BY LenProperties DEF TypeOK
  <2>4. Len(spoken') = n /\ spoken[n] \in Seq(Ids) /\ spoken'[n] = spoken[n] \o t
    BY <1>2, <2>3, SentJoins DEF TypeOK
  <2>5. PICK m \in Nat : m = Len(spoken[n])
    BY <2>4, LenProperties
  <2>6. /\ Len(spoken'[n]) = m + g
        /\ \A i \in 1..(m + g) : spoken'[n][i] = IF i <= m THEN spoken[n][i] ELSE t[i - m]
    BY <2>3, <2>4, <2>5, ConcatProperties
  <2>7. ASSUME NEW i \in 1..g PROVE spoken'[n][(m + g) - g + i] = t[i]
    <3>1. /\ (m + g) - g + i \in 1..(m + g) /\ ~((m + g) - g + i <= m)
          /\ ((m + g) - g + i) - m = i
      OBVIOUS
    <3> QED
      BY <2>6, <3>1
  <2>8. g <= m + g
    OBVIOUS
  <2>9. ChunkIsLast'
    BY <1>1, <2>3, <2>4, <2>6, <2>7, <2>8 DEF ChunkIsLast
  <2> QED
    BY <1>1, <2>2, <2>9
<1>3. CASE loop' = "loop" /\ UNCHANGED spoken
  <2>1. Unsent' = t
    BY <1>1, <1>3 DEF Unsent
  <2>2. InCaptureOrder'
    BY <1>1, <1>3, <2>1 DEF InCaptureOrder
  <2> QED
    BY <1>1, <1>3, <2>2 DEF ChunkIsLast
<1> QED
  BY <1>2, <1>3 DEF Flush

\* The frame that is taken is later than all that were.
LEMMA HeadIsNext ==
    ASSUME TypeOK, QueueInOrder, q # <<>>
    PROVE  Head(q).id \in Ids /\ \A x \in Past : x < Head(q).id
<1>1. PICK n \in Nat : n = Len(q)
  BY LenProperties DEF TypeOK
<1>2. Head(q) = q[1] /\ 1 \in DOMAIN q /\ Head(q) \in Frame
  BY <1>1, Shrinks DEF TypeOK
<1> QED
  BY <1>2 DEF QueueInOrder, Frame

\* The loop takes frames in order and keeps them so, wherever it puts them.
LEMMA ConsumeInOrder ==
    ASSUME TypeOK, LoopRules, SegmentsCounted, InCaptureOrder, PreInOrder, QueueInOrder,
           q # <<>>, NEW f, f = Head(q),
           SegmentStart(f) \/ SegmentEnd(f) \/ SegmentAudio(f) \/ OutsideSegment(f)
    PROVE  /\ InCaptureOrder' /\ PreInOrder' /\ ChunkIsLast'
           /\ \A x \in Past' : x \in Past \/ x = f.id
<1>1. PICK x \in Ids : x = f.id /\ \A y \in Past : y < x
  BY HeadIsNext
<1>2. /\ \A y \in ToSet(seg) : y < x
      /\ \A y \in ToSet(pre) : y < x
      /\ \A k \in DOMAIN spoken : \A y \in ToSet(spoken[k]) : y < x
  BY <1>1, PastTypes
<1>3. /\ Consumed(f) /\ loop = "loop" /\ Unsent = seg /\ cut = {} /\ cut' = cut
  BY DEF SegmentStart, SegmentEnd, SegmentAudio, OutsideSegment, Consumed, Unsent, LoopRules
<1>4. /\ seg \in Seq(Ids) /\ pre \in Seq(Ids) /\ spoken \in Seq(Seq(Ids))
      /\ Increasing(seg) /\ Increasing(pre)
      /\ \A k \in DOMAIN spoken : Below(spoken[k], seg) /\ Below(spoken[k], pre)
  BY <1>3 DEF TypeOK, InCaptureOrder, PreInOrder
<1>5. /\ ToSet(<<>>) = {} /\ 0 \notin Ids /\ frame = 0
      /\ (vad.speaking => spoken # <<>> /\ pre = <<>>)
  BY <1>3, OpenSegment, VoiceTurnAssumption DEF ToSet, Ids, LoopRules
<1>6. CASE SegmentEnd(f)
  <2>1. CloseSegment("rest", "end") /\ UNCHANGED <<pre, seg, frame>> /\ vad.speaking
    BY <1>6 DEF SegmentEnd, Ends
  <2>2. loop' \in {"rest", "end"} /\ Unsent' = <<>> /\ ChunkIsLast'
    BY <2>1 DEF CloseSegment, WriteEnd, Unsent, ChunkIsLast
  <2>3. CASE Sent(seg)
    <3>1. /\ InCaptureOrder'
          /\ \A y : (\E k \in DOMAIN spoken' : y \in ToSet(spoken'[k]))
                      <=> (\E k \in DOMAIN spoken : y \in ToSet(spoken[k])) \/ y \in ToSet(seg)
      BY <1>3, <1>4, <1>5, <2>1, <2>2, <2>3, JoinInOrder
    <3>2. PreInOrder'
      BY <1>5, <2>1, EmptyInOrder DEF PreInOrder
    <3> QED
      BY <1>5, <2>1, <2>2, <3>1, <3>2 DEF Past
  <2>4. CASE spoken' = spoken
    BY <1>3, <2>1, <2>2, <2>4, NothingJoins
  <2> QED
    BY <2>1, <2>3, <2>4 DEF CloseSegment
<1>7. CASE SegmentAudio(f)
  <2>1. PICK s \in Seq(Ids) :
          s = Append(seg, x) /\ Increasing(s) /\ ToSet(s) = ToSet(seg) \union {x}
    BY <1>2, <1>4, AppendInOrder
  <2>2. Flush(s) /\ UNCHANGED <<pre, frame>> /\ vad.speaking
    BY <1>1, <1>7, <2>1 DEF SegmentAudio
  <2>3. \A k \in DOMAIN spoken : Below(spoken[k], s)
    BY <1>2, <1>4, <2>1, BelowIsOfSets
  <2>4. /\ InCaptureOrder' /\ ChunkIsLast' /\ ToSet(seg') = ToSet(s)
        /\ \A y : (\E k \in DOMAIN spoken' : y \in ToSet(spoken'[k]))
                    => (\E k \in DOMAIN spoken : y \in ToSet(spoken[k])) \/ y \in ToSet(s)
    BY <1>3, <1>5, <2>1, <2>2, <2>3, FlushInOrder
  <2>5. PreInOrder'
    BY <1>5, <2>2, EmptyInOrder DEF PreInOrder
  <2> QED
    BY <1>1, <1>5, <2>1, <2>2, <2>4, <2>5 DEF Past
<1>8. PICK s \in Seq(Ids) :
        s = Append(pre, f.id) /\ Increasing(s) /\ ToSet(s) = ToSet(pre) \union {f.id}
  <2>1. PICK s \in Seq(Ids) :
          s = Append(pre, x) /\ Increasing(s) /\ ToSet(s) = ToSet(pre) \union {x}
    BY <1>2, <1>4, AppendInOrder
  <2> QED
    BY <1>1, <2>1
<1>9. CASE SegmentStart(f)
  <2>1. /\ spoken' = Append(spoken, <<>>) /\ loop' = "start" /\ frame' = x
        /\ UNCHANGED <<pre, seg>>
    BY <1>1, <1>9 DEF SegmentStart
  <2>2. PICK n \in Nat : n = Len(spoken)
    BY <1>4, LenProperties
  <2>3. /\ DOMAIN spoken = 1..n /\ DOMAIN spoken' = 1..(n + 1) /\ Len(spoken') = n + 1
        /\ spoken'[n + 1] = <<>> /\ \A k \in 1..n : spoken'[k] = spoken[k]
    BY <1>4, <2>1, <2>2, BegunSegment
  <2>4. Unsent' = <<>> /\ ChunkIsLast'
    BY <2>1 DEF Unsent, ChunkIsLast
  <2>5. ASSUME NEW k \in 1..(n + 1)
        PROVE  /\ Increasing(spoken'[k]) /\ Below(spoken'[k], pre)
               /\ \A y \in ToSet(spoken'[k]) : y \in Past
               /\ \A l \in 1..(n + 1) : k < l => Below(spoken'[k], spoken'[l])
    <3>1. CASE k = n + 1
      BY <1>5, <2>3, <3>1, EmptyInOrder
    <3>2. CASE k \in 1..n
      <4>1. \A l \in 1..(n + 1) : l = n + 1 \/ l \in 1..n
        OBVIOUS
      <4>2. \A l \in 1..n : k < l => Below(spoken[k], spoken[l])
        BY <2>3, <3>2 DEF InCaptureOrder
      <4>3. Increasing(spoken[k]) /\ Below(spoken[k], pre)
        BY <1>3, <1>4, <2>3, <3>2 DEF InCaptureOrder
      <4>4. \A y \in ToSet(spoken[k]) : y \in Past
        BY <2>3, <3>2, PastTypes
      <4>5. \A l \in 1..(n + 1) : k < l => Below(spoken[k], spoken'[l])
        BY <2>3, <4>1, <4>2, EmptyInOrder
      <4> QED
        BY <2>3, <3>2, <4>3, <4>4, <4>5
    <3> QED
      BY <3>1, <3>2
  <2>6. \A k \in 1..(n + 1) : Below(spoken'[k], Unsent')
    BY <2>4, EmptyInOrder
  <2>7. InCaptureOrder'
    BY <1>4, <2>1, <2>3, <2>5, <2>6 DEF InCaptureOrder
  <2>8. PreInOrder'
    BY <1>1, <1>2, <1>4, <2>1, <2>3, <2>5 DEF PreInOrder
  <2>9. ASSUME NEW y \in Past' PROVE y \in Past \/ y = f.id
    BY <1>1, <2>1, <2>3, <2>5 DEF Past
  <2> QED
    BY <2>4, <2>7, <2>8, <2>9
<1>10. CASE OutsideSegment(f)
  <2> DEFINE d == IF Len(s) > Lookback THEN Len(s) - Lookback ELSE 0
  <2>1. /\ UNCHANGED <<seg, spoken, loop, frame, cut>>
        /\ pre' = IF Len(s) > Lookback THEN SubSeq(s, Len(s) - Lookback + 1, Len(s)) ELSE s
    BY <1>8, <1>10 DEF OutsideSegment, Consumed
  <2>2. PICK m \in Nat : m = Len(s) /\ DOMAIN s = 1..m
    BY LenProperties
  <2>3. Lookback \in Nat
    BY VoiceTurnAssumption
  <2>4. d \in 0..m
    BY <2>2, <2>3
  <2>5. DOMAIN pre' = 1..(m - d) /\ \A i \in 1..(m - d) : pre'[i] = s[d + i]
    <3>1. CASE m > Lookback
      <4>1. d = m - Lookback /\ pre' = SubSeq(s, d + 1, m)
        BY <2>1, <2>2, <2>3, <3>1
      <4> HIDE DEF d
      <4>2. \A i \in (d + 1)..m : s[i] \in Ids
        BY <2>2, <2>4, ElementOfSeq
      <4>3. /\ pre' \in Seq(Ids) /\ Len(pre') = IF d + 1 <= m THEN m - (d + 1) + 1 ELSE 0
            /\ \A i \in 1..(m - (d + 1) + 1) : pre'[i] = s[(d + 1) + i - 1]
        BY <2>2, <2>4, <4>1, <4>2, SubSeqProperties
      <4>4. DOMAIN pre' = 1..Len(pre')
        BY <4>3, LenProperties
      <4>5. Len(pre') = m - d
        BY <2>2, <2>4, <4>3
      <4>6. \A i \in 1..(m - d) : i \in 1..(m - (d + 1) + 1) /\ (d + 1) + i - 1 = d + i
        BY <2>2, <2>4
      <4> QED
        BY <4>3, <4>4, <4>5, <4>6
    <3>2. CASE ~(m > Lookback)
      <4>1. d = 0 /\ pre' = s
        BY <2>1, <2>2, <3>2
      <4> HIDE DEF d
      <4>2. m - 0 = m /\ \A i \in 1..m : 0 + i = i
        BY <2>2
      <4> QED
        BY <2>2, <4>1, <4>2
    <3> QED
      BY <3>1, <3>2
  <2> HIDE DEF d
  <2>6. ASSUME NEW i \in DOMAIN pre' PROVE d + i \in DOMAIN s /\ pre'[i] = s[d + i]
    BY <2>2, <2>4, <2>5
  <2>7. \A e \in ToSet(pre') : e \in ToSet(s)
    BY <2>6 DEF ToSet
  <2>8. Increasing(pre')
    <3>1. ASSUME NEW i \in DOMAIN pre', NEW j \in DOMAIN pre', i < j PROVE pre'[i] < pre'[j]
      <4>1. d + i < d + j
        BY <2>2, <2>4, <2>5, <3>1
      <4> QED
        BY <1>8, <2>6, <4>1 DEF Increasing
    <3> QED
      BY <3>1 DEF Increasing
  <2>9. \A k \in DOMAIN spoken : Below(spoken[k], pre')
    <3>1. \A k \in DOMAIN spoken : Below(spoken[k], s)
      BY <1>1, <1>2, <1>4, <1>8, BelowIsOfSets
    <3> QED
      BY <2>7, <3>1, BelowIsOfSets
  <2>10. InCaptureOrder' /\ ChunkIsLast'
    <3>1. Unsent' = Unsent
      BY <2>1 DEF Unsent
    <3>2. InCaptureOrder'
      BY <2>1, <3>1, NothingSentInOrder
    <3> QED
      BY <1>3, <2>1, <3>2 DEF ChunkIsLast
  <2>11. PreInOrder'
    BY <1>5, <2>1, <2>8, <2>9 DEF PreInOrder
  <2> QED
    BY <1>5, <1>8, <2>1, <2>7, <2>10, <2>11 DEF Past
<1> QED
  BY <1>6, <1>7, <1>9, <1>10

\* A write is over.
LEMMA WrittenInOrder ==
    ASSUME TypeOK, LoopRules, SegmentsCounted, InCaptureOrder, PreInOrder, Written
    PROVE  /\ InCaptureOrder' /\ PreInOrder' /\ ChunkIsLast'
           /\ \A x \in Past' : x \in Past
<1>1. CASE SegmentBegins
  <2>1. /\ loop = "start" /\ Flush(Append(pre, frame)) /\ pre' = <<>> /\ frame' = 0
        /\ cut' = cut
    BY <1>1 DEF SegmentBegins, restOfLoop
  <2>2. spoken # <<>> /\ cut = {} /\ frame # 0 /\ 0 \notin Ids /\ ToSet(<<>>) = {}
    BY <2>1, OpenSegment DEF LoopRules, Ids, ToSet
  <2>3. /\ frame \in Ids /\ pre \in Seq(Ids) /\ Increasing(pre)
        /\ \A y \in ToSet(pre) : y < frame
        /\ \A k \in DOMAIN spoken :
             Below(spoken[k], pre) /\ \A y \in ToSet(spoken[k]) : y < frame
    <3>1. frame \in Ids /\ pre \in Seq(Ids)
      BY <2>2 DEF TypeOK, Ids
    <3> QED
      BY <2>2, <3>1 DEF PreInOrder
  <2>4. PICK s \in Seq(Ids) :
          s = Append(pre, frame) /\ Increasing(s) /\ ToSet(s) = ToSet(pre) \union {frame}
    BY <2>3, AppendInOrder
  <2>5. \A k \in DOMAIN spoken : Below(spoken[k], s)
    BY <2>3, <2>4, BelowIsOfSets
  <2>6. /\ InCaptureOrder' /\ ChunkIsLast' /\ ToSet(seg') = ToSet(s)
        /\ \A y : (\E k \in DOMAIN spoken' : y \in ToSet(spoken'[k]))
                    => (\E k \in DOMAIN spoken : y \in ToSet(spoken[k])) \/ y \in ToSet(s)
    BY <2>1, <2>2, <2>4, <2>5, FlushInOrder
  <2>7. PreInOrder'
    BY <2>1, EmptyInOrder DEF PreInOrder
  <2> QED
    BY <2>1, <2>2, <2>4, <2>6, <2>7 DEF Past
<1>2. CASE ChunkSent \/ RestSent \/ EndSent \/ LastEndSent
  <2>1. /\ UNCHANGED <<spoken, pre, frame, cut>> /\ (seg' = seg \/ seg' = <<>>)
        /\ loop' \in {"loop", "end", "lastEnd", "left"}
        /\ loop' = "loop" => seg' = <<>>
    BY <1>2 DEF ChunkSent, RestSent, WriteEnd, EndSent, LastEndSent, restOfLoop, LoopRules
  <2>2. Unsent' = <<>> /\ ChunkIsLast'
    BY <2>1 DEF Unsent, ChunkIsLast
  <2> QED
    BY <2>1, <2>2, NothingJoins
<1> QED
  BY <1>1, <1>2 DEF Written

\* A queue that is left alone stays ahead of what has been taken.
LEMMA QueueKept ==
    ASSUME TypeOK, QueueInOrder, q' = q, mic'.captured = mic.captured,
           mic'.held = <<>> \/ mic'.held = mic.held, \A x \in Past' : x \in Past
    PROVE  QueueInOrder'
<1>1. mic'.held # <<>> => mic'.held = mic.held
  OBVIOUS
<1> QED
  BY <1>1 DEF QueueInOrder

\* Leaving, the loop sends what it had kept of a segment, after all the rest, or
\* the chunk it was writing once more.
LEMMA LeaveInOrder ==
    ASSUME TypeOK, LoopRules, SegmentsCounted, InCaptureOrder, PreInOrder, QueueInOrder,
           ChunkIsLast, loop \in {"loop", "wait", "start", "chunk", "rest", "end"}, Leave,
           cut \subseteq cut', loop = "chunk" => "chunk" \in cut'
    PROVE  InCaptureOrder' /\ PreInOrder' /\ QueueInOrder' /\ ChunkIsLast'
<1>1. /\ q' = q /\ pre' = pre /\ seg' = seg /\ frame' = 0
      /\ mic' = [mic EXCEPT !.on = FALSE, !.held = <<>>] /\ cut = {}
  BY DEF Leave, MicOff, LoopRules
<1>2. mic'.captured = mic.captured /\ mic'.held = <<>>
  BY <1>1 DEF TypeOK
<1>3. Unsent' = <<>> /\ ChunkIsLast'
  BY DEF Leave, CloseSegment, WriteEnd, Unsent, ChunkIsLast
<1>4. CASE spoken' = spoken
  BY <1>1, <1>2, <1>3, <1>4, NothingJoins, QueueKept
<1>5. CASE vad.speaking /\ Sent(seg) /\ seg # <<>>
  <2>1. loop \in {"loop", "chunk"}
    BY <1>5 DEF LoopRules
  <2>2. spoken # <<>> /\ pre = <<>> /\ seg \in Seq(Ids) /\ Increasing(seg) /\ ToSet(<<>>) = {}
        /\ 0 \notin Ids
    BY <1>5, <2>1, OpenSegment DEF LoopRules, TypeOK, InCaptureOrder, ToSet, Ids
  <2>3. PreInOrder'
    BY <1>1, <2>2, EmptyInOrder DEF PreInOrder
  <2>4. CASE loop = "loop"
    <3>1. \A k \in DOMAIN spoken : Below(spoken[k], seg)
      BY <2>4 DEF InCaptureOrder, Unsent
    <3>2. /\ InCaptureOrder'
          /\ \A x : (\E k \in DOMAIN spoken' : x \in ToSet(spoken'[k]))
                      <=> (\E k \in DOMAIN spoken : x \in ToSet(spoken[k])) \/ x \in ToSet(seg)
      BY <1>1, <1>3, <1>5, <2>2, <3>1, JoinInOrder
    <3>3. \A x \in Past' : x \in Past
      BY <1>1, <2>2, <3>2 DEF Past
    <3> QED
      BY <1>1, <1>2, <1>3, <2>3, <3>2, <3>3, QueueKept
  <2>5. CASE loop = "chunk"
    <3>1. /\ InCaptureOrder'
          /\ \A x : (\E k \in DOMAIN spoken' : x \in ToSet(spoken'[k]))
                      <=> (\E k \in DOMAIN spoken : x \in ToSet(spoken[k]))
      BY <1>1, <1>3, <1>5, <2>2, <2>5, ResentInOrder
    <3>2. \A x \in Past' : x \in Past
      BY <1>1, <2>2, <3>1 DEF Past
    <3> QED
      BY <1>1, <1>2, <1>3, <2>3, <3>1, <3>2, QueueKept
  <2> QED
    BY <2>1, <2>4, <2>5
<1> QED
  BY <1>4, <1>5 DEF Leave, CloseSegment

\* Order is kept by every step.
LEMMA OrderStep ==
    ASSUME TypeOK, LoopRules, SegmentsCounted, InCaptureOrder, PreInOrder, QueueInOrder,
           ChunkIsLast, [Next]_vars
    PROVE  InCaptureOrder' /\ PreInOrder' /\ QueueInOrder' /\ ChunkIsLast'
<1>1. ASSUME UNCHANGED <<spoken, seg, pre, frame, cut, loop>>
      PROVE  InCaptureOrder' /\ PreInOrder' /\ ChunkIsLast' /\ Past' = Past
  <2>1. Unsent' = Unsent
    BY <1>1 DEF Unsent
  <2>2. Past' = Past
    BY <1>1 DEF Past, ToSet
  <2> QED
    BY <1>1, <2>1, <2>2, NothingJoins DEF ChunkIsLast
<1>2. CASE Microphone
  <2>1. (\E v \in BOOLEAN : MicCapture(v)) \/ MicEvict \/ MicStops
    BY <1>2 DEF Microphone
  <2>2. UNCHANGED <<spoken, seg, pre, frame, cut, loop>>
    BY <2>1 DEF MicCapture, MicEvict, MicStops, restOfMic, devVars, ghosts
  <2> QED
    BY <1>1, <2>1, <2>2, QueueFilled
<1>3. ASSUME q # <<>>, NEW f, f = Head(q),
             SegmentStart(f) \/ SegmentEnd(f) \/ SegmentAudio(f) \/ OutsideSegment(f)
      PROVE  InCaptureOrder' /\ PreInOrder' /\ QueueInOrder' /\ ChunkIsLast'
  <2>1. q' = Tail(q) /\ mic' = mic
    BY <1>3 DEF SegmentStart, SegmentEnd, SegmentAudio, OutsideSegment, Consumed
  <2>2. /\ InCaptureOrder' /\ PreInOrder' /\ ChunkIsLast'
        /\ \A x \in Past' : x \in Past \/ x = Head(q).id
    BY <1>3, ConsumeInOrder
  <2> QED
    BY <1>3, <2>1, <2>2, QueueTaken
<1>4. CASE TakePaused
  <2>1. /\ q # <<>> /\ q' = Tail(q) /\ mic' = mic /\ UNCHANGED <<spoken, seg, pre, frame, cut>>
        /\ loop' = "wait"
    BY <1>4 DEF TakePaused, ghosts
  <2>2. Unsent' = <<>> /\ ChunkIsLast'
    BY <2>1 DEF Unsent, ChunkIsLast
  <2>3. InCaptureOrder' /\ PreInOrder' /\ \A x \in Past' : x \in Past
    BY <2>1, <2>2, NothingJoins
  <2> QED
    BY <2>1, <2>2, <2>3, QueueTaken
<1>5. CASE StreamOver \/ Interrupted
  <2>1. /\ loop \in {"loop", "wait", "start", "chunk", "rest", "end"} /\ Leave
        /\ cut \subseteq cut' /\ (loop = "chunk" => "chunk" \in cut')
    BY <1>5 DEF StreamOver, Interrupted, Writes
  <2> QED
    BY <2>1, LeaveInOrder
<1>6. CASE SendRaises \/ InterruptedLast
  <2>1. /\ UNCHANGED <<q, spoken, seg, pre>> /\ cut \subseteq cut' /\ loop' = "left"
        /\ frame' = frame \/ frame' = 0
        /\ \/ mic' = mic
           \/ mic' = [mic EXCEPT !.on = FALSE, !.held = <<>>]
    BY <1>6 DEF SendRaises, InterruptedLast, MicOff, ghosts
  <2>2. mic'.captured = mic.captured /\ (mic'.held = <<>> \/ mic'.held = mic.held)
    BY <2>1 DEF TypeOK
  <2>3. Unsent' = <<>> /\ ChunkIsLast'
    BY <2>1 DEF Unsent, ChunkIsLast
  <2> QED
    BY <2>1, <2>2, <2>3, NothingJoins, QueueKept
<1>7. CASE ResumeOnReply \/ WaitTimeout
  <2>1. UNCHANGED <<q, mic, spoken, seg, pre, frame, cut>> /\ loop' = "loop" /\ seg = <<>>
    BY <1>7 DEF ResumeOnReply, WaitTimeout, Resume, LoopRules
  <2>2. Unsent' = <<>> /\ ChunkIsLast'
    BY <2>1 DEF Unsent, ChunkIsLast
  <2> QED
    BY <2>1, <2>2, NothingJoins, QueueKept
<1>8. CASE Written
  <2>1. q' = q /\ mic' = mic
    BY <1>8 DEF Written, SegmentBegins, ChunkSent, RestSent, EndSent, LastEndSent, restOfLoop
  <2> QED
    BY <1>8, <2>1, WrittenInOrder, QueueKept
<1>9. CASE \/ Close \/ ReplyReceived \/ LinkBreaks
           \/ Recogniser \/ AsrFails \/ AsrDisconnected \/ UNCHANGED vars
  <2>1. UNCHANGED <<q, mic, spoken, seg, pre, frame, cut, loop>>
    BY <1>9 DEF Close, ReplyReceived, LinkBreaks,
                Recogniser, AsrStart, AsrAudio, AsrChunk, AsrEnd, Receives, AsrFails,
                AsrDisconnected, restOfAsr, devVars, ghosts, vars
  <2> QED
    BY <1>1, <2>1, QueueKept
<1> QED
  BY <1>2, <1>3, <1>4, <1>5, <1>6, <1>7, <1>8, <1>9 DEF Next, Consume

-----------------------------------------------------------------------------
(* What is under way *)

\* Segments only grow at their end, and those that were ended do not.
Prolongs(sp, e, sp2, e2) ==
    /\ e <= e2 /\ e <= Len(sp) /\ Len(sp) <= Len(sp2)
    /\ \A k \in 1..Len(sp) :
         /\ Len(sp[k]) <= Len(sp2[k])
         /\ \A j \in 1..Len(sp[k]) : sp2[k][j] = sp[k][j]
         /\ k <= e => sp2[k] = sp[k]

\* A message leads where it did when segments have grown.
LEMMA MovesProlonged ==
    ASSUME NEW sp \in Seq(Seq(Ids)), NEW sp2 \in Seq(Seq(Ids)), NEW e \in Nat, NEW e2 \in Nat,
           Prolongs(sp, e, sp2, e2), NEW a \in Place, Within(a, sp)
    PROVE  /\ Within(a, sp2)
           /\ \A m, b : b \in Place /\ Within(b, sp) /\ Moves(a, m, b, sp, e)
                          => Moves(a, m, b, sp2, e2)
<1>1. /\ a.k \in Nat /\ a.n \in Nat /\ a.open \in BOOLEAN
      /\ Len(sp) \in Nat /\ Len(sp2) \in Nat
  BY LenProperties DEF Place
<1>2. \A k \in 1..Len(sp) : k \in 1..Len(sp2) /\ Len(sp[k]) \in Nat /\ Len(sp2[k]) \in Nat
  <2>1. ASSUME NEW k \in 1..Len(sp) PROVE k \in 1..Len(sp2)
    BY <1>1 DEF Prolongs
  <2>2. ASSUME NEW k \in 1..Len(sp) PROVE sp[k] \in Seq(Ids) /\ sp2[k] \in Seq(Ids)
    BY <2>1, ElementOfSeq
  <2> QED
    BY <2>1, <2>2, LenProperties
<1>3. a.open => a.k \in 1..Len(sp)
  BY <1>1 DEF Within
<1>4. Within(a, sp2)
  <2>1. a.k <= Len(sp2)
    BY <1>1 DEF Within, Prolongs
  <2>2. CASE a.open
    <3>1. a.n <= Len(sp[a.k]) /\ Len(sp[a.k]) <= Len(sp2[a.k]) /\ a.k >= 1
      BY <1>3, <2>2 DEF Within, Prolongs
    <3>2. a.n \in Nat /\ Len(sp[a.k]) \in Nat /\ Len(sp2[a.k]) \in Nat
      BY <1>1, <1>2, <1>3, <2>2
    <3>3. a.n <= Len(sp2[a.k])
      BY <3>1, <3>2
    <3> QED
      BY <2>1, <3>1, <3>3 DEF Within
  <2> QED
    BY <1>1, <2>1, <2>2 DEF Within
<1>5. ASSUME NEW m, NEW b \in Place, Within(b, sp), Moves(a, m, b, sp, e)
      PROVE  Moves(a, m, b, sp2, e2)
  <2>1. CASE m = Start /\ ~a.open /\ b = [k |-> a.k + 1, n |-> 0, open |-> TRUE]
    BY <2>1 DEF Moves
  <2>2. CASE /\ m \in [type : {"audio"}, frames : Seq(Ids)]
             /\ a.open /\ b = [k |-> a.k, n |-> a.n + Len(m.frames), open |-> TRUE]
             /\ \A j \in 1..Len(m.frames) : m.frames[j] = sp[a.k][a.n + j]
    <3>1. PICK l \in Nat : l = Len(m.frames)
      <4>1. m.frames \in Seq(Ids)
        BY <2>2
      <4> QED
        BY <4>1, LenProperties
    <3>2. \A j \in 1..Len(m.frames) : a.n + j \in 1..Len(sp[a.k])
      <4>1. PICK n \in Nat : n = Len(sp[a.k])
        BY <1>2, <1>3, <2>2
      <4>2. b.open /\ b.k = a.k /\ b.n = a.n + l
        BY <2>2, <3>1
      <4>3. a.n + l <= n
        BY <1>5, <4>1, <4>2 DEF Within
      <4>4. PICK x \in Nat : x = a.n
        BY <1>1
      <4>5. x + l <= n
        BY <4>3, <4>4
      <4>6. \A j \in 1..l : x + j \in 1..n
        BY <4>5
      <4> QED
        BY <3>1, <4>1, <4>4, <4>6
    <3>3. \A j \in 1..Len(m.frames) : m.frames[j] = sp2[a.k][a.n + j]
      BY <1>3, <2>2, <3>2 DEF Prolongs
    <3> QED
      BY <2>2, <3>3 DEF Moves
  <2>3. CASE /\ m = End /\ a.open /\ a.k <= e /\ a.n = Len(sp[a.k])
             /\ b = [k |-> a.k, n |-> 0, open |-> FALSE]
    <3>1. sp2[a.k] = sp[a.k] /\ a.k <= e2
      BY <1>1, <1>3, <2>3 DEF Prolongs
    <3> QED
      BY <2>3, <3>1 DEF Moves
  <2> QED
    BY <1>5, <2>1, <2>2, <2>3 DEF Moves
<1> QED
  BY <1>4, <1>5

\* So do messages.
LEMMA LeadsProlonged ==
    ASSUME NEW sp \in Seq(Seq(Ids)), NEW sp2 \in Seq(Seq(Ids)), NEW e \in Nat, NEW e2 \in Nat,
           Prolongs(sp, e, sp2, e2), NEW u \in Seq(Message), NEW a, NEW b,
           Leads(u, a, b, sp, e)
    PROVE  Leads(u, a, b, sp2, e2)
<1>1. PICK at : Follows(u, at, sp, e) /\ at[0] = a /\ at[Len(u)] = b
  BY DEF Leads
<1>2. PICK l \in Nat : l = Len(u)
  BY LenProperties
<1>3. \A i \in 0..l : at[i] \in Place /\ Within(at[i], sp)
  BY <1>1, <1>2 DEF Follows
<1>4. \A i \in 0..l : Within(at[i], sp2)
  BY <1>3, MovesProlonged
<1>5. ASSUME NEW i \in 1..l PROVE Moves(at[i - 1], u[i], at[i], sp2, e2)
  <2>1. i - 1 \in 0..l /\ i \in 0..l
    BY <1>2
  <2>2. Moves(at[i - 1], u[i], at[i], sp, e)
    BY <1>1, <1>2 DEF Follows
  <2> QED
    BY <1>3, <2>1, <2>2, MovesProlonged
<1>6. Follows(u, at, sp2, e2)
  BY <1>1, <1>2, <1>4, <1>5 DEF Follows
<1> QED
  BY <1>1, <1>6 DEF Leads

\* One message more.
LEMMA LeadsFurther ==
    ASSUME NEW u \in Seq(Message), NEW m \in Message, NEW sp, NEW e,
           NEW a, NEW b, Leads(u, a, b, sp, e),
           NEW c \in Place, Within(c, sp), Moves(b, m, c, sp, e)
    PROVE  Append(u, m) \in Seq(Message) /\ Leads(Append(u, m), a, c, sp, e)
<1>1. PICK at : Follows(u, at, sp, e) /\ at[0] = a /\ at[Len(u)] = b
  BY DEF Leads
<1>2. PICK l \in Nat : l = Len(u)
  BY LenProperties
<1> DEFINE w == Append(u, m)
           to == [i \in 0..(l + 1) |-> IF i = l + 1 THEN c ELSE at[i]]
<1>3. w \in Seq(Message) /\ Len(w) = l + 1 /\ w[l + 1] = m /\ \A i \in 1..l : w[i] = u[i]
  BY <1>2, Grows
<1>4. /\ to[l + 1] = c /\ \A i \in 0..l : to[i] = at[i] /\ i \in 0..(l + 1)
      /\ \A i \in 0..(l + 1) : i = l + 1 \/ i \in 0..l
      /\ to \in [0..(l + 1) -> Place]
  <2>1. \A i \in 0..(l + 1) : i = l + 1 \/ i \in 0..l
    BY <1>2
  <2>2. at \in [0..l -> Place]
    BY <1>1, <1>2 DEF Follows
  <2>3. \A i \in 0..l : i # l + 1 /\ i \in 0..(l + 1) /\ l + 1 \in 0..(l + 1)
    BY <1>2
  <2>4. l + 1 \in 0..(l + 1)
    BY <1>2
  <2> QED
    BY <2>1, <2>2, <2>3, <2>4
<1> HIDE DEF w, to
<1>5. ASSUME NEW i \in 0..(l + 1) PROVE Within(to[i], sp)
  BY <1>1, <1>2, <1>4 DEF Follows
<1>6. ASSUME NEW i \in 1..(l + 1) PROVE Moves(to[i - 1], w[i], to[i], sp, e)
  <2>1. CASE i = l + 1
    <3>1. i - 1 = l /\ l \in 0..l
      BY <1>2, <2>1
    <3> QED
      BY <1>1, <1>2, <1>3, <1>4, <2>1, <3>1
  <2>2. CASE i # l + 1
    <3>1. i \in 1..l /\ i - 1 \in 0..l /\ i \in 0..l
      BY <1>2, <2>2
    <3> QED
      BY <1>1, <1>2, <1>3, <1>4, <3>1 DEF Follows
  <2> QED
    BY <2>1, <2>2
<1>7. Follows(w, to, sp, e)
  BY <1>3, <1>4, <1>5, <1>6 DEF Follows
<1>8. to[0] = a /\ to[Len(w)] = c
  <2>1. 0 \in 0..l
    BY <1>2
  <2> QED
    BY <1>1, <1>3, <1>4, <2>1
<1> QED
  BY <1>3, <1>7, <1>8 DEF Leads, w

\* The first message is taken.
LEMMA LeadsOn ==
    ASSUME NEW u \in Seq(Message), u # <<>>, NEW sp, NEW e, NEW a, NEW c,
           Leads(u, a, c, sp, e)
    PROVE  \E b \in Place : /\ Within(b, sp) /\ Moves(a, Head(u), b, sp, e)
                            /\ Leads(Tail(u), b, c, sp, e)
<1>1. PICK at : Follows(u, at, sp, e) /\ at[0] = a /\ at[Len(u)] = c
  BY DEF Leads
<1>2. PICK l \in Nat : l = Len(u)
  BY LenProperties
<1> DEFINE w == Tail(u)
           to == [i \in 0..(l - 1) |-> at[i + 1]]
<1>3. /\ l >= 1 /\ Head(u) = u[1] /\ Len(w) = l - 1 /\ \A i \in 1..(l - 1) : w[i] = u[i + 1]
  BY <1>2, Shrinks
<1>4. /\ \A i \in 0..(l - 1) : i + 1 \in 0..l /\ to[i] = at[i + 1]
      /\ to \in [0..(l - 1) -> Place]
  <2>1. \A i \in 0..(l - 1) : i + 1 \in 0..l
    BY <1>2, <1>3
  <2>2. at \in [0..l -> Place]
    BY <1>1, <1>2 DEF Follows
  <2> QED
    BY <2>1, <2>2
<1> HIDE DEF w, to
<1>5. ASSUME NEW i \in 0..(l - 1) PROVE Within(to[i], sp)
  BY <1>1, <1>2, <1>4 DEF Follows
<1>6. ASSUME NEW i \in 1..(l - 1) PROVE Moves(to[i - 1], w[i], to[i], sp, e)
  <2>1. /\ i - 1 \in 0..(l - 1) /\ i \in 0..(l - 1) /\ i + 1 \in 1..l
        /\ (i - 1) + 1 = i /\ (i + 1) - 1 = i
    BY <1>2, <1>3
  <2>2. Moves(at[(i + 1) - 1], u[i + 1], at[i + 1], sp, e)
    BY <1>1, <1>2, <2>1 DEF Follows
  <2> QED
    BY <1>3, <1>4, <2>1, <2>2
<1>7. Follows(w, to, sp, e)
  BY <1>3, <1>4, <1>5, <1>6 DEF Follows
<1>8. to[0] = at[1] /\ to[Len(w)] = c
  <2>1. 0 \in 0..(l - 1) /\ l - 1 \in 0..(l - 1) /\ (l - 1) + 1 = l /\ 0 + 1 = 1
    BY <1>2, <1>3
  <2> QED
    BY <1>1, <1>2, <1>3, <1>4, <2>1
<1>9. at[1] \in Place /\ Within(at[1], sp) /\ Moves(a, Head(u), at[1], sp, e)
  <2>1. 1 \in 1..l /\ 1 \in 0..l /\ 1 - 1 = 0
    BY <1>2, <1>3
  <2>2. Moves(at[1 - 1], u[1], at[1], sp, e)
    BY <1>1, <1>2, <2>1 DEF Follows
  <2> QED
    BY <1>1, <1>2, <1>3, <2>1, <2>2 DEF Follows
<1> QED
  BY <1>7, <1>8, <1>9 DEF Leads, w

\* The last messages are lost.
LEMMA LeadsLess ==
    ASSUME NEW u \in Seq(Message), NEW sp, NEW e, NEW a, NEW c, Leads(u, a, c, sp, e),
           NEW n \in 0..Len(u)
    PROVE  \E b : Leads(SubSeq(u, 1, n), a, b, sp, e)
<1>1. PICK at : Follows(u, at, sp, e) /\ at[0] = a
  BY DEF Leads
<1>2. PICK l \in Nat : l = Len(u)
  BY LenProperties
<1> DEFINE w == SubSeq(u, 1, n)
           to == [i \in 0..n |-> at[i]]
<1>3. n \in Nat /\ n <= l /\ \A i \in 0..n : i \in 0..l
  BY <1>2
<1>4. Len(w) = n /\ \A i \in 1..n : w[i] = u[i]
  <2>1. \A i \in 1..n : u[i] \in Message
    BY <1>2, <1>3, ElementOfSeq
  <2>2. /\ Len(w) = IF 1 <= n THEN n - 1 + 1 ELSE 0
        /\ \A i \in 1..(n - 1 + 1) : w[i] = u[1 + i - 1]
    BY <1>3, <2>1, SubSeqProperties
  <2> HIDE DEF w
  <2> QED
    BY <1>3, <2>2
<1>5. to \in [0..n -> Place] /\ \A i \in 0..n : to[i] = at[i]
  BY <1>1, <1>2, <1>3 DEF Follows
<1> HIDE DEF w, to
<1>6. \A i \in 0..n : Within(to[i], sp)
  BY <1>1, <1>2, <1>3, <1>5 DEF Follows
<1>7. ASSUME NEW i \in 1..n PROVE Moves(to[i - 1], w[i], to[i], sp, e)
  <2>1. i \in 1..l /\ i \in 0..n /\ i - 1 \in 0..n
    BY <1>3
  <2>2. Moves(at[i - 1], u[i], at[i], sp, e)
    BY <1>1, <1>2, <2>1 DEF Follows
  <2> QED
    BY <1>4, <1>5, <2>1, <2>2
<1>8. Follows(w, to, sp, e)
  BY <1>4, <1>5, <1>6, <1>7 DEF Follows
<1>9. to[0] = a
  BY <1>1, <1>3, <1>5
<1> QED
  BY <1>8, <1>9 DEF Leads, w

-----------------------------------------------------------------------------
(* The furniture sends *)

LEMMA NothingProlongs ==
    ASSUME TypeOK, SegmentsCounted, UNCHANGED <<spoken, ended>>
    PROVE  Prolongs(spoken, ended, spoken', ended')
<1>1. ended \in Nat /\ Len(spoken) \in Nat /\ ended <= Len(spoken)
  BY LenProperties DEF TypeOK, SegmentsCounted
<1>2. \A k \in 1..Len(spoken) : Len(spoken[k]) \in Nat
  BY ElementOfSeq, LenProperties DEF TypeOK
<1> QED
  BY <1>1, <1>2 DEF Prolongs

\* A segment that begins.
LEMMA StartProlongs ==
    ASSUME TypeOK, SegmentsCounted, spoken' = Append(spoken, <<>>), ended' = ended
    PROVE  Prolongs(spoken, ended, spoken', ended')
<1>1. PICK n \in Nat : n = Len(spoken) /\ ended \in Nat /\ ended <= n
  <2>1. spoken \in Seq(Seq(Ids)) /\ ended \in Nat
    BY DEF TypeOK
  <2>2. Len(spoken) \in Nat
    BY <2>1, LenProperties
  <2> QED
    BY <2>1, <2>2 DEF SegmentsCounted
<1>2. Len(spoken') = n + 1 /\ \A k \in 1..n : spoken'[k] = spoken[k]
  BY <1>1, BegunSegment DEF TypeOK
<1>3. \A k \in 1..n : Len(spoken[k]) \in Nat
  BY <1>1, ElementOfSeq, LenProperties DEF TypeOK
<1>4. \A k \in 1..Len(spoken) :
         /\ Len(spoken[k]) <= Len(spoken'[k])
         /\ \A j \in 1..Len(spoken[k]) : spoken'[k][j] = spoken[k][j]
         /\ k <= ended => spoken'[k] = spoken[k]
  BY <1>1, <1>2, <1>3
<1>5. ended <= ended' /\ ended <= Len(spoken) /\ Len(spoken) <= Len(spoken')
  BY <1>1, <1>2
<1> QED
  BY <1>4, <1>5 DEF Prolongs

\* Frames that join the last segment, when it has not been ended.
LEMMA SentProlongs ==
    ASSUME TypeOK, SegmentsCounted, ended # Len(spoken), NEW o \in Seq(Ids), Sent(o),
           ended' = ended
    PROVE  Prolongs(spoken, ended, spoken', ended')
<1>1. PICK n \in Nat : n = Len(spoken) /\ ended \in Nat /\ ended + 1 = n /\ spoken # <<>>
  BY LenProperties DEF TypeOK, SegmentsCounted
<1>2. /\ Len(spoken') = n /\ n \in 1..n
      /\ spoken[n] \in Seq(Ids) /\ spoken'[n] = spoken[n] \o o
      /\ \A k \in 1..n : k # n => spoken'[k] = spoken[k]
  BY <1>1, SentJoins DEF TypeOK
<1>3. \A k \in 1..n : Len(spoken[k]) \in Nat
  BY <1>1, ElementOfSeq, LenProperties DEF TypeOK
<1>4. /\ Len(spoken[n]) <= Len(spoken'[n])
      /\ \A j \in 1..Len(spoken[n]) : spoken'[n][j] = spoken[n][j]
  <2>1. PICK l, m \in Nat : l = Len(spoken[n]) /\ m = Len(o)
    BY <1>2, LenProperties
  <2>2. /\ Len(spoken[n] \o o) = l + m
        /\ \A j \in 1..(l + m) : (spoken[n] \o o)[j] = IF j <= l THEN spoken[n][j] ELSE o[j - l]
    BY <1>2, <2>1, ConcatProperties
  <2>3. \A j \in 1..l : j \in 1..(l + m) /\ j <= l
    BY <2>1
  <2>4. l <= l + m
    BY <2>1
  <2> QED
    BY <1>2, <2>1, <2>2, <2>3, <2>4
<1>5. ASSUME NEW k \in 1..n
      PROVE  /\ Len(spoken[k]) <= Len(spoken'[k])
             /\ \A j \in 1..Len(spoken[k]) : spoken'[k][j] = spoken[k][j]
             /\ k <= ended => spoken'[k] = spoken[k]
  <2>1. CASE k = n
    BY <1>1, <1>4, <2>1
  <2>2. CASE k # n
    BY <1>2, <1>3, <2>2
  <2> QED
    BY <2>1, <2>2
<1>6. ended <= ended' /\ ended <= n /\ n <= n
  BY <1>1
<1> QED
  BY <1>1, <1>2, <1>5, <1>6 DEF Prolongs

\* A segment that ends.
LEMMA EndProlongs ==
    ASSUME TypeOK, SegmentsCounted, spoken' = spoken, ended' = ended + 1
    PROVE  Prolongs(spoken, ended, spoken', ended')
<1>1. ended \in Nat /\ Len(spoken) \in Nat /\ ended <= Len(spoken) /\ ended <= ended'
  BY LenProperties DEF TypeOK, SegmentsCounted
<1>2. \A k \in 1..Len(spoken) : Len(spoken[k]) \in Nat
  BY ElementOfSeq, LenProperties DEF TypeOK
<1> QED
  BY <1>1, <1>2 DEF Prolongs

\* The recogniser is within what has been sent.
LEMMA ReaderWithin ==
    ASSUME TypeOK, Delivery
    PROVE  ReaderAt \in Place /\ Within(ReaderAt, spoken)
<1>1. PICK b : Leads(up, ReaderAt, b, spoken, ended)
  BY DEF Delivery
<1>2. PICK at : Follows(up, at, spoken, ended) /\ at[0] = ReaderAt
  BY <1>1 DEF Leads
<1>3. 0 \in 0..Len(up)
  BY LenProperties DEF TypeOK
<1> QED
  BY <1>2, <1>3 DEF Follows

\* What the recogniser has been given is not changed by what is sent then.
LEMMA HandIsKept ==
    ASSUME TypeOK, Delivery, InHand, HeardIsSpoken,
           Prolongs(spoken, ended, spoken', ended'), ended' \in Nat,
           heard' = heard, asr'.in = asr.in, asr'.fed = asr.fed, asr'.buf = asr.buf,
           asr'.text = asr.text
    PROVE  InHand' /\ HeardIsSpoken' /\ ReaderAt' = ReaderAt
<1>1. PICK h \in Nat : h = Len(heard) /\ DOMAIN heard = 1..h
  BY LenProperties DEF TypeOK
<1>2. PICK l \in Nat : l = Len(asr.fed) + Len(asr.buf)
  BY LenProperties DEF TypeOK
<1>3. ended \in Nat /\ Len(spoken) \in Nat /\ h <= ended /\ ended <= Len(spoken) /\ ended <= ended'
  BY <1>1, LenProperties DEF TypeOK, InHand, Prolongs
<1>4. \A k \in 1..h : spoken'[k] = spoken[k]
  BY <1>3 DEF Prolongs
<1>5. HeardIsSpoken'
  BY <1>1, <1>4 DEF HeardIsSpoken
<1>6. ReaderAt' = ReaderAt
  BY DEF ReaderAt
<1>7. ASSUME asr.in, NEW j \in 1..l PROVE spoken'[h + 1][j] = spoken[h + 1][j]
  <2>1. Within(ReaderAt, spoken)
    BY ReaderWithin
  <2>2. ReaderAt.k = h + 1 /\ ReaderAt.n = l /\ ReaderAt.open
    BY <1>1, <1>2, <1>7 DEF ReaderAt
  <2>3. h + 1 \in 1..Len(spoken) /\ l <= Len(spoken[h + 1])
    BY <1>1, <1>3, <2>1, <2>2 DEF Within
  <2>4. PICK m \in Nat : m = Len(spoken[h + 1])
    BY <2>3, ElementOfSeq, LenProperties DEF TypeOK
  <2>5. j \in 1..m
    <3>1. l <= m
      BY <2>3, <2>4
    <3> QED
      BY <1>7, <3>1
  <2> QED
    BY <2>3, <2>4, <2>5 DEF Prolongs
<1>8. InHand'
  <2>1. asr.in => \A j \in 1..l : (asr.fed \o asr.buf)[j] = spoken'[h + 1][j]
    BY <1>1, <1>2, <1>7 DEF InHand
  <2>2. h <= ended'
    BY <1>1, <1>3
  <2> QED
    BY <1>1, <1>2, <2>1, <2>2 DEF InHand
<1> QED
  BY <1>5, <1>6, <1>8

\* Nothing is sent, or what is sent is lost.
LEMMA DeliveryStays ==
    ASSUME TypeOK, TypeOK', Delivery, Prolongs(spoken, ended, spoken', ended'), up' = up,
           ReaderAt' = ReaderAt, link' = "up" => link = "up" /\ WriterAt' = WriterAt
    PROVE  Delivery'
<1>1. PICK b : Leads(up, ReaderAt, b, spoken, ended) /\ (link = "up" => b = WriterAt)
  BY DEF Delivery
<1>2. Leads(up, ReaderAt, b, spoken', ended')
  BY <1>1, LeadsProlonged DEF TypeOK
<1> QED
  BY <1>1, <1>2 DEF Delivery

\* Frames of a segment lead on in it.
LEMMA AudioLeads ==
    ASSUME NEW sp \in Seq(Seq(Ids)), NEW u \in Seq(Message), NEW o \in Seq(Ids), NEW a, NEW e,
           NEW k \in 1..Len(sp), NEW x \in Nat, NEW l \in Nat, l = Len(o),
           x + l <= Len(sp[k]), \A j \in 1..l : sp[k][x + j] = o[j],
           NEW b, b = [k |-> k, n |-> x, open |-> TRUE], Leads(u, a, b, sp, e),
           NEW c, c = [k |-> k, n |-> x + l, open |-> TRUE]
    PROVE  Append(u, Audio(o)) \in Seq(Message) /\ Leads(Append(u, Audio(o)), a, c, sp, e)
<1>1. k \in Nat /\ k >= 1 /\ k <= Len(sp) /\ x + l \in Nat
  BY LenProperties
<1>2. c \in Place /\ Within(c, sp)
  BY <1>1 DEF Place, Within
<1>3. /\ Audio(o) \in [type : {"audio"}, frames : Seq(Ids)] /\ Audio(o).frames = o
      /\ Audio(o) \in Message
  BY DEF Audio, Message
<1>4. Moves(b, Audio(o), c, sp, e)
  BY <1>3 DEF Moves
<1> QED
  BY <1>2, <1>3, <1>4, LeadsFurther

\* The start of a segment leads into it.
LEMMA StartLeads ==
    ASSUME TypeOK, TypeOK', SegmentsCounted, Delivery, ended = Len(spoken),
           Transmit(Start), spoken' = Append(spoken, <<>>),
           ended' = ended, ReaderAt' = ReaderAt, link' = link
    PROVE  Delivery'
<1>1. PICK n \in Nat : n = Len(spoken)
  BY LenProperties DEF TypeOK
<1>2. Len(spoken') = n + 1 /\ spoken'[n + 1] = <<>> /\ spoken' \in Seq(Seq(Ids))
  BY <1>1, BegunSegment DEF TypeOK
<1>3. Prolongs(spoken, ended, spoken', ended')
  BY StartProlongs
<1>4. CASE link = "up"
  <2> DEFINE b == [k |-> n, n |-> 0, open |-> FALSE]
             c == [k |-> n + 1, n |-> 0, open |-> TRUE]
  <2>1. WriterAt = b
    BY <1>1 DEF WriterAt
  <2>2. Leads(up, ReaderAt, b, spoken', ended')
    <3>1. Leads(up, ReaderAt, b, spoken, ended)
      BY <1>4, <2>1 DEF Delivery
    <3>2. /\ spoken \in Seq(Seq(Ids)) /\ spoken' \in Seq(Seq(Ids)) /\ up \in Seq(Message)
          /\ ended \in Nat /\ ended' \in Nat
      BY DEF TypeOK
    <3> HIDE DEF b
    <3> QED
      BY <1>3, <3>1, <3>2, LeadsProlonged
  <2>3. Len(<<>>) = 0
    OBVIOUS
  <2>4. c \in Place /\ Within(c, spoken')
    BY <1>1, <1>2, <2>3 DEF Place, Within
  <2>5. Moves(b, Start, c, spoken', ended')
    BY DEF Moves
  <2>6. up \in Seq(Message) /\ Start \in Message
    BY DEF TypeOK, Message
  <2>7. Leads(Append(up, Start), ReaderAt, c, spoken', ended')
    BY <1>2, <2>2, <2>4, <2>5, <2>6, LeadsFurther
  <2>8. WriterAt' = c
    <3>1. ended' # Len(spoken') /\ Len(spoken'[Len(spoken')]) = 0
      BY <1>1, <1>2, <2>3
    <3> QED
      BY <1>2, <3>1 DEF WriterAt
  <2>9. up' = Append(up, Start)
    BY <1>4 DEF Transmit
  <2> QED
    BY <2>7, <2>8, <2>9 DEF Delivery
<1>5. CASE link # "up"
  <2>1. up' = up
    BY <1>5 DEF Transmit
  <2> QED
    BY <1>3, <1>5, <2>1, DeliveryStays
<1> QED
  BY <1>4, <1>5

\* Frames of the last segment lead to the end of what has been sent of it.
LEMMA SegmentLeads ==
    ASSUME TypeOK, TypeOK', SegmentsCounted, Delivery, ended # Len(spoken),
           NEW o \in Seq(Ids), Transmit(Audio(o)), Sent(o),
           ended' = ended, ReaderAt' = ReaderAt, link' = link
    PROVE  Delivery'
<1>1. PICK n \in Nat : n = Len(spoken) /\ spoken # <<>> /\ up \in Seq(Message)
  BY LenProperties DEF TypeOK, SegmentsCounted
<1>2. /\ n \in 1..n /\ Len(spoken') = n /\ spoken' \in Seq(Seq(Ids))
      /\ spoken[n] \in Seq(Ids) /\ spoken'[n] = spoken[n] \o o
  BY <1>1, SentJoins DEF TypeOK
<1>3. PICK x, l \in Nat : x = Len(spoken[n]) /\ l = Len(o)
  BY <1>2, LenProperties
<1>4. /\ Len(spoken'[n]) = x + l
      /\ \A j \in 1..(x + l) : spoken'[n][j] = IF j <= x THEN spoken[n][j] ELSE o[j - x]
  BY <1>2, <1>3, ConcatProperties
<1>5. ASSUME NEW j \in 1..l PROVE spoken'[n][x + j] = o[j]
  <2>1. x + j \in 1..(x + l) /\ ~(x + j <= x) /\ (x + j) - x = j
    BY <1>3
  <2> QED
    BY <1>4, <2>1
<1>6. Prolongs(spoken, ended, spoken', ended')
  BY SentProlongs
<1>7. CASE link = "up"
  <2> DEFINE b == [k |-> n, n |-> x, open |-> TRUE]
  <2>1. Leads(up, ReaderAt, b, spoken', ended')
    <3>1. WriterAt = b
      BY <1>1, <1>3 DEF WriterAt
    <3>2. Leads(up, ReaderAt, b, spoken, ended)
      BY <1>7, <3>1 DEF Delivery
    <3>3. spoken \in Seq(Seq(Ids)) /\ ended \in Nat /\ ended' \in Nat
      BY DEF TypeOK
    <3> HIDE DEF b
    <3> QED
      BY <1>1, <1>2, <1>6, <3>2, <3>3, LeadsProlonged
  <2>2. x + l <= Len(spoken'[n]) /\ x + l \in Nat /\ n \in 1..Len(spoken')
    BY <1>2, <1>4
  <2>3. PICK c : c = [k |-> n, n |-> x + l, open |-> TRUE]
    OBVIOUS
  <2>4. Leads(Append(up, Audio(o)), ReaderAt, c, spoken', ended')
    BY <1>1, <1>2, <1>3, <1>5, <2>1, <2>2, <2>3, AudioLeads
  <2>5. WriterAt' = c
    BY <1>1, <1>2, <1>4, <2>3 DEF WriterAt
  <2>6. up' = Append(up, Audio(o))
    BY <1>7 DEF Transmit
  <2> QED
    BY <2>4, <2>5, <2>6 DEF Delivery
<1>8. CASE link # "up"
  <2>1. up' = up
    BY <1>8 DEF Transmit
  <2> QED
    BY <1>6, <1>8, <2>1, DeliveryStays
<1> QED
  BY <1>7, <1>8

\* The end of the segment leads out of it.
LEMMA EndLeads ==
    ASSUME TypeOK, TypeOK', SegmentsCounted, Delivery, ended # Len(spoken),
           Transmit(End), spoken' = spoken, ended' = ended + 1,
           ReaderAt' = ReaderAt, link' = link
    PROVE  Delivery'
<1>1. PICK n \in Nat : n = Len(spoken) /\ ended + 1 = n /\ spoken # <<>> /\ up \in Seq(Message)
  BY LenProperties DEF TypeOK, SegmentsCounted
<1>2. /\ n \in 1..n /\ Len(spoken') = n /\ Len(spoken'[n]) \in Nat
      /\ spoken' \in Seq(Seq(Ids))
  <2>1. n \in 1..n /\ ended \in Nat /\ spoken \in Seq(Seq(Ids))
    <3>1. ended \in Nat
      BY DEF TypeOK
    <3> QED
      BY <1>1, <3>1 DEF TypeOK
  <2>2. spoken[n] \in Seq(Ids)
    BY <1>1, <2>1, ElementOfSeq
  <2> QED
    BY <1>1, <2>1, <2>2, LenProperties
<1>3. Prolongs(spoken, ended, spoken', ended')
  BY EndProlongs
<1>4. CASE link = "up"
  <2> DEFINE b == [k |-> n, n |-> Len(spoken'[n]), open |-> TRUE]
             c == [k |-> n, n |-> 0, open |-> FALSE]
  <2>1. WriterAt = b
    BY <1>1 DEF WriterAt
  <2>2. Leads(up, ReaderAt, b, spoken', ended')
    <3>1. Leads(up, ReaderAt, b, spoken, ended)
      BY <1>4, <2>1 DEF Delivery
    <3>2. /\ spoken \in Seq(Seq(Ids)) /\ spoken' \in Seq(Seq(Ids)) /\ up \in Seq(Message)
          /\ ended \in Nat /\ ended' \in Nat
      BY DEF TypeOK
    <3> HIDE DEF b
    <3> QED
      BY <1>3, <3>1, <3>2, LeadsProlonged
  <2>3. c \in Place /\ Within(c, spoken') /\ End \in Message
    BY <1>2 DEF Place, Within, Message
  <2>4. Moves(b, End, c, spoken', ended')
    BY <1>1, <1>2 DEF Moves
  <2>5. Leads(Append(up, End), ReaderAt, c, spoken', ended')
    BY <1>1, <1>2, <2>2, <2>3, <2>4, LeadsFurther
  <2>6. WriterAt' = c
    BY <1>1, <1>2 DEF WriterAt
  <2>7. up' = Append(up, End)
    BY <1>4 DEF Transmit
  <2> QED
    BY <2>5, <2>6, <2>7 DEF Delivery
<1>5. CASE link # "up"
  <2>1. up' = up
    BY <1>5 DEF Transmit
  <2> QED
    BY <1>3, <1>5, <2>1, DeliveryStays
<1> QED
  BY <1>4, <1>5

\* What closing a segment writes is delivered.
LEMMA EndDelivers ==
    ASSUME TypeOK, TypeOK', SegmentsCounted, Delivery, InHand, HeardIsSpoken,
           ended # Len(spoken), NEW a, WriteEnd(a), UNCHANGED <<spoken, asr, heard, link>>
    PROVE  Delivery' /\ InHand' /\ HeardIsSpoken'
<1>1. Transmit(End) /\ ended' = ended + 1 /\ ended' \in Nat
  BY DEF WriteEnd, TypeOK
<1>2. Prolongs(spoken, ended, spoken', ended')
  BY <1>1, EndProlongs
<1>3. InHand' /\ HeardIsSpoken' /\ ReaderAt' = ReaderAt
  BY <1>1, <1>2, HandIsKept
<1> QED
  BY <1>1, <1>3, EndLeads

LEMMA FramesDeliver ==
    ASSUME TypeOK, TypeOK', SegmentsCounted, Delivery, InHand, HeardIsSpoken,
           ended # Len(spoken), NEW o \in Seq(Ids), Transmit(Audio(o)), Sent(o),
           UNCHANGED <<ended, asr, heard, link>>
    PROVE  Delivery' /\ InHand' /\ HeardIsSpoken'
<1>1. Prolongs(spoken, ended, spoken', ended') /\ ended' \in Nat
  BY SentProlongs DEF TypeOK
<1>2. InHand' /\ HeardIsSpoken' /\ ReaderAt' = ReaderAt
  BY <1>1, HandIsKept
<1> QED
  BY <1>2, SegmentLeads

LEMMA CloseDelivers ==
    ASSUME TypeOK, TypeOK', SegmentsCounted, Delivery, InHand, HeardIsSpoken,
           ended # Len(spoken), NEW a, NEW b, CloseSegment(a, b),
           UNCHANGED <<asr, heard, link>>
    PROVE  Delivery' /\ InHand' /\ HeardIsSpoken'
<1>1. seg \in Seq(Ids)
  BY DEF TypeOK
<1> QED
  BY <1>1, EndDelivers, FramesDeliver DEF CloseSegment

-----------------------------------------------------------------------------
(* The recogniser receives *)

\* A message that is taken leads the recogniser on.
LEMMA Received ==
    ASSUME TypeOK, Delivery, up # <<>>, up' = Tail(up), UNCHANGED <<spoken, ended, link>>
    PROVE  /\ Head(up) \in Message
           /\ \E c \in Place : /\ Within(c, spoken)
                               /\ Moves(ReaderAt, Head(up), c, spoken, ended)
                               /\ ReaderAt' = c => Delivery'
<1>1. up \in Seq(Message) /\ Head(up) \in Message
  BY Shrinks, LenProperties DEF TypeOK
<1>2. PICK b : Leads(up, ReaderAt, b, spoken, ended) /\ (link = "up" => b = WriterAt)
  BY DEF Delivery
<1>3. PICK c \in Place : /\ Within(c, spoken) /\ Moves(ReaderAt, Head(up), c, spoken, ended)
                         /\ Leads(Tail(up), c, b, spoken, ended)
  BY <1>1, <1>2, LeadsOn
<1>4. WriterAt' = WriterAt
  BY DEF WriterAt
<1>5. ReaderAt' = c => Delivery'
  BY <1>2, <1>3, <1>4 DEF Delivery
<1> QED
  BY <1>1, <1>3, <1>5

LEMMA StartReceived ==
    ASSUME TypeOK, Delivery, InHand, HeardIsSpoken, AsrStart
    PROVE  Delivery' /\ InHand' /\ HeardIsSpoken'
<1>1. /\ up # <<>> /\ up' = Tail(up) /\ UNCHANGED <<spoken, ended, link, heard>>
      /\ Head(up).type = "start" /\ asr' = [Between EXCEPT !.in = TRUE]
  BY DEF AsrStart, Receives, restOfAsr, ghosts
<1>2. PICK c \in Place : /\ Moves(ReaderAt, Head(up), c, spoken, ended)
                         /\ ReaderAt' = c => Delivery'
  BY <1>1, Received
<1>3. ~ReaderAt.open /\ c = [k |-> ReaderAt.k + 1, n |-> 0, open |-> TRUE]
  BY <1>1, <1>2 DEF Moves, End
<1>4. PICK h \in Nat : h = Len(heard) /\ h = ReaderAt.k
  <2>1. Len(heard) \in Nat /\ ~asr.in
    BY <1>3, LenProperties DEF ReaderAt, TypeOK
  <2>2. ReaderAt.k = Len(heard) + 0
    BY <2>1 DEF ReaderAt
  <2> QED
    BY <2>1, <2>2
<1>5. asr'.in = TRUE /\ asr'.fed = <<>> /\ asr'.buf = <<>> /\ asr'.text = <<>>
  BY <1>1 DEF Between
<1>6. Len(asr'.fed) + Len(asr'.buf) = 0
  BY <1>5
<1>7. ReaderAt' = c
  <2>1. ReaderAt' = [k |-> Len(heard') + (IF asr'.in THEN 1 ELSE 0),
                     n |-> Len(asr'.fed) + Len(asr'.buf), open |-> asr'.in]
    BY DEF ReaderAt
  <2>2. Len(heard') + (IF asr'.in THEN 1 ELSE 0) = h + 1
    BY <1>1, <1>4, <1>5
  <2>3. c = [k |-> h + 1, n |-> 0, open |-> TRUE]
    BY <1>3, <1>4
  <2>4. asr'.in = TRUE
    BY <1>5
  <2> QED
    BY <1>6, <2>1, <2>2, <2>3, <2>4, Zenon
<1>8. InHand'
  <2>1. 1..0 = {}
    OBVIOUS
  <2>2. ToSet(asr'.text) \subseteq ToSet(asr'.fed) /\ Len(heard') <= ended'
    BY <1>1, <1>5 DEF InHand
  <2> QED
    BY <1>5, <1>6, <2>1, <2>2 DEF InHand
<1>9. HeardIsSpoken'
  BY <1>1 DEF HeardIsSpoken
<1> QED
  BY <1>2, <1>7, <1>8, <1>9

\* Frames one after the other.
LEMMA FramesJoin ==
    /\ \A f, s, t \in Seq(Ids) : (f \o s) \o t = f \o (s \o t)
    /\ \A s, t \in Seq(Ids) :
         /\ s \o t \in Seq(Ids) /\ Len(s \o t) = Len(s) + Len(t)
         /\ \A i \in 1..(Len(s) + Len(t)) :
              (s \o t)[i] = IF i <= Len(s) THEN s[i] ELSE t[i - Len(s)]
<1>1. \A f, s, t \in Seq(Ids) : (f \o s) \o t = f \o (s \o t)
  BY ConcatAssociative
<1>2. \A s, t \in Seq(Ids) :
         /\ s \o t \in Seq(Ids) /\ Len(s \o t) = Len(s) + Len(t)
         /\ \A i \in 1..(Len(s) + Len(t)) :
              (s \o t)[i] = IF i <= Len(s) THEN s[i] ELSE t[i - Len(s)]
  BY ConcatProperties
<1> QED
  BY <1>1, <1>2

LEMMA AudioReceived ==
    ASSUME TypeOK, Delivery, InHand, HeardIsSpoken, AsrAudio
    PROVE  Delivery' /\ InHand' /\ HeardIsSpoken'
<1>1. /\ up # <<>> /\ up' = Tail(up) /\ UNCHANGED <<spoken, ended, link, heard>>
      /\ Head(up).type = "audio"
      /\ asr' = [asr EXCEPT !.in = TRUE, !.buf = asr.buf \o Head(up).frames]
  BY DEF AsrAudio, Receives, restOfAsr, ghosts
<1>2. PICK c \in Place : /\ Moves(ReaderAt, Head(up), c, spoken, ended)
                         /\ ReaderAt' = c => Delivery'
  BY <1>1, Received
<1> DEFINE t == Head(up).frames
<1>3. /\ t \in Seq(Ids) /\ ReaderAt.open
      /\ c = [k |-> ReaderAt.k, n |-> ReaderAt.n + Len(t), open |-> TRUE]
      /\ \A j \in 1..Len(t) : t[j] = spoken[ReaderAt.k][ReaderAt.n + j]
  BY <1>1, <1>2 DEF Moves, Start, End
<1> HIDE DEF t
<1>4. PICK h, x, y, z \in Nat : h = Len(heard) /\ x = Len(asr.fed) /\ y = Len(asr.buf) /\ z = Len(t)
  BY <1>3, LenProperties DEF TypeOK
<1>5. asr.in /\ ReaderAt.k = h + 1 /\ ReaderAt.n = x + y
  BY <1>3, <1>4 DEF ReaderAt
<1>6. asr'.in /\ asr'.fed = asr.fed /\ asr'.buf = asr.buf \o t /\ asr'.text = asr.text
  BY <1>1 DEF TypeOK, t
<1>7. asr.fed \in Seq(Ids) /\ asr.buf \in Seq(Ids)
  BY DEF TypeOK
<1>8. PICK d \in Seq(Ids), m \in Nat :
        /\ d = asr.fed \o asr.buf /\ m = x + y
        /\ asr.fed \o (asr.buf \o t) = d \o t /\ Len(asr.buf \o t) = y + z
        /\ \A j \in 1..(m + z) : (d \o t)[j] = IF j <= m THEN d[j] ELSE t[j - m]
  <2>1. PICK f, v, w \in Seq(Ids) : f = asr.fed /\ v = asr.buf /\ w = t
    BY <1>3, <1>7
  <2>2. Len(f) = x /\ Len(v) = y /\ Len(w) = z
    BY <1>4, <2>1
  <2>3. (f \o v) \o w = f \o (v \o w) /\ Len(v \o w) = Len(v) + Len(w)
    BY FramesJoin
  <2>4. PICK d \in Seq(Ids) : d = f \o v /\ Len(d) = Len(f) + Len(v)
    BY FramesJoin
  <2>5. \A j \in 1..(Len(d) + Len(w)) :
          (d \o w)[j] = IF j <= Len(d) THEN d[j] ELSE w[j - Len(d)]
    BY FramesJoin
  <2>6. PICK m \in Nat : m = x + y /\ m = Len(d)
    BY <2>2, <2>4
  <2>7. \A j \in 1..(m + z) : (d \o w)[j] = IF j <= m THEN d[j] ELSE w[j - m]
    BY <2>2, <2>5, <2>6
  <2> QED
    BY <2>1, <2>2, <2>3, <2>4, <2>6, <2>7, ZenonT(60)
<1>9. ReaderAt' = c
  <2>1. x + (y + z) = (x + y) + z
    OBVIOUS
  <2>2. ReaderAt' = [k |-> h + 1, n |-> x + (y + z), open |-> TRUE]
    BY <1>1, <1>4, <1>6, <1>8 DEF ReaderAt
  <2> QED
    BY <1>3, <1>4, <1>5, <2>1, <2>2
<1>10. ASSUME NEW j \in 1..(x + (y + z))
       PROVE  (asr.fed \o (asr.buf \o t))[j] = spoken[h + 1][j]
  <2>1. CASE j <= x + y
    <3>1. j \in 1..m /\ j \in 1..(m + z)
      BY <1>8, <2>1
    <3>2. d[j] = spoken[h + 1][j]
      BY <1>4, <1>5, <1>8, <3>1 DEF InHand
    <3>3. (d \o t)[j] = d[j]
      <4>1. (d \o t)[j] = IF j <= m THEN d[j] ELSE t[j - m]
        BY <1>8, <3>1
      <4>2. j <= m
        BY <3>1
      <4> QED
        BY <4>1, <4>2
    <3> QED
      BY <1>8, <3>2, <3>3
  <2>2. CASE ~(j <= x + y)
    <3>1. PICK i \in 1..z : i = j - m /\ j = m + i /\ j \in 1..(m + z) /\ ~(j <= m)
      <4>1. j - m \in 1..z /\ j = m + (j - m) /\ j \in 1..(m + z) /\ ~(j <= m)
        BY <1>8, <2>2
      <4> QED
        BY <4>1
    <3>2. (d \o t)[j] = t[i]
      BY <1>8, <3>1
    <3>3. t[i] = spoken[h + 1][m + i]
      <4>1. \A k \in 1..z : t[k] = spoken[ReaderAt.k][ReaderAt.n + k]
        BY <1>3, <1>4
      <4> QED
        BY <1>5, <1>8, <4>1
    <3> QED
      BY <1>8, <3>1, <3>2, <3>3
  <2> QED
    BY <2>1, <2>2
<1>11. InHand'
  <2>1. Len(asr'.fed) + Len(asr'.buf) = x + (y + z) /\ Len(heard') = h
    BY <1>1, <1>4, <1>6, <1>8
  <2>2. \A j \in 1..(x + (y + z)) : (asr'.fed \o asr'.buf)[j] = spoken'[h + 1][j]
    BY <1>1, <1>6, <1>10
  <2>3. ToSet(asr'.text) \subseteq ToSet(asr'.fed) /\ Len(heard') <= ended'
    BY <1>1, <1>6 DEF InHand
  <2> QED
    BY <1>6, <2>1, <2>2, <2>3 DEF InHand
<1>12. HeardIsSpoken'
  BY <1>1 DEF HeardIsSpoken
<1> QED
  BY <1>2, <1>9, <1>11, <1>12

\* A stride moves frames from the buffer to what the model has been fed.
LEMMA ChunkRecognised ==
    ASSUME TypeOK, SegmentsCounted, Delivery, InHand, HeardIsSpoken, AsrChunk, TypeOK'
    PROVE  Delivery' /\ InHand' /\ HeardIsSpoken'
<1> DEFINE s == SubSeq(asr.buf, 1, Chunk)
           r == SubSeq(asr.buf, Chunk + 1, Len(asr.buf))
<1>1. /\ UNCHANGED <<spoken, ended, link, heard, up>> /\ Len(asr.buf) >= Chunk
      /\ \E t \in Recognise(s) :
           asr' = [asr EXCEPT !.buf = r, !.fed = asr.fed \o s, !.text = asr.text \o t]
  BY DEF AsrChunk, restOfAsr, ghosts
<1>2. PICK t \in Recognise(s) :
        asr' = [asr EXCEPT !.buf = r, !.fed = asr.fed \o s, !.text = asr.text \o t]
  BY <1>1
<1>3. PICK x, y, z \in Nat : x = Len(asr.fed) /\ y = Chunk /\ y + z = Len(asr.buf)
  <2>1. PICK m \in Nat : m = Len(asr.buf)
    BY LenProperties DEF TypeOK
  <2>2. Chunk \in Nat /\ Len(asr.fed) \in Nat
    BY LenProperties, VoiceTurnAssumption DEF TypeOK
  <2>3. m - Chunk \in Nat /\ Chunk + (m - Chunk) = m
    BY <1>1, <2>1, <2>2
  <2> QED
    BY <2>1, <2>2, <2>3
<1>4. asr.fed \in Seq(Ids) /\ asr.buf \in Seq(Ids) /\ asr.text \in Seq(Ids)
  BY DEF TypeOK
<1>5. s \in Seq(Ids) /\ Len(s) = y /\ r \in Seq(Ids) /\ Len(r) = z /\ asr.buf = s \o r
  <2>1. \A i \in 1..(y + z) : asr.buf[i] \in Ids
    BY <1>3, <1>4, ElementOfSeq
  <2>2. /\ s \in Seq(Ids) /\ Len(s) = IF 1 <= y THEN y - 1 + 1 ELSE 0
        /\ \A i \in 1..(y - 1 + 1) : s[i] = asr.buf[1 + i - 1]
    BY <1>3, <2>1, SubSeqProperties
  <2>3. /\ r \in Seq(Ids)
        /\ Len(r) = IF y + 1 <= y + z THEN (y + z) - (y + 1) + 1 ELSE 0
        /\ \A i \in 1..((y + z) - (y + 1) + 1) : r[i] = asr.buf[(y + 1) + i - 1]
    BY <1>3, <2>1, SubSeqProperties
  <2> HIDE DEF s, r
  <2>4. s \in Seq(Ids) /\ Len(s) = y /\ \A i \in 1..y : s[i] = asr.buf[i]
    BY <2>2
  <2>5. r \in Seq(Ids) /\ Len(r) = z /\ \A i \in 1..z : r[i] = asr.buf[y + i]
    <3>1. (y + z) - (y + 1) + 1 = z /\ (z > 0 <=> y + 1 <= y + z)
      OBVIOUS
    <3>2. Len(r) = z
      BY <2>3, <3>1
    <3>3. \A i \in 1..z : (y + 1) + i - 1 = y + i
      OBVIOUS
    <3> QED
      BY <2>3, <3>1, <3>2, <3>3
  <2>6. /\ s \o r \in Seq(Ids) /\ Len(s \o r) = y + z
        /\ \A i \in 1..(y + z) : (s \o r)[i] = IF i <= y THEN s[i] ELSE r[i - y]
    <3>1. PICK v \in Seq(Ids), w \in Seq(Ids) : v = s /\ w = r /\ Len(v) = y /\ Len(w) = z
      BY <2>4, <2>5
    <3>2. /\ v \o w \in Seq(Ids) /\ Len(v \o w) = Len(v) + Len(w)
          /\ \A i \in 1..(Len(v) + Len(w)) :
               (v \o w)[i] = IF i <= Len(v) THEN v[i] ELSE w[i - Len(v)]
      BY FramesJoin
    <3> QED
      BY <3>1, <3>2
  <2>7. ASSUME NEW i \in 1..(y + z) PROVE (s \o r)[i] = asr.buf[i]
    <3>1. CASE i <= y
      BY <2>4, <2>6, <3>1
    <3>2. CASE ~(i <= y)
      <4>1. i - y \in 1..z /\ y + (i - y) = i
        BY <3>2
      <4> QED
        BY <2>5, <2>6, <3>2, <4>1
    <3> QED
      BY <3>1, <3>2
  <2>8. asr.buf = s \o r
    BY <1>3, <1>4, <2>6, <2>7, SeqEqual
  <2> QED
    BY <2>2, <2>3, <2>4, <2>5, <2>8
<1> HIDE DEF s, r
<1>6. /\ asr'.in = asr.in /\ asr'.fed = asr.fed \o s /\ asr'.buf = r
      /\ asr'.text = asr.text \o t
  BY <1>2 DEF TypeOK
<1>7. (asr.fed \o s) \o r = asr.fed \o asr.buf /\ Len(asr.fed \o s) = x + y
  <2>1. PICK f, v, w \in Seq(Ids) : f = asr.fed /\ v = s /\ w = r
    BY <1>4, <1>5
  <2>2. (f \o v) \o w = f \o (v \o w) /\ Len(f \o v) = Len(f) + Len(v)
    BY FramesJoin
  <2>3. Len(f) = x /\ Len(v) = y
    BY <1>3, <1>5, <2>1
  <2> QED
    BY <1>5, <2>1, <2>2, <2>3
<1>8. Len(asr'.fed) + Len(asr'.buf) = Len(asr.fed) + Len(asr.buf)
  <2>1. (x + y) + z = x + (y + z)
    OBVIOUS
  <2>2. Len(asr'.fed) = x + y /\ Len(asr'.buf) = z
    BY <1>5, <1>6, <1>7
  <2> QED
    BY <1>3, <2>1, <2>2
<1>9. asr.in
  <2>1. CASE ~asr.in
    <3>1. Len(asr.buf) = 0 /\ y > 0
      BY <1>3, <2>1, VoiceTurnAssumption DEF InHand
    <3> QED
      BY <1>3, <3>1
  <2> QED
    BY <2>1
<1>10. ReaderAt' = ReaderAt
  BY <1>1, <1>6, <1>8 DEF ReaderAt
<1>11. Delivery'
  <2>1. Prolongs(spoken, ended, spoken', ended')
    BY <1>1, NothingProlongs
  <2>2. WriterAt' = WriterAt
    BY <1>1 DEF WriterAt
  <2> QED
    BY <1>1, <1>10, <2>1, <2>2, DeliveryStays
<1>12. ToSet(asr'.text) \subseteq ToSet(asr'.fed)
  <2>1. t = <<>> \/ t = s
    BY DEF Recognise, s
  <2>2. t \in Seq(Ids) /\ ToSet(t) \subseteq ToSet(s)
    <3>1. <<>> \in Seq(Ids) /\ ToSet(<<>>) = {}
      BY DEF ToSet
    <3> QED
      BY <1>5, <2>1, <3>1
  <2>3. /\ ToSet(asr.text \o t) = ToSet(asr.text) \union ToSet(t)
        /\ ToSet(asr.fed \o s) = ToSet(asr.fed) \union ToSet(s)
    BY <1>4, <1>5, <2>2, SetOfConcat
  <2> QED
    BY <1>6, <2>2, <2>3 DEF InHand
<1>13. InHand'
  <2>1. asr'.fed \o asr'.buf = asr.fed \o asr.buf /\ asr'.in
    BY <1>6, <1>7, <1>9
  <2> QED
    BY <1>1, <1>8, <1>9, <1>12, <2>1 DEF InHand
<1>14. HeardIsSpoken'
  BY <1>1 DEF HeardIsSpoken
<1> QED
  BY <1>11, <1>13, <1>14

\* The end of a segment: all of it has been received, and no more.
LEMMA EndReceived ==
    ASSUME TypeOK, Delivery, InHand, HeardIsSpoken, AsrEnd
    PROVE  Delivery' /\ InHand' /\ HeardIsSpoken'
<1>1. /\ up # <<>> /\ up' = Tail(up) /\ UNCHANGED <<spoken, ended, link>>
      /\ Head(up).type = "end"
  BY DEF AsrEnd, Receives, restOfAsr, ghosts
<1>2. PICK c \in Place : /\ Within(c, spoken) /\ Moves(ReaderAt, Head(up), c, spoken, ended)
                         /\ ReaderAt' = c => Delivery'
  BY <1>1, Received
<1>3. /\ ReaderAt.open /\ ReaderAt.k <= ended /\ ReaderAt.n = Len(spoken[ReaderAt.k])
      /\ c = [k |-> ReaderAt.k, n |-> 0, open |-> FALSE]
  BY <1>1, <1>2 DEF Moves, Start
<1>4. PICK h, x, y \in Nat : h = Len(heard) /\ x = Len(asr.fed) /\ y = Len(asr.buf)
  BY LenProperties DEF TypeOK
<1>5. asr.in /\ ReaderAt.k = h + 1 /\ ReaderAt.n = x + y
  BY <1>3, <1>4 DEF ReaderAt
<1>6. asr.fed \in Seq(Ids) /\ asr.buf \in Seq(Ids) /\ asr.text \in Seq(Ids)
  BY DEF TypeOK
<1>7. PICK t \in Recognise(asr.buf) :
        heard' = Append(heard, [fed |-> asr.fed \o asr.buf, text |-> asr.text \o t])
  BY <1>5 DEF AsrEnd, AsrFinal
<1>8. asr' = Between
  BY <1>5 DEF AsrEnd
<1>9. t \in Seq(Ids) /\ ToSet(t) \subseteq ToSet(asr.buf)
  <2>1. t = <<>> \/ t = asr.buf
    BY DEF Recognise
  <2>2. <<>> \in Seq(Ids) /\ ToSet(<<>>) = {}
    BY DEF ToSet
  <2> QED
    BY <1>6, <2>1, <2>2
<1> DEFINE g == [fed |-> asr.fed \o asr.buf, text |-> asr.text \o t]
<1>10. /\ g.fed = asr.fed \o asr.buf /\ g.text = asr.text \o t
       /\ g \in [fed : Seq(Ids), text : Seq(Ids)]
  <2>1. asr.fed \o asr.buf \in Seq(Ids) /\ asr.text \o t \in Seq(Ids)
    BY <1>6, <1>9, ConcatProperties
  <2> QED
    BY <2>1
<1>11. heard' = Append(heard, g)
  BY <1>7
<1> HIDE DEF g
<1>12. /\ Len(heard') = h + 1 /\ DOMAIN heard = 1..h /\ DOMAIN heard' = 1..(h + 1)
       /\ heard'[h + 1] = g /\ \A k \in 1..h : heard'[k] = heard[k]
  BY <1>4, <1>10, <1>11, Grows DEF TypeOK
<1>13. g.fed = spoken[h + 1]
  <2>1. h + 1 \in 1..Len(spoken)
    <3>1. PICK n \in Nat : n = Len(spoken)
      BY LenProperties DEF TypeOK
    <3>2. h + 1 <= n
      BY <1>2, <1>3, <1>5, <3>1 DEF Within
    <3> QED
      BY <3>1, <3>2
  <2>2. spoken[h + 1] \in Seq(Ids) /\ Len(spoken[h + 1]) = x + y
    BY <1>3, <1>5, <2>1, ElementOfSeq DEF TypeOK
  <2>3. Len(asr.fed \o asr.buf) = x + y /\ asr.fed \o asr.buf \in Seq(Ids)
    BY <1>4, <1>6, ConcatProperties
  <2>4. \A j \in 1..(x + y) : (asr.fed \o asr.buf)[j] = spoken[h + 1][j]
    BY <1>4, <1>5 DEF InHand
  <2> QED
    BY <1>10, <2>2, <2>3, <2>4, SeqEqual
<1>14. ToSet(g.text) \subseteq ToSet(g.fed)
  <2>1. /\ ToSet(asr.text \o t) = ToSet(asr.text) \union ToSet(t)
        /\ ToSet(asr.fed \o asr.buf) = ToSet(asr.fed) \union ToSet(asr.buf)
    BY <1>6, <1>9, SetOfConcat
  <2> QED
    BY <1>9, <1>10, <2>1 DEF InHand
<1>15. HeardIsSpoken'
  <2>1. ASSUME NEW k \in 1..(h + 1)
        PROVE  heard'[k].fed = spoken[k] /\ ToSet(heard'[k].text) \subseteq ToSet(spoken[k])
    <3>1. CASE k = h + 1
      BY <1>12, <1>13, <1>14, <3>1
    <3>2. CASE k # h + 1
      <4>1. k \in 1..h
        BY <3>2
      <4> QED
        BY <1>12, <4>1 DEF HeardIsSpoken
    <3> QED
      BY <3>1, <3>2
  <2> QED
    BY <1>1, <1>12, <2>1 DEF HeardIsSpoken
<1>16. asr'.in = FALSE /\ asr'.fed = <<>> /\ asr'.buf = <<>> /\ asr'.text = <<>>
  BY <1>8 DEF Between
<1>17. ReaderAt' = c
  <2>1. ReaderAt' = [k |-> Len(heard') + (IF asr'.in THEN 1 ELSE 0),
                     n |-> Len(asr'.fed) + Len(asr'.buf), open |-> asr'.in]
    BY DEF ReaderAt
  <2>2. Len(asr'.fed) + Len(asr'.buf) = 0
    BY <1>16
  <2>3. Len(heard') + (IF asr'.in THEN 1 ELSE 0) = h + 1
    BY <1>12, <1>16
  <2>4. c = [k |-> h + 1, n |-> 0, open |-> FALSE]
    BY <1>3, <1>5
  <2>5. asr'.in = FALSE
    BY <1>16
  <2> QED
    BY <2>1, <2>2, <2>3, <2>4, <2>5, Zenon
<1>18. InHand'
  <2>1. Len(heard') <= ended'
    BY <1>1, <1>3, <1>5, <1>12
  <2> QED
    BY <1>16, <2>1 DEF InHand
<1> QED
  BY <1>2, <1>15, <1>17, <1>18

-----------------------------------------------------------------------------
\* Delivery is kept where nothing is sent or received.
LEMMA NothingSent ==
    ASSUME TypeOK, TypeOK', SegmentsCounted, Delivery, InHand, HeardIsSpoken,
           UNCHANGED <<up, spoken, ended, heard>>, link' = "up" => link = "up",
           asr'.in = asr.in, asr'.fed = asr.fed, asr'.buf = asr.buf, asr'.text = asr.text
    PROVE  Delivery' /\ InHand' /\ HeardIsSpoken'
<1>1. Prolongs(spoken, ended, spoken', ended')
  BY NothingProlongs
<1>2. InHand' /\ HeardIsSpoken' /\ ReaderAt' = ReaderAt
  BY <1>1, HandIsKept DEF TypeOK
<1>3. WriterAt' = WriterAt
  BY DEF WriterAt
<1> QED
  BY <1>1, <1>2, <1>3, DeliveryStays

\* So it is where a buffer is filled.
LEMMA FlushDelivers ==
    ASSUME TypeOK, TypeOK', SegmentsCounted, Delivery, InHand, HeardIsSpoken,
           ended # Len(spoken), NEW s \in Seq(Ids), Flush(s),
           UNCHANGED <<ended, asr, heard, link>>
    PROVE  Delivery' /\ InHand' /\ HeardIsSpoken'
<1>1. CASE Transmit(Audio(s)) /\ Sent(s)
  BY <1>1, FramesDeliver
<1>2. CASE UNCHANGED <<up, spoken>>
  BY <1>2, NothingSent
<1> QED
  BY <1>1, <1>2 DEF Flush

\* Delivery is kept by every step of the loop that takes a frame.
LEMMA Sending ==
    ASSUME TypeOK, TypeOK', LoopRules, SegmentsCounted, Delivery, InHand, HeardIsSpoken,
           q # <<>>, NEW f, f = Head(q),
           SegmentStart(f) \/ SegmentEnd(f) \/ SegmentAudio(f) \/ OutsideSegment(f)
    PROVE  Delivery' /\ InHand' /\ HeardIsSpoken'
<1>1. UNCHANGED <<asr, heard, link>> /\ loop = "loop" /\ Consumed(f)
  BY DEF SegmentStart, SegmentEnd, SegmentAudio, OutsideSegment, Consumed
<1>2. ended # Len(spoken) <=> vad.speaking
  BY <1>1 DEF SegmentsCounted
<1>3. CASE SegmentStart(f)
  <2>1. /\ ~vad.speaking /\ Transmit(Start) /\ spoken' = Append(spoken, <<>>)
        /\ ended' = ended /\ ended' \in Nat
    BY <1>3 DEF SegmentStart, Starts, TypeOK
  <2>2. Prolongs(spoken, ended, spoken', ended')
    BY <2>1, StartProlongs
  <2>3. InHand' /\ HeardIsSpoken' /\ ReaderAt' = ReaderAt
    BY <1>1, <2>1, <2>2, HandIsKept
  <2> QED
    BY <1>1, <1>2, <2>1, <2>3, StartLeads
<1>4. CASE SegmentEnd(f)
  BY <1>1, <1>2, <1>4, CloseDelivers DEF SegmentEnd, Ends
<1>5. CASE SegmentAudio(f)
  <2>1. PICK x \in Ids : x = f.id
    BY <1>1, ConsumedTypes
  <2>2. Append(seg, x) \in Seq(Ids)
    BY AppendProperties DEF TypeOK
  <2>3. Flush(Append(seg, x)) /\ vad.speaking /\ ended' = ended
    BY <1>5, <2>1 DEF SegmentAudio
  <2> QED
    BY <1>1, <1>2, <2>2, <2>3, FlushDelivers
<1>6. CASE OutsideSegment(f)
  <2>1. UNCHANGED <<up, spoken, ended>>
    BY <1>6 DEF OutsideSegment
  <2> QED
    BY <1>1, <2>1, NothingSent
<1> QED
  BY <1>3, <1>4, <1>5, <1>6

\* Delivery is kept by the steps after a write.
LEMMA WrittenDelivers ==
    ASSUME TypeOK, TypeOK', LoopRules, SegmentsCounted, Delivery, InHand, HeardIsSpoken,
           Written
    PROVE  Delivery' /\ InHand' /\ HeardIsSpoken'
<1>1. UNCHANGED <<asr, heard, link>>
  BY DEF Written, SegmentBegins, ChunkSent, RestSent, EndSent, LastEndSent, restOfLoop
<1>2. CASE SegmentBegins
  <2>1. loop = "start" /\ Flush(Append(pre, frame)) /\ ended' = ended
    BY <1>2 DEF SegmentBegins
  <2>2. frame \in Ids /\ ended # Len(spoken)
    BY <2>1 DEF LoopRules, SegmentsCounted, TypeOK, Ids
  <2>3. Append(pre, frame) \in Seq(Ids)
    BY <2>2, AppendProperties DEF TypeOK
  <2> QED
    BY <1>1, <2>1, <2>2, <2>3, FlushDelivers
<1>3. CASE RestSent
  <2>1. PICK a : WriteEnd(a) /\ spoken' = spoken /\ loop \in {"rest", "lastRest"}
    BY <1>3 DEF RestSent
  <2>2. ended # Len(spoken)
    BY <2>1 DEF SegmentsCounted
  <2> QED
    BY <1>1, <2>1, <2>2, EndDelivers
<1>4. CASE ChunkSent \/ EndSent \/ LastEndSent
  <2>1. UNCHANGED <<up, spoken, ended>>
    BY <1>4 DEF ChunkSent, EndSent, LastEndSent
  <2> QED
    BY <1>1, <2>1, NothingSent
<1> QED
  BY <1>2, <1>3, <1>4 DEF Written

\* Delivery is kept by every step.
LEMMA DeliveryStep ==
    ASSUME TypeOK, TypeOK', LoopRules, SegmentsCounted, Delivery, InHand, HeardIsSpoken,
           [Next]_vars
    PROVE  Delivery' /\ InHand' /\ HeardIsSpoken'
<1>1. CASE \/ q # <<>> /\ SegmentStart(Head(q))
           \/ q # <<>> /\ SegmentEnd(Head(q))
           \/ q # <<>> /\ SegmentAudio(Head(q))
           \/ q # <<>> /\ OutsideSegment(Head(q))
  BY <1>1, Sending
<1>2. CASE StreamOver \/ Interrupted
  <2>1. /\ loop \in {"loop", "wait", "start", "chunk", "rest", "end"} /\ Leave
        /\ UNCHANGED <<asr, heard, link>>
    BY <1>2 DEF StreamOver, Interrupted, Leave
  <2>2. CASE vad.speaking /\ CloseSegment("lastRest", "lastEnd")
    <3>1. ended # Len(spoken)
      BY <2>1, <2>2 DEF LoopRules, SegmentsCounted
    <3> QED
      BY <2>1, <2>2, <3>1, CloseDelivers
  <2>3. CASE UNCHANGED <<up, spoken, ended>>
    BY <2>1, <2>3, NothingSent
  <2> QED
    BY <2>1, <2>2, <2>3 DEF Leave
<1>3. CASE Written
  BY <1>3, WrittenDelivers
<1>4. CASE LinkBreaks
  <2>1. PICK n \in 0..Len(up) : up' = SubSeq(up, 1, n)
    BY <1>4 DEF LinkBreaks
  <2>2. link' = "down" /\ UNCHANGED <<spoken, ended, asr, heard>>
    BY <1>4 DEF LinkBreaks, ghosts
  <2>3. PICK b : Leads(up, ReaderAt, b, spoken, ended)
    BY DEF Delivery
  <2>4. PICK c : Leads(up', ReaderAt, c, spoken, ended)
    BY <2>1, <2>3, LeadsLess DEF TypeOK
  <2>5. ended' \in Nat
    BY DEF TypeOK
  <2>6. InHand' /\ HeardIsSpoken' /\ ReaderAt' = ReaderAt
    BY <2>2, <2>5, NothingProlongs, HandIsKept
  <2>7. Delivery'
    BY <2>2, <2>4, <2>6 DEF Delivery
  <2> QED
    BY <2>6, <2>7
<1>5. CASE AsrStart
  BY <1>5, StartReceived
<1>6. CASE AsrAudio
  BY <1>6, AudioReceived
<1>7. CASE AsrChunk
  BY <1>7, ChunkRecognised
<1>8. CASE AsrEnd
  BY <1>8, EndReceived
<1>9. CASE AsrFails \/ AsrDisconnected
  <2>1. /\ UNCHANGED <<up, spoken, ended, heard>> /\ (link' = "up" => link = "up")
        /\ asr' = [asr EXCEPT !.open = FALSE]
    BY <1>9 DEF AsrFails, AsrDisconnected, restOfAsr, ghosts
  <2>2. asr'.in = asr.in /\ asr'.fed = asr.fed /\ asr'.buf = asr.buf /\ asr'.text = asr.text
    BY <2>1 DEF TypeOK
  <2> QED
    BY <2>1, <2>2, NothingSent
<1>10. CASE \/ Microphone \/ TakePaused \/ ResumeOnReply \/ WaitTimeout \/ SendRaises
            \/ InterruptedLast \/ Close \/ ReplyReceived
  <2>1. UNCHANGED <<up, spoken, ended, asr, heard>> /\ (link' = "up" => link = "up")
    BY <1>10 DEF Microphone, MicCapture, MicEvict, MicStops, restOfMic, TakePaused,
                 ResumeOnReply, WaitTimeout, Resume, SendRaises, InterruptedLast, Close, ReplyReceived, ghosts
  <2> QED
    BY <2>1, NothingSent
<1>11. CASE UNCHANGED vars
  <2>1. UNCHANGED <<up, spoken, ended, asr, heard, link>>
    BY <1>11 DEF vars, ghosts
  <2> QED
    BY <2>1, NothingSent
<1> QED
  BY <1>1, <1>2, <1>3, <1>4, <1>5, <1>6, <1>7, <1>8, <1>9, <1>10, <1>11
  DEF Next, Consume, Recogniser

-----------------------------------------------------------------------------
(* The invariant *)

\* What holds in every state, and is kept by every step.
Safety ==
    /\ TypeOK /\ LoopRules /\ SegmentsCounted /\ FirstWords /\ CreditCovers
    /\ InCaptureOrder /\ PreInOrder /\ QueueInOrder /\ ChunkIsLast
    /\ Delivery /\ InHand /\ HeardIsSpoken

LEMMA InitIsSafe == Init => Safety
<1> SUFFICES ASSUME Init PROVE Safety
  OBVIOUS
<1>1. /\ QueueSize \in Nat /\ MinSilence \in Nat \ {0} /\ MinSpeech \in Nat \ {0}
      /\ Lookback \in Nat /\ Chunk \in Nat \ {0} /\ MaxFrames \in Nat
  BY VoiceTurnAssumption
<1>2. /\ <<>> \in Seq(Ids) /\ <<>> \in Seq(Frame) /\ <<>> \in Seq(Message)
      /\ <<>> \in Seq(Seq(Ids)) /\ <<>> \in Seq([fed : Seq(Ids), text : Seq(Ids)])
      /\ Len(<<>>) = 0 /\ DOMAIN <<>> = {} /\ ToSet(<<>>) = {}
  BY DEF ToSet
<1>3. TypeOK
  <2>1. mic \in [captured : 0..MaxFrames, held : {<<>>} \union { <<f>> : f \in Frame },
                 on : BOOLEAN]
    BY <1>1 DEF Init
  <2>2. vad \in [speaking : BOOLEAN, silence : 0 .. MinSilence - 1,
                 speech : 0 .. MinSpeech - 1]
    BY <1>1 DEF Init, Quiet
  <2>3. asr \in [open : BOOLEAN, in : BOOLEAN, buf : Seq(Ids), text : Seq(Ids), fed : Seq(Ids)]
    BY <1>2 DEF Init, Between
  <2>4. /\ q \in Seq(Frame) /\ Len(q) <= QueueSize /\ pre \in Seq(Ids) /\ Len(pre) <= Lookback
        /\ seg \in Seq(Ids) /\ Len(seg) <= Lookback + Chunk /\ Len(seg) < Chunk
    BY <1>1, <1>2 DEF Init
  <2>5. /\ loop \in {"loop", "wait", "left"} \union Writes /\ link \in {"up", "down"}
        /\ frame \in 0..MaxFrames /\ cut \in SUBSET Writes
    BY <1>1 DEF Init
  <2>6. paused = FALSE /\ llmDone = FALSE
    BY DEF Init
  <2>7. owed \in Nat /\ ended \in Nat /\ credit \in Int
    BY DEF Init
  <2>8. /\ up \in Seq(Message) /\ spoken \in Seq(Seq(Ids)) /\ onset \in Seq(Seq(Ids)) /\ run \in Seq(Ids)
        /\ heard \in Seq([fed : Seq(Ids), text : Seq(Ids)])
    BY <1>2 DEF Init
  <2> QED
    BY <2>1, <2>2, <2>3, <2>4, <2>5, <2>6, <2>7, <2>8 DEF TypeOK
<1>4. LoopRules /\ SegmentsCounted /\ CreditCovers /\ ChunkIsLast
  BY <1>2 DEF ChunkIsLast, Init, Quiet, LoopRules, SegmentsCounted, CreditCovers
<1>5. FirstWords
  BY <1>2 DEF Init, Quiet, FirstWords
<1>6. InCaptureOrder /\ PreInOrder
  BY <1>2 DEF Init, InCaptureOrder, PreInOrder, Increasing, Below, Unsent
<1>7. QueueInOrder
  <2>1. Past = {}
    BY <1>2 DEF Init, Past, Ids
  <2> QED
    BY <1>2, <2>1 DEF Init, QueueInOrder
<1>8. InHand /\ HeardIsSpoken
  BY <1>2 DEF Init, Between, InHand, HeardIsSpoken
<1>9. Delivery
  <2> DEFINE a == [k |-> 0, n |-> 0, open |-> FALSE]
             at == [i \in 0..0 |-> a]
  <2>1. asr.in = FALSE /\ Len(asr.fed) + Len(asr.buf) = 0 /\ Len(heard) = 0 /\ Len(up) = 0
        /\ Len(spoken) = 0 /\ ended = 0
    BY <1>2 DEF Init, Between
  <2>2. ReaderAt = a /\ WriterAt = a
    <3>1. Len(heard) + (IF asr.in THEN 1 ELSE 0) = 0
      BY <2>1
    <3>2. ReaderAt = a
      BY <2>1, <3>1, Zenon DEF ReaderAt
    <3>3. WriterAt = a
      BY <2>1 DEF WriterAt
    <3> QED
      BY <3>2, <3>3
  <2>3. a \in Place /\ Within(a, spoken)
    BY <2>1 DEF Place, Within
  <2>4. at \in [0..0 -> Place] /\ at[0] = a /\ \A i \in 0..0 : at[i] = a
    BY <2>3
  <2> HIDE DEF at, a
  <2>5. Follows(up, at, spoken, ended)
    BY <2>1, <2>3, <2>4 DEF Follows
  <2> QED
    BY <2>1, <2>2, <2>4, <2>5 DEF Leads, Delivery
<1> QED
  BY <1>3, <1>4, <1>5, <1>6, <1>7, <1>8, <1>9 DEF Safety

LEMMA NextIsSafe == Safety /\ [Next]_vars => Safety'
<1> SUFFICES ASSUME Safety, [Next]_vars PROVE Safety'
  OBVIOUS
<1>1. /\ TypeOK /\ LoopRules /\ SegmentsCounted /\ FirstWords /\ CreditCovers
      /\ InCaptureOrder /\ PreInOrder /\ QueueInOrder /\ ChunkIsLast
      /\ Delivery /\ InHand /\ HeardIsSpoken
  BY DEF Safety
<1>2. TypeOK'
  BY <1>1, TypeStep
<1>3. LoopRules' /\ SegmentsCounted' /\ FirstWords' /\ CreditCovers'
  BY <1>1, LoopStep
<1>4. InCaptureOrder' /\ PreInOrder' /\ QueueInOrder' /\ ChunkIsLast'
  BY <1>1, OrderStep
<1>5. Delivery' /\ InHand' /\ HeardIsSpoken'
  BY <1>1, <1>2, DeliveryStep
<1> QED
  BY <1>2, <1>3, <1>4, <1>5 DEF Safety

\* Safety holds in every reachable state.
THEOREM SafetyHolds == Spec => []Safety
  BY InitIsSafe, NextIsSafe, PTL DEF Spec

\* Every variable has its type, and no buffer outgrows its bound: the queue of
\* the microphone, pre_buf, seg_buf and the counters of the detector.
THEOREM TypeCorrect == Spec => []TypeOK
<1>1. Safety => TypeOK
  BY DEF Safety
<1> QED
  BY <1>1, SafetyHolds, PTL

\* Each segment the recogniser closes was made of the frames the furniture sent
\* between its start and its end, and of no others (asr_stream).
THEOREM HeardIsSpokenHolds == Spec => []HeardIsSpoken
<1>1. Safety => HeardIsSpoken
  BY DEF Safety
<1> QED
  BY <1>1, SafetyHolds, PTL

\* A closed segment has the voiced frames that started it (pre_buf), unless an
\* interrupt has cut its start short.
THEOREM FirstWordKeptHolds == Spec => []FirstWordKept
<1>1. ASSUME TypeOK, SegmentsCounted, FirstWords, NEW k \in 1..ended
      PROVE  \/ ToSet(onset[k]) \subseteq ToSet(spoken[k])
             \/ k = Len(spoken) /\ spoken[k] = <<>> /\ "start" \in cut
  <2>1. PICK n \in Nat : n = Len(spoken) /\ DOMAIN spoken = 1..n /\ ended \in Nat
    BY <1>1, LenProperties DEF TypeOK
  <2>2. k \in DOMAIN spoken /\ ~(k > ended)
    BY <1>1, <2>1 DEF SegmentsCounted
  <2>3. \A i \in DOMAIN onset[k] :
          \/ onset[k][i] \in ToSet(spoken[k])
          \/ k = Len(spoken) /\ spoken[k] = <<>> /\ "start" \in cut
    BY <1>1, <2>2 DEF FirstWords
  <2> QED
    BY <2>3 DEF ToSet
<1>2. Safety => FirstWordKept
  BY <1>1 DEF Safety, FirstWordKept
<1> QED
  BY <1>2, SafetyHolds, PTL

\* No frame is sent twice or out of order (stream_live, seg_buf and pre_buf),
\* but for the chunk whose writing was interrupted, sent again right after itself.
THEOREM InCaptureOrderHolds == Spec => []InCaptureOrder
<1>1. Safety => InCaptureOrder
  BY DEF Safety
<1> QED
  BY <1>1, SafetyHolds, PTL

\* One reply does not end the wait of two turns (llm_done.clear).
THEOREM EveryResumeIsEarnedHolds == Spec => []EveryResumeIsEarned
<1>1. Safety => EveryResumeIsEarned
  BY DEF Safety, CreditCovers, EveryResumeIsEarned
<1> QED
  BY <1>1, SafetyHolds, PTL

\* Every segment but the last has been closed, and the last too once the loop has
\* ended on a connection that still works (stream_live, after its loop), unless an
\* interrupt came while its rest was written.
THEOREM EverySegmentEndedHolds == Spec => []EverySegmentEnded
<1>1. ASSUME TypeOK, SegmentsCounted PROVE EverySegmentEnded
  <2>1. Len(spoken) \in Nat /\ ended \in Nat
    BY <1>1, LenProperties DEF TypeOK
  <2> QED
    BY <1>1, <2>1 DEF SegmentsCounted, EverySegmentEnded
<1>2. Safety => EverySegmentEnded
  BY <1>1 DEF Safety
<1> QED
  BY <1>2, SafetyHolds, PTL

=============================================================================

