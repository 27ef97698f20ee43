---------------------------- MODULE WorkerProofs ----------------------------
(***************************************************************************)
(* What holds of a worker's session for any number of turns and tool       *)
(* calls.  The queues, the pumps and the goroutines pass two things on:    *)
(* a turn, from its frame to its replies, and a call, from the server's    *)
(* result to the reply it leads to.  Safety says that neither is ever in   *)
(* two places; that turns are replied to in order, and once, follows.      *)
(***************************************************************************)
EXTENDS Worker, SequenceTheorems, TLAPS

\* Where turn k can be: in a queue or a pump, asked of the model, answered by
\* calls, or replied to.
TurnPlaces == {"text", "end", "asr", "upPump", "asrPump", "llm", "calls", "reply"}

TurnAt(k, p) ==
    \/ p = "text" /\ TextInput(k) \in Range(upQueue)
    \/ p = "end" /\ SegmentEnd(k) \in Range(upQueue)
    \/ p = "asr" /\ k \in Range(asrQueue)
    \/ p = "upPump" /\ upPump = k
    \/ p = "asrPump" /\ asrPump = k
    \/ p = "llm" /\ \E t \in tasks : t.pc = "llm" /\ t.turn = k
    \/ p = "calls" /\ \E n \in DOMAIN calls : calls[n].turn = k
    \/ p = "reply" /\ Reply(k, 0) \in Range(out)

\* A turn is in one place, and there once; it has begun, and before the model
\* is asked the server has its text.
TurnsInOnePlace ==
    /\ IsInjective(upQueue) /\ IsInjective(asrQueue)
    /\ \A k \in Turns : \A p, q \in TurnPlaces : TurnAt(k, p) /\ TurnAt(k, q) => p = q
    /\ \A k \in Turns : \A p \in TurnPlaces : TurnAt(k, p) => k \in DOMAIN asked
    /\ \A k \in Turns : \A p \in {"upPump", "asrPump", "llm", "calls"} :
         TurnAt(k, p) => Final(k) \in Range(out)

\* Where call n can be once the server has answered it.
CallPlaces == {"result", "pop", "second", "reply"}

CallAt(n, p) ==
    \/ p = "result" /\ CommandResult(n) \in Range(upQueue)
    \/ p = "pop" /\ \E t \in tasks : t.pc = "pop" /\ t.call = n
    \/ p = "second" /\ \E t \in tasks : t.pc = "second" /\ t.call = n
    \/ p = "reply" /\ \E k \in Turns : Reply(k, n) \in Range(out)

\* A call is in one place, and was sent before it is in any; a reply to it
\* belongs to its turn.
CallsInOnePlace ==
    /\ \A n \in Calls : \A p, q \in CallPlaces : CallAt(n, p) /\ CallAt(n, q) => p = q
    /\ \A n \in Calls : \A p \in CallPlaces : CallAt(n, p) => Command(n) \in Range(out)
    /\ \A n \in Calls : Command(n) \in Range(out) => n \in DOMAIN calls
    /\ \A n \in Calls, k \in Turns : Reply(k, n) \in Range(out) => calls[n].turn = k

\* The loops over calls go over different calls, none of which has been sent.
Looping(t) == t.pc \in {"remember", "command"}

LoopsApart ==
    /\ \A t \in tasks : Looping(t) =>
         /\ t.next <= t.last /\ t.last \in DOMAIN calls
         /\ \A n \in t.next..t.last : Command(n) \notin Range(out)
    /\ \A t, u \in tasks : Looping(t) /\ Looping(u) /\ t # u => t.last < u.next \/ u.last < t.next

\* A call is remembered from before it is sent until its result is handled.
Remembered ==
    /\ \A t \in tasks : t.pc = "command" => t.next \in pending
    /\ \A n \in Calls : CallAt(n, "result") \/ CallAt(n, "pop") => n \in pending
    /\ live => \A n \in Calls : Command(n) \in Range(out) =>
                   n \in pending \/ \E p \in CallPlaces : CallAt(n, p)

\* What is spoken has been replied.
SpokenWasReplied ==
    live => \A t \in tasks : t.pc = "tts" => Reply(t.turn, t.call) \in Range(out)

Safety == /\ TypeOK /\ TurnsInOnePlace /\ CallsInOnePlace /\ LoopsApart /\ Remembered
          /\ SpokenWasReplied /\ InTurnOrder /\ RepliesCounted /\ TruthfulHistory

-----------------------------------------------------------------------------
(* Sequences, and what a step writes *)

\* What an element at the end adds to a sequence.
LEMMA Appended ==
    ASSUME NEW S, NEW s \in Seq(S), NEW e \in S
    PROVE  /\ Append(s, e) \in Seq(S) /\ Len(Append(s, e)) = Len(s) + 1
           /\ DOMAIN s = 1..Len(s) /\ DOMAIN Append(s, e) = 1..(Len(s) + 1)
           /\ \A i \in DOMAIN s : Append(s, e)[i] = s[i]
           /\ Append(s, e)[Len(s) + 1] = e
           /\ Range(Append(s, e)) = Range(s) \union {e}
           /\ IsInjective(s) /\ e \notin Range(s) => IsInjective(Append(s, e))
<1>1. /\ Append(s, e) \in Seq(S) /\ Len(Append(s, e)) = Len(s) + 1 /\ Len(s) \in Nat
      /\ DOMAIN s = 1..Len(s) /\ DOMAIN Append(s, e) = 1..(Len(s) + 1)
      /\ \A i \in DOMAIN s : Append(s, e)[i] = s[i]
      /\ Append(s, e)[Len(s) + 1] = e
  BY AppendProperties, LenProperties
<1>2. DOMAIN Append(s, e) = DOMAIN s \union {Len(s) + 1}
  BY <1>1
<1>3. Range(Append(s, e)) = Range(s) \union {e}
  BY <1>1, <1>2 DEF Range
<1>4. ASSUME IsInjective(s), e \notin Range(s)
      PROVE  IsInjective(Append(s, e))
  BY <1>1, <1>2, <1>4 DEF IsInjective, Range
<1> QED
  BY <1>1, <1>3, <1>4

\* What is left of a sequence when its first element is taken.
LEMMA Taken ==
    ASSUME NEW S, NEW s \in Seq(S), s # <<>>
    PROVE  /\ Head(s) \in S /\ Tail(s) \in Seq(S)
           /\ Range(s) = Range(Tail(s)) \union {Head(s)}
           /\ IsInjective(s) => IsInjective(Tail(s)) /\ Head(s) \notin Range(Tail(s))
<1>1. /\ Head(s) \in S /\ Tail(s) \in Seq(S) /\ Len(s) \in Nat \ {0}
      /\ DOMAIN s = 1..Len(s) /\ DOMAIN Tail(s) = 1..(Len(s) - 1)
      /\ \A i \in 1..(Len(s) - 1) : Tail(s)[i] = s[i + 1]
      /\ Head(s) = s[1]
  BY HeadTailProperties, LenProperties, EmptySeq
<1>2. \A i \in DOMAIN s : i = 1 \/ (i - 1 \in DOMAIN Tail(s) /\ Tail(s)[i - 1] = s[i])
  BY <1>1
<1>3. /\ 1 \in DOMAIN s
      /\ \A i \in DOMAIN Tail(s) : i + 1 \in DOMAIN s /\ i + 1 # 1 /\ Tail(s)[i] = s[i + 1]
  BY <1>1
<1>4. Range(s) = Range(Tail(s)) \union {Head(s)}
  BY <1>1, <1>2, <1>3 DEF Range
<1>5. ASSUME IsInjective(s)
      PROVE  IsInjective(Tail(s)) /\ Head(s) \notin Range(Tail(s))
  <2>1. Head(s) \notin Range(Tail(s))
    BY <1>1, <1>3, <1>5 DEF IsInjective, Range
  <2>2. \A i, j \in DOMAIN Tail(s) : Tail(s)[i] = Tail(s)[j] => i + 1 = j + 1
    BY <1>3, <1>5 DEF IsInjective
  <2>3. \A i, j \in DOMAIN Tail(s) : i + 1 = j + 1 => i = j
    BY <1>1
  <2> QED
    BY <2>1, <2>2, <2>3 DEF IsInjective
<1> QED
  BY <1>1, <1>4, <1>5

\* A write to the server appends to what was written, or is lost.
LEMMA WriteAppends ==
    ASSUME out \in Seq(Event), NEW e \in Event, Write(e)
    PROVE  /\ out' \in Seq(Event)
           /\ live => out' = Append(out, e) /\ Range(out') = Range(out) \union {e}
           /\ ~live => out' = out
<1>1. CASE live
  BY <1>1, Appended DEF Write
<1>2. CASE ~live
  BY <1>2 DEF Write
<1> QED
  BY <1>1, <1>2

\* The records of the model have the types that TypeOK gives them.
LEMMA RecordTypes ==
    /\ \A k \in Turns : /\ TextInput(k) \in UpFrame /\ SegmentEnd(k) \in UpFrame
                        /\ Final(k) \in Event
    /\ \A n \in Calls : CommandResult(n) \in UpFrame /\ Command(n) \in Event
    /\ \A k \in Turns, n \in {0} \union Calls : Reply(k, n) \in Event /\ Audio(k, n) \in Event
    /\ \A n \in 1..MaxTurns : n \in Turns
    /\ 0 \notin Turns /\ 0 \notin Calls
  BY DEF TextInput, SegmentEnd, Final, CommandResult, Command, Reply, Audio, UpFrame, Event,
         Turns, Calls

-----------------------------------------------------------------------------

\* What the answer of the model adds to the calls.
LEMMA CallsAdded ==
    ASSUME TypeOK, NEW k \in Turns, NEW m \in Nat, NEW v \in [1..m -> BOOLEAN],
           calls' = calls \o [i \in 1..m |-> [turn |-> k, valid |-> v[i]]]
    PROVE  /\ calls' \in Seq([turn : Turns, valid : BOOLEAN]) /\ Len(calls') = Len(calls) + m
           /\ DOMAIN calls' = 1..(Len(calls) + m)
           /\ \A n \in DOMAIN calls' : IF n <= Len(calls) THEN calls'[n] = calls[n]
                                                          ELSE calls'[n].turn = k
<1> DEFINE new == [i \in 1..m |-> [turn |-> k, valid |-> v[i]]]
<1>1. new \in Seq([turn : Turns, valid : BOOLEAN]) /\ Len(new) = m
  OBVIOUS
<1>2. calls \in Seq([turn : Turns, valid : BOOLEAN]) /\ Len(calls) \in Nat
  BY LenProperties DEF TypeOK
<1>3. /\ calls' \in Seq([turn : Turns, valid : BOOLEAN]) /\ Len(calls') = Len(calls) + m
      /\ \A n \in 1..(Len(calls) + m) :
           calls'[n] = IF n <= Len(calls) THEN calls[n] ELSE new[n - Len(calls)]
  <2> HIDE DEF new
  <2>1. calls' = calls \o new
    BY DEF new
  <2>2. /\ calls \o new \in Seq([turn : Turns, valid : BOOLEAN])
        /\ Len(calls \o new) = Len(calls) + Len(new)
        /\ \A n \in 1..(Len(calls) + Len(new)) :
             (calls \o new)[n] = IF n <= Len(calls) THEN calls[n] ELSE new[n - Len(calls)]
    BY <1>1, <1>2, ConcatProperties
  <2> QED
    BY <1>1, <2>1, <2>2
<1>4. DOMAIN calls' = 1..(Len(calls) + m)
  BY <1>3, LenProperties
<1>5. \A i \in 1..m : new[i].turn = k
  OBVIOUS
<1> HIDE DEF new
<1>6. \A n \in DOMAIN calls' : n <= Len(calls) \/ n - Len(calls) \in 1..m
  BY <1>2, <1>4
<1> QED
  BY <1>2, <1>3, <1>4, <1>5, <1>6

\* Every step keeps the types.
LEMMA TypeStep ==
    ASSUME TypeOK, CallsInOnePlace, LoopsApart, [Next]_vars
    PROVE  TypeOK'
<1> USE DEF TypeOK
<1>1. /\ Len(asked) \in Nat /\ Len(calls) \in Nat /\ DOMAIN calls = 1..Len(calls)
      /\ DOMAIN calls \subseteq Calls
      /\ \A n \in DOMAIN calls : calls[n].turn \in Turns
  <2>1. Len(asked) \in Nat /\ Len(calls) \in Nat /\ DOMAIN calls = 1..Len(calls)
    BY LenProperties
  <2>2. \A n \in DOMAIN calls : calls[n] \in [turn : Turns, valid : BOOLEAN]
    BY <2>1, ElementOfSeq
  <2> QED
    BY <2>1, <2>2, WorkerAssumption DEF Calls
<1>2. ASSUME NEW kind \in {"text", "empty", "voice"}, Ask(kind)
      PROVE  TypeOK'
  <2> DEFINE k == Len(asked) + 1
             f == IF kind = "voice" THEN SegmentEnd(k) ELSE TextInput(k)
  <2>1. k \in Turns /\ Len(asked) < MaxTurns
    BY <1>1, <1>2, WorkerAssumption DEF Ask, Turns
  <2>2. f \in UpFrame
    BY <2>1, RecordTypes
  <2>3. asked' = Append(asked, kind) /\ upQueue' = Append(upQueue, f)
    BY <1>2 DEF Ask
  <2>4. asked' \in Seq({"text", "empty", "voice"}) /\ Len(asked') <= MaxTurns
    BY <1>1, <2>1, <2>3, Appended, WorkerAssumption
  <2>5. upQueue' \in Seq(UpFrame)
    BY <2>2, <2>3, Appended
  <2> QED
    BY <1>2, <2>4, <2>5 DEF Ask
<1>3. ASSUME NEW n \in DOMAIN calls, ServerResult(n)
      PROVE  TypeOK'
  <2>1. upQueue' \in Seq(UpFrame)
    BY <1>1, <1>3, RecordTypes, Appended DEF ServerResult
  <2> QED
    BY <1>3, <2>1 DEF ServerResult
<1>4. CASE SessionDone
  <2>1. 0 \in 0..MaxTurns
    BY WorkerAssumption
  <2> QED
    BY <1>4, <2>1 DEF SessionDone, inputs
<1>5. CASE UpHandle
  <2> DEFINE m == Head(upQueue)
  <2>1. upQueue' \in Seq(UpFrame) /\ m \in UpFrame
    BY <1>5, Taken DEF UpHandle
  <2>2. CASE m.type = "end"
    <3>1. m.turn \in Turns
      BY <2>1, <2>2 DEF UpFrame
    <3>2. asrQueue' = Append(asrQueue, m.turn) /\ UNCHANGED <<upPump, tasks, out>>
      BY <1>5, <2>2 DEF UpHandle
    <3>3. asrQueue' \in Seq(Turns)
      BY <3>1, <3>2, Appended
    <3> QED
      BY <1>5, <2>1, <3>2, <3>3 DEF UpHandle
  <2>3. CASE m.type = "device_command_result"
    <3>1. m.call \in Calls
      BY <2>1, <2>3 DEF UpFrame
    <3>2. Spawn([pc |-> "pop", call |-> m.call]) /\ UNCHANGED <<asrQueue, upPump, out>>
      BY <1>5, <2>3 DEF UpHandle
    <3>3. tasks' \subseteq Task
      BY <3>1, <3>2 DEF Spawn, Task
    <3> QED
      BY <1>5, <2>1, <3>2, <3>3 DEF UpHandle
  <2>4. CASE m.type = "text_input"
    <3>1. m.turn \in Turns
      BY <2>1, <2>4 DEF UpFrame
    <3>2. CASE asked[m.turn] = "empty"
      <4>1. Write(Reply(m.turn, 0)) /\ UNCHANGED <<asrQueue, upPump, tasks>>
        BY <1>5, <2>4, <3>2 DEF UpHandle
      <4>2. out' \in Seq(Event)
        BY <3>1, <4>1, RecordTypes, WriteAppends
      <4> QED
        BY <1>5, <2>1, <4>1, <4>2 DEF UpHandle
    <3>3. CASE asked[m.turn] # "empty"
      <4>1. upPump' = m.turn /\ Write(Final(m.turn)) /\ UNCHANGED <<asrQueue, tasks>>
        BY <1>5, <2>4, <3>3 DEF UpHandle
      <4>2. out' \in Seq(Event)
        BY <3>1, <4>1, RecordTypes, WriteAppends
      <4>3. upPump' \in 0..MaxTurns
        BY <3>1, <4>1, WorkerAssumption DEF Turns
      <4> QED
        BY <1>5, <2>1, <4>1, <4>2, <4>3 DEF UpHandle
    <3> QED
      BY <3>2, <3>3
  <2>5. m.type \in {"end", "device_command_result", "text_input"}
    BY <2>1 DEF UpFrame
  <2> QED
    BY <2>2, <2>3, <2>4, <2>5
<1>6. CASE UpTrigger
  <2>1. upPump \in Turns /\ upPump' \in 0..MaxTurns
    BY <1>6, WorkerAssumption DEF UpTrigger, Turns
  <2>2. tasks' \subseteq Task /\ out' \in Seq(Event)
    <3>1. CASE configured
      BY <1>6, <2>1, <3>1 DEF UpTrigger, Spawn, Task
    <3>2. CASE ~configured
      BY <1>6, <2>1, <3>2, RecordTypes, WriteAppends DEF UpTrigger
    <3> QED
      BY <3>1, <3>2
  <2> QED
    BY <1>6, <2>1, <2>2 DEF UpTrigger, inputs
<1>7. CASE AsrForward
  <2> DEFINE k == Head(asrQueue)
  <2>1. asrQueue' \in Seq(Turns) /\ k \in Turns
    BY <1>7, Taken DEF AsrForward
  <2>2. (asrPump' = k /\ Write(Final(k))) \/ UNCHANGED <<asrPump, out>>
    BY <1>7 DEF AsrForward
  <2>3. asrPump' \in 0..MaxTurns /\ out' \in Seq(Event)
    BY <2>1, <2>2, RecordTypes, WriteAppends, WorkerAssumption DEF Turns
  <2> QED
    BY <1>7, <2>1, <2>3 DEF AsrForward
<1>8. CASE AsrTrigger
  <2>1. asrPump \in Turns /\ asrPump' \in 0..MaxTurns
    BY <1>8, WorkerAssumption DEF AsrTrigger, Turns
  <2>2. \/ UNCHANGED <<tasks, out>>
        \/ Spawn([pc |-> "llm", turn |-> asrPump]) /\ UNCHANGED out
        \/ Write(Reply(asrPump, 0)) /\ UNCHANGED tasks
    BY <1>8 DEF AsrTrigger
  <2>3. tasks' \subseteq Task
    BY <2>1, <2>2 DEF Spawn, Task
  <2>4. out' \in Seq(Event)
    BY <2>1, <2>2, RecordTypes, WriteAppends
  <2> QED
    BY <1>8, <2>1, <2>3, <2>4 DEF AsrTrigger, inputs
<1>9. ASSUME NEW t \in tasks, FirstReply(t)
      PROVE  TypeOK'
  <2>1. t.turn \in Turns
    BY <1>9 DEF FirstReply, Task
  <2>2. out' \in Seq(Event)
    BY <1>9, <2>1, RecordTypes, WriteAppends DEF FirstReply
  <2>3. tasks' \subseteq Task
    BY <1>9, <2>1 DEF FirstReply, Become, Task
  <2> QED
    BY <1>9, <2>2, <2>3 DEF FirstReply, Base, inputs
<1>10. ASSUME NEW t \in tasks, FirstCalls(t)
       PROVE  TypeOK'
  <2>1. t.turn \in Turns
    BY <1>10 DEF FirstCalls, Task
  <2>2. PICK m \in 1..(MaxCalls - Len(calls)) : \E v \in [1..m -> BOOLEAN] :
          /\ calls' = calls \o [i \in 1..m |-> [turn |-> t.turn, valid |-> v[i]]]
          /\ Become(t, {[pc |-> "remember", turn |-> t.turn,
                         next |-> Len(calls) + 1, last |-> Len(calls) + m]})
    BY <1>10 DEF FirstCalls
  <2>3. PICK v \in [1..m -> BOOLEAN] :
          /\ calls' = calls \o [i \in 1..m |-> [turn |-> t.turn, valid |-> v[i]]]
          /\ Become(t, {[pc |-> "remember", turn |-> t.turn,
                         next |-> Len(calls) + 1, last |-> Len(calls) + m]})
    BY <2>2
  <2>5. calls' \in Seq([turn : Turns, valid : BOOLEAN]) /\ Len(calls') = Len(calls) + m
    BY <1>1, <2>1, <2>3, CallsAdded
  <2>6. /\ m \in Nat \ {0} /\ Len(calls) + m <= MaxCalls
        /\ Len(calls) + 1 \in Calls /\ Len(calls) + m \in Calls
    BY <1>1, WorkerAssumption DEF Calls
  <2>7. tasks' \subseteq Task
    BY <2>1, <2>3, <2>6 DEF Become, Task
  <2>8. Len(calls') <= MaxCalls /\ pending \subseteq 1..Len(calls')
    BY <1>1, <2>5, <2>6
  <2> QED
    BY <1>10, <2>5, <2>7, <2>8 DEF FirstCalls, Base, inputs
<1>11. ASSUME NEW t \in tasks, Remember(t)
       PROVE  TypeOK'
  <2>1. /\ t \in [pc : {"remember", "command"}, turn : Turns, next : Calls, last : Calls]
        /\ t.next \in DOMAIN calls
    BY <1>1, <1>11 DEF Remember, Task, LoopsApart, Looping, Calls
  <2>2. [t EXCEPT !.pc = "command"] \in Task
    BY <2>1 DEF Task
  <2> QED
    BY <1>1, <1>11, <2>1, <2>2 DEF Remember, Become, Base, inputs
<1>12. ASSUME NEW t \in tasks, Issue(t)
       PROVE  TypeOK'
  <2>1. /\ t \in [pc : {"remember", "command"}, turn : Turns, next : Calls, last : Calls]
        /\ t.next <= t.last
    BY <1>12 DEF Issue, Task, LoopsApart, Looping
  <2>2. t.next # t.last => [t EXCEPT !.pc = "remember", !.next = @ + 1] \in Task
    <3>1. t.next # t.last => t.next + 1 \in Calls
      BY <2>1, WorkerAssumption DEF Calls
    <3> QED
      BY <2>1, <3>1 DEF Task
  <2>3. out' \in Seq(Event)
    BY <1>12, <2>1, RecordTypes, WriteAppends DEF Issue
  <2> QED
    BY <1>12, <2>2, <2>3 DEF Issue, Become, Base, inputs
<1>13. ASSUME NEW t \in tasks, Pop(t)
       PROVE  TypeOK'
  <2>1. t.call \in Calls
    BY <1>13 DEF Pop, Task
  <2>2. [pc |-> "second", call |-> t.call,
         replays |-> IF t.call \in pending THEN t.call ELSE 0] \in Task
    BY <2>1 DEF Task
  <2> QED
    BY <1>13, <2>2 DEF Pop, Become, Base, inputs
<1>14. ASSUME NEW t \in tasks, SecondReply(t)
       PROVE  TypeOK'
  <2> DEFINE k == calls[t.call].turn
  <2>1. t.call \in Calls /\ CallAt(t.call, "second")
    BY <1>14 DEF SecondReply, Task, CallAt
  <2>2. k \in Turns
    BY <1>1, <2>1 DEF CallsInOnePlace, CallPlaces
  <2>3. /\ Write(Reply(k, t.call))
        /\ Become(t, {}) \/ Become(t, {[pc |-> "tts", turn |-> k, call |-> t.call]})
    BY <1>14 DEF SecondReply
  <2>4. out' \in Seq(Event)
    BY <2>1, <2>2, <2>3, RecordTypes, WriteAppends
  <2>5. tasks' \subseteq Task
    BY <2>1, <2>2, <2>3 DEF Become, Task
  <2> QED
    BY <1>14, <2>4, <2>5 DEF SecondReply, Base, inputs
<1>15. ASSUME NEW t \in tasks, Synthesize(t)
       PROVE  TypeOK'
  <2>1. t.turn \in Turns /\ t.call \in {0} \union Calls
    BY <1>15 DEF Synthesize, Task
  <2>2. out' \in Seq(Event)
    BY <1>15, <2>1, RecordTypes, WriteAppends DEF Synthesize
  <2> QED
    BY <1>15, <2>2 DEF Synthesize, Become, Base, inputs
<1>16. CASE UNCHANGED vars
  BY <1>16 DEF vars, inputs
<1> QED
  BY <1>2, <1>3, <1>4, <1>5, <1>6, <1>7, <1>8, <1>9, <1>10, <1>11, <1>12, <1>13, <1>14, <1>15,
     <1>16 DEF Next, UpSteps, AsrSteps, TaskStep

-----------------------------------------------------------------------------

\* A step that takes one turn from where it is to another place, if anywhere,
\* keeps the turns in one place.
LEMMA TurnMoves ==
    ASSUME TurnsInOnePlace, NEW k0 \in Turns, NEW p0 \in TurnPlaces,
           IsInjective(upQueue)', IsInjective(asrQueue)',
           DOMAIN asked \subseteq DOMAIN asked', k0 \in DOMAIN asked',
           \A k \in Turns : Final(k) \in Range(out) => Final(k) \in Range(out)',
           p0 \in {"upPump", "asrPump", "llm", "calls"} => Final(k0) \in Range(out)',
           \A k \in Turns, p \in TurnPlaces : TurnAt(k, p)' =>
               \/ TurnAt(k, p) /\ (k = k0 => p = p0)
               \/ k = k0 /\ p = p0
    PROVE  TurnsInOnePlace'
<1>1. \A k \in Turns : \A p, q \in TurnPlaces : TurnAt(k, p)' /\ TurnAt(k, q)' => p = q
  BY DEF TurnsInOnePlace
<1>2. \A k \in Turns : \A p \in TurnPlaces : TurnAt(k, p)' => k \in DOMAIN asked'
  BY DEF TurnsInOnePlace
<1>3. \A k \in Turns : \A p \in {"upPump", "asrPump", "llm", "calls"} :
        TurnAt(k, p)' => Final(k) \in Range(out)'
  BY DEF TurnsInOnePlace, TurnPlaces
<1> QED
  BY <1>1, <1>2, <1>3 DEF TurnsInOnePlace

\* The same, when it is known where the turn was.
LEMMA TurnPasses ==
    ASSUME TurnsInOnePlace, NEW k0 \in Turns, NEW p0 \in TurnPlaces, NEW p1 \in TurnPlaces,
           TurnAt(k0, p1),
           IsInjective(upQueue)', IsInjective(asrQueue)', asked' = asked,
           \A k \in Turns : Final(k) \in Range(out) => Final(k) \in Range(out)',
           p0 \in {"upPump", "asrPump", "llm", "calls"} => Final(k0) \in Range(out)',
           \A k \in Turns, p \in TurnPlaces : TurnAt(k, p)' =>
               \/ TurnAt(k, p) /\ (k = k0 => p # p1)
               \/ k = k0 /\ p = p0
    PROVE  TurnsInOnePlace'
<1>1. k0 \in DOMAIN asked'
  BY DEF TurnsInOnePlace
<1>2. \A k \in Turns, p \in TurnPlaces : TurnAt(k, p)' =>
        \/ TurnAt(k, p) /\ (k = k0 => p = p0)
        \/ k = k0 /\ p = p0
  BY DEF TurnsInOnePlace
<1> QED
  BY <1>1, <1>2, TurnMoves

\* A step after which turns are at most where they were keeps them so.
LEMMA TurnsStay ==
    ASSUME TurnsInOnePlace, IsInjective(upQueue)', IsInjective(asrQueue)',
           DOMAIN asked \subseteq DOMAIN asked',
           \A k \in Turns : Final(k) \in Range(out) => Final(k) \in Range(out)',
           \A k \in Turns, p \in TurnPlaces : TurnAt(k, p)' => TurnAt(k, p)
    PROVE  TurnsInOnePlace'
  BY DEF TurnsInOnePlace, TurnPlaces

\* Messages of different kinds differ, and so do those of different turns or
\* calls.
LEMMA MessagesDiffer ==
    /\ \A k, l \in Turns : /\ TextInput(k) # SegmentEnd(l)
                           /\ TextInput(k) = TextInput(l) => k = l
                           /\ SegmentEnd(k) = SegmentEnd(l) => k = l
                           /\ Final(k) = Final(l) => k = l
    /\ \A k \in Turns, n \in Calls :
         /\ TextInput(k) # CommandResult(n) /\ SegmentEnd(k) # CommandResult(n)
         /\ Final(k) # Command(n)
    /\ \A k, l \in Turns, m, n \in {0} \union Calls :
         /\ Final(k) # Reply(l, n) /\ Final(k) # Audio(l, n)
         /\ Reply(k, m) # Audio(l, n)
         /\ Reply(k, m) = Reply(l, n) => k = l /\ m = n
    /\ \A k \in Turns, m \in Calls, n \in {0} \union Calls :
         Command(m) # Reply(k, n) /\ Command(m) # Audio(k, n)
    /\ \A m, n \in Calls : /\ Command(m) = Command(n) => m = n
                           /\ CommandResult(m) = CommandResult(n) => m = n
  BY DEF TextInput, SegmentEnd, Final, CommandResult, Command, Reply, Audio

\* Every step keeps the turns in one place.
LEMMA TurnStep ==
    ASSUME TypeOK, TurnsInOnePlace, CallsInOnePlace, [Next]_vars
    PROVE  TurnsInOnePlace'
<1> USE DEF TypeOK
<1>1. /\ Len(asked) \in Nat /\ DOMAIN asked = 1..Len(asked)
      /\ Len(calls) \in Nat /\ DOMAIN calls = 1..Len(calls) /\ DOMAIN calls \subseteq Calls
      /\ IsInjective(upQueue) /\ IsInjective(asrQueue)
  BY LenProperties, WorkerAssumption DEF Calls, TurnsInOnePlace
<1>2. ASSUME NEW kind \in {"text", "empty", "voice"}, Ask(kind)
      PROVE  TurnsInOnePlace'
  <2> DEFINE k0 == Len(asked) + 1
             p0 == IF kind = "voice" THEN "end" ELSE "text"
             f == IF kind = "voice" THEN SegmentEnd(k0) ELSE TextInput(k0)
  <2>1. k0 \in Turns /\ k0 \notin DOMAIN asked /\ p0 \in TurnPlaces
    BY <1>1, <1>2, WorkerAssumption DEF Ask, Turns, TurnPlaces
  <2>2. /\ asked' = Append(asked, kind) /\ upQueue' = Append(upQueue, f) /\ f \in UpFrame
        /\ UNCHANGED <<asrQueue, upPump, asrPump, tasks, calls, out>>
    BY <1>2, <2>1, RecordTypes DEF Ask
  <2>3. DOMAIN asked' = 1..k0
    BY <2>2, Appended
  <2>4. \A p \in TurnPlaces : ~TurnAt(k0, p)
    BY <2>1 DEF TurnsInOnePlace
  <2>5. f \notin Range(upQueue)
    BY <2>4 DEF TurnAt, TurnPlaces
  <2>6. IsInjective(upQueue') /\ Range(upQueue') = Range(upQueue) \union {f}
    BY <1>1, <2>2, <2>5, Appended
  <2>7. \A k \in Turns, p \in TurnPlaces : TurnAt(k, p)' => TurnAt(k, p) \/ (k = k0 /\ p = p0)
    <3> HIDE DEF k0
    <3> QED
      BY <2>1, <2>2, <2>6, MessagesDiffer DEF TurnAt
  <2>8. DOMAIN asked \subseteq DOMAIN asked' /\ k0 \in DOMAIN asked'
    BY <1>1, <2>1, <2>3 DEF k0
  <2>9. p0 \notin {"upPump", "asrPump", "llm", "calls"}
    OBVIOUS
  <2> HIDE DEF k0, p0
  <2> QED
    BY <1>1, <2>1, <2>2, <2>4, <2>6, <2>7, <2>8, <2>9, TurnMoves, SMTT(30)
<1>3. ASSUME NEW n \in DOMAIN calls, ServerResult(n)
      PROVE  TurnsInOnePlace'
  <2>1. /\ upQueue' = Append(upQueue, CommandResult(n)) /\ CommandResult(n) \in UpFrame
        /\ UNCHANGED <<asked, asrQueue, upPump, asrPump, tasks, calls, out>>
    BY <1>1, <1>3, RecordTypes DEF ServerResult
  <2>2. CommandResult(n) \notin Range(upQueue)
    BY <1>3 DEF ServerResult, Answered
  <2>3. IsInjective(upQueue') /\ Range(upQueue') = Range(upQueue) \union {CommandResult(n)}
    BY <1>1, <2>1, <2>2, Appended
  <2>4. \A k \in Turns, p \in TurnPlaces : TurnAt(k, p)' => TurnAt(k, p)
    BY <1>1, <2>1, <2>3, MessagesDiffer DEF TurnAt
  <2> QED
    BY <1>1, <2>1, <2>3, <2>4, TurnsStay
<1>4. CASE SessionDone
  <2>1. \A k \in Turns, p \in TurnPlaces : TurnAt(k, p)' => TurnAt(k, p)
    BY <1>4, RecordTypes DEF SessionDone, TurnAt, inputs
  <2> QED
    BY <1>1, <1>4, <2>1, TurnsStay DEF SessionDone, inputs
<1>5. CASE UpHandle
  <2> DEFINE m == Head(upQueue)
  <2>1. /\ m \in UpFrame /\ IsInjective(upQueue') /\ m \notin Range(upQueue')
        /\ Range(upQueue) = Range(upQueue') \union {m}
        /\ live /\ upPump = 0 /\ UNCHANGED <<asked, asrPump, calls>>
    BY <1>1, <1>5, Taken DEF UpHandle
  <2>2. CASE m.type = "end"
    <3>1. PICK k0 \in Turns : m.turn = k0 /\ m = SegmentEnd(k0) /\ TurnAt(k0, "end")
      BY <2>1, <2>2 DEF UpFrame, SegmentEnd, TurnAt
    <3>2. asrQueue' = Append(asrQueue, k0) /\ UNCHANGED <<upPump, tasks, out>>
      BY <1>5, <2>2, <3>1 DEF UpHandle
    <3>3. ~TurnAt(k0, "asr")
      BY <3>1 DEF TurnsInOnePlace, TurnPlaces
    <3>4. IsInjective(asrQueue') /\ Range(asrQueue') = Range(asrQueue) \union {k0}
      BY <1>1, <3>1, <3>2, <3>3, Appended DEF TurnAt
    <3>5. \A k \in Turns, p \in TurnPlaces : TurnAt(k, p)' =>
             \/ TurnAt(k, p) /\ (k = k0 => p # "end")
             \/ k = k0 /\ p = "asr"
      BY <2>1, <3>1, <3>2, <3>4 DEF TurnAt
    <3> QED
      BY <2>1, <3>1, <3>2, <3>4, <3>5, TurnPasses DEF TurnPlaces
  <2>3. CASE m.type = "device_command_result"
    <3>1. Spawn([pc |-> "pop", call |-> m.call]) /\ UNCHANGED <<asrQueue, upPump, out>>
      BY <1>5, <2>3 DEF UpHandle
    <3>2. \A k \in Turns, p \in TurnPlaces : TurnAt(k, p)' => TurnAt(k, p)
      BY <2>1, <3>1 DEF TurnAt, Spawn
    <3> QED
      BY <1>1, <2>1, <3>1, <3>2, TurnsStay
  <2>4. CASE m.type = "text_input"
    <3>1. PICK k0 \in Turns : m.turn = k0 /\ m = TextInput(k0) /\ TurnAt(k0, "text")
      BY <2>1, <2>4 DEF UpFrame, TextInput, TurnAt
    <3>2. CASE asked[k0] = "empty"
      <4>1. Write(Reply(k0, 0)) /\ UNCHANGED <<asrQueue, upPump, tasks>>
        BY <1>5, <2>4, <3>1, <3>2 DEF UpHandle
      <4>2. Range(out') = Range(out) \union {Reply(k0, 0)}
        BY <2>1, <3>1, <4>1, RecordTypes, WriteAppends
      <4>3. \A k \in Turns, p \in TurnPlaces : TurnAt(k, p)' =>
               \/ TurnAt(k, p) /\ (k = k0 => p # "text")
               \/ k = k0 /\ p = "reply"
        BY <2>1, <3>1, <4>1, <4>2, MessagesDiffer DEF TurnAt
      <4> QED
        BY <1>1, <2>1, <3>1, <4>1, <4>2, <4>3, TurnPasses DEF TurnPlaces
    <3>3. CASE asked[k0] # "empty"
      <4>1. upPump' = k0 /\ Write(Final(k0)) /\ UNCHANGED <<asrQueue, tasks>>
        BY <1>5, <2>4, <3>1, <3>3 DEF UpHandle
      <4>2. Range(out') = Range(out) \union {Final(k0)}
        BY <2>1, <3>1, <4>1, RecordTypes, WriteAppends
      <4>3. \A k \in Turns, p \in TurnPlaces : TurnAt(k, p)' =>
               \/ TurnAt(k, p) /\ (k = k0 => p # "text")
               \/ k = k0 /\ p = "upPump"
        BY <2>1, <3>1, <4>1, <4>2, MessagesDiffer DEF TurnAt
      <4> QED
        BY <1>1, <2>1, <3>1, <4>1, <4>2, <4>3, TurnPasses DEF TurnPlaces
    <3> QED
      BY <3>2, <3>3
  <2>5. m.type \in {"end", "device_command_result", "text_input"}
    BY <2>1 DEF UpFrame
  <2> QED
    BY <2>2, <2>3, <2>4, <2>5
<1>6. CASE UpTrigger
  <2>1. /\ upPump \in Turns /\ TurnAt(upPump, "upPump") /\ upPump' = 0 /\ live
        /\ UNCHANGED <<asked, upQueue, asrQueue, asrPump, calls>>
    BY <1>6, WorkerAssumption DEF UpTrigger, TurnAt, Turns, inputs
  <2>2. Final(upPump) \in Range(out)
    BY <2>1 DEF TurnsInOnePlace
  <2>3. CASE configured
    <3>1. tasks' = tasks \union {[pc |-> "llm", turn |-> upPump]} /\ out' = out
      BY <1>6, <2>3 DEF UpTrigger, Spawn
    <3>2. \A k \in Turns, p \in TurnPlaces : TurnAt(k, p)' =>
             \/ TurnAt(k, p) /\ (k = upPump => p # "upPump")
             \/ k = upPump /\ p = "llm"
      BY <2>1, <3>1, RecordTypes DEF TurnAt
    <3> QED
      BY <1>1, <2>1, <2>2, <3>1, <3>2, TurnPasses DEF TurnPlaces
  <2>4. CASE ~configured
    <3>1. Write(Reply(upPump, 0)) /\ UNCHANGED tasks
      BY <1>6, <2>4 DEF UpTrigger
    <3>2. Range(out') = Range(out) \union {Reply(upPump, 0)}
      BY <2>1, <3>1, RecordTypes, WriteAppends
    <3>3. \A k \in Turns, p \in TurnPlaces : TurnAt(k, p)' =>
             \/ TurnAt(k, p) /\ (k = upPump => p # "upPump")
             \/ k = upPump /\ p = "reply"
      BY <2>1, <3>1, <3>2, RecordTypes, MessagesDiffer DEF TurnAt
    <3> QED
      BY <1>1, <2>1, <3>2, <3>3, TurnPasses DEF TurnPlaces
  <2> QED
    BY <2>3, <2>4
<1>7. CASE AsrForward
  <2> DEFINE k0 == Head(asrQueue)
  <2>1. /\ k0 \in Turns /\ IsInjective(asrQueue') /\ k0 \notin Range(asrQueue')
        /\ Range(asrQueue) = Range(asrQueue') \union {k0}
        /\ live /\ asrPump = 0 /\ UNCHANGED <<asked, upQueue, upPump, tasks, calls>>
    BY <1>1, <1>7, Taken DEF AsrForward
  <2>2. TurnAt(k0, "asr")
    BY <2>1 DEF TurnAt
  <2>3. CASE asrPump' = k0 /\ Write(Final(k0))
    <3>1. Range(out') = Range(out) \union {Final(k0)}
      BY <2>1, <2>3, RecordTypes, WriteAppends
    <3> HIDE DEF k0
    <3>2. \A k \in Turns, p \in TurnPlaces : TurnAt(k, p)' =>
             \/ TurnAt(k, p) /\ (k = k0 => p # "asr")
             \/ k = k0 /\ p = "asrPump"
      BY <2>1, <2>3, <3>1, MessagesDiffer DEF TurnAt
    <3> QED
      BY <1>1, <2>1, <2>2, <3>1, <3>2, TurnPasses DEF TurnPlaces
  <2>4. CASE UNCHANGED <<asrPump, out>>
    <3>1. \A k \in Turns, p \in TurnPlaces : TurnAt(k, p)' => TurnAt(k, p)
      BY <2>1, <2>4 DEF TurnAt
    <3> QED
      BY <1>1, <2>1, <2>4, <3>1, TurnsStay
  <2> QED
    BY <1>7, <2>3, <2>4 DEF AsrForward
<1>8. CASE AsrTrigger
  <2>1. /\ asrPump \in Turns /\ TurnAt(asrPump, "asrPump") /\ asrPump' = 0 /\ live
        /\ UNCHANGED <<asked, upQueue, asrQueue, upPump, calls>>
    BY <1>8, WorkerAssumption DEF AsrTrigger, TurnAt, Turns, inputs
  <2>2. Final(asrPump) \in Range(out)
    BY <2>1 DEF TurnsInOnePlace
  <2>3. CASE UNCHANGED <<tasks, out>>
    <3>1. \A k \in Turns, p \in TurnPlaces : TurnAt(k, p)' => TurnAt(k, p)
      BY <2>1, <2>3, RecordTypes DEF TurnAt
    <3> QED
      BY <1>1, <2>1, <2>3, <3>1, TurnsStay
  <2>4. CASE Spawn([pc |-> "llm", turn |-> asrPump]) /\ UNCHANGED out
    <3>1. tasks' = tasks \union {[pc |-> "llm", turn |-> asrPump]} /\ out' = out
      BY <2>4 DEF Spawn
    <3>2. \A k \in Turns, p \in TurnPlaces : TurnAt(k, p)' =>
             \/ TurnAt(k, p) /\ (k = asrPump => p # "asrPump")
             \/ k = asrPump /\ p = "llm"
      BY <2>1, <3>1, RecordTypes DEF TurnAt
    <3> QED
      BY <1>1, <2>1, <2>2, <3>1, <3>2, TurnPasses DEF TurnPlaces
  <2>5. CASE Write(Reply(asrPump, 0)) /\ UNCHANGED tasks
    <3>1. Range(out') = Range(out) \union {Reply(asrPump, 0)}
      BY <2>1, <2>5, RecordTypes, WriteAppends
    <3>2. \A k \in Turns, p \in TurnPlaces : TurnAt(k, p)' =>
             \/ TurnAt(k, p) /\ (k = asrPump => p # "asrPump")
             \/ k = asrPump /\ p = "reply"
      BY <2>1, <2>5, <3>1, RecordTypes, MessagesDiffer DEF TurnAt
    <3> QED
      BY <1>1, <2>1, <3>1, <3>2, TurnPasses DEF TurnPlaces
  <2> QED
    BY <1>8, <2>3, <2>4, <2>5 DEF AsrTrigger
<1>9. ASSUME NEW t \in tasks, FirstReply(t)
      PROVE  TurnsInOnePlace'
  <2>1. /\ t \in [pc : {"llm"}, turn : Turns] /\ TurnAt(t.turn, "llm")
        /\ UNCHANGED <<asked, upQueue, asrQueue, upPump, asrPump, calls>>
    BY <1>9 DEF FirstReply, Task, TurnAt, Base, inputs
  <2>2. \A u \in tasks' : u.pc = "llm" => u \in tasks /\ u.turn # t.turn
    <3>1. \A u \in tasks' : u.pc = "llm" => u \in tasks /\ u # t
      BY <1>9 DEF FirstReply, Become
    <3>2. \A u \in tasks : u.pc = "llm" => u \in [pc : {"llm"}, turn : Turns]
      BY DEF Task
    <3> QED
      BY <2>1, <3>1, <3>2, SMTT(30)
  <2>3. Range(out') \subseteq Range(out) \union {Reply(t.turn, 0)} /\ Range(out) \subseteq Range(out')
    BY <1>9, <2>1, RecordTypes, WriteAppends DEF FirstReply
  <2>4. \A k \in Turns, p \in TurnPlaces : TurnAt(k, p)' =>
           \/ TurnAt(k, p) /\ (k = t.turn => p # "llm")
           \/ k = t.turn /\ p = "reply"
    BY <2>1, <2>2, <2>3, MessagesDiffer DEF TurnAt
  <2> QED
    BY <1>1, <2>1, <2>3, <2>4, TurnPasses DEF TurnPlaces
<1>10. ASSUME NEW t \in tasks, FirstCalls(t)
       PROVE  TurnsInOnePlace'
  <2>1. /\ t \in [pc : {"llm"}, turn : Turns] /\ TurnAt(t.turn, "llm")
        /\ UNCHANGED <<asked, upQueue, asrQueue, upPump, asrPump, out>>
    BY <1>10 DEF FirstCalls, Task, TurnAt, Base, inputs
  <2>2. PICK m \in 1..(MaxCalls - Len(calls)) : \E v \in [1..m -> BOOLEAN] :
          /\ calls' = calls \o [i \in 1..m |-> [turn |-> t.turn, valid |-> v[i]]]
          /\ Become(t, {[pc |-> "remember", turn |-> t.turn,
                         next |-> Len(calls) + 1, last |-> Len(calls) + m]})
    BY <1>10 DEF FirstCalls
  <2>3. PICK v \in [1..m -> BOOLEAN] :
          /\ calls' = calls \o [i \in 1..m |-> [turn |-> t.turn, valid |-> v[i]]]
          /\ Become(t, {[pc |-> "remember", turn |-> t.turn,
                         next |-> Len(calls) + 1, last |-> Len(calls) + m]})
    BY <2>2
  <2>4. \A n \in DOMAIN calls' : calls'[n].turn = t.turn \/ (n \in DOMAIN calls /\ calls'[n] = calls[n])
    BY <1>1, <2>1, <2>3, CallsAdded, SMTT(30)
  <2>5. \A u \in tasks' : u.pc = "llm" => u \in tasks /\ u.turn # t.turn
    <3>1. \A u \in tasks' : u.pc = "llm" => u \in tasks /\ u # t
      BY <2>3 DEF Become
    <3>2. \A u \in tasks : u.pc = "llm" => u \in [pc : {"llm"}, turn : Turns]
      BY DEF Task
    <3> QED
      BY <2>1, <3>1, <3>2
  <2>6. \A k \in Turns, p \in TurnPlaces : TurnAt(k, p)' =>
           \/ TurnAt(k, p) /\ (k = t.turn => p # "llm")
           \/ k = t.turn /\ p = "calls"
    BY <2>1, <2>4, <2>5 DEF TurnAt
  <2>7. Final(t.turn) \in Range(out)
    BY <2>1 DEF TurnsInOnePlace
  <2> QED
    BY <1>1, <2>1, <2>6, <2>7, TurnPasses DEF TurnPlaces
<1>11. ASSUME NEW t \in tasks, Remember(t) \/ Pop(t)
       PROVE  TurnsInOnePlace'
  <2>1. \A u \in tasks' : u.pc = "llm" => u \in tasks
    <3>1. Remember(t) => t \in [pc : {"remember", "command"}, turn : Turns, next : Calls, last : Calls]
      BY DEF Remember, Task
    <3> QED
      BY <1>11, <3>1 DEF Remember, Pop, Become
  <2>2. \A k \in Turns, p \in TurnPlaces : TurnAt(k, p)' => TurnAt(k, p)
    BY <1>11, <2>1 DEF Remember, Pop, TurnAt, Base, inputs
  <2> QED
    BY <1>1, <1>11, <2>2, TurnsStay DEF Remember, Pop, Base, inputs
<1>12. ASSUME NEW t \in tasks, Issue(t)
       PROVE  TurnsInOnePlace'
  <2>1. t \in [pc : {"remember", "command"}, turn : Turns, next : Calls, last : Calls]
    BY <1>12 DEF Issue, Task
  <2>2. \A u \in tasks' : u.pc = "llm" => u \in tasks
    BY <1>12, <2>1 DEF Issue, Become
  <2>3. Range(out) \subseteq Range(out') /\ Range(out') \subseteq Range(out) \union {Command(t.next)}
    BY <1>12, <2>1, RecordTypes, WriteAppends DEF Issue
  <2>4. \A k \in Turns, p \in TurnPlaces : TurnAt(k, p)' => TurnAt(k, p)
    BY <1>12, <2>1, <2>2, <2>3, MessagesDiffer DEF Issue, TurnAt, Base, inputs
  <2> QED
    BY <1>1, <1>12, <2>3, <2>4, TurnsStay DEF Issue, Base, inputs
<1>13. ASSUME NEW t \in tasks, SecondReply(t)
       PROVE  TurnsInOnePlace'
  <2> DEFINE r == Reply(calls[t.call].turn, t.call)
  <2>1. t.call \in Calls /\ t.call # 0 /\ CallAt(t.call, "second")
    BY <1>13, RecordTypes DEF SecondReply, Task, CallAt
  <2>2. calls[t.call].turn \in Turns
    <3>1. t.call \in DOMAIN calls
      BY <2>1 DEF CallsInOnePlace, CallPlaces
    <3>2. calls[t.call] \in [turn : Turns, valid : BOOLEAN]
      BY <1>1, <3>1, ElementOfSeq
    <3> QED
      BY <3>2
  <2>3. \A u \in tasks' : u.pc = "llm" => u \in tasks
    BY <1>13 DEF SecondReply, Become
  <2>4. Write(r)
    BY <1>13 DEF SecondReply
  <2>5. Range(out) \subseteq Range(out') /\ Range(out') \subseteq Range(out) \union {r}
    BY <2>1, <2>2, <2>4, RecordTypes, WriteAppends
  <2>6. \A k \in Turns : r # Reply(k, 0) /\ r # Final(k)
    <3>1. \A k, l \in Turns, m, n \in {0} \union Calls : Reply(k, m) = Reply(l, n) => m = n
      BY MessagesDiffer
    <3>2. \A k, l \in Turns, n \in {0} \union Calls : Final(k) # Reply(l, n)
      BY MessagesDiffer
    <3> QED
      BY <2>1, <2>2, <3>1, <3>2
  <2> HIDE DEF r
  <2>7. \A k \in Turns, p \in TurnPlaces : TurnAt(k, p)' => TurnAt(k, p)
    BY <1>13, <2>3, <2>5, <2>6 DEF SecondReply, TurnAt, Base, inputs
  <2> QED
    BY <1>1, <1>13, <2>5, <2>7, TurnsStay DEF SecondReply, Base, inputs
<1>14. ASSUME NEW t \in tasks, Synthesize(t)
       PROVE  TurnsInOnePlace'
  <2>1. t.turn \in Turns /\ t.call \in {0} \union Calls
    BY <1>14 DEF Synthesize, Task
  <2>2. Range(out) \subseteq Range(out') /\ Range(out') \subseteq Range(out) \union {Audio(t.turn, t.call)}
    BY <1>14, <2>1, RecordTypes, WriteAppends DEF Synthesize
  <2>3. \A k \in Turns, p \in TurnPlaces : TurnAt(k, p)' => TurnAt(k, p)
    BY <1>14, <2>1, <2>2, MessagesDiffer, ZenonT(40) DEF Synthesize, Become, TurnAt, Base, inputs
  <2> QED
    BY <1>1, <1>14, <2>2, <2>3, TurnsStay DEF Synthesize, Base, inputs
<1>15. CASE UNCHANGED vars
  BY <1>15 DEF vars, inputs, TurnsInOnePlace, TurnAt
<1> QED
  BY <1>2, <1>3, <1>4, <1>5, <1>6, <1>7, <1>8, <1>9, <1>10, <1>11, <1>12, <1>13, <1>14, <1>15
     DEF Next, UpSteps, AsrSteps, TaskStep

-----------------------------------------------------------------------------

\* What Safety says of calls, with what depends on it.
CallSafety == CallsInOnePlace /\ LoopsApart /\ Remembered /\ SpokenWasReplied /\ TruthfulHistory

\* A step that neither moves a call nor writes of one keeps what holds of calls.
LEMMA CallsStay ==
    ASSUME CallSafety, tasks \subseteq Task, live' => live, calls' = calls, pending' = pending,
           \A n \in Calls : CommandResult(n) \in Range(upQueue)' <=> CommandResult(n) \in Range(upQueue),
           \A t \in tasks \union tasks' :
               t.pc \in {"remember", "command", "pop", "second"} => t \in tasks /\ t \in tasks',
           \A t \in tasks' : t.pc = "tts" /\ live' =>
               t \in tasks \/ Reply(t.turn, t.call) \in Range(out)',
           Range(out) \subseteq Range(out)',
           \A n \in Calls : Command(n) \in Range(out)' => Command(n) \in Range(out),
           \A n \in Calls, k \in Turns : Reply(k, n) \in Range(out)' => Reply(k, n) \in Range(out)
    PROVE  CallSafety'
<1> USE DEF CallSafety
<1>1. \A n \in Calls, p \in CallPlaces : CallAt(n, p)' <=> CallAt(n, p)
  BY DEF CallAt
<1>2. CallsInOnePlace'
  BY <1>1 DEF CallsInOnePlace
<1>3. LoopsApart'
  <2>1. \A t \in tasks' : Looping(t) => t \in tasks
    BY DEF Looping
  <2>2. \A t \in tasks : Looping(t) => t.next \in Calls /\ t.last \in Calls
    BY DEF Looping, Task
  <2>3. \A t \in tasks : Looping(t) => \A n \in t.next..t.last : n \in Calls
    BY <2>2, WorkerAssumption DEF Calls
  <2> QED
    BY <2>1, <2>3 DEF LoopsApart, Looping
<1>4. Remembered'
  BY <1>1 DEF Remembered, CallPlaces
<1>5. SpokenWasReplied'
  BY DEF SpokenWasReplied
<1>6. TruthfulHistory'
  BY DEF TruthfulHistory
<1> QED
  BY <1>2, <1>3, <1>4, <1>5, <1>6

\* A step that takes one call from where it is, if anywhere, to another place
\* keeps the calls in one place.
LEMMA CallMoves ==
    ASSUME CallsInOnePlace, calls' = calls,
           NEW n0 \in Calls, NEW p0 \in CallPlaces, Command(n0) \in Range(out),
           \A n \in Calls : Command(n) \in Range(out)' <=> Command(n) \in Range(out),
           \A n \in Calls, k \in Turns : Reply(k, n) \in Range(out)' =>
               Reply(k, n) \in Range(out) \/ (n = n0 /\ k = calls[n0].turn),
           \A n \in Calls, p \in CallPlaces : CallAt(n, p)' =>
               \/ CallAt(n, p) /\ n # n0
               \/ n = n0 /\ p = p0
    PROVE  CallsInOnePlace'
<1>1. \A n \in Calls : \A p, q \in CallPlaces : CallAt(n, p)' /\ CallAt(n, q)' => p = q
  BY DEF CallsInOnePlace
<1>2. \A n \in Calls : \A p \in CallPlaces : CallAt(n, p)' => Command(n) \in Range(out)'
  BY DEF CallsInOnePlace
<1>3. \A n \in Calls : Command(n) \in Range(out)' => n \in DOMAIN calls'
  BY DEF CallsInOnePlace
<1>4. \A n \in Calls, k \in Turns : Reply(k, n) \in Range(out)' => calls'[n].turn = k
  BY DEF CallsInOnePlace
<1> QED
  BY <1>1, <1>2, <1>3, <1>4 DEF CallsInOnePlace

\* An asr_final, a first reply and speech say nothing of a call.
LEMMA NotOfACall ==
    ASSUME NEW k \in Turns, NEW c \in {0} \union Calls,
           Range(out) \subseteq Range(out)',
           \/ Range(out)' \subseteq Range(out) \union {Final(k)}
           \/ Range(out)' \subseteq Range(out) \union {Reply(k, 0)}
           \/ Range(out)' \subseteq Range(out) \union {Audio(k, c)}
    PROVE  /\ \A n \in Calls : Command(n) \in Range(out)' => Command(n) \in Range(out)
           /\ \A n \in Calls, l \in Turns : Reply(l, n) \in Range(out)' => Reply(l, n) \in Range(out)
<1>1. /\ 0 \in {0} \union Calls /\ 0 \notin Calls /\ Calls \subseteq {0} \union Calls
  BY RecordTypes
<1>2. \A n \in Calls : Command(n) # Final(k) /\ Command(n) # Reply(k, 0) /\ Command(n) # Audio(k, c)
  BY DEF Command, Final, Reply, Audio
<1>3. \A n \in Calls, l \in Turns : /\ Reply(l, n) # Final(k) /\ Reply(l, n) # Reply(k, 0)
                                    /\ Reply(l, n) # Audio(k, c)
  BY <1>1 DEF Final, Reply, Audio
<1> QED
  BY <1>2, <1>3

\* Every step keeps what holds of calls.
LEMMA CallStep ==
    ASSUME TypeOK, TurnsInOnePlace, CallSafety, [Next]_vars
    PROVE  CallSafety'
<1> USE DEF TypeOK
<1>1. /\ Len(calls) \in Nat /\ DOMAIN calls = 1..Len(calls) /\ DOMAIN calls \subseteq Calls
      /\ IsInjective(upQueue) /\ IsInjective(asrQueue)
      /\ CallsInOnePlace /\ LoopsApart /\ Remembered /\ SpokenWasReplied /\ TruthfulHistory
  BY LenProperties, WorkerAssumption DEF Calls, TurnsInOnePlace, CallSafety
<1>2. ASSUME NEW kind \in {"text", "empty", "voice"}, Ask(kind)
      PROVE  CallSafety'
  <2> DEFINE k0 == Len(asked) + 1
             f == IF kind = "voice" THEN SegmentEnd(k0) ELSE TextInput(k0)
  <2>1. k0 \in Turns
    BY <1>2, LenProperties, WorkerAssumption DEF Ask, Turns
  <2>2. upQueue' = Append(upQueue, f) /\ f \in UpFrame /\ UNCHANGED <<live, tasks, calls, pending, out>>
    BY <1>2, <2>1, RecordTypes DEF Ask
  <2>3. Range(upQueue') = Range(upQueue) \union {f}
    BY <2>2, Appended
  <2>4. \A n \in Calls : f # CommandResult(n)
    BY <2>1, MessagesDiffer
  <2> HIDE DEF f
  <2> QED
    BY <2>2, <2>3, <2>4, CallsStay
<1>3. ASSUME NEW n0 \in DOMAIN calls, ServerResult(n0)
      PROVE  CallSafety'
  <2>1. /\ upQueue' = Append(upQueue, CommandResult(n0)) /\ n0 \in Calls /\ live
        /\ Command(n0) \in Range(out)
        /\ UNCHANGED <<live, tasks, calls, pending, out>>
    BY <1>1, <1>3 DEF ServerResult
  <2>2. Range(upQueue') = Range(upQueue) \union {CommandResult(n0)}
    BY <2>1, RecordTypes, Appended
  <2>3. \A p \in CallPlaces : ~CallAt(n0, p)
    BY <1>1, <1>3, <2>1 DEF ServerResult, Answered, CallAt, CallsInOnePlace
  <2>4. \A n \in Calls, p \in CallPlaces :
          CallAt(n, p)' <=> CallAt(n, p) \/ (n = n0 /\ p = "result")
    BY <2>1, <2>2, MessagesDiffer DEF CallAt, CallPlaces
  <2>5. CallsInOnePlace'
    <3>1. \A n \in Calls, p \in CallPlaces : CallAt(n, p)' =>
            (CallAt(n, p) /\ n # n0) \/ (n = n0 /\ p = "result")
      BY <2>3, <2>4
    <3>2. "result" \in CallPlaces
      BY DEF CallPlaces
    <3> QED
      BY <1>1, <2>1, <3>1, <3>2, CallMoves
  <2>6. n0 \in pending
    BY <1>1, <2>1, <2>3 DEF Remembered
  <2>7. Remembered'
    BY <1>1, <2>1, <2>4, <2>6 DEF Remembered, CallPlaces
  <2> QED
    BY <1>1, <2>1, <2>5, <2>7 DEF CallSafety, LoopsApart, SpokenWasReplied, TruthfulHistory
<1>4. CASE SessionDone
  BY <1>1, <1>4, CallsStay DEF SessionDone, inputs
<1>5. CASE UpHandle
  <2> DEFINE m == Head(upQueue)
  <2>1. /\ m \in UpFrame /\ m \notin Range(upQueue')
        /\ Range(upQueue) = Range(upQueue') \union {m}
        /\ live /\ UNCHANGED <<live, calls, pending>>
    BY <1>1, <1>5, Taken DEF UpHandle
  <2>2. CASE m.type = "end"
    <3>1. UNCHANGED <<tasks, out>>
      BY <1>5, <2>2 DEF UpHandle
    <3>2. \A n \in Calls : m # CommandResult(n)
      BY <2>2 DEF CommandResult
    <3> QED
      BY <2>1, <3>1, <3>2, CallsStay
  <2>3. CASE m.type = "device_command_result"
    <3>1. PICK n0 \in Calls : m.call = n0 /\ m = CommandResult(n0) /\ CallAt(n0, "result")
      BY <2>1, <2>3 DEF UpFrame, CommandResult, CallAt
    <3>2. tasks' = tasks \union {[pc |-> "pop", call |-> n0]} /\ out' = out
      BY <1>5, <2>3, <3>1 DEF UpHandle, Spawn
    <3>3. \A n \in Calls, p \in CallPlaces :
            CallAt(n, p)' <=> (CallAt(n, p) /\ ~(n = n0 /\ p = "result")) \/ (n = n0 /\ p = "pop")
      <4>1. \A n \in Calls : CommandResult(n) \in Range(upQueue') <=>
                               CommandResult(n) \in Range(upQueue) /\ n # n0
        BY <2>1, <3>1, MessagesDiffer
      <4> DEFINE u == [pc |-> "pop", call |-> n0]
      <4>2. u.pc = "pop" /\ u.call = n0 /\ tasks' = tasks \union {u}
        BY <3>2
      <4> HIDE DEF m, u
      <4> QED
        BY <3>2, <4>1, <4>2 DEF CallAt, CallPlaces
    <3>4. Command(n0) \in Range(out) /\ n0 \in pending
      BY <1>1, <3>1 DEF CallsInOnePlace, CallPlaces, Remembered
    <3>5. \A n \in Calls, p \in CallPlaces : CallAt(n, p)' =>
            (CallAt(n, p) /\ n # n0) \/ (n = n0 /\ p = "pop")
      BY <1>1, <3>1, <3>3 DEF CallsInOnePlace, CallPlaces
    <3>6. CallsInOnePlace'
      BY <1>1, <2>1, <3>2, <3>4, <3>5, CallMoves DEF CallPlaces
    <3>7. Remembered'
      BY <1>1, <2>1, <3>2, <3>3, <3>4 DEF Remembered, CallPlaces
    <3> QED
      BY <1>1, <2>1, <3>2, <3>6, <3>7 DEF CallSafety, LoopsApart, Looping, SpokenWasReplied, TruthfulHistory
  <2>4. CASE m.type = "text_input"
    <3>1. PICK k0 \in Turns : m.turn = k0
      BY <2>1, <2>4 DEF UpFrame
    <3>2. tasks' = tasks /\ (Write(Reply(k0, 0)) \/ Write(Final(k0)))
      BY <1>5, <2>4, <3>1 DEF UpHandle
    <3>3. Range(out') = Range(out) \union {Reply(k0, 0)} \/ Range(out') = Range(out) \union {Final(k0)}
      BY <2>1, <3>2, RecordTypes, WriteAppends
    <3>4. \A n \in Calls : m # CommandResult(n)
      BY <2>4 DEF CommandResult
    <3>5. /\ \A n \in Calls : Command(n) \in Range(out)' => Command(n) \in Range(out)
          /\ \A n \in Calls, l \in Turns : Reply(l, n) \in Range(out)' => Reply(l, n) \in Range(out)
      BY <3>3, NotOfACall
    <3> HIDE DEF m
    <3> QED
      BY <2>1, <3>2, <3>3, <3>4, <3>5, CallsStay
  <2>5. m.type \in {"end", "device_command_result", "text_input"}
    BY <2>1 DEF UpFrame
  <2> QED
    BY <2>2, <2>3, <2>4, <2>5
<1>6. CASE UpTrigger
  <2>1. upPump \in Turns /\ live /\ UNCHANGED <<live, upQueue, calls, pending>>
    BY <1>6, WorkerAssumption DEF UpTrigger, Turns, inputs
  <2>2. \/ tasks' = tasks \union {[pc |-> "llm", turn |-> upPump]} /\ out' = out
        \/ Write(Reply(upPump, 0)) /\ tasks' = tasks
    BY <1>6 DEF UpTrigger, Spawn
  <2>3. Range(out') = Range(out) \/ Range(out') = Range(out) \union {Reply(upPump, 0)}
    BY <2>1, <2>2, RecordTypes, WriteAppends
  <2>4. /\ \A n \in Calls : Command(n) \in Range(out)' => Command(n) \in Range(out)
        /\ \A n \in Calls, l \in Turns : Reply(l, n) \in Range(out)' => Reply(l, n) \in Range(out)
    BY <2>1, <2>3, NotOfACall
  <2> QED
    BY <2>1, <2>2, <2>3, <2>4, CallsStay
<1>7. CASE AsrForward
  <2>1. PICK k0 \in Turns : k0 = Head(asrQueue)
    BY <1>7, Taken DEF AsrForward
  <2>2. (live /\ Write(Final(k0))) \/ UNCHANGED out
    BY <1>7, <2>1 DEF AsrForward
  <2>3. UNCHANGED <<live, upQueue, tasks, calls, pending>>
    BY <1>7 DEF AsrForward
  <2>4. Range(out') = Range(out) \/ Range(out') = Range(out) \union {Final(k0)}
    BY <2>2, RecordTypes, WriteAppends
  <2> QED
    BY <2>3, <2>4, RecordTypes, MessagesDiffer, CallsStay
<1>8. CASE AsrTrigger
  <2>1. asrPump \in Turns /\ live /\ UNCHANGED <<live, upQueue, calls, pending>>
    BY <1>8, WorkerAssumption DEF AsrTrigger, Turns, inputs
  <2>2. \/ UNCHANGED <<tasks, out>>
        \/ tasks' = tasks \union {[pc |-> "llm", turn |-> asrPump]} /\ out' = out
        \/ Write(Reply(asrPump, 0)) /\ tasks' = tasks
    BY <1>8 DEF AsrTrigger, Spawn
  <2>3. Range(out') = Range(out) \/ Range(out') = Range(out) \union {Reply(asrPump, 0)}
    BY <2>1, <2>2, RecordTypes, WriteAppends
  <2>4. /\ \A n \in Calls : Command(n) \in Range(out)' => Command(n) \in Range(out)
        /\ \A n \in Calls, l \in Turns : Reply(l, n) \in Range(out)' => Reply(l, n) \in Range(out)
    BY <2>1, <2>3, NotOfACall
  <2> QED
    BY <2>1, <2>2, <2>3, <2>4, CallsStay
<1>9. ASSUME NEW t \in tasks, FirstReply(t)
      PROVE  CallSafety'
  <2>1. PICK k0 \in Turns : t.turn = k0 /\ t.pc = "llm"
    BY <1>9 DEF FirstReply, Task
  <2>2. /\ Write(Reply(k0, 0)) /\ UNCHANGED <<live, upQueue, calls, pending>>
        /\ \/ tasks' = tasks \ {t}
           \/ tasks' = (tasks \ {t}) \union {[pc |-> "tts", turn |-> k0, call |-> 0]}
    BY <1>9, <2>1 DEF FirstReply, Become, Base, inputs
  <2>3. /\ live => Reply(k0, 0) \in Range(out')
        /\ Range(out) \subseteq Range(out') /\ Range(out') \subseteq Range(out) \union {Reply(k0, 0)}
    BY <2>2, RecordTypes, WriteAppends
  <2>4. /\ \A n \in Calls : Command(n) \in Range(out)' => Command(n) \in Range(out)
        /\ \A n \in Calls, l \in Turns : Reply(l, n) \in Range(out)' => Reply(l, n) \in Range(out)
    BY <2>1, <2>3, NotOfACall
  <2> QED
    BY <2>1, <2>2, <2>3, <2>4, CallsStay
<1>10. ASSUME NEW t \in tasks, FirstCalls(t)
       PROVE  CallSafety'
  <2>1. PICK m \in 1..(MaxCalls - Len(calls)) : \E v \in [1..m -> BOOLEAN] :
          /\ calls' = calls \o [i \in 1..m |-> [turn |-> t.turn, valid |-> v[i]]]
          /\ Become(t, {[pc |-> "remember", turn |-> t.turn,
                         next |-> Len(calls) + 1, last |-> Len(calls) + m]})
    BY <1>10 DEF FirstCalls
  <2> DEFINE u == [pc |-> "remember", turn |-> t.turn,
                   next |-> Len(calls) + 1, last |-> Len(calls) + m]
  <2>2. /\ DOMAIN calls' = 1..(Len(calls) + m)
        /\ \A n \in DOMAIN calls : n \in DOMAIN calls' /\ calls'[n] = calls[n]
    <3>0. t.pc = "llm"
      BY <1>10 DEF FirstCalls
    <3>1. t.turn \in Turns /\ m \in Nat
      <4>1. t.turn \in Turns
        BY <3>0 DEF Task
      <4>2. m \in Nat
        BY <1>1, WorkerAssumption
      <4> QED
        BY <4>1, <4>2
    <3>2. /\ DOMAIN calls' = 1..(Len(calls) + m)
          /\ \A n \in DOMAIN calls' : n <= Len(calls) => calls'[n] = calls[n]
      BY <2>1, <3>1, CallsAdded
    <3> QED
      BY <1>1, <3>1, <3>2
  <2>3. tasks' = (tasks \ {t}) \union {u} /\ t.pc = "llm" /\ UNCHANGED <<live, upQueue, pending, out>>
    BY <1>10, <2>1 DEF Become, FirstCalls, Base, inputs
  <2>4. u.pc = "remember" /\ u.next = Len(calls) + 1 /\ u.last = Len(calls) + m
    OBVIOUS
  <2>5. m \in Nat \ {0} /\ \A n \in u.next..u.last : n \in Calls /\ n \notin DOMAIN calls
    BY <1>1, WorkerAssumption DEF Calls
  <2> HIDE DEF u
  <2>6. \A n \in Calls, p \in CallPlaces : CallAt(n, p)' <=> CallAt(n, p)
    BY <2>3, <2>4 DEF CallAt
  <2>7. CallsInOnePlace'
    <3>1. \A n \in Calls, k \in Turns : Reply(k, n) \in Range(out) => n \in DOMAIN calls
      BY <1>1 DEF CallsInOnePlace, CallAt, CallPlaces
    <3> QED
      BY <1>1, <2>2, <2>3, <2>6, <3>1 DEF CallsInOnePlace
  <2>8. LoopsApart'
    <3>1. /\ u.next <= u.last /\ u.last \in DOMAIN calls'
          /\ \A n \in u.next..u.last : Command(n) \notin Range(out')
      BY <1>1, <2>2, <2>3, <2>4, <2>5 DEF CallsInOnePlace
    <3>2. \A w \in tasks : Looping(w) => w.last < u.next
      BY <1>1, <2>4 DEF LoopsApart
    <3> QED
      BY <1>1, <2>2, <2>3, <3>1, <3>2 DEF LoopsApart, Looping
  <2> QED
    BY <1>1, <2>3, <2>4, <2>6, <2>7, <2>8
       DEF CallSafety, Remembered, SpokenWasReplied, TruthfulHistory, CallPlaces
<1>11. ASSUME NEW t \in tasks, Remember(t)
       PROVE  CallSafety'
  <2> DEFINE u == [t EXCEPT !.pc = "command"]
  <2>1. /\ t \in [pc : {"remember", "command"}, turn : Turns, next : Calls, last : Calls]
        /\ t.pc = "remember" /\ UNCHANGED <<live, upQueue, calls, out>>
        /\ pending' = pending \union {t.next} /\ tasks' = (tasks \ {t}) \union {u}
    BY <1>11 DEF Remember, Become, Task, Base, inputs
  <2>2. u.pc = "command" /\ u.next = t.next /\ u.last = t.last
    BY <2>1
  <2> HIDE DEF u
  <2>3. \A n \in Calls, p \in CallPlaces : CallAt(n, p)' <=> CallAt(n, p)
    BY <2>1, <2>2 DEF CallAt
  <2>4. CallsInOnePlace'
    BY <1>1, <2>1, <2>3 DEF CallsInOnePlace
  <2>5. LoopsApart'
    BY <1>1, <2>1, <2>2 DEF LoopsApart, Looping
  <2>6. Remembered'
    BY <1>1, <2>1, <2>2, <2>3 DEF Remembered, CallPlaces
  <2> QED
    BY <1>1, <2>1, <2>2, <2>4, <2>5, <2>6 DEF CallSafety, SpokenWasReplied, TruthfulHistory
<1>12. ASSUME NEW t \in tasks, Issue(t)
       PROVE  CallSafety'
  <2> DEFINE u == [t EXCEPT !.pc = "remember", !.next = @ + 1]
  <2>1. /\ t \in [pc : {"remember", "command"}, turn : Turns, next : Calls, last : Calls]
        /\ t.pc = "command" /\ UNCHANGED <<live, upQueue, calls, pending>>
        /\ tasks' = tasks \ {t} \/ (t.next # t.last /\ tasks' = (tasks \ {t}) \union {u})
    BY <1>12 DEF Issue, Become, Task, Base, inputs
  <2>2. u.pc = "remember" /\ u.next = t.next + 1 /\ u.last = t.last
    BY <2>1
  <2> HIDE DEF u
  <2>3. /\ Looping(t) /\ t.next \in Nat /\ t.last \in Nat /\ t.next <= t.last
        /\ t.next \in pending /\ t.next \in DOMAIN calls /\ t.last \in DOMAIN calls
        /\ t.next \in Calls /\ t.next \in t.next..t.last
    BY <1>1, <2>1, WorkerAssumption, SMTT(30) DEF LoopsApart, Looping, Remembered, Calls
  <2>4. Range(out) \subseteq Range(out') /\ Range(out') \subseteq Range(out) \union {Command(t.next)}
    BY <1>12, <2>1, RecordTypes, WriteAppends DEF Issue
  <2>5. /\ \A n \in Calls : Command(n) \in Range(out') => Command(n) \in Range(out) \/ n = t.next
        /\ \A n \in Calls, k \in Turns : Reply(k, n) \in Range(out') <=> Reply(k, n) \in Range(out)
    <3>1. \A n \in Calls : Command(n) = Command(t.next) => n = t.next
      BY <2>3, MessagesDiffer
    <3>2. \A n \in Calls, k \in Turns : Reply(k, n) # Command(t.next)
      BY DEF Reply, Command
    <3> QED
      BY <2>4, <3>1, <3>2
  <2>6. \A n \in Calls, p \in CallPlaces : CallAt(n, p)' <=> CallAt(n, p)
    BY <2>1, <2>2, <2>5 DEF CallAt
  <2>7. CallsInOnePlace'
    BY <1>1, <2>1, <2>3, <2>4, <2>5, <2>6 DEF CallsInOnePlace
  <2>8. LoopsApart'
    <3>1. \A w \in tasks : Looping(w) => w.next \in Calls /\ w.last \in Calls
      BY DEF Looping, Task
    <3>2. \A w \in tasks : Looping(w) /\ w # t =>
            \A n \in w.next..w.last : Command(n) \notin Range(out')
      <4>1. SUFFICES ASSUME NEW w \in tasks, Looping(w), w # t, NEW n \in w.next..w.last
                     PROVE  Command(n) \notin Range(out')
        OBVIOUS
      <4>2. n \in Calls
        BY <3>1, <4>1, WorkerAssumption DEF Calls
      <4>3. w.last < t.next \/ t.last < w.next
        BY <1>1, <2>3, <4>1 DEF LoopsApart
      <4>4. n # t.next
        BY <2>3, <3>1, <4>1, <4>2, <4>3, WorkerAssumption DEF Calls
      <4> QED
        BY <1>1, <2>5, <4>1, <4>2, <4>4 DEF LoopsApart
    <3>3. t.next # t.last => /\ u.next <= u.last
                             /\ \A n \in u.next..u.last : Command(n) \notin Range(out')
      <4>1. \A n \in u.next..u.last : n \in t.next..t.last /\ n # t.next /\ n \in Calls
        BY <2>1, <2>2, <2>3, WorkerAssumption DEF Calls
      <4>2. \A n \in t.next..t.last : Command(n) \notin Range(out)
        BY <1>1, <2>3 DEF LoopsApart
      <4> QED
        BY <2>2, <2>3, <2>5, <4>1, <4>2
    <3>4. \A w \in tasks : Looping(w) /\ w # t => w.last < u.next \/ u.last < w.next
      <4>1. \A w \in tasks : Looping(w) /\ w # t => w.last < t.next \/ t.last < w.next
        BY <1>1, <2>3 DEF LoopsApart
      <4>2. \A w \in tasks : Looping(w) => w.last \in Nat
        BY <3>1, WorkerAssumption DEF Calls
      <4> QED
        BY <2>2, <2>3, <4>1, <4>2
    <3> QED
      BY <1>1, <2>1, <2>2, <2>3, <3>2, <3>3, <3>4 DEF LoopsApart, Looping
  <2>9. Remembered'
    BY <1>1, <2>1, <2>2, <2>3, <2>5, <2>6 DEF Remembered, CallPlaces
  <2> QED
    BY <1>1, <2>1, <2>2, <2>4, <2>7, <2>8, <2>9 DEF CallSafety, SpokenWasReplied, TruthfulHistory
<1>13. ASSUME NEW t \in tasks, Pop(t)
       PROVE  CallSafety'
  <2>1. t \in [pc : {"pop"}, call : Calls] /\ CallAt(t.call, "pop")
    BY <1>13 DEF Pop, Task, CallAt
  <2>2. PICK n0 \in Calls : n0 = t.call
    BY <2>1
  <2> DEFINE u == [pc |-> "second", call |-> n0, replays |-> n0]
  <2>3. n0 \in pending /\ Command(n0) \in Range(out)
    BY <1>1, <2>1, <2>2 DEF Remembered, CallsInOnePlace, CallPlaces
  <2>4. /\ UNCHANGED <<live, upQueue, calls, out>> /\ pending' = pending \ {n0}
        /\ tasks' = (tasks \ {t}) \union {u}
    BY <1>13, <2>2, <2>3 DEF Pop, Become, Base, inputs
  <2>5. u.pc = "second" /\ u.call = n0 /\ u.replays = u.call /\ t.pc = "pop"
    BY <2>1
  <2>6. \A w \in tasks : w.pc = "pop" /\ w.call = n0 => w = t
    <3>1. \A w \in tasks : w.pc = "pop" => w \in [pc : {"pop"}, call : Calls]
      BY DEF Task
    <3> QED
      <4>1. \A a \in [pc : {"pop"}, call : Calls] : a = [pc |-> "pop", call |-> a.call]
        OBVIOUS
      <4> QED
        BY <2>1, <2>2, <3>1, <4>1
  <2> HIDE DEF u
  <2>7. \A n \in Calls, p \in CallPlaces :
          CallAt(n, p)' <=> (CallAt(n, p) /\ ~(n = n0 /\ p = "pop")) \/ (n = n0 /\ p = "second")
    BY <2>2, <2>4, <2>5, <2>6 DEF CallAt, CallPlaces
  <2>8. CallsInOnePlace'
    <3>1. \A n \in Calls, p \in CallPlaces : CallAt(n, p)' =>
            (CallAt(n, p) /\ n # n0) \/ (n = n0 /\ p = "second")
      BY <1>1, <2>1, <2>2, <2>7 DEF CallsInOnePlace, CallPlaces
    <3>2. "second" \in CallPlaces
      BY DEF CallPlaces
    <3> QED
      BY <1>1, <2>3, <2>4, <3>1, <3>2, CallMoves
  <2>9. Remembered'
    <3>1. \A w \in tasks : w.pc = "command" => w.next # n0
      <4>1. \A w \in tasks : w.pc = "command" => w.next \in Calls /\ w.last \in Calls
        BY DEF Task
      <4>2. \A w \in tasks : w.pc = "command" => w.next \in w.next..w.last
        BY <1>1, <4>1, WorkerAssumption DEF LoopsApart, Looping, Calls
      <4> QED
        BY <1>1, <2>3, <4>2 DEF LoopsApart, Looping
    <3>2. ~CallAt(n0, "result") /\ CallAt(n0, "second")'
      BY <1>1, <2>1, <2>2, <2>7 DEF CallsInOnePlace, CallPlaces
    <3> QED
      BY <1>1, <2>4, <2>5, <2>7, <3>1, <3>2 DEF Remembered, CallPlaces
  <2> QED
    BY <1>1, <2>4, <2>5, <2>8, <2>9
       DEF CallSafety, LoopsApart, Looping, SpokenWasReplied, TruthfulHistory
<1>14. ASSUME NEW t \in tasks, SecondReply(t)
       PROVE  CallSafety'
  <2>1. /\ t \in [pc : {"second"}, call : Calls, replays : {0} \union Calls]
        /\ t.replays = t.call /\ CallAt(t.call, "second")
    BY <1>1, <1>14 DEF SecondReply, Task, CallAt, TruthfulHistory
  <2>2. PICK n0 \in Calls : n0 = t.call
    BY <2>1
  <2>3. Command(n0) \in Range(out) /\ n0 \in DOMAIN calls
    BY <1>1, <2>1, <2>2 DEF CallsInOnePlace, CallPlaces
  <2>4. PICK k0 \in Turns : k0 = calls[n0].turn
    <3>1. calls[n0] \in [turn : Turns, valid : BOOLEAN]
      BY <1>1, <2>3, ElementOfSeq
    <3> QED
      BY <3>1
  <2> DEFINE u == [pc |-> "tts", turn |-> k0, call |-> n0]
  <2>5. /\ Write(Reply(k0, n0)) /\ UNCHANGED <<live, upQueue, calls, pending>>
        /\ tasks' = tasks \ {t} \/ tasks' = (tasks \ {t}) \union {u}
    BY <1>14, <2>2, <2>4 DEF SecondReply, Become, Base, inputs
  <2>6. u.pc = "tts" /\ u.turn = k0 /\ u.call = n0
    OBVIOUS
  <2> HIDE DEF u
  <2>7. /\ live => Reply(k0, n0) \in Range(out')
        /\ Range(out) \subseteq Range(out') /\ Range(out') \subseteq Range(out) \union {Reply(k0, n0)}
    <3>1. Reply(k0, n0) \in Event
      BY DEF Reply, Event
    <3> QED
      BY <2>5, <3>1, WriteAppends
  <2>8. /\ \A n \in Calls : Command(n) \in Range(out') <=> Command(n) \in Range(out)
        /\ \A n \in Calls, k \in Turns : Reply(k, n) \in Range(out') =>
             Reply(k, n) \in Range(out) \/ (n = n0 /\ k = k0)
    <3>1. \A n \in Calls : Command(n) # Reply(k0, n0)
      BY DEF Reply, Command
    <3>2. \A n \in Calls, k \in Turns : Reply(k, n) = Reply(k0, n0) => n = n0 /\ k = k0
      BY DEF Reply
    <3> QED
      BY <2>7, <3>1, <3>2
  <2>9. \A w \in tasks : w.pc = "second" /\ w.call = n0 => w = t
    <3>1. \A w \in tasks : w.pc = "second" =>
            /\ w \in [pc : {"second"}, call : Calls, replays : {0} \union Calls]
            /\ w.replays = w.call
      BY <1>1 DEF Task, TruthfulHistory
    <3> QED
      <4>1. \A a \in [pc : {"second"}, call : Calls, replays : {0} \union Calls] :
              a = [pc |-> "second", call |-> a.call, replays |-> a.replays]
        OBVIOUS
      <4> QED
        BY <2>1, <2>2, <3>1, <4>1
  <2>10. /\ \A n \in Calls, p \in CallPlaces : CallAt(n, p)' =>
              (CallAt(n, p) /\ ~(n = n0 /\ p = "second")) \/ (n = n0 /\ p = "reply")
         /\ \A n \in Calls, p \in CallPlaces : CallAt(n, p) => CallAt(n, p)' \/ (n = n0 /\ p = "second")
         /\ live => CallAt(n0, "reply")'
    <3>1. \A n : (\E w \in tasks' : w.pc = "pop" /\ w.call = n) <=>
                 \E w \in tasks : w.pc = "pop" /\ w.call = n
      BY <2>1, <2>5, <2>6
    <3>2. \A n : (\E w \in tasks' : w.pc = "second" /\ w.call = n) <=>
                 n # n0 /\ \E w \in tasks : w.pc = "second" /\ w.call = n
      BY <2>1, <2>2, <2>5, <2>6, <2>9
    <3>3. \A n \in Calls, k \in Turns : Reply(k, n) \in Range(out) => Reply(k, n) \in Range(out')
      BY <2>7
    <3>4. CallAt(n0, "reply")' <=> \E k \in Turns : Reply(k, n0) \in Range(out')
      BY DEF CallAt
    <3> QED
      BY <2>5, <2>7, <2>8, <3>1, <3>2, <3>3, <3>4 DEF CallAt, CallPlaces
  <2>11. CallsInOnePlace'
    <3>1. \A n \in Calls, p \in CallPlaces : CallAt(n, p)' =>
            (CallAt(n, p) /\ n # n0) \/ (n = n0 /\ p = "reply")
      BY <1>1, <2>1, <2>2, <2>10 DEF CallsInOnePlace, CallPlaces
    <3>2. "reply" \in CallPlaces
      BY DEF CallPlaces
    <3> QED
      BY <1>1, <2>3, <2>4, <2>5, <2>8, <3>1, <3>2, CallMoves
  <2>12. LoopsApart'
    <3>1. \A w \in tasks : Looping(w) => \A n \in w.next..w.last : n \in Calls
      BY WorkerAssumption DEF Looping, Task, Calls
    <3>2. \A w \in tasks' : Looping(w) => w \in tasks
      BY <2>5, <2>6 DEF Looping
    <3> QED
      BY <1>1, <2>5, <2>8, <3>1, <3>2 DEF LoopsApart
  <2>13. Remembered'
    BY <1>1, <2>5, <2>6, <2>8, <2>10 DEF Remembered, CallPlaces
  <2> QED
    BY <1>1, <2>5, <2>6, <2>7, <2>11, <2>12, <2>13 DEF CallSafety, SpokenWasReplied, TruthfulHistory
<1>15. ASSUME NEW t \in tasks, Synthesize(t)
       PROVE  CallSafety'
  <2>1. t.turn \in Turns /\ t.call \in {0} \union Calls /\ t.pc = "tts"
    BY <1>15 DEF Synthesize, Task
  <2>2. UNCHANGED <<live, upQueue, calls, pending>> /\ tasks' = tasks \ {t}
    BY <1>15 DEF Synthesize, Become, Base, inputs
  <2>3. Range(out) \subseteq Range(out') /\ Range(out') \subseteq Range(out) \union {Audio(t.turn, t.call)}
    BY <1>15, <2>1, RecordTypes, WriteAppends DEF Synthesize
  <2>4. /\ \A n \in Calls : Command(n) \in Range(out)' => Command(n) \in Range(out)
        /\ \A n \in Calls, l \in Turns : Reply(l, n) \in Range(out)' => Reply(l, n) \in Range(out)
    BY <2>1, <2>3, NotOfACall
  <2> QED
    BY <2>1, <2>2, <2>3, <2>4, CallsStay
<1>16. CASE UNCHANGED vars
  BY <1>1, <1>16, CallsStay DEF vars, inputs
<1> QED
  BY <1>2, <1>3, <1>4, <1>5, <1>6, <1>7, <1>8, <1>9, <1>10, <1>11, <1>12, <1>13, <1>14, <1>15,
     <1>16 DEF Next, UpSteps, AsrSteps, TaskStep

-----------------------------------------------------------------------------

\* What has been written before an entry is what is in the log when it is
\* written.
LEMMA BeforeTheEnd ==
    ASSUME out \in Seq(Event), NEW e \in Event, out' = Append(out, e),
           NEW l \in Nat, l = Len(out) + 1
    PROVE  /\ DOMAIN out' = DOMAIN out \union {l} /\ out'[l] = e
           /\ \A i \in DOMAIN out : out'[i] = out[i] /\ \A f : Before(f, i)' <=> Before(f, i)
           /\ \A f : Before(f, l)' <=> f \in Range(out)
<1>1. /\ Len(out) \in Nat /\ DOMAIN out = 1..Len(out) /\ DOMAIN out' = 1..(Len(out) + 1)
      /\ \A i \in DOMAIN out : out'[i] = out[i]
      /\ out'[l] = e
  BY Appended, LenProperties
<1>2. /\ \A i \in DOMAIN out : \A j \in 1..(i - 1) : j \in DOMAIN out
      /\ 1..(l - 1) = DOMAIN out
      /\ DOMAIN out' = DOMAIN out \union {l}
  BY <1>1
<1>3. \A f : \A i \in DOMAIN out : Before(f, i)' <=> Before(f, i)
  BY <1>1, <1>2 DEF Before
<1>4. ASSUME NEW f PROVE Before(f, l)' <=> f \in Range(out)
  <2>1. Before(f, l)' <=> \E j \in DOMAIN out : out[j] = f
    BY <1>1, <1>2 DEF Before
  <2> QED
    BY <2>1 DEF Range
<1> QED
  BY <1>1, <1>2, <1>3, <1>4

\* When nothing is written, the log stays in order if the turns that have been
\* replied to began as they did, and no calls are added to them.
LEMMA OrderStays ==
    ASSUME InTurnOrder, RepliesCounted, out' = out,
           \A i \in DOMAIN out : out[i].type = "reply" =>
               /\ asked'[out[i].turn] = asked[out[i].turn]
               /\ (\A n \in DOMAIN calls : calls[n].turn # out[i].turn) /\ out[i].call = 0 =>
                      \A n \in DOMAIN calls' : calls'[n].turn # out[i].turn
    PROVE  InTurnOrder' /\ RepliesCounted'
<1>1. \A f, i : Before(f, i)' <=> Before(f, i)
  BY DEF Before
<1> QED
  BY <1>1 DEF InTurnOrder, RepliesCounted

\* When something is written, it stays in order if that can come now.
LEMMA WriteInOrder ==
    ASSUME out \in Seq(Event), InTurnOrder, RepliesCounted, asked' = asked, calls' = calls,
           NEW e \in Event, Write(e),
           live /\ e.type = "reply" =>
               /\ asked[e.turn] # "empty" => Final(e.turn) \in Range(out)
               /\ e \notin Range(out)
               /\ IF e.call = 0 THEN \A n \in DOMAIN calls : calls[n].turn # e.turn
                                ELSE Command(e.call) \in Range(out),
           live /\ e.type = "tts_audio" => Reply(e.turn, e.call) \in Range(out)
    PROVE  InTurnOrder' /\ RepliesCounted'
<1>1. CASE ~live
  BY <1>1, OrderStays DEF Write
<1>2. CASE live
  <2>1. PICK l \in Nat : l = Len(out) + 1
    BY LenProperties
  <2>2. /\ DOMAIN out' = DOMAIN out \union {l} /\ out'[l] = e
        /\ \A i \in DOMAIN out : out'[i] = out[i] /\ \A f : Before(f, i)' <=> Before(f, i)
        /\ \A f : Before(f, l)' <=> f \in Range(out)
    BY <1>2, <2>1, BeforeTheEnd DEF Write
  <2>3. ASSUME NEW i \in DOMAIN out'
        PROVE  /\ out'[i].type = "reply" /\ asked'[out'[i].turn] # "empty" =>
                    Before(Final(out[i].turn), i)'
               /\ out'[i].type = "tts_audio" => Before(Reply(out[i].turn, out[i].call), i)'
               /\ out'[i].type = "reply" =>
                    /\ ~Before(out[i], i)'
                    /\ IF out'[i].call = 0 THEN \A n \in DOMAIN calls' : calls'[n].turn # out'[i].turn
                                           ELSE Before(Command(out[i].call), i)'
    <3>1. PICK f : f = out'[i]
      OBVIOUS
    <3>2. /\ Before(Final(out[i].turn), i)' <=> Before(Final(f.turn), i)'
          /\ Before(Reply(out[i].turn, out[i].call), i)' <=> Before(Reply(f.turn, f.call), i)'
          /\ Before(out[i], i)' <=> Before(f, i)'
          /\ Before(Command(out[i].call), i)' <=> Before(Command(f.call), i)'
      BY <3>1
    <3>3. CASE i \in DOMAIN out
      <4>1. out[i] = f
        BY <2>2, <3>1, <3>3
      <4>2. /\ f.type = "reply" /\ asked[f.turn] # "empty" => Before(Final(f.turn), i)
            /\ f.type = "tts_audio" => Before(Reply(f.turn, f.call), i)
            /\ f.type = "reply" =>
                 /\ ~Before(f, i)
                 /\ IF f.call = 0 THEN \A n \in DOMAIN calls : calls[n].turn # f.turn
                                  ELSE Before(Command(f.call), i)
        BY <3>3, <4>1 DEF InTurnOrder, RepliesCounted
      <4> QED
        BY <2>2, <3>1, <3>2, <3>3, <4>2
    <3>4. CASE i = l
      BY <1>2, <2>2, <3>1, <3>2, <3>4
    <3> QED
      BY <2>2, <3>3, <3>4
  <2> QED
    BY <2>3 DEF InTurnOrder, RepliesCounted
<1> QED
  BY <1>1, <1>2

\* Every step keeps what is written in order.
LEMMA OrderStep ==
    ASSUME TypeOK, TurnsInOnePlace, CallSafety, InTurnOrder, RepliesCounted, [Next]_vars
    PROVE  InTurnOrder' /\ RepliesCounted'
<1> USE DEF TypeOK
<1>1. /\ Len(calls) \in Nat /\ DOMAIN calls = 1..Len(calls) /\ DOMAIN calls \subseteq Calls
      /\ Len(asked) \in Nat /\ DOMAIN asked = 1..Len(asked)
      /\ CallsInOnePlace /\ SpokenWasReplied
  BY LenProperties, WorkerAssumption DEF Calls, CallSafety
<1>2. \A i \in DOMAIN out : out[i].type = "reply" =>
        /\ out[i].turn \in Turns /\ out[i].turn \in DOMAIN asked
        /\ out[i].call = 0 => TurnAt(out[i].turn, "reply")
  <2>1. SUFFICES ASSUME NEW i \in DOMAIN out, out[i].type = "reply"
                 PROVE  /\ out[i].turn \in Turns /\ out[i].turn \in DOMAIN asked
                        /\ out[i].call = 0 => TurnAt(out[i].turn, "reply")
    OBVIOUS
  <2>2. out[i] \in Event
    BY LenProperties, ElementOfSeq
  <2>3. PICK k \in Turns, n \in {0} \union Calls :
          out[i].turn = k /\ out[i].call = n /\ out[i] = Reply(k, n)
    BY <2>1, <2>2 DEF Event, Reply
  <2>4. Reply(k, n) \in Range(out)
    BY <2>3 DEF Range
  <2>5. CASE n = 0
    BY <2>3, <2>4, <2>5 DEF TurnAt, TurnsInOnePlace, TurnPlaces
  <2>6. CASE n \in Calls
    <3>1. CallAt(n, "reply")
      BY <2>4, <2>6 DEF CallAt
    <3>2. n \in DOMAIN calls /\ calls[n].turn = k
      BY <1>1, <2>4, <2>6, <3>1 DEF CallsInOnePlace, CallPlaces
    <3>3. TurnAt(k, "calls")
      BY <3>2 DEF TurnAt
    <3> QED
      BY <2>3, <2>6, <3>3, RecordTypes DEF TurnsInOnePlace, TurnPlaces
  <2> QED
    BY <2>5, <2>6
\* A turn that is where it can be answered from is answered in order.
<1>3. ASSUME NEW k \in Turns, NEW p \in {"text", "upPump", "asrPump", "llm"}, TurnAt(k, p),
             p = "text" => asked[k] = "empty",
             Write(Reply(k, 0)), UNCHANGED <<asked, calls>>
      PROVE  InTurnOrder' /\ RepliesCounted'
  <2>1. p \in TurnPlaces /\ p # "reply" /\ p # "calls"
    BY DEF TurnPlaces
  <2>2. ~TurnAt(k, "reply") /\ ~TurnAt(k, "calls")
    BY <1>3, <2>1 DEF TurnsInOnePlace, TurnPlaces
  <2>3. asked[k] # "empty" => Final(k) \in Range(out)
    BY <1>3 DEF TurnsInOnePlace
  <2>4. Reply(k, 0) \in Event /\ Reply(k, 0).turn = k /\ Reply(k, 0).call = 0 /\ Reply(k, 0).type = "reply"
    BY DEF Reply, Event
  <2>5. Reply(k, 0) \notin Range(out) /\ \A n \in DOMAIN calls : calls[n].turn # k
    BY <2>2 DEF TurnAt
  <2> QED
    BY <1>3, <2>3, <2>4, <2>5, WriteInOrder
<1>4. ASSUME NEW k \in Turns, Write(Final(k)), UNCHANGED <<asked, calls>>
      PROVE  InTurnOrder' /\ RepliesCounted'
  <2>1. Final(k) \in Event /\ Final(k).type = "asr_final"
    BY DEF Final, Event
  <2> QED
    BY <1>4, <2>1, WriteInOrder
<1>5. ASSUME UNCHANGED <<asked, calls, out>>
      PROVE  InTurnOrder' /\ RepliesCounted'
  BY <1>5, OrderStays
<1>6. ASSUME NEW kind \in {"text", "empty", "voice"}, Ask(kind)
      PROVE  InTurnOrder' /\ RepliesCounted'
  <2>1. asked' = Append(asked, kind) /\ UNCHANGED <<calls, out>>
    BY <1>6 DEF Ask
  <2>2. \A k \in DOMAIN asked : asked'[k] = asked[k]
    BY <2>1, Appended
  <2> QED
    BY <1>2, <2>1, <2>2, OrderStays
<1>7. ASSUME NEW n \in DOMAIN calls, ServerResult(n)
      PROVE  InTurnOrder' /\ RepliesCounted'
  BY <1>5, <1>7 DEF ServerResult
<1>8. CASE SessionDone
  BY <1>5, <1>8 DEF SessionDone, inputs
<1>9. CASE UpHandle
  <2> DEFINE m == Head(upQueue)
  <2>1. m \in UpFrame /\ m \in Range(upQueue) /\ UNCHANGED <<asked, calls>>
    BY <1>9, Taken DEF UpHandle
  <2>2. CASE m.type # "text_input"
    <3>1. m.type \in {"end", "device_command_result"}
      BY <2>1, <2>2 DEF UpFrame
    <3>2. UNCHANGED out
      BY <1>9, <3>1 DEF UpHandle
    <3> QED
      BY <1>5, <2>1, <3>2
  <2>3. CASE m.type = "text_input"
    <3>1. PICK k0 \in Turns : m.turn = k0 /\ m = TextInput(k0) /\ TurnAt(k0, "text")
      BY <2>1, <2>3 DEF UpFrame, TextInput, TurnAt
    <3>2. \/ asked[k0] = "empty" /\ Write(Reply(k0, 0))
          \/ Write(Final(k0))
      BY <1>9, <2>3, <3>1 DEF UpHandle
    <3> QED
      BY <1>3, <1>4, <2>1, <3>1, <3>2
  <2> QED
    BY <2>2, <2>3
<1>10. CASE UpTrigger
  <2>1. /\ upPump \in Turns /\ TurnAt(upPump, "upPump") /\ UNCHANGED <<asked, calls>>
        /\ UNCHANGED out \/ Write(Reply(upPump, 0))
    BY <1>10, WorkerAssumption DEF UpTrigger, TurnAt, Turns, inputs
  <2> QED
    BY <1>3, <1>5, <2>1
<1>11. CASE AsrForward
  <2>1. PICK k0 \in Turns : k0 = Head(asrQueue)
    BY <1>11, Taken DEF AsrForward
  <2>2. (UNCHANGED out \/ Write(Final(k0))) /\ UNCHANGED <<asked, calls>>
    BY <1>11, <2>1 DEF AsrForward
  <2> QED
    BY <1>4, <1>5, <2>2
<1>12. CASE AsrTrigger
  <2>1. /\ asrPump \in Turns /\ TurnAt(asrPump, "asrPump") /\ UNCHANGED <<asked, calls>>
        /\ UNCHANGED out \/ Write(Reply(asrPump, 0))
    BY <1>12, WorkerAssumption DEF AsrTrigger, TurnAt, Turns, inputs
  <2> QED
    BY <1>3, <1>5, <2>1
<1>13. ASSUME NEW t \in tasks, FirstReply(t)
       PROVE  InTurnOrder' /\ RepliesCounted'
  <2>1. t.turn \in Turns /\ TurnAt(t.turn, "llm")
    BY <1>13 DEF FirstReply, Task, TurnAt
  <2>2. Write(Reply(t.turn, 0)) /\ UNCHANGED <<asked, calls>>
    BY <1>13 DEF FirstReply, Base, inputs
  <2> QED
    BY <1>3, <2>1, <2>2
<1>14. ASSUME NEW t \in tasks, FirstCalls(t)
       PROVE  InTurnOrder' /\ RepliesCounted'
  <2>1. t.turn \in Turns /\ TurnAt(t.turn, "llm") /\ UNCHANGED <<asked, out>>
    BY <1>14 DEF FirstCalls, Task, TurnAt, Base, inputs
  <2>2. PICK m \in 1..(MaxCalls - Len(calls)) : \E v \in [1..m -> BOOLEAN] :
          calls' = calls \o [i \in 1..m |-> [turn |-> t.turn, valid |-> v[i]]]
    BY <1>14 DEF FirstCalls
  <2>3. m \in Nat
    BY <1>1, WorkerAssumption
  <2>4. \A n \in DOMAIN calls' : calls'[n].turn = t.turn \/ (n \in DOMAIN calls /\ calls'[n] = calls[n])
    BY <1>1, <2>1, <2>2, <2>3, CallsAdded
  <2>5. ~TurnAt(t.turn, "reply")
    BY <2>1 DEF TurnsInOnePlace, TurnPlaces
  <2> QED
    BY <1>2, <2>1, <2>4, <2>5, OrderStays
<1>15. ASSUME NEW t \in tasks, Remember(t) \/ Pop(t)
       PROVE  InTurnOrder' /\ RepliesCounted'
  BY <1>5, <1>15 DEF Remember, Pop, Base, inputs
<1>16. ASSUME NEW t \in tasks, Issue(t)
       PROVE  InTurnOrder' /\ RepliesCounted'
  <2>1. t.next \in Calls /\ UNCHANGED <<asked, calls>>
    BY <1>16 DEF Issue, Task, Base, inputs
  <2>2. Command(t.next) \in Event /\ Command(t.next).type = "device_command"
    BY <2>1 DEF Command, Event
  <2>3. UNCHANGED out \/ Write(Command(t.next))
    BY <1>16 DEF Issue
  <2> QED
    BY <1>5, <2>1, <2>2, <2>3, WriteInOrder
<1>17. ASSUME NEW t \in tasks, SecondReply(t)
       PROVE  InTurnOrder' /\ RepliesCounted'
  <2>1. PICK n0 \in Calls : n0 = t.call /\ CallAt(n0, "second")
    BY <1>17 DEF SecondReply, Task, CallAt
  <2>2. Command(n0) \in Range(out) /\ n0 \in DOMAIN calls /\ ~CallAt(n0, "reply")
    BY <1>1, <2>1 DEF CallsInOnePlace, CallPlaces
  <2>3. PICK k0 \in Turns : k0 = calls[n0].turn /\ TurnAt(k0, "calls")
    <3>1. calls[n0] \in [turn : Turns, valid : BOOLEAN]
      BY <1>1, <2>2, ElementOfSeq
    <3> QED
      BY <2>2, <3>1 DEF TurnAt
  <2>4. Write(Reply(k0, n0)) /\ UNCHANGED <<asked, calls>>
    BY <1>17, <2>1, <2>3 DEF SecondReply, Base, inputs
  <2>5. /\ Reply(k0, n0) \in Event /\ Reply(k0, n0).turn = k0 /\ Reply(k0, n0).call = n0
        /\ Reply(k0, n0).type = "reply" /\ n0 # 0
    BY RecordTypes DEF Reply, Event
  <2>6. Final(k0) \in Range(out) /\ Reply(k0, n0) \notin Range(out)
    BY <2>2, <2>3 DEF TurnsInOnePlace, CallAt
  <2> QED
    BY <2>2, <2>4, <2>5, <2>6, WriteInOrder
<1>18. ASSUME NEW t \in tasks, Synthesize(t)
       PROVE  InTurnOrder' /\ RepliesCounted'
  <2>1. /\ t.pc = "tts" /\ t.turn \in Turns /\ t.call \in {0} \union Calls
        /\ UNCHANGED <<asked, calls>>
    BY <1>18 DEF Synthesize, Task, Base, inputs
  <2> DEFINE e == Audio(t.turn, t.call)
  <2>2. e \in Event /\ e.type = "tts_audio" /\ e.turn = t.turn /\ e.call = t.call
    BY <2>1 DEF Audio, Event
  <2>3. UNCHANGED out \/ Write(e)
    BY <1>18 DEF Synthesize
  <2>4. live => Reply(t.turn, t.call) \in Range(out)
    BY <1>1, <2>1 DEF SpokenWasReplied
  <2> HIDE DEF e
  <2> QED
    BY <1>5, <2>1, <2>2, <2>3, <2>4, WriteInOrder
<1>19. CASE UNCHANGED vars
  BY <1>5, <1>19 DEF vars, inputs
<1> QED
  BY <1>6, <1>7, <1>8, <1>9, <1>10, <1>11, <1>12, <1>13, <1>14, <1>15, <1>16, <1>17, <1>18, <1>19
     DEF Next, UpSteps, AsrSteps, TaskStep

-----------------------------------------------------------------------------

\* A session starts safely.
LEMMA InitIsSafe == Init => Safety
<1> SUFFICES ASSUME Init PROVE Safety
  OBVIOUS
<1>1. Len(<<>>) = 0 /\ DOMAIN <<>> = {} /\ Range(<<>>) = {} /\ 0 \in 0..MaxTurns
  BY WorkerAssumption DEF Range
<1>2. TypeOK
  BY <1>1, WorkerAssumption DEF Init, TypeOK
<1>3. TurnsInOnePlace
  BY <1>1, RecordTypes DEF Init, TurnsInOnePlace, TurnAt, IsInjective
<1>4. CallsInOnePlace /\ LoopsApart /\ Remembered /\ SpokenWasReplied /\ TruthfulHistory
  BY <1>1 DEF Init, CallsInOnePlace, CallAt, LoopsApart, Remembered, SpokenWasReplied, TruthfulHistory
<1>5. InTurnOrder /\ RepliesCounted
  BY <1>1 DEF Init, InTurnOrder, RepliesCounted
<1> QED
  BY <1>2, <1>3, <1>4, <1>5 DEF Safety

\* Turns and calls are never in two places, calls are remembered until they
\* are replayed, and the server is written to in order (handleUpstreamControl,
\* maybeTriggerLLM, handleLLMWithTools and handleCommandResult).
THEOREM SafetyHolds == Spec => []Safety
<1>1. Safety /\ [Next]_vars => Safety'
  BY TypeStep, TurnStep, CallStep, OrderStep DEF Safety, CallSafety
<1> QED
  BY <1>1, InitIsSafe, PTL DEF Spec

\* Variables keep their types, whatever the server and the model ask for.
THEOREM TypeCorrect == Spec => []TypeOK
<1>1. Safety => TypeOK
  BY DEF Safety
<1> QED
  BY <1>1, SafetyHolds, PTL

\* However the goroutines of different turns interleave, a reply follows the
\* asr_final of its turn and speech follows its reply.
THEOREM InTurnOrderHolds == Spec => []InTurnOrder
<1>1. Safety => InTurnOrder
  BY DEF Safety
<1> QED
  BY <1>1, SafetyHolds, PTL

\* No turn and no command is replied to twice, and a turn with commands gets
\* replies for the commands that were sent only.
THEOREM RepliesCountedHolds == Spec => []RepliesCounted
<1>1. Safety => RepliesCounted
  BY DEF Safety
<1> QED
  BY <1>1, SafetyHolds, PTL

\* The second question always replays the call that was made: its result
\* cannot overtake the memory of it, and is handled once.
THEOREM TruthfulHistoryHolds == Spec => []TruthfulHistory
<1>1. Safety => TruthfulHistory
  BY DEF Safety
<1> QED
  BY <1>1, SafetyHolds, PTL
=============================================================================
