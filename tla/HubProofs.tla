------------------------------ MODULE HubProofs ------------------------------
(***************************************************************************)
(* Why events reach the right connections, in order, and are lost only by  *)
(* those that are slow or ending, for any number of connections, callers   *)
(* and events.  Everything follows from what is on the line to a           *)
(* connection: what was written to it, what the pump has in its hand, and  *)
(* what is in the channel.                                                 *)
(***************************************************************************)
EXTENDS Hub, SequenceTheorems, TLAPS

\* The line as a function of its parts.
Line(g, h, s) == g \o (IF h # 0 THEN <<h>> ELSE <<>>) \o s

\* The pump has an event in its hand while it writes, and then only.
HandIsWriting == \A c \in Clients : hand[c] # 0 <=> writer[c] = "writing"

\* A connection that has not been made is in nobody's hands.
NothingBefore ==
    \A c \in Clients : link[c] = "none" => c \notin clients /\ Arrived(c) = <<>>

\* Only connections of its user are targets of an event.
TargetsAreUsers ==
    \A e \in 1..events : \A c \in from[e].targets :
        link[c] # "none" /\ user[c] = from[e].user

\* A broadcast still has to offer its event to some of the targets, and its
\* caller has made no other since.
Calling(b) == call[b].pc = "send"

CallsGoOn ==
    \A b \in Callers : Calling(b) =>
        /\ call[b].event \in 1..events /\ from[call[b].event].caller = b
        /\ call[b].left \subseteq from[call[b].event].targets
        /\ \A c \in call[b].left : call[b].event \notin Range(Arrived(c))
        /\ \A e \in 1..events : from[e].caller = b => e <= call[b].event

\* What is on a line has been broadcast to that connection, and what one caller
\* broadcast is there in its order.
ArrivedAtTargets ==
    \A c \in Clients : \A e \in Range(Arrived(c)) : e \in 1..events /\ c \in from[e].targets

InOrder(l) == \A i, j \in 1..Len(l) :
                  i < j /\ from[l[i]].caller = from[l[j]].caller => l[i] < l[j]

LinesInOrder == \A c \in Clients : InOrder(Arrived(c))

\* Where an event is that a target does not have yet, or never gets.
Accounted(c, e) ==
    \/ e \in Range(Arrived(c)) \/ <<c, e>> \in dropped \/ writer[c] = "done" \/ e \in aborted
    \/ \E b \in Callers : Calling(b) /\ call[b].event = e /\ c \in call[b].left

AllAccounted == \A e \in 1..events : \A c \in from[e].targets : Accounted(c, e)

Delivery == /\ NothingBefore /\ TargetsAreUsers /\ CallsGoOn
            /\ ArrivedAtTargets /\ LinesInOrder /\ AllAccounted

Safety == TypeOK /\ HandIsWriting /\ Delivery

-----------------------------------------------------------------------------
(* Lines *)

\* A line is a sequence of events; what is in its parts is on it.
LEMMA LineIsSeq ==
    ASSUME NEW g \in Seq(Events), NEW h \in 0..MaxEvents, NEW s \in Seq(Events)
    PROVE  /\ Line(g, h, s) \in Seq(Events)
           /\ Len(Line(g, h, s)) = Len(g) + Len(s) + (IF h # 0 THEN 1 ELSE 0)
           /\ \A i \in 1..Len(Line(g, h, s)) : Line(g, h, s)[i] =
                IF i <= Len(g) THEN g[i]
                ELSE IF h # 0 /\ i = Len(g) + 1 THEN h
                ELSE s[i - Len(g) - (IF h # 0 THEN 1 ELSE 0)]
<1> DEFINE hs == IF h # 0 THEN <<h>> ELSE <<>>
           n == IF h # 0 THEN 1 ELSE 0
<1>1. hs \in Seq(Events) /\ Len(hs) = n /\ (h # 0 => hs[1] = h) /\ n \in {0, 1} /\ (n = 1 <=> h # 0)
  <2>1. h # 0 => h \in Events
    BY HubAssumption DEF Events
  <2> QED
    BY <2>1
<1>2. Line(g, h, s) = (g \o hs) \o s
  BY DEF Line
<1> HIDE DEF hs, n
<1>3. /\ g \o hs \in Seq(Events) /\ Len(g \o hs) = Len(g) + n
      /\ \A i \in 1..(Len(g) + n) : (g \o hs)[i] = IF i <= Len(g) THEN g[i] ELSE hs[i - Len(g)]
  BY <1>1, ConcatProperties
<1>4. /\ Line(g, h, s) \in Seq(Events) /\ Len(Line(g, h, s)) = Len(g) + n + Len(s)
      /\ \A i \in 1..(Len(g) + n + Len(s)) :
           Line(g, h, s)[i] = IF i <= Len(g) + n THEN (g \o hs)[i] ELSE s[i - (Len(g) + n)]
  <2> DEFINE x == g \o hs
  <2>1. Line(g, h, s) = x \o s /\ x \in Seq(Events) /\ Len(x) = Len(g) + n
    BY <1>2, <1>3
  <2> HIDE DEF x
  <2>2. /\ x \o s \in Seq(Events) /\ Len(x \o s) = Len(x) + Len(s)
        /\ \A i \in 1..(Len(x) + Len(s)) : (x \o s)[i] = IF i <= Len(x) THEN x[i] ELSE s[i - Len(x)]
    BY <2>1, ConcatProperties
  <2>3. /\ Line(g, h, s) \in Seq(Events) /\ Len(Line(g, h, s)) = Len(g) + n + Len(s)
        /\ \A i \in 1..(Len(g) + n + Len(s)) :
             Line(g, h, s)[i] = IF i <= Len(g) + n THEN x[i] ELSE s[i - (Len(g) + n)]
    BY <2>1, <2>2
  <2> QED
    BY <2>3 DEF x
<1>5. Len(g) \in Nat /\ Len(s) \in Nat
  BY LenProperties
<1>6. \A i \in 1..Len(Line(g, h, s)) : Line(g, h, s)[i] =
        IF i <= Len(g) THEN g[i] ELSE IF h # 0 /\ i = Len(g) + 1 THEN h ELSE s[i - Len(g) - n]
  <2>1. SUFFICES ASSUME NEW i \in 1..(Len(g) + n + Len(s))
                 PROVE  Line(g, h, s)[i] =
                          IF i <= Len(g) THEN g[i]
                          ELSE IF h # 0 /\ i = Len(g) + 1 THEN h ELSE s[i - Len(g) - n]
    BY <1>4
  <2>2. CASE i <= Len(g)
    BY <1>1, <1>3, <1>4, <1>5, <2>2
  <2>3. CASE h # 0 /\ i = Len(g) + 1
    <3>1. i - Len(g) = 1 /\ i <= Len(g) + n /\ ~(i <= Len(g)) /\ i \in 1..(Len(g) + n)
      BY <1>1, <1>5, <2>3
    <3> QED
      BY <1>1, <1>3, <1>4, <2>3, <3>1
  <2>4. CASE ~(i <= Len(g)) /\ ~(h # 0 /\ i = Len(g) + 1)
    <3>1. ~(i <= Len(g) + n) /\ i - (Len(g) + n) = i - Len(g) - n
      BY <1>1, <1>5, <2>4
    <3> QED
      BY <1>4, <2>4, <3>1
  <2> QED
    BY <2>2, <2>3, <2>4
<1>7. Len(Line(g, h, s)) = Len(g) + Len(s) + n
  BY <1>1, <1>4, <1>5
<1> QED
  BY <1>4, <1>6, <1>7 DEF n

\* Taking an event from the channel moves nothing on the line.
LEMMA LineTaken ==
    ASSUME NEW g \in Seq(Events), NEW s \in Seq(Events), s # <<>>
    PROVE  Line(g, Head(s), Tail(s)) = Line(g, 0, s)
<1>1. /\ Head(s) \in Events /\ Tail(s) \in Seq(Events) /\ Len(Tail(s)) = Len(s) - 1
      /\ \A i \in 1..(Len(s) - 1) : Tail(s)[i] = s[i + 1]
      /\ Head(s) = s[1] /\ Len(s) \in Nat \ {0} /\ Len(g) \in Nat
  BY HeadTailProperties, LenProperties, EmptySeq
<1>2. Head(s) \in 0..MaxEvents /\ Head(s) # 0 /\ 0 \in 0..MaxEvents
  BY <1>1, HubAssumption DEF Events
<1> DEFINE l == Line(g, Head(s), Tail(s))
           m == Line(g, 0, s)
<1>3. /\ l \in Seq(Events) /\ Len(l) = Len(g) + Len(s)
      /\ \A i \in 1..Len(l) : l[i] = IF i <= Len(g) THEN g[i]
                                     ELSE IF i = Len(g) + 1 THEN Head(s) ELSE Tail(s)[i - Len(g) - 1]
  <2>1. PICK h \in 0..MaxEvents, t \in Seq(Events) : h = Head(s) /\ t = Tail(s)
    BY <1>1, <1>2
  <2>2. /\ Line(g, h, t) \in Seq(Events) /\ Len(Line(g, h, t)) = Len(g) + Len(t) + 1
        /\ \A i \in 1..Len(Line(g, h, t)) : Line(g, h, t)[i] =
             IF i <= Len(g) THEN g[i] ELSE IF i = Len(g) + 1 THEN h ELSE t[i - Len(g) - 1]
    <3>1. h # 0
      BY <1>2, <2>1
    <3> QED
      BY <3>1, LineIsSeq, SMTT(30)
  <2> QED
    BY <1>1, <2>1, <2>2
<1>4. /\ m \in Seq(Events) /\ Len(m) = Len(g) + Len(s)
      /\ \A i \in 1..Len(m) : m[i] = IF i <= Len(g) THEN g[i] ELSE s[i - Len(g)]
  BY <1>1, <1>2, LineIsSeq
<1> HIDE DEF l, m
<1>5. ASSUME NEW i \in 1..Len(l)
      PROVE  l[i] = m[i]
  <2>1. CASE i <= Len(g)
    BY <1>3, <1>4, <2>1
  <2>2. CASE i = Len(g) + 1
    <3>1. i - Len(g) = 1 /\ ~(i <= Len(g)) /\ i \in 1..Len(m)
      BY <1>1, <1>3, <1>4, <2>2
    <3> QED
      BY <1>1, <1>3, <1>4, <2>2, <3>1
  <2>3. CASE i > Len(g) + 1
    <3>1. /\ i - Len(g) - 1 \in 1..(Len(s) - 1) /\ (i - Len(g) - 1) + 1 = i - Len(g)
          /\ ~(i <= Len(g)) /\ i # Len(g) + 1 /\ i \in 1..Len(m)
      BY <1>1, <1>3, <1>4, <2>3
    <3> QED
      BY <1>1, <1>3, <1>4, <3>1
  <2> QED
    BY <1>1, <2>1, <2>2, <2>3
<1> QED
  BY <1>3, <1>4, <1>5, SeqEqual DEF l, m

\* Writing the event in the pump's hand moves nothing on the line.
LEMMA LineWritten ==
    ASSUME NEW g \in Seq(Events), NEW h \in Events, NEW s \in Seq(Events)
    PROVE  Append(g, h) \in Seq(Events) /\ Line(Append(g, h), 0, s) = Line(g, h, s)
<1>1. Append(g, h) \in Seq(Events) /\ Append(g, h) = g \o <<h>>
  BY AppendProperties, AppendIsConcat
<1>2. h # 0
  BY DEF Events
<1>3. Line(Append(g, h), 0, s) = (Append(g, h) \o <<>>) \o s
  BY DEF Line
<1>4. Line(g, h, s) = (g \o <<h>>) \o s
  BY <1>2 DEF Line
<1> QED
  BY <1>1, <1>3, <1>4, ConcatEmptySeq

\* A channel grows at the end of the line.
LEMMA LineQueued ==
    ASSUME NEW g \in Seq(Events), NEW h \in 0..MaxEvents, NEW s \in Seq(Events), NEW e \in Events
    PROVE  Line(g, h, Append(s, e)) = Append(Line(g, h, s), e)
<1> DEFINE hs == IF h # 0 THEN <<h>> ELSE <<>>
<1>1. hs \in Seq(Events) /\ <<e>> \in Seq(Events)
  <2>1. h # 0 => h \in Events
    BY HubAssumption DEF Events
  <2> QED
    BY <2>1
<1>2. Line(g, h, Append(s, e)) = (g \o hs) \o Append(s, e) /\ Line(g, h, s) = (g \o hs) \o s
  BY DEF Line
<1> HIDE DEF hs
<1>3. g \o hs \in Seq(Events) /\ (g \o hs) \o s \in Seq(Events)
  BY <1>1, ConcatProperties
<1>4. Append(s, e) = s \o <<e>> /\ Append((g \o hs) \o s, e) = ((g \o hs) \o s) \o <<e>>
  BY <1>3, AppendIsConcat
<1>5. ((g \o hs) \o s) \o <<e>> = (g \o hs) \o (s \o <<e>>)
  BY <1>1, <1>3, ConcatAssociative, SMTT(30)
<1> QED
  BY <1>2, <1>4, <1>5

\* When the pump ends, the event in its hand leaves the line and the others
\* keep their order.
LEMMA LineShortened ==
    ASSUME NEW g \in Seq(Events), NEW h \in Events, NEW s \in Seq(Events)
    PROVE  /\ Line(g, h, s) # <<>>
           /\ Range(Line(g, 0, s)) \subseteq Range(Line(g, h, s))
           /\ InOrder(Line(g, h, s)) => InOrder(Line(g, 0, s))
<1> DEFINE l == Line(g, h, s)
           m == Line(g, 0, s)
<1>1. h # 0 /\ h \in 0..MaxEvents /\ 0 \in 0..MaxEvents /\ Len(g) \in Nat /\ Len(s) \in Nat
  BY HubAssumption, LenProperties DEF Events
<1>2. /\ l \in Seq(Events) /\ Len(l) = Len(g) + Len(s) + 1
      /\ \A i \in 1..Len(l) : l[i] = IF i <= Len(g) THEN g[i]
                                     ELSE IF i = Len(g) + 1 THEN h ELSE s[i - Len(g) - 1]
  BY <1>1, LineIsSeq
<1>3. /\ m \in Seq(Events) /\ Len(m) = Len(g) + Len(s)
      /\ \A i \in 1..Len(m) : m[i] = IF i <= Len(g) THEN g[i] ELSE s[i - Len(g)]
  BY <1>1, LineIsSeq
<1> HIDE DEF l, m
<1> DEFINE at(i) == IF i <= Len(g) THEN i ELSE i + 1
<1>4. \A i \in 1..Len(m) : at(i) \in 1..Len(l) /\ l[at(i)] = m[i]
  <2>1. SUFFICES ASSUME NEW i \in 1..Len(m)
                 PROVE  at(i) \in 1..Len(l) /\ l[at(i)] = m[i]
    OBVIOUS
  <2>2. CASE i <= Len(g)
    BY <1>1, <1>2, <1>3, <2>2, SMTT(30)
  <2>3. CASE i > Len(g)
    <3>1. /\ i + 1 \in 1..Len(l) /\ ~(i <= Len(g)) /\ ~(i + 1 <= Len(g)) /\ i + 1 # Len(g) + 1
          /\ (i + 1) - Len(g) - 1 = i - Len(g)
      BY <1>1, <1>2, <1>3, <2>3
    <3> QED
      BY <1>2, <1>3, <3>1
  <2> QED
    BY <1>1, <1>3, <2>2, <2>3
<1>5. \A i, j \in 1..Len(m) : i < j => at(i) < at(j)
  BY <1>1, <1>3
<1>6. DOMAIN l = 1..Len(l) /\ DOMAIN m = 1..Len(m)
  BY <1>2, <1>3, LenProperties
<1> HIDE DEF at
<1>7. Range(m) \subseteq Range(l)
  BY <1>4, <1>6 DEF Range
<1>8. InOrder(l) => InOrder(m)
  BY <1>4, <1>5 DEF InOrder
<1>9. l # <<>>
  BY <1>1, <1>2
<1> QED
  BY <1>7, <1>8, <1>9 DEF l, m

\* What comes after everything of its caller keeps the order.
LEMMA InOrderAppended ==
    ASSUME NEW l \in Seq(Events), NEW e \in Events, InOrder(l),
           \A d \in Range(l) : from[d].caller = from[e].caller => d < e
    PROVE  /\ Append(l, e) \in Seq(Events) /\ Range(Append(l, e)) = Range(l) \union {e}
           /\ InOrder(Append(l, e))
<1>1. /\ Append(l, e) \in Seq(Events) /\ Len(Append(l, e)) = Len(l) + 1 /\ Len(l) \in Nat
      /\ \A i \in 1..Len(l) : Append(l, e)[i] = l[i]
      /\ Append(l, e)[Len(l) + 1] = e
      /\ DOMAIN l = 1..Len(l) /\ DOMAIN Append(l, e) = 1..(Len(l) + 1)
  BY AppendProperties, LenProperties
<1>2. 1..(Len(l) + 1) = 1..Len(l) \union {Len(l) + 1}
  BY <1>1
<1>3. Range(Append(l, e)) = Range(l) \union {e}
  BY <1>1, <1>2 DEF Range
<1>4. ASSUME NEW i \in 1..(Len(l) + 1), NEW j \in 1..(Len(l) + 1), i < j,
             from[Append(l, e)[i]].caller = from[Append(l, e)[j]].caller
      PROVE  Append(l, e)[i] < Append(l, e)[j]
  <2>1. i \in 1..Len(l) /\ l[i] \in Range(l)
    BY <1>1, <1>4 DEF Range
  <2>2. CASE j = Len(l) + 1
    BY <1>1, <1>4, <2>1, <2>2
  <2>3. CASE j \in 1..Len(l)
    BY <1>1, <1>4, <2>1, <2>3 DEF InOrder
  <2> QED
    BY <1>2, <2>2, <2>3
<1> QED
  BY <1>1, <1>3, <1>4 DEF InOrder

-----------------------------------------------------------------------------
(* Types *)

\* A broadcast that is going on, and what offering its event leaves of it.
LEMMA CallTypes ==
    ASSUME TypeOK, NEW b \in Callers
    PROVE  /\ Calling(b) <=> call[b] # Idle
           /\ Calling(b) => call[b] \in [pc : {"send"}, event : Events, left : SUBSET Clients]
<1>1. call[b] \in {Idle} \union [pc : {"send"}, event : Events, left : SUBSET Clients]
  BY DEF TypeOK
<1>2. Idle.pc = "idle"
  BY DEF Idle
<1> QED
  BY <1>1, <1>2 DEF Calling

\* The connection is taken off the list, and the broadcast ends with the last.
LEMMA OfferedTo ==
    ASSUME TypeOK, NEW b \in Callers, NEW c \in Clients, Calling(b), Offered(b, c)
    PROVE  /\ call' \in [Callers -> {Idle} \union
                            [pc : {"send"}, event : Events, left : SUBSET Clients]]
           /\ \A a \in Callers \ {b} : call'[a] = call[a]
           /\ call'[b].pc = "send" => call'[b].event = call[b].event
                                       /\ call'[b].left = call[b].left \ {c}
           /\ call[b].left \ {c} # {} => call'[b].pc = "send"
<1> DEFINE r == [call[b] EXCEPT !.left = call[b].left \ {c}]
<1>1. call[b] \in [pc : {"send"}, event : Events, left : SUBSET Clients]
  BY CallTypes
<1>2. /\ r \in [pc : {"send"}, event : Events, left : SUBSET Clients]
      /\ r.event = call[b].event /\ r.left = call[b].left \ {c} /\ r.pc = "send"
  BY <1>1
<1>3. call' = [call EXCEPT ![b] = IF call[b].left \ {c} = {} THEN Idle ELSE r]
  BY DEF Offered
<1>4. /\ call \in [Callers -> {Idle} \union
                      [pc : {"send"}, event : Events, left : SUBSET Clients]]
      /\ Idle.pc # "send"
  BY DEF TypeOK, Idle
<1> HIDE DEF r
<1> QED
  BY <1>2, <1>3, <1>4

\* Every step keeps the types, and the pump's hand full while it writes.
LEMMA TypeStep ==
    ASSUME TypeOK, HandIsWriting, [Next]_vars
    PROVE  TypeOK' /\ HandIsWriting'
<1> USE DEF TypeOK, HandIsWriting
<1>1. /\ 0 \in 0..MaxEvents /\ MaxEvents \in Nat /\ SendBuffer \in Nat /\ 0 \notin Events
      /\ \A e \in Events : e \in 0..MaxEvents
      /\ \A c \in Clients : send[c] \in Seq(Events) /\ got[c] \in Seq(Events)
  BY HubAssumption DEF Events
<1>2. ASSUME NEW c \in Clients, NEW u \in Users, Register(c, u)
      PROVE  TypeOK' /\ HandIsWriting'
  BY <1>1, <1>2 DEF Register, Running, ghosts
<1>3. ASSUME NEW c \in Clients, LinkLost(c) \/ ReadFails(c) \/ CloseRemove(c) \/ CloseSend(c)
      PROVE  TypeOK' /\ HandIsWriting'
  <2>1. CASE LinkLost(c)
    BY <2>1 DEF LinkLost, Running, ghosts
  <2>2. CASE ReadFails(c)
    BY <2>2 DEF ReadFails, Running, ghosts
  <2>3. CASE CloseRemove(c)
    BY <2>3 DEF CloseRemove, Running, ghosts
  <2>4. CASE CloseSend(c)
    BY <2>4 DEF CloseSend, Running, ghosts
  <2> HIDE DEF TypeOK, HandIsWriting
  <2> QED
    BY <1>3, <2>1, <2>2, <2>3, <2>4
<1>4. ASSUME NEW c \in Clients, WriterTake(c)
      PROVE  TypeOK' /\ HandIsWriting'
  <2>1. /\ Head(send[c]) \in Events /\ Tail(send[c]) \in Seq(Events)
        /\ Len(Tail(send[c])) = Len(send[c]) - 1 /\ Len(send[c]) \in Nat
    BY <1>1, <1>4, HeadTailProperties, LenProperties DEF WriterTake
  <2>2. send' = [send EXCEPT ![c] = Tail(send[c])]
    BY <1>4 DEF WriterTake
  <2>3. send' \in [Clients -> Seq(Events)] /\ \A d \in Clients : Len(send'[d]) <= SendBuffer
    BY <1>1, <2>1, <2>2
  <2> QED
    BY <1>1, <1>4, <2>1, <2>3 DEF WriterTake, Running, ghosts
<1>5. ASSUME NEW c \in Clients, WriterWrite(c)
      PROVE  TypeOK' /\ HandIsWriting'
  <2>1. hand[c] \in Events
    BY <1>5, HubAssumption DEF WriterWrite, Events
  <2>2. Append(got[c], hand[c]) \in Seq(Events)
    BY <1>1, <2>1, AppendProperties
  <2> QED
    BY <1>1, <1>5, <2>2 DEF WriterWrite, Running
<1>6. ASSUME NEW c \in Clients, WriterFails(c) \/ WriterStops(c)
      PROVE  TypeOK' /\ HandIsWriting'
  <2>1. writer' = [writer EXCEPT ![c] = "done"] /\ hand' = [hand EXCEPT ![c] = 0]
    BY <1>6 DEF WriterFails, WriterStops
  <2>2. UNCHANGED <<user, link, clients, reader, send, closed, call, crashed, events, ghosts>>
    BY <1>6 DEF WriterFails, WriterStops, Running
  <2> QED
    BY <1>1, <2>1, <2>2 DEF ghosts
<1>7. ASSUME NEW b \in Callers, NEW u \in Users, Snapshot(b, u)
      PROVE  TypeOK' /\ HandIsWriting'
  <2>1. PICK ts \in SUBSET Clients :
          /\ call' = [call EXCEPT ![b] = [pc |-> "send", event |-> events + 1, left |-> ts]]
          /\ from' = Append(from, [caller |-> b, user |-> u, targets |-> ts])
    BY <1>7 DEF Snapshot
  <2>2. events' = events + 1 /\ events + 1 \in Events /\ events' \in 0..MaxEvents
    BY <1>1, <1>7 DEF Snapshot, Events
  <2>3. [caller |-> b, user |-> u, targets |-> ts] \in [caller : Callers, user : Users, targets : SUBSET Clients]
    OBVIOUS
  <2>4. /\ from' \in Seq([caller : Callers, user : Users, targets : SUBSET Clients])
        /\ Len(from') = events'
    BY <2>1, <2>2, <2>3, AppendProperties
  <2>5. call' \in [Callers -> {Idle} \union [pc : {"send"}, event : Events, left : SUBSET Clients]]
    BY <2>1, <2>2
  <2> QED
    BY <1>7, <2>2, <2>4, <2>5 DEF Snapshot, Running, connVars
<1>8. ASSUME NEW b \in Callers, NEW c \in Clients, Queue(b, c)
      PROVE  TypeOK' /\ HandIsWriting'
  <2>1. Calling(b) /\ call[b].event \in Events /\ Offered(b, c)
    BY <1>8, CallTypes DEF Queue, Calling
  <2>2. /\ call' \in [Callers -> {Idle} \union
                         [pc : {"send"}, event : Events, left : SUBSET Clients]]
    BY <2>1, OfferedTo
  <2>3. /\ Append(send[c], call[b].event) \in Seq(Events)
        /\ Len(Append(send[c], call[b].event)) = Len(send[c]) + 1 /\ Len(send[c]) \in Nat
    BY <1>1, <2>1, AppendProperties, LenProperties
  <2>4. send' = [send EXCEPT ![c] = Append(send[c], call[b].event)] /\ Len(send[c]) < SendBuffer
    BY <1>8 DEF Queue
  <2>5. send' \in [Clients -> Seq(Events)] /\ \A d \in Clients : Len(send'[d]) <= SendBuffer
    BY <1>1, <2>3, <2>4
  <2> QED
    BY <1>8, <2>2, <2>5 DEF Queue, Running, ghosts
<1>9. ASSUME NEW b \in Callers, NEW c \in Clients, Drop(b, c)
      PROVE  TypeOK' /\ HandIsWriting'
  <2>1. Calling(b) /\ call[b].event \in Events /\ Offered(b, c)
    BY <1>9, CallTypes DEF Drop, Calling
  <2>2. /\ call' \in [Callers -> {Idle} \union
                         [pc : {"send"}, event : Events, left : SUBSET Clients]]
    BY <2>1, OfferedTo
  <2> QED
    BY <1>9, <2>1, <2>2 DEF Drop, Running, connVars
<1>10. ASSUME NEW b \in Callers, Panic(b)
       PROVE  TypeOK' /\ HandIsWriting'
  <2>1. call[b].event \in Events
    BY <1>10, CallTypes DEF Panic, SendsOnClosed, Calling
  <2> QED
    BY <1>10, <2>1 DEF Panic, connVars
<1>11. CASE UNCHANGED vars
  BY <1>11 DEF vars, connVars, ghosts
<1> QED
  BY <1>2, <1>3, <1>4, <1>5, <1>6, <1>7, <1>8, <1>9, <1>10, <1>11 DEF Next, Conn, Offer

-----------------------------------------------------------------------------
(* Delivery *)

\* A line is what its parts make it.
LEMMA ArrivedIsLine ==
    \A c : Arrived(c) = Line(got[c], hand[c], send[c])
  BY DEF Arrived, Line

\* A step that puts nothing on a line keeps the delivery, if what a broadcast
\* does not offer any more has been dropped or was cut short, and if only a
\* pump that ends takes something off its line.
LEMMA DeliveryStays ==
    ASSUME Delivery, UNCHANGED <<events, from>>,
           \A c \in Clients :
             /\ link'[c] = "none" => link[c] = "none" /\ (c \in clients' => c \in clients)
             /\ link[c] # "none" => link'[c] # "none" /\ user'[c] = user[c]
             /\ link[c] # "none" /\ writer[c] = "done" => writer'[c] = "done"
             /\ \/ Arrived(c)' = Arrived(c)
                \/ /\ link'[c] # "none" /\ writer'[c] = "done"
                   /\ Range(Arrived(c))' \subseteq Range(Arrived(c)) /\ InOrder(Arrived(c))',
           dropped \subseteq dropped', aborted \subseteq aborted',
           \A b \in Callers : Calling(b)' => /\ Calling(b) /\ call'[b].event = call[b].event
                                             /\ call'[b].left \subseteq call[b].left,
           \A b \in Callers : Calling(b) => \A c \in call[b].left :
               \/ Calling(b)' /\ call'[b].event = call[b].event /\ c \in call'[b].left
               \/ <<c, call[b].event>> \in dropped' \/ call[b].event \in aborted',
           \A e \in 1..events : from[e].targets \subseteq Clients,
           \A b \in Callers : Calling(b) => call[b].left \subseteq Clients
    PROVE  Delivery'
<1> USE DEF Delivery
<1>1. \A c \in Clients : Range(Arrived(c))' \subseteq Range(Arrived(c))
  OBVIOUS
<1>2. NothingBefore'
  BY DEF NothingBefore
<1>3. TargetsAreUsers'
  BY DEF TargetsAreUsers
<1>4. CallsGoOn'
  BY <1>1 DEF CallsGoOn
<1>5. ArrivedAtTargets'
  BY <1>1 DEF ArrivedAtTargets
<1>6. LinesInOrder'
  <2>1. SUFFICES ASSUME NEW c \in Clients, Arrived(c)' = Arrived(c)
                 PROVE  InOrder(Arrived(c))'
    BY DEF LinesInOrder
  <2>2. InOrder(Arrived(c))
    BY DEF LinesInOrder
  <2> QED
    BY <2>1, <2>2 DEF InOrder
<1>7. AllAccounted'
  <2>1. SUFFICES ASSUME NEW e \in 1..events, NEW c \in from[e].targets
                 PROVE  Accounted(c, e)'
    BY DEF AllAccounted
  <2>2. c \in Clients /\ link[c] # "none" /\ Accounted(c, e)
    BY DEF AllAccounted, TargetsAreUsers
  <2>3. CASE e \in Range(Arrived(c))
    BY <2>2, <2>3 DEF Accounted
  <2>4. CASE <<c, e>> \in dropped \/ writer[c] = "done" \/ e \in aborted
    BY <2>2, <2>4 DEF Accounted
  <2>5. CASE \E b \in Callers : Calling(b) /\ call[b].event = e /\ c \in call[b].left
    BY <2>5 DEF Accounted
  <2> QED
    BY <2>2, <2>3, <2>4, <2>5 DEF Accounted
<1> QED
  BY <1>2, <1>3, <1>4, <1>5, <1>6, <1>7

\* Every step keeps the delivery.
LEMMA DeliveryStep ==
    ASSUME Safety, [Next]_vars
    PROVE  Delivery'
<1> USE DEF Safety
<1>1. /\ events \in 0..MaxEvents /\ DOMAIN from = 1..events
      /\ \A e \in 1..events : from[e] \in [caller : Callers, user : Users, targets : SUBSET Clients]
      /\ \A b \in Callers : Calling(b) => call[b].left \subseteq Clients /\ call[b].event \in Events
      /\ \A c \in Clients : got[c] \in Seq(Events) /\ hand[c] \in 0..MaxEvents /\ send[c] \in Seq(Events)
      /\ \A c \in Clients : Arrived(c) \in Seq(Events)
  <2>1. events \in 0..MaxEvents /\ DOMAIN from = 1..events
    BY LenProperties DEF TypeOK
  <2>2. \A e \in 1..events : from[e] \in [caller : Callers, user : Users, targets : SUBSET Clients]
    BY ElementOfSeq DEF TypeOK
  <2>3. \A b \in Callers : Calling(b) => call[b].left \subseteq Clients /\ call[b].event \in Events
    BY CallTypes
  <2>4. \A c \in Clients : got[c] \in Seq(Events) /\ hand[c] \in 0..MaxEvents /\ send[c] \in Seq(Events)
    BY DEF TypeOK
  <2>5. \A c \in Clients : Arrived(c) \in Seq(Events)
    BY <2>4, ArrivedIsLine, LineIsSeq
  <2> QED
    BY <2>1, <2>2, <2>3, <2>4, <2>5
\* Connections that come and go, and pumps, do not touch the broadcasts.
<1>2. ASSUME UNCHANGED <<events, call, ghosts>> \/ UNCHANGED <<events, call, from, dropped, aborted>>,
             \A c \in Clients :
               /\ link'[c] = "none" => link[c] = "none" /\ (c \in clients' => c \in clients)
               /\ link[c] # "none" => link'[c] # "none" /\ user'[c] = user[c]
               /\ link[c] # "none" /\ writer[c] = "done" => writer'[c] = "done"
               /\ \/ Arrived(c)' = Arrived(c)
                  \/ /\ link'[c] # "none" /\ writer'[c] = "done"
                     /\ Range(Arrived(c))' \subseteq Range(Arrived(c)) /\ InOrder(Arrived(c))'
      PROVE  Delivery'
  <2>1. UNCHANGED <<events, call, from, dropped, aborted>>
    BY <1>2 DEF ghosts
  <2>2. \A b \in Callers : Calling(b)' <=> Calling(b)
    BY <2>1 DEF Calling
  <2>3. \A e \in 1..events : from[e].targets \subseteq Clients
    BY <1>1
  <2> QED
    BY <1>1, <1>2, <2>1, <2>2, <2>3, DeliveryStays
<1>3. ASSUME UNCHANGED <<got, hand, send>>
      PROVE  \A c : Arrived(c)' = Arrived(c)
  BY <1>3 DEF Arrived
<1>4. ASSUME NEW c \in Clients, NEW u \in Users, Register(c, u)
      PROVE  Delivery'
  <2>1. writer[c] # "writing" /\ hand[c] = 0
    <3>1. Line(got[c], hand[c], send[c]) = <<>>
      BY <1>4, ArrivedIsLine DEF Register, Delivery, NothingBefore
    <3>2. hand[c] = 0 \/ hand[c] \in Events
      BY <1>1, HubAssumption DEF Events
    <3> QED
      BY <1>1, <3>1, <3>2, LineShortened DEF HandIsWriting
  <2>2. UNCHANGED <<got, hand, send>>
    BY <1>4, <2>1 DEF Register, ghosts, TypeOK
  <2> QED
    BY <1>2, <1>3, <1>4, <2>2 DEF Register, TypeOK
<1>5. ASSUME NEW c \in Clients, LinkLost(c) \/ ReadFails(c) \/ CloseRemove(c) \/ CloseSend(c)
      PROVE  Delivery'
  <2>1. UNCHANGED <<got, hand, send, user, writer, events, call, ghosts>>
    BY <1>5 DEF LinkLost, ReadFails, CloseRemove, CloseSend, ghosts
  <2>2. \A d \in Clients : (link'[d] = "none" <=> link[d] = "none") /\ (d \in clients' => d \in clients)
    BY <1>5 DEF LinkLost, ReadFails, CloseRemove, CloseSend, TypeOK
  <2> QED
    BY <1>2, <1>3, <2>1, <2>2
<1>6. ASSUME NEW c \in Clients, WriterTake(c) \/ WriterWrite(c)
      PROVE  Delivery'
  <2>1. /\ UNCHANGED <<events, call, from, dropped, aborted, link, clients, user>>
        /\ writer[c] # "done" /\ \A d \in Clients \ {c} : writer'[d] = writer[d]
        /\ \A d \in Clients \ {c} : got'[d] = got[d] /\ hand'[d] = hand[d] /\ send'[d] = send[d]
    BY <1>6 DEF WriterTake, WriterWrite, ghosts, TypeOK
  <2>2. \A d \in Clients \ {c} : Arrived(d)' = Arrived(d)
    BY <2>1 DEF Arrived
  <2>3. Arrived(c)' = Line(got'[c], hand'[c], send'[c])
    BY ArrivedIsLine DEF Arrived, Line
  <2>4. CASE WriterTake(c)
    <3>1. /\ hand[c] = 0 /\ send[c] # <<>>
          /\ got'[c] = got[c] /\ hand'[c] = Head(send[c]) /\ send'[c] = Tail(send[c])
      BY <2>4 DEF WriterTake, ghosts, TypeOK, HandIsWriting
    <3>2. Arrived(c)' = Arrived(c)
      BY <1>1, <2>3, <3>1, LineTaken, ArrivedIsLine
    <3> QED
      BY <1>2, <2>1, <2>2, <3>2
  <2>5. CASE WriterWrite(c)
    <3>1. /\ hand[c] \in Events
          /\ got'[c] = Append(got[c], hand[c]) /\ hand'[c] = 0 /\ send'[c] = send[c]
      BY <1>1, <2>5, HubAssumption DEF WriterWrite, TypeOK, HandIsWriting, Events
    <3>2. Arrived(c)' = Arrived(c)
      BY <1>1, <2>3, <3>1, LineWritten, ArrivedIsLine
    <3> QED
      BY <1>2, <2>1, <2>2, <3>2
  <2> QED
    BY <1>6, <2>4, <2>5
<1>7. ASSUME NEW c \in Clients, WriterFails(c) \/ WriterStops(c)
      PROVE  Delivery'
  <2>1. /\ UNCHANGED <<events, call, ghosts, got, send, link, clients, user>>
        /\ writer[c] \in {"select", "writing"}
        /\ writer'[c] = "done" /\ \A d \in Clients \ {c} : writer'[d] = writer[d]
        /\ hand'[c] = 0 /\ \A d \in Clients \ {c} : hand'[d] = hand[d]
    BY <1>7 DEF WriterFails, WriterStops, ghosts, TypeOK
  <2>2. \A d \in Clients \ {c} : Arrived(d)' = Arrived(d)
    BY <2>1 DEF Arrived
  <2>3. CASE hand[c] = 0
    <3>1. Arrived(c)' = Arrived(c)
      BY <2>1, <2>3 DEF Arrived
    <3> QED
      BY <1>2, <2>1, <2>2, <3>1
  <2>4. CASE hand[c] # 0
    <3>1. hand[c] \in Events
      BY <1>1, <2>4, HubAssumption DEF Events
    <3>2. PICK l, m : l = Line(got[c], hand[c], send[c]) /\ m = Line(got[c], 0, send[c])
      OBVIOUS
    <3>3. Arrived(c) = l /\ Arrived(c)' = m
      BY <2>1, <3>2, ArrivedIsLine DEF Arrived, Line
    <3>4. l # <<>> /\ Range(m) \subseteq Range(l) /\ (InOrder(l) => InOrder(m))
      BY <1>1, <3>1, <3>2, LineShortened
    <3>5. link[c] # "none" /\ InOrder(l)
      BY <3>3, <3>4 DEF Delivery, NothingBefore, LinesInOrder
    <3>6. Range(Arrived(c))' \subseteq Range(Arrived(c)) /\ InOrder(Arrived(c))'
      <4>1. from' = from
        BY <2>1 DEF ghosts
      <4>2. Range(Arrived(c))' = Range(m)
        BY <3>3 DEF Range
      <4>3. InOrder(Arrived(c))'
        BY <3>3, <3>4, <3>5, <4>1 DEF InOrder
      <4> QED
        BY <3>3, <3>4, <4>2, <4>3
    <3> QED
      BY <1>2, <2>1, <2>2, <3>5, <3>6
  <2> QED
    BY <2>3, <2>4
<1>8. ASSUME NEW b \in Callers, NEW c \in Clients, Drop(b, c)
      PROVE  Delivery'
  <2>1. Calling(b) /\ Offered(b, c) /\ c \in call[b].left
    BY <1>8 DEF Drop, Calling
  <2>2. /\ UNCHANGED <<user, link, clients, writer, got, hand, send, events, from, aborted>>
        /\ dropped' = dropped \union {<<c, call[b].event>>}
    BY <1>8 DEF Drop, connVars
  <2>3. \A a \in Callers : Calling(a)' => /\ Calling(a) /\ call'[a].event = call[a].event
                                          /\ call'[a].left \subseteq call[a].left
    BY <2>1, OfferedTo DEF Calling
  <2>4. \A a \in Callers : Calling(a) => \A d \in call[a].left :
          \/ Calling(a)' /\ call'[a].event = call[a].event /\ d \in call'[a].left
          \/ <<d, call[a].event>> \in dropped'
    BY <2>1, <2>2, OfferedTo DEF Calling
  <2> QED
    BY <1>1, <1>3, <2>2, <2>3, <2>4, DeliveryStays
<1>9. ASSUME NEW b \in Callers, Panic(b)
      PROVE  Delivery'
  <2>1. /\ UNCHANGED <<user, link, clients, writer, got, hand, send, events, from, dropped>>
        /\ Calling(b) /\ aborted' = aborted \union {call[b].event}
        /\ call'[b] = Idle /\ \A a \in Callers \ {b} : call'[a] = call[a]
    BY <1>9 DEF Panic, SendsOnClosed, Calling, connVars, TypeOK
  <2>2. ~Calling(b)' /\ \A a \in Callers \ {b} : Calling(a)' <=> Calling(a)
    BY <2>1 DEF Calling, Idle
  <2> QED
    BY <1>1, <1>3, <2>1, <2>2, DeliveryStays
<1>10. ASSUME NEW b \in Callers, NEW c \in Clients, Queue(b, c)
       PROVE  Delivery'
  <2>1. Calling(b) /\ Offered(b, c) /\ c \in call[b].left
    BY <1>10 DEF Queue, Calling
  <2>2. PICK e \in 1..events : e = call[b].event /\ e \in Events /\ from[e].caller = b
    BY <1>1, <2>1 DEF Delivery, CallsGoOn
  <2>3. /\ UNCHANGED <<user, link, clients, writer, got, hand, events, from, dropped, aborted>>
        /\ send'[c] = Append(send[c], e) /\ \A d \in Clients \ {c} : send'[d] = send[d]
    BY <1>10, <2>2 DEF Queue, ghosts, TypeOK
  <2>4. /\ \A a \in Callers \ {b} : call'[a] = call[a] /\ (Calling(a)' <=> Calling(a))
        /\ Calling(b)' => call'[b].event = e /\ call'[b].left = call[b].left \ {c}
        /\ call[b].left \ {c} # {} => Calling(b)'
    BY <2>1, <2>2, OfferedTo DEF Calling
  <2>5. \A d \in Clients \ {c} : Arrived(d)' = Arrived(d)
    BY <2>3 DEF Arrived
  <2>6. PICK l \in Seq(Events) : l = Arrived(c)
    BY <1>1
  <2>7. Arrived(c)' = Append(l, e)
    <3>1. Arrived(c)' = Line(got[c], hand[c], Append(send[c], e))
      BY <2>3 DEF Arrived, Line
    <3>2. Line(got[c], hand[c], Append(send[c], e)) = Append(Line(got[c], hand[c], send[c]), e)
      BY <1>1, <2>2, LineQueued, ZenonT(40)
    <3>3. l = Line(got[c], hand[c], send[c])
      BY <2>6, ArrivedIsLine
    <3> QED
      BY <3>1, <3>2, <3>3
  <2>8. \A d \in Range(l) : from[d].caller = from[e].caller => d < e
    <3>1. \A d \in Range(l) : d \in 1..events /\ d # e
      BY <2>1, <2>2, <2>6 DEF Delivery, CallsGoOn, ArrivedAtTargets
    <3>2. \A d \in 1..events : from[d].caller = b => d <= e
      BY <2>1, <2>2 DEF Delivery, CallsGoOn
    <3> QED
      BY <1>1, <2>2, <3>1, <3>2
  <2>9. InOrder(l)
    BY <2>6 DEF Delivery, LinesInOrder
  <2>10. Range(Append(l, e)) = Range(l) \union {e} /\ InOrder(Append(l, e))
    BY <2>2, <2>8, <2>9, InOrderAppended
  <2>11. Range(Arrived(c))' = Range(Arrived(c)) \union {e}
    BY <2>6, <2>7, <2>10 DEF Range
  <2>12. link[c] # "none" /\ c \in from[e].targets
    BY <2>1, <2>2 DEF Delivery, CallsGoOn, TargetsAreUsers
  <2>13. NothingBefore'
    BY <2>3, <2>5, <2>12 DEF Delivery, NothingBefore
  <2>14. TargetsAreUsers'
    BY <2>3 DEF Delivery, TargetsAreUsers
  <2>15. CallsGoOn'
    <3>1. SUFFICES ASSUME NEW a \in Callers, Calling(a)'
                   PROVE  /\ call'[a].event \in 1..events /\ from[call'[a].event].caller = a
                          /\ call'[a].left \subseteq from[call'[a].event].targets
                          /\ \A d \in call'[a].left : call'[a].event \notin Range(Arrived(d))'
                          /\ \A f \in 1..events : from[f].caller = a => f <= call'[a].event
      BY <2>3 DEF CallsGoOn
    <3>2. Calling(a) /\ call'[a].event = call[a].event /\ call'[a].left \subseteq call[a].left
      BY <2>1, <2>2, <2>4, <3>1
    <3>3. ASSUME NEW d \in call'[a].left
          PROVE  call'[a].event \notin Range(Arrived(d))'
      <4>1. d \in Clients /\ call[a].event \notin Range(Arrived(d))
        BY <1>1, <3>2, <3>3 DEF Delivery, CallsGoOn
      <4>2. CASE d # c
        BY <2>5, <3>2, <4>1, <4>2
      <4>3. CASE d = c
        <5>1. a # b
          BY <2>4, <3>1, <3>3, <4>3
        <5>2. call[a].event # e
          BY <2>2, <3>2, <5>1 DEF Delivery, CallsGoOn
        <5> QED
          BY <2>11, <3>2, <4>1, <4>3, <5>2
      <4> QED
        BY <4>2, <4>3
    <3> QED
      BY <3>2, <3>3 DEF Delivery, CallsGoOn
  <2>16. ArrivedAtTargets'
    BY <2>2, <2>3, <2>5, <2>11, <2>12 DEF Delivery, ArrivedAtTargets
  <2>17. LinesInOrder'
    <3>1. InOrder(Arrived(c))'
      BY <2>3, <2>7, <2>10 DEF InOrder
    <3>2. \A d \in Clients \ {c} : InOrder(Arrived(d))'
      BY <2>3, <2>5 DEF Delivery, LinesInOrder, InOrder
    <3> QED
      BY <3>1, <3>2 DEF LinesInOrder
  <2>18. AllAccounted'
    <3>1. SUFFICES ASSUME NEW f \in 1..events, NEW d \in from[f].targets
                   PROVE  Accounted(d, f)'
      BY <2>3 DEF AllAccounted
    <3>2. d \in Clients /\ Accounted(d, f)
      BY <1>1 DEF Delivery, AllAccounted
    <3>3. CASE f \in Range(Arrived(d))
      BY <2>5, <2>11, <3>2, <3>3 DEF Accounted
    <3>4. CASE <<d, f>> \in dropped \/ writer[d] = "done" \/ f \in aborted
      BY <2>3, <3>4 DEF Accounted
    <3>5. ASSUME NEW a \in Callers, Calling(a), call[a].event = f, d \in call[a].left
          PROVE  Accounted(d, f)'
      <4>1. CASE a = b /\ d = c
        BY <2>2, <2>11, <3>5, <4>1 DEF Accounted
      <4>2. CASE ~(a = b /\ d = c)
        BY <2>2, <2>4, <3>5, <4>2 DEF Accounted
      <4> QED
        BY <4>1, <4>2
    <3> QED
      BY <3>2, <3>3, <3>4, <3>5 DEF Accounted
  <2> QED
    BY <2>13, <2>14, <2>15, <2>16, <2>17, <2>18 DEF Delivery
<1>11. ASSUME NEW b \in Callers, NEW u \in Users, Snapshot(b, u)
       PROVE  Delivery'
  <2>1. PICK ts \in SUBSET Clients :
          /\ ts = { c \in clients : user[c] = u }
          /\ call' = [call EXCEPT ![b] = [pc |-> "send", event |-> events + 1, left |-> ts]]
          /\ from' = Append(from, [caller |-> b, user |-> u, targets |-> ts])
    BY <1>11 DEF Snapshot, TypeOK
  <2>2. PICK e \in Nat : e = events + 1
    BY <1>1, HubAssumption
  <2>3. /\ \A f \in 1..events : from'[f] = from[f]
        /\ from'[e].caller = b /\ from'[e].user = u /\ from'[e].targets = ts
    <3> DEFINE r == [caller |-> b, user |-> u, targets |-> ts]
    <3>1. r \in [caller : Callers, user : Users, targets : SUBSET Clients]
      OBVIOUS
    <3>2. from \in Seq([caller : Callers, user : Users, targets : SUBSET Clients]) /\ Len(from) = events
      BY DEF TypeOK
    <3>3. r.caller = b /\ r.user = u /\ r.targets = ts
      OBVIOUS
    <3>4. from' = Append(from, r)
      BY <2>1
    <3> HIDE DEF r
    <3> QED
      BY <2>2, <3>1, <3>2, <3>3, <3>4, AppendProperties
  <2>4. /\ ~Calling(b) /\ Calling(b)' /\ call'[b].event = e /\ call'[b].left = ts
        /\ \A a \in Callers \ {b} : call'[a] = call[a] /\ (Calling(a)' <=> Calling(a))
    BY <1>11, <2>1, <2>2 DEF Snapshot, Calling, Idle, TypeOK
  <2>5. /\ UNCHANGED <<user, link, clients, writer, dropped, aborted>>
        /\ \A c : Arrived(c)' = Arrived(c)
        /\ events' = e
    BY <1>3, <1>11, <2>2 DEF Snapshot, connVars
  <2>6. \A c \in ts : c \in Clients /\ link[c] # "none" /\ user[c] = u
    BY <2>1 DEF Delivery, NothingBefore, TypeOK
  <2>7. /\ 1..e = 1..events \union {e} /\ e \notin 1..events /\ \A f \in 1..events : f <= e
        /\ e \in 1..e
    BY <1>1, <2>2
  <2>8. \A c \in Clients : \A f \in Range(Arrived(c)) : f \in 1..events /\ from'[f] = from[f]
    BY <2>3 DEF Delivery, ArrivedAtTargets
  <2>9. NothingBefore'
    BY <2>5 DEF Delivery, NothingBefore
  <2>10. TargetsAreUsers'
    BY <2>3, <2>5, <2>6, <2>7 DEF Delivery, TargetsAreUsers
  <2>11. CallsGoOn'
    <3>1. ASSUME NEW a \in Callers, Calling(a)'
          PROVE  /\ call'[a].event \in 1..e /\ from'[call'[a].event].caller = a
                 /\ call'[a].left \subseteq from'[call'[a].event].targets
                 /\ \A c \in call'[a].left : call'[a].event \notin Range(Arrived(c))
                 /\ \A f \in 1..e : from'[f].caller = a => f <= call'[a].event
      <4>1. CASE a = b
        BY <2>3, <2>4, <2>6, <2>7, <2>8, <4>1
      <4>2. CASE a # b
        BY <2>3, <2>4, <2>7, <3>1, <4>2 DEF Delivery, CallsGoOn
      <4> QED
        BY <4>1, <4>2
    <3> QED
      BY <2>5, <3>1 DEF CallsGoOn
  <2>12. ArrivedAtTargets'
    BY <2>5, <2>7, <2>8 DEF Delivery, ArrivedAtTargets
  <2>13. LinesInOrder'
    <3>1. SUFFICES ASSUME NEW c \in Clients
                   PROVE  InOrder(Arrived(c))'
      BY DEF LinesInOrder
    <3>2. PICK l \in Seq(Events) : l = Arrived(c)
      BY <1>1
    <3>3. \A i \in 1..Len(l) : from'[l[i]] = from[l[i]]
      <4>1. \A i \in 1..Len(l) : l[i] \in Range(l)
        BY LenProperties DEF Range
      <4> QED
        BY <2>8, <3>2, <4>1
    <3>4. InOrder(l)
      BY <3>2 DEF Delivery, LinesInOrder
    <3> QED
      BY <2>5, <3>2, <3>3, <3>4 DEF InOrder
  <2>14. AllAccounted'
    <3>1. SUFFICES ASSUME NEW f \in 1..e, NEW c \in from'[f].targets
                   PROVE  Accounted(c, f)'
      BY <2>5 DEF AllAccounted
    <3>2. CASE f = e
      BY <2>3, <2>4, <3>1, <3>2 DEF Accounted
    <3>3. CASE f \in 1..events
      <4>1. Accounted(c, f)
        BY <2>3, <3>1, <3>3 DEF Delivery, AllAccounted
      <4>2. \A a \in Callers : Calling(a) => Calling(a)' /\ call'[a] = call[a]
        BY <2>4
      <4> QED
        BY <2>5, <4>1, <4>2 DEF Accounted
    <3> QED
      BY <2>7, <3>2, <3>3
  <2> QED
    BY <2>9, <2>10, <2>11, <2>12, <2>13, <2>14 DEF Delivery
<1>12. CASE UNCHANGED vars
  BY <1>2, <1>3, <1>12 DEF vars, connVars, ghosts
<1> QED
  BY <1>4, <1>5, <1>6, <1>7, <1>8, <1>9, <1>10, <1>11, <1>12 DEF Next, Conn, Offer

-----------------------------------------------------------------------------

\* The hub starts safely.
LEMMA InitIsSafe == Init => Safety
<1> SUFFICES ASSUME Init PROVE Safety
  OBVIOUS
<1>1. Len(<<>>) = 0 /\ 0 \in 0..MaxEvents /\ SendBuffer \in Nat /\ 1..0 = {} /\ Idle.pc # "send"
  BY HubAssumption DEF Idle
<1>2. TypeOK /\ HandIsWriting
  <2>1. /\ user \in [Clients -> Users \union {Nobody}]
        /\ link \in [Clients -> {"none", "up", "lost", "closed"}]
        /\ reader \in [Clients -> {"off", "reading", "removing", "closing", "done"}]
        /\ writer \in [Clients -> {"off", "select", "writing", "done"}]
    BY DEF Init
  <2>2. hand \in [Clients -> 0..MaxEvents]
    BY <1>1 DEF Init
  <2>3. send \in [Clients -> Seq(Events)] /\ got \in [Clients -> Seq(Events)]
    <3>1. <<>> \in Seq(Events)
      OBVIOUS
    <3> QED
      BY <3>1 DEF Init
  <2>4. \A c \in Clients : Len(send[c]) <= SendBuffer
    BY <1>1 DEF Init
  <2>5. call \in [Callers -> {Idle} \union
                    [pc : {"send"}, event : Events, left : SUBSET Clients]]
    BY DEF Init
  <2>6. /\ from \in Seq([caller : Callers, user : Users, targets : SUBSET Clients])
        /\ events = 0 /\ Len(from) = events
    BY <1>1 DEF Init
  <2>7. HandIsWriting
    BY DEF Init, HandIsWriting
  <2> QED
    BY <1>1, <2>1, <2>2, <2>3, <2>4, <2>5, <2>6, <2>7 DEF Init, TypeOK
<1>3. \A c \in Clients : Arrived(c) = <<>>
  BY DEF Init, Arrived
<1>4. Range(<<>>) = {}
  BY DEF Range
<1>5. Delivery
  BY <1>1, <1>3, <1>4 DEF Init, Delivery, NothingBefore, TargetsAreUsers, CallsGoOn, Calling,
                          ArrivedAtTargets, LinesInOrder, InOrder, AllAccounted
<1> QED
  BY <1>2, <1>5 DEF Safety

\* Lines hold what was broadcast to their connections, in order, and every
\* target of a broadcast is accounted for (BroadcastToUser, writePump, Close).
THEOREM SafetyHolds == Spec => []Safety
<1>1. Safety /\ [Next]_vars => Safety'
  BY TypeStep, DeliveryStep DEF Safety
<1> QED
  BY <1>1, InitIsSafe, PTL DEF Spec

\* Variables keep their types: no channel outgrows its capacity.
THEOREM TypeCorrect == Spec => []TypeOK
<1>1. Safety => TypeOK
  BY DEF Safety
<1> QED
  BY <1>1, SafetyHolds, PTL

\* A connection receives events of its own user only, those of one caller in
\* the order they were made and none twice, however the pumps are scheduled.
THEOREM RoutedInOrderHolds == Spec => []RoutedInOrder
<1>1. Safety => RoutedInOrder
  BY DEF Safety, Delivery, RoutedInOrder, TargetsAreUsers, ArrivedAtTargets, LinesInOrder, InOrder
<1> QED
  BY <1>1, SafetyHolds, PTL

\* When a broadcast is over, a target without the event found its own channel
\* full or is ending: no connection costs another one an event.
THEOREM OnlyTheSlowLoseHolds == Spec => []OnlyTheSlowLose
<1>1. Safety => OnlyTheSlowLose
  BY CallTypes DEF Safety, Delivery, OnlyTheSlowLose, AllAccounted, Accounted
<1> QED
  BY <1>1, SafetyHolds, PTL
=============================================================================
