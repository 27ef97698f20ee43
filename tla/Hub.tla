-------------------------------- MODULE Hub --------------------------------
(***************************************************************************)
(* The realtime hub: it pushes an event to every connection of a user.     *)
(*                                                                         *)
(* Each connection has a bounded channel, a write pump that takes events   *)
(* from it, and a read pump that only notices the end of the connection.   *)
(* A broadcast takes a snapshot of the user's connections under the lock,  *)
(* and then, unlocked, offers the event to each channel without blocking.  *)
(***************************************************************************)
EXTENDS Naturals, Sequences, SequencesExt, FiniteSets

CONSTANTS
    Users,
    Clients,        \* connections; each is made at most once
    Nobody,         \* the user of a connection not made yet
    Callers,        \* goroutines that call BroadcastToUser
    Detached,       \* those of them that no HTTP handler runs
    MaxEvents,      \* bound: broadcasts made
    SendBuffer      \* capacity of a connection's channel

ASSUME HubAssumption ==
    /\ Nobody \notin Users
    /\ Detached \subseteq Callers
    /\ MaxEvents \in Nat
    /\ SendBuffer \in Nat \ {0}

VARIABLES
    user,       \* user[c]: the user connection c authenticated as
    link,       \* link[c]: the connection as the network has it
    clients,    \* the connections in the hub's map
    reader,     \* reader[c]: where the goroutine in Run is
    writer,     \* writer[c]: where the write pump is
    hand,       \* hand[c]: the event the write pump is writing, or 0
    send,       \* send[c]: the channel
    closed,     \* the channels that have been closed
    call,       \* call[b]: the broadcast caller b is making
    crashed,    \* a panic has ended the process
    events,     \* number of broadcasts so far, and the id of the last
    from,       \* ghost: from[e], the caller, the user and the targets of e
    got,        \* ghost: got[c], the events written to connection c
    dropped,    \* ghost: <<c, e>>, e found c's channel full
    aborted     \* ghost: events whose broadcast a recovered panic cut short

connVars == <<user, link, clients, reader, writer, hand, send, closed>>
ghosts   == <<from, got, dropped, aborted>>
vars     == <<connVars, call, crashed, events, ghosts>>

Events == 1..MaxEvents
Idle   == [pc |-> "idle"]

\* The type invariant, with the channel's capacity.
TypeOK ==
    /\ user \in [Clients -> Users \union {Nobody}]
    /\ link \in [Clients -> {"none", "up", "lost", "closed"}]
    /\ clients \subseteq Clients /\ closed \subseteq Clients
    /\ reader \in [Clients -> {"off", "reading", "removing", "closing", "done"}]
    /\ writer \in [Clients -> {"off", "select", "writing", "done"}]
    /\ hand \in [Clients -> 0..MaxEvents]
    /\ send \in [Clients -> Seq(Events)] /\ \A c \in Clients : Len(send[c]) <= SendBuffer
    /\ call \in [Callers -> {Idle} \union
                   [pc : {"send"}, event : Events, left : SUBSET Clients]]
    /\ crashed \in BOOLEAN
    /\ events \in 0..MaxEvents
    /\ from \in Seq([caller : Callers, user : Users, targets : SUBSET Clients])
    /\ Len(from) = events
    /\ got \in [Clients -> Seq(Events)]
    /\ dropped \subseteq Clients \X Events /\ aborted \subseteq Events

Init ==
    /\ user = [c \in Clients |-> Nobody]
    /\ link = [c \in Clients |-> "none"]
    /\ clients = {} /\ closed = {}
    /\ reader = [c \in Clients |-> "off"]
    /\ writer = [c \in Clients |-> "off"]
    /\ hand = [c \in Clients |-> 0]
    /\ send = [c \in Clients |-> <<>>]
    /\ call = [b \in Callers |-> Idle]
    /\ crashed = FALSE
    /\ events = 0
    /\ from = <<>>
    /\ got = [c \in Clients |-> <<>>]
    /\ dropped = {} /\ aborted = {}

-----------------------------------------------------------------------------
Running == ~crashed /\ UNCHANGED crashed

(* A connection's life: Register, then Run. *)

Register(c, u) ==
    /\ Running
    /\ link[c] = "none"
    /\ user' = [user EXCEPT ![c] = u]
    /\ link' = [link EXCEPT ![c] = "up"]
    /\ clients' = clients \union {c}
    /\ reader' = [reader EXCEPT ![c] = "reading"]
    /\ writer' = [writer EXCEPT ![c] = "select"]
    /\ hand' = [hand EXCEPT ![c] = 0]
    /\ UNCHANGED <<send, closed, call, events, ghosts>>

\* The peer goes away, or the network does.
LinkLost(c) ==
    /\ Running
    /\ link[c] = "up"
    /\ link' = [link EXCEPT ![c] = "lost"]
    /\ UNCHANGED <<user, clients, reader, writer, hand, send, closed, call, events, ghosts>>

\* Faulty variant: Run returns without calling Close.
ReadFailsOnly(c) ==
    /\ Running
    /\ reader[c] = "reading"
    /\ link[c] = "lost"
    /\ link' = [link EXCEPT ![c] = "closed"]
    /\ reader' = [reader EXCEPT ![c] = "done"]
    /\ UNCHANGED <<user, clients, writer, hand, send, closed, call, events, ghosts>>

\* The read pump returns, closing the connection, and Run closes stop.
ReadFails(c) ==
    /\ Running
    /\ reader[c] = "reading"
    /\ link[c] = "lost"
    /\ link' = [link EXCEPT ![c] = "closed"]
    /\ reader' = [reader EXCEPT ![c] = "removing"]
    /\ UNCHANGED <<user, clients, writer, hand, send, closed, call, events, ghosts>>

\* Close: first out of the map, under the lock ...
CloseRemove(c) ==
    /\ Running
    /\ reader[c] = "removing"
    /\ clients' = clients \ {c}
    /\ reader' = [reader EXCEPT ![c] = "closing"]
    /\ UNCHANGED <<user, link, writer, hand, send, closed, call, events, ghosts>>

\* ... then, unlocked, the channel is closed.
CloseSend(c) ==
    /\ Running
    /\ reader[c] = "closing"
    /\ closed' = closed \union {c}
    /\ reader' = [reader EXCEPT ![c] = "done"]
    /\ UNCHANGED <<user, link, clients, writer, hand, send, call, events, ghosts>>

-----------------------------------------------------------------------------
(* The write pump *)

WriterTake(c) ==
    /\ Running
    /\ writer[c] = "select"
    /\ send[c] # <<>>
    /\ writer' = [writer EXCEPT ![c] = "writing"]
    /\ hand' = [hand EXCEPT ![c] = Head(send[c])]
    /\ send' = [send EXCEPT ![c] = Tail(@)]
    /\ UNCHANGED <<user, link, clients, reader, closed, call, events, ghosts>>

WriterWrite(c) ==
    /\ Running
    /\ writer[c] = "writing"
    /\ link[c] = "up"
    /\ got' = [got EXCEPT ![c] = Append(@, hand[c])]
    /\ writer' = [writer EXCEPT ![c] = "select"]
    /\ hand' = [hand EXCEPT ![c] = 0]
    /\ UNCHANGED <<user, link, clients, reader, send, closed, call, events, from, dropped, aborted>>

\* The write of an event or of a ping fails, or takes longer than its deadline
\* though the peer is still there.  The pump ends and leaves the rest alone.
WriterFails(c) ==
    /\ Running
    /\ writer[c] \in {"select", "writing"}
    /\ writer' = [writer EXCEPT ![c] = "done"]
    /\ hand' = [hand EXCEPT ![c] = 0]
    /\ UNCHANGED <<user, link, clients, reader, send, closed, call, events, ghosts>>

\* stop, or the closed channel once it is empty.
WriterStops(c) ==
    /\ Running
    /\ writer[c] = "select"
    /\ reader[c] \in {"removing", "closing", "done"} \/ (c \in closed /\ send[c] = <<>>)
    /\ writer' = [writer EXCEPT ![c] = "done"]
    /\ hand' = [hand EXCEPT ![c] = 0]
    /\ UNCHANGED <<user, link, clients, reader, send, closed, call, events, ghosts>>

-----------------------------------------------------------------------------
(* BroadcastToUser *)

\* Faulty variant: the snapshot takes everybody's connections.
SnapshotAll(b, u) ==
    /\ Running
    /\ call[b] = Idle
    /\ events < MaxEvents
    /\ clients # {}
    /\ call' = [call EXCEPT ![b] = [pc |-> "send", event |-> events + 1, left |-> clients]]
    /\ from' = Append(from, [caller |-> b, user |-> u, targets |-> clients])
    /\ events' = events + 1
    /\ UNCHANGED <<connVars, got, dropped, aborted>>

Snapshot(b, u) ==
    /\ Running
    /\ call[b] = Idle
    /\ events < MaxEvents
    /\ LET targets == { c \in clients : user[c] = u } IN
         /\ targets # {}
         /\ call' = [call EXCEPT ![b] = [pc |-> "send", event |-> events + 1, left |-> targets]]
         /\ from' = Append(from, [caller |-> b, user |-> u, targets |-> targets])
    /\ events' = events + 1
    /\ UNCHANGED <<connVars, got, dropped, aborted>>

Offered(b, c) ==
    LET left == call[b].left \ {c} IN
      call' = [call EXCEPT ![b] = IF left = {} THEN Idle ELSE [@ EXCEPT !.left = left]]

\* Faulty variant: the capacity is forgotten.
QueueUnbounded(b, c) ==
    /\ Running
    /\ call[b].pc = "send"
    /\ c \in call[b].left \ closed
    /\ send' = [send EXCEPT ![c] = Append(@, call[b].event)]
    /\ Offered(b, c)
    /\ UNCHANGED <<user, link, clients, reader, writer, hand, closed, events, ghosts>>

Queue(b, c) ==
    /\ Running
    /\ call[b].pc = "send"
    /\ c \in call[b].left \ closed
    /\ Len(send[c]) < SendBuffer
    /\ send' = [send EXCEPT ![c] = Append(@, call[b].event)]
    /\ Offered(b, c)
    /\ UNCHANGED <<user, link, clients, reader, writer, hand, closed, events, ghosts>>

\* Faulty variant: a full channel ends the broadcast.
DropAndReturn(b, c) ==
    /\ Running
    /\ call[b].pc = "send"
    /\ c \in call[b].left \ closed
    /\ Len(send[c]) = SendBuffer
    /\ dropped' = dropped \union {<<c, call[b].event>>}
    /\ call' = [call EXCEPT ![b] = Idle]
    /\ UNCHANGED <<connVars, events, from, got, aborted>>
Drop(b, c) ==
    /\ Running
    /\ call[b].pc = "send"
    /\ c \in call[b].left \ closed
    /\ Len(send[c]) = SendBuffer
    /\ dropped' = dropped \union {<<c, call[b].event>>}
    /\ Offered(b, c)
    /\ UNCHANGED <<connVars, events, from, got, aborted>>

SendsOnClosed(b) == call[b].pc = "send" /\ call[b].left \intersect closed # {}

\* A send on a closed channel panics.  net/http recovers a panic in a handler's
\* goroutine; in the goroutine of a voice command it ends the process.
Panic(b) ==
    /\ ~crashed
    /\ SendsOnClosed(b)
    /\ crashed' = (b \in Detached)
    /\ aborted' = aborted \union {call[b].event}
    /\ call' = [call EXCEPT ![b] = Idle]
    /\ UNCHANGED <<connVars, events, from, got, dropped>>

Conn(c) ==
    \/ \E u \in Users : Register(c, u)
    \/ LinkLost(c)
    \/ ReadFails(c) \/ CloseRemove(c) \/ CloseSend(c)
    \/ WriterTake(c) \/ WriterWrite(c) \/ WriterFails(c) \/ WriterStops(c)

Offer(b) == \E c \in Clients : Queue(b, c) \/ Drop(b, c)

Next ==
    \/ \E c \in Clients : Conn(c)
    \/ \E b \in Callers : Offer(b) \/ Panic(b) \/ \E u \in Users : Snapshot(b, u)

Spec == Init /\ [][Next]_vars

\* The scheduler runs every pump that can run.  No write need ever succeed.
TeardownSteps(c) == ReadFails(c) \/ CloseRemove(c) \/ CloseSend(c)
WriterSteps(c)   == WriterTake(c) \/ WriterFails(c) \/ WriterStops(c)

Fairness == \A c \in Clients : WF_vars(TeardownSteps(c)) /\ WF_vars(WriterSteps(c))

FairSpec == Spec /\ Fairness

-----------------------------------------------------------------------------
(* Properties *)

\* What a connection receives was meant for its user; events made by one
\* caller arrive in the order they were made, none of them twice.
Arrived(c) == got[c] \o (IF hand[c] # 0 THEN <<hand[c]>> ELSE <<>>) \o send[c]

RoutedInOrder ==
    \A c \in Clients :
        /\ \A e \in Range(Arrived(c)) : from[e].user = user[c]
        /\ \A i, j \in 1..Len(Arrived(c)) :
             i < j /\ from[Arrived(c)[i]].caller = from[Arrived(c)[j]].caller =>
                 Arrived(c)[i] < Arrived(c)[j]

\* A slow connection costs the others nothing: when a broadcast is over, each
\* of its targets has the event, or found its own channel full, or is ending.
OnlyTheSlowLose ==
    \A e \in 1..events :
        (\A b \in Callers : call[b] # Idle => call[b].event # e) /\ e \notin aborted =>
            \A c \in from[e].targets :
                \/ e \in Range(Arrived(c))
                \/ <<c, e>> \in dropped
                \/ writer[c] = "done"

\* A lost connection is forgotten: out of the map, both pumps over.
LostIsForgotten ==
    \A c \in Clients : link[c] = "lost" ~>
        (c \notin clients /\ reader[c] = "done" /\ writer[c] = "done") \/ crashed

\* A closing connection does not harm the callers, which is what the package's
\* comment on never blocking the business path promises of a slow one.
NeverSendsOnClosed == \A b \in Callers : ~SendsOnClosed(b)
=============================================================================
