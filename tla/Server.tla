------------------------------- MODULE Server -------------------------------
(***************************************************************************)
(* The server as a process: what it opens when it starts, the MQTT bridge  *)
(* and its callbacks, the requests it serves, and how it stops.            *)
(*                                                                         *)
(* The MQTT library connects and reconnects by itself and starts a new     *)
(* goroutine for each callback, so callbacks may run out of order.  What   *)
(* the requests and the reports do is the subject of the other modules.    *)
(*                                                                         *)
(* Server... names the whole (ServerInit, ServerNext), so that the process *)
(* can be reasoned about beside what it serves.                            *)
(***************************************************************************)
EXTENDS Naturals, SequencesExt

CONSTANTS
    Topics,         \* the three wildcard topics of the devices' reports
    Requests,       \* connections of clients
    BrokerGiven,    \* whether a broker is configured
    MaxLosses       \* bound: how often the broker's connection breaks

ASSUME ServerAssumption == BrokerGiven \in BOOLEAN /\ MaxLosses \in Nat

VARIABLES
    pc,         \* where main is
    db, rdb,    \* "none", "open" or "closed"
    bridge,     \* "none", or "attached" to the device service
    library,    \* the MQTT client: "off", "on" or "stopped"
    link,       \* the library has a connection to the broker
    connected,  \* the bridge's flag: publish only if it is set
    subs,       \* the topics the broker sends on this connection
    refused,    \* ghost: those it was asked for on this connection in vain
    calls,      \* callbacks started and not finished, oldest first
    losses,     \* connections lost so far
    rest,       \* requests being served
    socks,      \* connections upgraded to a WebSocket: no longer the server's
    late,       \* ghost: Shutdown gave up waiting
    crossed     \* ghost: a callback has overtaken an older one

mqtt   == <<library, link, connected, subs, refused, calls, losses, crossed>>
http   == <<rest, socks>>
stores == <<db, rdb>>
serverVars == <<pc, stores, bridge, mqtt, http, late>>

Stages == {"mysql", "redis", "dial", "wait", "serve", "drain",
           "close_db", "close_redis", "close_mqtt", "exited"}
Store == {"none", "open", "closed"}
Call  == [kind : {"up", "lost", "subscribe"}, todo : SUBSET Topics]

\* The type invariant.
ServerTypeOK ==
    /\ pc \in Stages
    /\ db \in Store /\ rdb \in Store
    /\ bridge \in {"none", "attached"}
    /\ library \in {"off", "on", "stopped"}
    /\ link \in BOOLEAN /\ connected \in BOOLEAN
    /\ subs \subseteq Topics /\ refused \subseteq Topics
    /\ calls \in Seq(Call)
    /\ losses \in 0..MaxLosses
    /\ rest \subseteq Requests /\ socks \subseteq Requests
    /\ late \in BOOLEAN /\ crossed \in BOOLEAN

ServerInit ==
    /\ pc = "mysql"
    /\ db = "none" /\ rdb = "none" /\ bridge = "none"
    /\ library = "off" /\ link = FALSE /\ connected = FALSE
    /\ subs = {} /\ refused = {} /\ calls = <<>> /\ losses = 0
    /\ rest = {} /\ socks = {}
    /\ late = FALSE /\ crossed = FALSE

-----------------------------------------------------------------------------
(* main: buildDeps *)

\* A database that cannot be reached is done without.
InitMySQL ==
    /\ pc = "mysql" /\ pc' = "redis"
    /\ db' \in {"none", "open"}
    /\ UNCHANGED <<rdb, bridge, mqtt, http, late>>

InitRedis ==
    /\ pc = "redis" /\ pc' = "dial"
    /\ rdb' \in {"none", "open"}
    /\ UNCHANGED <<db, bridge, mqtt, http, late>>

\* Faulty variant: the device service is not asked for.
WantsBridgeAnyway == BrokerGiven

WantsBridge == BrokerGiven /\ db # "none"

\* NewBridge: from here on the library tries to connect, for as long as it lives.
Dial ==
    /\ pc = "dial"
    /\ IF WantsBridge THEN pc' = "wait" /\ library' = "on"
                      ELSE pc' = "serve" /\ UNCHANGED library
    /\ UNCHANGED <<stores, bridge, link, connected, subs, refused, calls, losses, crossed, http,
                   late>>

\* The first connection comes in time, or NewBridge gives up without stopping
\* the library.
BridgeReady ==
    /\ pc = "wait" /\ pc' = "serve"
    /\ link \/ calls # <<>>
    /\ bridge' = "attached"
    /\ UNCHANGED <<stores, mqtt, http, late>>

BridgeGivesUp ==
    /\ pc = "wait" /\ pc' = "serve"
    /\ UNCHANGED <<stores, bridge, mqtt, http, late>>

-----------------------------------------------------------------------------
(* main: serving and stopping *)

\* The port is taken: the process ends at once, and closes nothing.
ListenFails ==
    /\ pc = "serve" /\ rest = {} /\ socks = {}
    /\ pc' = "exited"
    /\ UNCHANGED <<stores, bridge, mqtt, http, late>>

Signal ==
    /\ pc = "serve" /\ pc' = "drain"
    /\ UNCHANGED <<stores, bridge, mqtt, http, late>>

\* Faulty variant: the listener is closed and the requests are left to themselves.
DrainedUnawaited ==
    /\ pc = "drain" /\ pc' = "close_db"
    /\ UNCHANGED <<stores, bridge, mqtt, http, late>>

\* Shutdown waits for the requests, five seconds at most; it does not know of
\* the WebSockets.
Drained ==
    /\ pc = "drain" /\ pc' = "close_db"
    /\ rest = {}
    /\ UNCHANGED <<stores, bridge, mqtt, http, late>>

\* Faulty variant: Shutdown has no deadline.
DrainTimeoutNever == FALSE

DrainTimeout ==
    /\ pc = "drain" /\ pc' = "close_db"
    /\ late' = TRUE
    /\ UNCHANGED <<stores, bridge, mqtt, http>>

Closed(s) == IF s = "open" THEN "closed" ELSE s

CloseDB ==
    /\ pc = "close_db" /\ pc' = "close_redis"
    /\ db' = Closed(db)
    /\ UNCHANGED <<rdb, bridge, mqtt, http, late>>

CloseRedis ==
    /\ pc = "close_redis" /\ pc' = "close_mqtt"
    /\ rdb' = Closed(rdb)
    /\ UNCHANGED <<db, bridge, mqtt, http, late>>

\* Reports are handled until here, and no callback follows a wanted disconnect.
CloseMQTT ==
    /\ pc = "close_mqtt" /\ pc' = "exited"
    /\ IF bridge = "attached"
         THEN /\ library' = "stopped" /\ link' = FALSE /\ connected' = FALSE /\ subs' = {}
              /\ UNCHANGED <<refused, calls, losses, crossed>>
         ELSE UNCHANGED mqtt
    /\ UNCHANGED <<stores, bridge, http, late>>

-----------------------------------------------------------------------------
(* Clients *)

Begin(r) ==
    /\ pc = "serve" /\ r \notin rest \union socks
    /\ rest' = rest \union {r}
    /\ UNCHANGED <<pc, stores, bridge, mqtt, socks, late>>

\* /v1/voice and /ws
Upgrade(r) ==
    /\ r \in rest
    /\ rest' = rest \ {r} /\ socks' = socks \union {r}
    /\ UNCHANGED <<pc, stores, bridge, mqtt, late>>

End(r) ==
    /\ r \in rest \union socks
    /\ rest' = rest \ {r} /\ socks' = socks \ {r}
    /\ UNCHANGED <<pc, stores, bridge, mqtt, late>>

-----------------------------------------------------------------------------
(* The MQTT library, and the bridge's callbacks *)

Start(kind) == calls' = Append(calls, [kind |-> kind, todo |-> {}])

\* A clean session: the broker has forgotten the subscriptions.
LinkUp ==
    /\ library = "on" /\ ~link
    /\ link' = TRUE /\ subs' = {} /\ refused' = {}
    /\ Start("up")
    /\ UNCHANGED <<pc, stores, bridge, library, connected, losses, crossed, http, late>>

LinkLost ==
    /\ link /\ losses < MaxLosses
    /\ link' = FALSE /\ subs' = {} /\ refused' = {}
    /\ losses' = losses + 1
    /\ Start("lost")
    /\ UNCHANGED <<pc, stores, bridge, library, connected, crossed, http, late>>

Overtakes(i) == \E j \in 1..(i - 1) : calls[j].kind # "subscribe"

\* Faulty variant: the topics are subscribed to once, while the server starts.
OnConnectFirst(i) ==
    /\ calls[i].kind = "up"
    /\ connected' = TRUE
    /\ calls' = IF pc = "wait" THEN [calls EXCEPT ![i] = [kind |-> "subscribe", todo |-> Topics]]
                               ELSE RemoveAt(calls, i)
    /\ crossed' = (crossed \/ Overtakes(i))
    /\ UNCHANGED <<pc, stores, bridge, library, link, subs, refused, losses, http, late>>

OnConnect(i) ==
    /\ calls[i].kind = "up"
    /\ connected' = TRUE
    /\ calls' = [calls EXCEPT ![i] = [kind |-> "subscribe", todo |-> Topics]]
    /\ crossed' = (crossed \/ Overtakes(i))
    /\ UNCHANGED <<pc, stores, bridge, library, link, subs, refused, losses, http, late>>

\* Faulty variant: the flag is left as it is.
OnConnectionLostSilent(i) ==
    /\ calls[i].kind = "lost"
    /\ calls' = RemoveAt(calls, i)
    /\ crossed' = (crossed \/ Overtakes(i))
    /\ UNCHANGED <<pc, stores, bridge, library, link, connected, subs, refused, losses, http,
                   late>>

OnConnectionLost(i) ==
    /\ calls[i].kind = "lost"
    /\ connected' = FALSE
    /\ calls' = RemoveAt(calls, i)
    /\ crossed' = (crossed \/ Overtakes(i))
    /\ UNCHANGED <<pc, stores, bridge, library, link, subs, refused, losses, http, late>>

\* One topic after the other, in any order.  A topic that cannot be subscribed
\* to, because the connection is gone or the broker refuses it or does not answer
\* in time, is logged at most: the next one is tried, and that one never again.
SubscribeNext(i, t) ==
    /\ calls[i].kind = "subscribe" /\ t \in calls[i].todo
    /\ \/ link /\ subs' = subs \union {t} /\ UNCHANGED refused
       \/ link /\ refused' = refused \union {t} /\ UNCHANGED subs
       \/ ~link /\ UNCHANGED <<subs, refused>>
    /\ calls' = IF calls[i].todo = {t} THEN RemoveAt(calls, i)
                                       ELSE [calls EXCEPT ![i].todo = @ \ {t}]
    /\ UNCHANGED <<pc, stores, bridge, library, link, connected, losses, crossed, http, late>>

-----------------------------------------------------------------------------

\* What main does by itself; the signal comes from outside.
Main ==
    \/ InitMySQL \/ InitRedis \/ Dial \/ BridgeReady \/ BridgeGivesUp
    \/ Drained \/ DrainTimeout \/ CloseDB \/ CloseRedis \/ CloseMQTT

Client == \E r \in Requests : Begin(r) \/ Upgrade(r) \/ End(r)

Callback(i) == OnConnect(i) \/ OnConnectionLost(i) \/ \E t \in Topics : SubscribeNext(i, t)

\* An exited process does nothing any more.
ServerNext ==
    /\ pc # "exited"
    /\ \/ Main \/ ListenFails \/ Signal \/ Client
       \/ LinkUp \/ LinkLost \/ \E i \in DOMAIN calls : Callback(i)

ServerSpec == ServerInit /\ [][ServerNext]_serverVars

\* main and the callbacks are goroutines and run.  Nothing makes a request end,
\* the broker answer, or a signal come.
ServerFairSpec ==
    /\ ServerSpec
    /\ WF_serverVars(Main)
    /\ WF_serverVars(\E i \in DOMAIN calls : Callback(i))

-----------------------------------------------------------------------------
(* Properties *)

\* Unless Shutdown gave up waiting, no request that it knows of is cut off from
\* the database (main, deps.Close): the rest are WebSockets and reports.
DrainedBeforeClose == db = "closed" /\ ~late => rest = {}

\* Until the server has drained its requests, a report meets the database its
\* handlers write to (main, buildDeps; deps.Close closes it before the bridge).
ReportsFindDatabase ==
    library = "on" /\ pc \notin {"close_redis", "close_mqtt", "exited"} => db = "open"

\* If the callbacks ran in the order of the events, the flag says in the end
\* whether there is a connection (onConnect, onConnectionLost, Status).
FlagFollows ==
    library = "on" /\ ~crossed /\ (\A i \in DOMAIN calls : calls[i].kind = "subscribe")
      => connected = link

\* What makes the three above inductive: what is off has done nothing, the stores
\* are closed in order, and the last event that waits to be handled tells
\* whether there is a connection.
QuietUntilDialled ==
    /\ library = "off" => calls = <<>> /\ ~link /\ ~connected /\ bridge = "none"
    /\ pc \in {"mysql", "redis", "dial"} => library = "off"

ClosedInOrder ==
    /\ db = "closed" => pc \in {"close_redis", "close_mqtt", "exited"}
    /\ pc \in {"close_db", "close_redis", "close_mqtt"} /\ ~late => rest = {}

LastEventTells ==
    library = "on" /\ ~crossed =>
        \A i \in DOMAIN calls :
            /\ calls[i].kind # "subscribe"
            /\ \A j \in DOMAIN calls : j > i => calls[j].kind = "subscribe"
            => (link <=> calls[i].kind = "up")

ServerSafety ==
    /\ ServerTypeOK /\ QuietUntilDialled /\ ClosedInOrder /\ LastEventTells
    /\ DrainedBeforeClose /\ ReportsFindDatabase /\ FlagFollows

\* A server told to stop stops, whatever its clients and the broker do.
ShutdownEnds == (pc = "drain") ~> (pc = "exited")

\* However often the connection broke: once it stays, the server has subscribed
\* to all reports again, but for those the broker has refused since (subscribeAll;
\* the comment on NewBridge promises all of them).
SubscribedAgain ==
    <>[](link /\ pc # "exited") => <>[](subs \union refused = Topics)
=============================================================================
