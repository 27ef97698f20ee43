# A TLA+ model of Taffy Assistant

Taffy Assistant is a voice-controlled smart home. A piece of *furniture* with a
microphone streams speech to the *server*; the server relays it to a *worker*,
which has it recognised, asks a language model, and sends device commands and
replies back; the server executes the commands, records them, forwards them to
devices over MQTT, and tells the users' *Android clients* what changed.

The modules here model the parts of that system whose correctness depends on
the order in which things happen. Each definition is translated from the
source; `PROJECT.json` maps it to its lines. Paths below are relative to `src/`.

## 1. The system

| component | code | state it keeps | operations |
|---|---|---|---|
| device registry | `server/internal/{handler,service,repository}/device.go`, `migrations/` | tables `users`, `devices` | bind, rename, unbind, delete the account, heartbeat |
| device state and control | the same, `service/voice_command.go`, `service/mqtt_handlers.go`, `mqtt/bridge.go`, `furniture/mock_devices.py` | table `device_states`; the device's own state; MQTT sessions | PUT a state, execute `control_device`, publish, apply, report, synchronise |
| realtime hub | `server/internal/hub/hub.go`, `handler/realtime.go` | connections per user, a channel of 32 events each | register, read pump, write pump, close, broadcast |
| voice relay and history | `handler/voice.go`, `voice_session.go`, `voice_proto.go`, `service/conversation.go` | two connections per session, `cmdByToolID`, `lastUserMessageID`, tables `messages`, `commands` | relay up, relay down, execute a command, record, mark, end |
| worker orchestration | `worker/internal/handler/` | pending tool calls, two connections per session | echo, first and second model call, command, speech |
| furniture voice client | `furniture/mock_furniture.py` | microphone queue, segmenter, lookback and chunk buffers, the event `llm_done` | capture, segment, send, wait, resume, leave |
| speech recogniser | `model/asr_server/app.py` | the segment of each connection | start, audio, end |
| scenes | `service/scene.go`, `handler/scene.go`, `repository/conversation.go` | table `scenes` | create, update, delete, trigger by REST and by voice |
| accounts and sessions | `handler/auth.go`, `handler/user.go`, `service/user.go`, `repository/user.go`, `middleware/jwt.go` | table `users`, the tokens handed out, their blacklist in Redis | register, login, log out, change the password, edit, delete |
| server process, MQTT bridge | `server/cmd/server/main.go`, `database/`, `mqtt/bridge.go` | what is open; the bridge's flag and subscriptions | start, connect, lose the broker, resubscribe, stop |
| Android client | `client/app/.../websocket`, `.../ui` | view models, two WebSockets | toggle, edit, refresh, chat, reconnect |
| model servers, configuration, prompts, scripts | `model/{llm,tts}_server`, `config`, `worker/cmd`, `scripts` | none between calls | |

**Interaction.** A segment of speech goes furniture -> server -> worker ->
recogniser; its text comes back to the worker, which echoes it to the furniture
and asks the model. A tool call of the model becomes a `device_command` to the
server, which runs it on a goroutine of its own (`go handleDeviceCommand`):
look the device up, check its owner, upsert its state, publish the MQTT
command, broadcast to the hub, answer the worker. The answer starts the second
model call, whose text is the reply. REST handlers, voice goroutines and MQTT
callbacks share the tables without transactions, and the hub.

**What is hard.** Multi-statement operations without transactions; goroutines
per command, per insert and per model call with no order between them; four
pumps per voice session that have to end together; best-effort delivery to
devices and clients; sends on channels that may be closed; timeouts at every
hop. The list, each at its line, is under `hazards` in `PROJECT.json`.

What makes each component correct:

- *registry*: one bind wins; a device never passes from one user to another and
  never returns to the pool; an unbind deletes nobody else's device.
- *device state*: when all is quiet and nothing was lost, the row is the state
  of the device; an update changes only what it was given.
- *hub*: events reach the right user in order; a slow or closing client costs
  nobody else anything; a broken connection is forgotten.
- *relay and history*: frames in order; each command answered once and recorded
  as it ended; the session ends when a peer goes.
- *worker*: echo before reply before speech; one reply per turn or per command;
  the model is shown the call it really made; every turn is answered.
- *scenes*: an edit hits a scene of the one who asked; a trigger tries every
  command of one version of the list, once and in order, and ends.
- *accounts*: no two accounts share a contact; a token that was logged out stays
  out; a deleted account does not come back through a request under way.
- *server process*: no request is cut off from the database unless the deadline
  has passed, and no report before; the flag follows the connection; reports are
  subscribed to again after every reconnect, unless the broker refuses; a server
  told to stop stops.
- *furniture and recogniser*: what is recognised is what was sent; what is sent is
  what was said, whole, once and in order, and every segment is closed, unless an
  interrupt comes in the middle of a write; the furniture does not stay deaf.

## 2. Modules

| module | models | actions and their code |
|---|---|---|
| `Ownership` | what the registry promises: an abstract life of a device | `Bind`, `Abandon`, `Remove` |
| `DeviceRegistry` | tables `users` and `devices`; `req[h]` is a handler between two statements | `...Lookup` / `...CAS` / `...Update` / `...Delete` are the statements of one request; `Heartbeat` |
| `DeviceRegistryProofs` | theorems about `DeviceRegistry` | |
| `DeviceState` | table `device_states`, devices and MQTT; INSTANCEs `Ownership` for who owns what | `Put*`, `Voice*`, `Sync*` are the statements of the three writers; `DeviceApply`, `Report`, `DeviceDrop`, `BridgeDrop` and their reconnects |
| `DeviceStateProofs` | theorems about `DeviceState` | |
| `Hub` | connections, channels, pumps, broadcasts | `Register`, `ReadFails`, `Close*`, `Writer*`; `Snapshot`, `Queue`, `Drop`, `Panic` |
| `HubProofs` | theorems about `Hub` | |
| `VoiceRelay` | one voice session and its rows | `Up*`, `Down*` (pumps), `Cmd*` (one goroutine per command), `Insert`, `SetLastUser`, `Stop`, `End` |
| `VoiceRelayProofs` | theorems about `VoiceRelay` | |
| `Worker` | one orchestration session | `UpHandle`, `Asr*` (pumps), `First*`, `Remember`, `Issue`, `Pop`, `SecondReply`, `Synthesize` (goroutines) |
| `WorkerProofs` | theorems about `Worker` | |
| `VoiceTurn` | the furniture's main loop, callback and receiver, and the recogniser | `Mic*`; `SegmentStart`, `SegmentAudio`, `SegmentEnd`, `OutsideSegment` begin a write or need none, `SegmentBegins`, `ChunkSent`, `RestSent`, `EndSent` go on after one; `TakePaused`, `ResumeOnReply`, `WaitTimeout`; `StreamOver`, `Interrupted`, `InterruptedLast`, `SendRaises` leave the loop; `Asr*` |
| `VoiceTurnProofs` | theorems about `VoiceTurn` | |
| `Scenes` | table `scenes` and the triggers under way; `req[h]` as in `DeviceRegistry` | `...Lookup`, `Create`, `...Write` are the statements; `TriggerRead`, `RunNext`, `Answer` a trigger |
| `Accounts` | table `users`, tokens, Redis and the clock | `Register*`, `Login`, `Change*`, `ProfileUpdate`, `Delete*` are the statements; `Admit` is `RequireAuth`, `Revoke` the logout; `RedisFails`, `Tick` |
| `AccountsProofs` | theorems about `Accounts` | |
| `Server` | the process: what `main` opens and closes, the bridge, requests and WebSockets | `Init*`, `Dial`, `Bridge*`, `Signal`, `Drain*`, `Close*` (`main`); `OnConnect`, `OnConnectionLost`, `SubscribeNext` (callbacks); `Link*` (library) |
| `ScenesServerProofs` | theorems about `Scenes` and about `Server` | |
| `MCDeviceRegistry`, `MCDeviceState`, `MCAccounts`, `MCScenes` | instances for TLC | |

Each SQL statement, each lock-protected section and each write to a socket is
one step; what lies between two of them is a state in which others can move. A
write of the furniture is two, since Python's `await ws.send` may be cancelled:
the message goes out at once, and the loop waits at `loop` = "chunk" (or another
of `Writes`) for as long as the socket's buffer is full.
Data is abstract: a device row has its power and one level, a frame of sound is
its number and whether it is voice, text is the set of frames it came from.

`DeviceState` uses `Ownership`, which `DeviceRegistry` is proved to implement,
for its environment; `VoiceRelay`, `Worker` and `VoiceTurn` each treat the
component at the other end of their connection as an environment that may do
whatever that component's own module allows and more: the relay's worker says
anything about concurrent turns in any order, the worker's server answers
commands in any order (`AnsweredOnce` in `VoiceRelay`), and the furniture gets
any number of replies at any time (`RepliesCounted` and `Forsaken` in `Worker`).
`Scenes` takes a command as one step that succeeds, fails, or fails after its
write, which is what `DeviceState` shows of it. `Server` has only the lifecycle:
what requests and reports do is in the other modules. The `users` of
`DeviceRegistry` and `Scenes` are those of `Accounts`, seen only as accounts that
may be deleted at any time.

The definitions whose names extend the name of a neighbour (`RevokeElapsed`
beside `Revoke`) are faulty variants. They are part of no specification; each
shows that a property notices the mistake it stands for.

## 3. What the runs show

| run | instance | distinct states | shows |
|---|---|---|---|
| `registry` | 2 users, 2 devices, 2 labels, 2 handlers | 72 k | `UnbindHitsOwnDevice`, `ListedCanBeBound`, and that the registry implements `Ownership` |
| `state` | 1 user, 1 curtain, 1 PUT, 2 voice goroutines, 2 commands and 1 report in flight | 2.9 M | `QuietMeansAgreement`, `WritesInTheOwnersName` |
| `hub` | 2 users, 2 connections, 2 callers, 2 events, channels of 1 | 0.5 M | `RoutedInOrder`, `OnlyTheSlowLose`, `LostIsForgotten` |
| `relay` | 2 frames, 1 turn, 1 command, 1 reply | 0.26 M | `RelayedInOrder`, `AnsweredOnce`, `RecordsTellTheTruth`, `HangsOffUserMessage`, `SessionEnds` |
| `worker` | 2 turns, 2 tool calls, segments with speech, without a word and with nothing | 0.17 M | `InTurnOrder`, `RepliesCounted`, `TruthfulHistory`, `TurnsAnswered` |
| `turn` | 7 frames, queue of 1, 2 voiced frames to start, lookback and chunk of 2 | 1.04 M | `HeardIsSpoken`, `FirstWordKept`, `InCaptureOrder`, `EveryResumeIsEarned`, `EverySegmentEnded`, `ConversationGoesOn` |
| `accounts` | 1 phone, 1 email, 2 passwords, 2 accounts, 2 handlers, tokens valid for 1 of 2 seconds | 4.1 M | `OneAccountPerContact`, `LogoutHolds`, `DeletedStaysDeleted` |
| `scenes` | 2 users, 2 devices, 2 scenes, lists of 2 commands and one that is no list, 2 handlers | 0.66 M | `WritesHitOwnScene`, `LeftAsAsked`, `EveryCommandTried`, `TriggersEnd` |
| `server` | 1 request, 2 topics, 2 lost connections | 0.50 M | `DrainedBeforeClose`, `ReportsFindDatabase`, `FlagFollows`, `ShutdownEnds`, `SubscribedAgain` |

The runs of `state`, `hub`, `relay` and `turn` check their type invariant
(`TypeOK`) as well, which bounds rows, channels, row ids and buffers; the others
leave it to the proofs.

The other runs end with a violation, each of something the repository says of
itself:

| run | property | the disagreement |
|---|---|---|
| `hub_panic` | `NeverSendsOnClosed` | a client is closed between the snapshot and the send; in a command's goroutine nothing recovers the panic |
| `relay_writers` | `NoConcurrentWorkerWrite` | a command's result and a relayed frame are written to the worker's connection at once, without a lock |
| `accounts_contact` | `OneContactIsEnough` | a registration by email without a phone and a nickname panics on the phone's last four digits |

**Known disagreements** that the models have and no run is spent on. They are why
the properties above are not stated more strongly.

- Two updates of different fields of one device: the second writes the whole row
  it read, and the first is lost (`device.go:123`: only the given fields).
  `QuietMeansAgreement` is about the row and the device, not about the requests.
- A command is recorded under the message that was stored last, which may be
  another turn's (`voice_session.go:18`). `HangsOffUserMessage` says only that it
  is a user's message.
- The comment on `AppendCommand` (`service/conversation.go:89`) has a command
  recorded under a message of the assistant. The code, and the comment on
  `voiceSession`, record it under the user's (`voice_session.go:151`), since the
  reply does not exist yet. `HangsOffUserMessage` checks and proves the latter.
- `docs/02-需求分析文档.md:244` and `:521` promise an empty `llm_result` for a segment
  in which nothing was recognised. The recogniser sends no final for it
  (`asr_server/app.py:407`), so the worker replies nothing, and the furniture waits
  for its timeout. `Forsaken` names this way out of `TurnsAnswered` as `Unheard`;
  with it taken out of `Forsaken` TLC finds the unanswered segment.
- The comment on `NewBridge` (`mqtt/bridge.go:83`) has a connection subscribe to the
  three topics. One that is refused is logged, one that is not answered within
  three seconds not even that, and neither is tried again (`bridge.go:134`).
  `SubscribedAgain` leaves out the topics that were `refused` since the reconnect.
- A session gets no record of a command whose row could not be inserted, for
  instance of a scene, which has no device id (`voice_session.go:151`).
  `RecordsTellTheTruth` is about the rows there are.
- A reply that comes after the timeout, or a second one, ends the wait of the next
  turn. `EveryResumeIsEarned` says that it ends no two.
- Ctrl+C while the furniture waits for a write to go out, which needs a link that
  is stalled. In a chunk: it is cleared only after the write
  (`mock_furniture.py:282`), and sent again on the way out. In the rest of a
  segment (`:317`): the detector has left the segment, so no end follows on a link
  that works. In a start (`:311`): the segment is closed without its lookback. Each
  is an exception that its property names (`InCaptureOrder`, `EverySegmentEnded`,
  `FirstWordKept`), with the write that was cut, and the only one.
- While Redis does not answer, tokens that were logged out are let pass (`jwt.go:73`),
  so `LogoutHolds` speaks of the time when it does.
- The old password is compared with a row read before the new one is written
  (`service/user.go:118`): two changes at once both succeed.
- What the furniture hears during the wait is still queued and becomes the next
  segment (`furniture/README.md:34`: no audio is collected).
- Of two updates of a device, the event of the earlier may be broadcast last.
- Whoever leaves out the phone, or the email, stores an empty one, and the key
  allows that to one account only (`OneAccountPerContact` counts the blank too):
  the second is answered with an internal error.
- When the broker answers after `NewBridge` gave up, reports are handled and
  commands are never published (`BridgeGivesUp` leaves the library on).
- The database is closed before the bridge (`main.go:98`): a report in between is
  handled and fails. `ReportsFindDatabase` ends where the closing begins.
- A callback that is overtaken by a later one leaves the flag wrong until the
  next change of the connection (`FlagFollows` excludes it by `crossed`).

**Bounds, and why they are enough.** Every race in the code is between two
requests, two commands, two turns or a request and a callback on one row or one
connection, and every run has two of these at least, except where noted. Two
users and two devices let a device reach the wrong user. `state` has one device
because rows do not interact; the curtain is the kind of device whose own
reaction to a command differs from what the server assumes. A channel, a queue
or a stride of one or two frames is full, or cut in the wrong place, as soon as
one of 32, 100 or 20. `relay` has one command, since with two its liveness takes
longer than minutes; `relay_writers` has two turns and two commands. In `turn`, seven
frames are two segments and the wait after one of them, with any of their writes
interrupted, and a reply that comes late, while the second is spoken. The second
wait takes an eighth frame, with which TLC needs four minutes for 3.2 M states and
finds nothing either; `EveryResumeIsEarned` is proved for any number of waits.
`accounts` has one phone and one email, for which two registrations race, and one
second in which a token expires; its symmetry is sound because only
safety is checked there. In `scenes` two scenes are an id that was deleted and
the next one; in `server` two lost connections are one before and one after a
reconnect, whose callbacks can cross, and one request is enough for the drain,
which waits for each of them in the same way. Nothing else is bounded but the
number of inputs
(`MaxFrames`, `MaxTurns`, `MaxCalls`, `MaxCommands`, `MaxReplies`, `MaxEvents`,
`MaxCmds`, `MaxStatuses`, `MaxUsers`, `MaxScenes`, `MaxTime`, `MaxLosses`). The
proofs free the safety properties of all passing runs of these bounds: they hold
for the queue of 100 frames, the three voiced frames and the strides of the code
as for those of the run.

**Fairness.** Weak fairness, and only of steps that the runtime takes by itself:

- `Hub`: each connection's teardown and write pump. The Go scheduler runs a
  goroutine that can run; no write has to succeed.
- `VoiceRelay`: both pumps, and the end of the session. Reads have deadlines
  (`voice.go`, `SetReadDeadline` on the other side when one pump stops), and a
  write ends because its peer reads or the network reports that it does not.
  Commands and inserts need no fairness for the session to end.
- `Worker`: pumps, goroutines, the recogniser's report and the server's answer.
  Each HTTP request has a timeout; the server answers each command once
  (`AnsweredOnce`). `TurnsAnswered` is therefore a promise for a session that
  lives.
- `Scenes`: the handler of each trigger. A statement has a deadline of three
  seconds, and so has the publication of a command.
- `Server`: `main` and the library's callbacks. `ShutdownEnds` needs no request to
  end, since `Shutdown` has a deadline; `SubscribedAgain` is about a connection
  that stays, and nothing makes the library connect.
- `VoiceTurn`: the event loop, its timer (`asyncio.wait_for`), the callback until
  the recording ends, and the recogniser. No reply is assumed, and no write has to
  end: `ConversationGoesOn` begins once a segment's end has gone out.

Deadlock is checked in `state`; the other models really may stop: every device
is gone, a session is over, the process has crashed, or the inputs are used up.

## 4. What is proved

TLAPS checks these for every value of the constants. For each of the nine
components of the table `SafetyHolds` says that an inductive invariant `Safety`
holds in every reachable state, and `TypeCorrect` that `TypeOK` does. `Safety` and
its parts stand in the component's module, or, for the last five of the table, in
the module with the proofs. TLC checked each `Safety` as an invariant, on the
instance of the component's run or a larger one, before it was proved; that of
`VoiceTurn` part by part.

Scenes and the server process have no state in common, and the module
`ScenesServerProofs` reasons about both: it extends `Scenes` and `Server`. That is
why `Server` prefixes the names every specification has (`ServerSpec`,
`ServerTypeOK`, `ServerSafety`); the theorems are `ServerSafetyHolds` and
`ServerTypeCorrect`.

| module | theorem | statement |
|---|---|---|
| `DeviceRegistryProofs` | `CodeIsSpent` | `Spec => []CodeSpent` |
| | `UnbindIsSafe` | `Spec => []UnbindHitsOwnDevice` |
| | `ListedIsBindable` | `Spec => []ListedCanBeBound` |
| | `Refinement` | `Spec => OwnershipLifecycle` |
| `AccountsProofs` | `ContactsAreUnique` | `Spec => []OneAccountPerContact` |
| | `LogoutIsFinal` | `Spec => LogoutHolds` |
| | `DeletedIsFinal` | `Spec => DeletedStaysDeleted` |
| `ScenesServerProofs` | `EditsAreOwn` | `Spec => []WritesHitOwnScene` |
| | `SceneApplies` | `Spec => []LeftAsAsked` |
| | `AnswersAreWhole` | `Spec => EveryCommandTried` |
| | `RequestsDrained` | `ServerSpec => []DrainedBeforeClose` |
| | `ReportsAreKept` | `ServerSpec => []ReportsFindDatabase` |
| | `FlagIsRight` | `ServerSpec => []FlagFollows` |
| `DeviceStateProofs` | `QuietMeansAgreementHolds` | `Spec => []QuietMeansAgreement` |
| | `WritesInTheOwnersNameHolds` | `Spec => []WritesInTheOwnersName` |
| `HubProofs` | `RoutedInOrderHolds` | `Spec => []RoutedInOrder` |
| | `OnlyTheSlowLoseHolds` | `Spec => []OnlyTheSlowLose` |
| `VoiceRelayProofs` | `RelayedInOrderHolds` | `Spec => []RelayedInOrder` |
| | `AnsweredOnceHolds` | `Spec => []AnsweredOnce` |
| | `RecordsHold` | `Spec => []RecordsTellTheTruth` |
| | `HangsOffUserMessageHolds` | `Spec => []HangsOffUserMessage` |
| `WorkerProofs` | `InTurnOrderHolds` | `Spec => []InTurnOrder` |
| | `RepliesCountedHolds` | `Spec => []RepliesCounted` |
| | `TruthfulHistoryHolds` | `Spec => []TruthfulHistory` |
| `VoiceTurnProofs` | `HeardIsSpokenHolds` | `Spec => []HeardIsSpoken` |
| | `FirstWordKeptHolds` | `Spec => []FirstWordKept` |
| | `InCaptureOrderHolds` | `Spec => []InCaptureOrder` |
| | `EveryResumeIsEarnedHolds` | `Spec => []EveryResumeIsEarned` |
| | `EverySegmentEndedHolds` | `Spec => []EverySegmentEnded` |

**Devices.** The only assumption is `RegistryAssumption`: the values that stand
for no user, no label, the pool, an orphan and a removed device are none of the
users or labels, and the last three differ. `CodeSpent` is not inductive by
itself: binding spends the code because the row's new code is blank, but that a
bound device stays out of reach needs to know that a bind request under way never
carries a blank code (`BindCarriesCode`, the early return of `BindDevice`).
`UnbindHitsOwnDevice` is the point of the exercise. The delete names the device
only, so between the owner check and the delete the device must not get another
owner. It cannot, because the only step that gives a device an owner needs an
owner-less device with a code, and the device of a pending unbind has had an
owner and so has no code (`CodeSpent`). `ListedCanBeBound` needs
`OwnedIsNotWaiting`, or the deletion of an account could put a device without a
code on the list. The refinement maps a row to its owner, or, when it has none,
to `Pool` or `Orphan` by whether its code is left; each statement is then a step
of `Ownership` or leaves the owner alone.

**Accounts.** `AccountsAssumption`: the blank is none of the phones, emails and
passwords, and tokens live for at least a second. `OneAccountPerContact` follows
from the unique keys, which every insert and every update of an email meets,
whatever the lookups before it said. For `LogoutHolds` the blacklist has to keep
an entry at least as long as its token is valid. The entry is dated from the
logout and the token from its issue, so this needs that no token is from the
future (`IssuedBefore`), the requests under way included; `LeftAreListed` then
says that a token that was left has an entry that outlives it, and `Passes`
refuses it as expired or as listed. A deleted account stays deleted because ids
only grow and no update creates a row.

**Scenes.** `ScenesAssumption`: the lists are sequences of commands, and what is
not a list is not. `WritesHitOwnScene` rests on the ids: an edit under way names
an id given out before (`EditsNameOldIds`), a new scene gets a later one, and no
step changes an owner. `EveryCommandTried` needs that each result is that of the
command at its place (`TriedInOrder`), and `LeftAsAsked` is inductive with it:
the command at hand is the last of its device so far, and another trigger's
command clears `alone`.

**Server.** `ServerAssumption`: whether a broker is given is a Boolean and the
bound on losses a natural number. `ReportsFindDatabase` rests on the condition under
which the client is dialled, on its being off until then (`QuietUntilDialled`), and
on the database being closed only after the drain (`ClosedInOrder`).
`DrainedBeforeClose` needs that no
request begins or is left once the drain is over (`ClosedInOrder`). `FlagFollows`
speaks of the moment when no event waits; `LastEventTells` carries it through the
others: the last event that waits to be handled tells whether there is a
connection. A callback that overtakes none handles the oldest event, so either a
later one waits still, or it is the last and sets the flag to what it tells.

**Device state.** `StateAssumption`: the stand-ins for no owner are no users and
differ, levels lie between 0 and 100 with both ends among them, the value of a
missing field is none of them, and queues have room for one message at least.
`QuietMeansAgreement` speaks of devices with nothing under way, which no step
keeps: the next message ends the quiet. What is kept is what each thing under way
promises. The last status a device has sent is its state, as long as the broker
did not lose one (`LastStatusIsTrue`); what the callback is about to write is
true, unless a later status follows (`SyncIsTrue`); and the row is true as soon as
there are no commands, statuses or callbacks of that device left (`RowIsTrue`,
with `Settled` for the last). A writer's row
is not that of the device, but then its command is still to be published or under
way, or `unsent` remembers that none will arrive.
`WritesInTheOwnersName` rests on `Ownership`: from one user a device can only go to
nobody. It speaks of the PUT; a voice command acts for whoever owns the device.

**Hub.** `HubAssumption`: nobody is no user, and channels hold an event at least.
The line of a connection is what it got, what its pump holds and what its channel
holds; `HandIsWriting` ties the second to the pump. Events of a caller are in order
in each line because a caller has one broadcast at a time, its event is its last,
and a connection still to be offered it does not have it (`CallsGoOn`).
`OnlyTheSlowLose` is about finished broadcasts and so is not kept by the step that
finishes one, unless it is known before what became of the targets already tried:
`AllAccounted` says that each target of each event has it, was dropped, has a pump
that is over, or is still to be tried by a broadcast that is going on or was cut
short. A pump that fails loses the event in its hand, and is over.

**Relay.** `RelayAssumption`: the bounds are natural numbers. `RelayedInOrder` says
that there is a map from what the furniture got to what the worker said, growing,
into speech, and onto all speech up to its last value; the invariant `Forwarded`
has such a map and knows that only the event the down pump is at may be missing
from it. Frames are in order because the pump's frame is the last it has read
(`FramesInOrder`). That a command is answered once needs that it has one goroutine:
ids are unique in what the worker says, and each goroutine's id is one that was
read (`IdsAreUnique`), so what is read next is new. `AnswersFit` then ties answers
to the goroutines past their reply, and `RowsFollow` rows to those past their
insert; `byTool` still has the command of such a row until it is marked. The
history is about three delays: an insert, the setting of `lastUser`, and the
reading of it by a command. `HistoryIsUsers` carries the fact that the message is
the user's, and was written to the furniture, through all three.

**Worker.** `WorkerAssumption`: the bounds are natural numbers and the recogniser's
reports are among the three kinds. A turn is handed on from frame to queue to pump
to goroutine to calls or reply, and a call from the server's result to goroutines
to reply. `TurnsInOnePlace` and `CallsInOnePlace` say that each is at one of these
places at a time and there once, and that it is nowhere before it began; that two
loops over calls never meet is `LoopsApart`. `RepliesCounted` follows, since a reply
is made from a place that it takes away. `InTurnOrder` needs that a turn the model
is asked about has been echoed, `TruthfulHistory` that a call is remembered before
it is sent and forgotten only when its result is handled (`Remembered`).

**Voice turn.** `VoiceTurnAssumption`: queue, chunk and the two thresholds of the
detector are positive, the other bounds natural numbers, and the lookback together
with the frame at hand is at least as long as the run of voice that starts a
segment (3 frames, and 10). The last is what `FirstWordKept` rests on: the run is
the end of `pre`, so it is in what the segment begins with; while its start is being
written it waits in `pre` and in `frame` (`FirstWords`, `Waiting`).
`SegmentsCounted` says that the last segment is the only one that may be open, and
that the loop is left with it open only if its rest was cut short;
`EverySegmentEnded` follows, and `EveryResumeIsEarned` from the event standing for
a reply (`CreditCovers`). `InCaptureOrder` needs the frames before they are sent:
the queue is in order, and later than all that was taken from it (`QueueInOrder`),
and the lookback is later than all segments (`PreInOrder`). A chunk that is being
written is the end of the last segment and still in `seg` (`ChunkIsLast`); one that
is cut short there is sent again, and since the loop is then over, nothing follows
it in the segment. `LoopRules` ties `seg`, `frame`, `paused` and `cut` to the write
the loop is at.

`HeardIsSpoken` compares what the recogniser was fed with what the furniture sent,
while between the two there is any number of messages, cut in any way. A *place*
is a number of frames of one segment, and each message leads from a place to the
next: a start into a new segment, audio over the frames that it holds, an end out
of a segment that is whole. `Delivery` says that the messages under way lead on
from where the recogniser is, and, while the connection works, to where the
furniture is. The furniture adds to the far end (`AudioLeads`, `StartLeads`,
`EndLeads`), the recogniser takes from the near one (`Received`), and a place stays
one when a segment grows (`MovesProlonged`). `InHand` says that what the recogniser
has of a segment is its beginning; when an end leads out of the segment, this is
all of it.

## 5. What is only model-checked, and what is not modelled

All liveness properties are outside the prover's reach and stay with TLC, and so
is ENABLED: `LostIsForgotten`, `SessionEnds`, `TurnsAnswered`, `ConversationGoesOn`,
`TriggersEnd`, `ShutdownEnds` and `SubscribedAgain`, whose fairness is that of
section 3. All invariants of the passing runs are proved, and so are their action
properties and the refinement. What the violating runs show needs no proof: each
ends with a behaviour.

Left out of the modelled components: wording, logging, audio, prompts, the
content of HTTP requests; frames that neither begin nor end anything (ping,
`device_info`, partials on their way back); read limits and WebSocket upgrades;
reads that change nothing (lists of devices and scenes, the profile, the health
report); nicknames, avatars and the names of scenes. Tool ids are taken to be
unique. A restart of a process is not modelled: what outlives it are the tables
and Redis, and any state of theirs that a stopped server can leave is one a model
passes through.

Not modelled:

- The Android client. Its state is that of one page; what goes wrong there is
  listed under `hazards`, and what the server promises it is checked in `Hub`,
  `DeviceState` and `Accounts`.
- The language-model and speech servers, configuration, prompts, error bodies and
  scripts: they have no state that outlives a call.
- `DeviceState` together with `Hub`: the order of the broadcasts is a known
  disagreement, so there is nothing more to state.

## 6. Running

    tlc -workers 2 -config Hub.cfg Hub.tla        # likewise each run of PROJECT.json
    tlapm DeviceRegistryProofs.tla                # and the other *Proofs modules
