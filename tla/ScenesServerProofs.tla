------------------------- MODULE ScenesServerProofs -------------------------
(***************************************************************************)
(* What holds of scenes for any number of users, handlers, scenes and      *)
(* devices, and lists of any length; and of the process that serves them,  *)
(* for any topics, requests and number of lost connections, with or        *)
(* without a broker.  The two have no state in common.                     *)
(*                                                                         *)
(* Safety of the scenes and ServerSafety of the process are inductive.     *)
(***************************************************************************)
EXTENDS Scenes, Server, SequenceTheorems, TLAPS

-----------------------------------------------------------------------------
(* Scenes *)

Request == Update \union Delete \union Lookup \union Run \union {Idle}

\* The kind of request a handler serves follows from where it is.
LEMMA RequestKinds ==
    ASSUME TypeOK, NEW h \in Handlers
    PROVE  /\ req[h] \in Request
           /\ req[h].pc = "update" => req[h] \in Update
           /\ req[h].pc = "delete" => req[h] \in Delete
           /\ req[h].pc = "read" => req[h] \in Lookup
           /\ req[h].pc = "run" => req[h] \in Run
<1>1. req[h] \in Request
  BY DEF TypeOK, Request
<1> QED
  BY <1>1 DEF Request, Update, Delete, Lookup, Run, Idle

LEMMA InitSafety == Init => Safety
  BY ScenesAssumption DEF Init, Safety, TypeOK, WritesHitOwnScene, EditsNameOldIds,
     TriedInOrder, LeftAsAsked, Idle, Scene

\* Taking up a request, or being done with one: what is said of the requests
\* is asked of the new one only.
LEMMA RequestSafety ==
    ASSUME Safety, NEW h \in Handlers, NEW r \in Request,
           req' = [req EXCEPT ![h] = r], UNCHANGED <<rows, state>>,
           r.pc \in {"update", "delete"} => Owns(r.user, r.id),
           r.pc = "run" => r.done = <<>>
    PROVE  Safety'
<1>1. req' \in [Handlers -> Request] /\ req'[h] = r /\ \A g \in Handlers \ {h} : req'[g] = req[g]
  BY DEF Safety, TypeOK, Request
<1>2. r.pc = "run" => Len(r.done) = 0 /\ r.cmds \in Seq(Commands)
  BY DEF Request, Update, Delete, Lookup, Run, Idle
<1>3. TypeOK'
  <2>1. \A g \in Handlers : req'[g].pc = "run" => Len(req'[g].done) <= Len(req'[g].cmds)
    <3> SUFFICES ASSUME NEW g \in Handlers, req'[g].pc = "run"
                 PROVE  Len(req'[g].done) <= Len(req'[g].cmds)
      OBVIOUS
    <3>1. CASE g = h
      <4>1. Len(r.cmds) \in Nat
        BY <1>1, <1>2, <3>1
      <4> QED
        BY <1>1, <1>2, <3>1, <4>1
    <3>2. CASE g # h
      BY <1>1, <3>2 DEF Safety, TypeOK
    <3> QED
      BY <3>1, <3>2
  <2> QED
    BY <1>1, <2>1 DEF Safety, TypeOK, rows, Request
<1>4. WritesHitOwnScene' /\ EditsNameOldIds'
  BY <1>1 DEF Safety, TypeOK, WritesHitOwnScene, EditsNameOldIds, Owns, rows
<1>5. TriedInOrder' /\ LeftAsAsked'
  <2> SUFFICES ASSUME NEW g \in Handlers, req'[g].pc = "run", NEW i \in 1..Len(req'[g].done)
               PROVE  g # h
    BY <1>1 DEF Safety, TriedInOrder, LeftAsAsked
  <2> QED
    BY <1>1, <1>2
<1> QED
  BY <1>3, <1>4, <1>5 DEF Safety

\* What is said of triggers depends on the requests and the devices only.
LEMMA TriggersUntouched ==
    ASSUME Safety, state' = state,
           \A g \in Handlers : req'[g].pc = "run" => req'[g] = req[g]
    PROVE  TriedInOrder' /\ LeftAsAsked'
  BY DEF Safety, TriedInOrder, LeftAsAsked

LEMMA DoneRequests ==
    ASSUME TypeOK, NEW h \in Handlers, Done(h)
    PROVE  /\ req' \in [Handlers -> Request]
           /\ \A g \in Handlers : req'[g].pc # "idle" => req'[g] = req[g]
  BY DEF TypeOK, Done, Idle, Request

LEMMA LookupSafety ==
    ASSUME Safety, NEW h \in Handlers, NEW s \in Ids,
           \/ \E u \in Users, l \in Lists \union {NotAList} : UpdateLookup(h, u, s, l)
           \/ \E u \in Users : DeleteLookup(h, u, s) \/ TriggerLookup(h, u, s)
           \/ VoiceTrigger(h, s)
    PROVE  Safety'
<1>1. ASSUME NEW u \in Users, NEW l \in Lists \union {NotAList}, UpdateLookup(h, u, s, l)
      PROVE  Safety'
  <2>1. [pc |-> "update", user |-> u, id |-> s, list |-> l] \in Request
    BY DEF Request, Update
  <2> QED
    BY <1>1, <2>1, RequestSafety DEF UpdateLookup, Serve
<1>2. ASSUME NEW u \in Users, DeleteLookup(h, u, s) PROVE Safety'
  <2>1. [pc |-> "delete", user |-> u, id |-> s] \in Request
    BY DEF Request, Delete
  <2> QED
    BY <1>2, <2>1, RequestSafety DEF DeleteLookup, Serve
<1>3. CASE (\E u \in Users : TriggerLookup(h, u, s)) \/ VoiceTrigger(h, s)
  <2>1. [pc |-> "read", id |-> s] \in Request
    BY DEF Request, Lookup
  <2> QED
    BY <1>3, <2>1, RequestSafety DEF TriggerLookup, VoiceTrigger, Serve
<1> QED
  BY <1>1, <1>2, <1>3

\* A new scene has an id no pending edit can name.
LEMMA CreateSafety ==
    ASSUME Safety, NEW h \in Handlers, NEW u \in Users, NEW l \in Lists \union {NotAList},
           Create(h, u, l)
    PROVE  Safety'
<1> DEFINE new == [owner |-> u, list |-> l]
<1>1. /\ NewId \in Ids /\ last' = NewId /\ there' = there \union {NewId}
      /\ scene' = [s \in there \union {NewId} |-> IF s = NewId THEN new ELSE scene[s]]
      /\ UNCHANGED <<users, state, req>>
  BY DEF Create
<1>2. last \in Nat /\ NewId \notin there /\ NewId = last + 1
  BY ScenesAssumption DEF Safety, TypeOK, NewId
<1>3. new \in Scene
  BY DEF Scene
<1> HIDE DEF new
<1>4. TypeOK'
  <2>1. there' \subseteq 1..last' /\ last' \in 0..MaxScenes
    BY <1>1, <1>2, ScenesAssumption DEF Safety, TypeOK, Ids
  <2>2. scene' \in [there' -> Scene]
    BY <1>1, <1>3 DEF Safety, TypeOK
  <2> QED
    BY <1>1, <2>1, <2>2 DEF Safety, TypeOK
<1>5. WritesHitOwnScene' /\ EditsNameOldIds'
  <2> SUFFICES ASSUME NEW g \in Handlers, req[g].pc \in {"update", "delete"}
               PROVE  /\ req[g].id \in there' => scene'[req[g].id].owner = req[g].user
                      /\ req[g].id \in 1..last'
    BY <1>1 DEF WritesHitOwnScene, EditsNameOldIds
  <2>1. req[g].id \in 1..last
    BY DEF Safety, EditsNameOldIds
  <2> QED
    BY <1>1, <1>2, <2>1 DEF Safety, WritesHitOwnScene
<1> QED
  BY <1>1, <1>4, <1>5, TriggersUntouched DEF Safety

\* Rows that go take nothing from the others.
LEMMA WithoutSafety ==
    ASSUME Safety, NEW gone, Without(gone), UNCHANGED <<last, state>>, users' \subseteq users,
           req' \in [Handlers -> Request],
           \A g \in Handlers : req'[g].pc # "idle" => req'[g] = req[g]
    PROVE  Safety'
<1>1. TypeOK'
  <2>1. there' \subseteq there /\ scene' \in [there' -> Scene]
    BY DEF Safety, TypeOK, Without
  <2> QED
    BY <2>1 DEF Safety, TypeOK, Request
<1>2. WritesHitOwnScene' /\ EditsNameOldIds'
  BY DEF Safety, WritesHitOwnScene, EditsNameOldIds, Without
<1> QED
  BY <1>1, <1>2, TriggersUntouched DEF Safety

LEMMA DeleteSafety ==
    ASSUME Safety, NEW h \in Handlers, DeleteWrite(h) PROVE Safety'
  BY DoneRequests, WithoutSafety DEF DeleteWrite, Safety

LEMMA AccountSafety ==
    ASSUME Safety, NEW u \in Users, AccountDeleted(u) PROVE Safety'
<1>1. req' = req /\ req \in [Handlers -> Request]
  BY DEF AccountDeleted, Safety, TypeOK, Request
<1> QED
  BY <1>1, WithoutSafety DEF AccountDeleted

\* An update keeps the owner.
LEMMA UpdateSafety ==
    ASSUME Safety, NEW h \in Handlers, UpdateWrite(h) PROVE Safety'
<1>1. req[h].list \in Lists \union {NotAList}
  BY RequestKinds DEF Safety, UpdateWrite, Update
<1>2. /\ req' \in [Handlers -> Request]
      /\ \A g \in Handlers : req'[g].pc # "idle" => req'[g] = req[g]
  BY DoneRequests DEF UpdateWrite, Safety
<1>3. scene' \in [there -> Scene] /\ \A s \in there : scene'[s].owner = scene[s].owner
  BY <1>1 DEF UpdateWrite, Safety, TypeOK, Scene
<1>4. TypeOK'
  BY <1>2, <1>3 DEF Safety, TypeOK, UpdateWrite, Request
<1>5. WritesHitOwnScene' /\ EditsNameOldIds'
  BY <1>2, <1>3 DEF Safety, WritesHitOwnScene, EditsNameOldIds, UpdateWrite
<1> QED
  BY <1>2, <1>4, <1>5, TriggersUntouched DEF Safety, UpdateWrite

\* Nothing has been tried when a trigger has read its commands.
LEMMA ReadSafety ==
    ASSUME Safety, NEW h \in Handlers, TriggerRead(h) \/ Answer(h) PROVE Safety'
<1>1. Idle \in Request /\ Idle.pc = "idle"
  BY DEF Idle, Request
<1>2. CASE Done(h) /\ UNCHANGED <<rows, state>>
  BY <1>1, <1>2, RequestSafety DEF Done
<1>3. CASE TriggerRead(h) /\ ~Done(h)
  <2> DEFINE r == [pc |-> "run", id |-> req[h].id, cmds |-> scene[req[h].id].list,
                   done |-> <<>>, alone |-> TRUE]
  <2>1. /\ req[h].id \in there /\ scene[req[h].id].list # NotAList
        /\ req' = [req EXCEPT ![h] = r] /\ UNCHANGED <<rows, state>>
    BY <1>3 DEF TriggerRead
  <2>2. req[h].id \in Ids
    BY <1>3, RequestKinds DEF Safety, TriggerRead, Lookup
  <2>3. scene[req[h].id].list \in Seq(Commands)
    BY <2>1, ScenesAssumption DEF Safety, TypeOK, Scene
  <2>4. r \in Request
    BY <2>2, <2>3 DEF Request, Run
  <2> QED
    BY <2>1, <2>4, RequestSafety
<1> QED
  BY <1>2, <1>3 DEF TriggerRead, Answer

\* A command is tried: it is the next of the list, and from here on it is the
\* last one for its device, for which no other trigger is alone any more.
LEMMA RunSafety ==
    ASSUME Safety, NEW h \in Handlers, RunNext(h) PROVE Safety'
<1> DEFINE r == req[h]
           n == Len(r.done)
           c == r.cmds[n + 1]
<1>1. r \in Run /\ n \in Nat /\ n < Len(r.cmds) /\ c \in Commands
  <2>1. r \in Run /\ n < Len(r.cmds)
    BY RequestKinds DEF RunNext, Safety
  <2>2. r.cmds \in Seq(Commands) /\ n \in Nat
    BY <2>1 DEF Run
  <2>3. n + 1 \in 1..Len(r.cmds)
    BY <2>1, <2>2
  <2> QED
    BY <2>1, <2>2, <2>3
<1>2. PICK ok \in BOOLEAN :
        /\ Tried(h, c, ok)
        /\ state' \in {state, [state EXCEPT ![c.dev] = c.val]}
        /\ ok => state' = [state EXCEPT ![c.dev] = c.val]
  BY DEF RunNext
<1> DEFINE e == [cmd |-> c, ok |-> ok]
           new == [r EXCEPT !.done = Append(r.done, e)]
<1>3. UNCHANGED rows
  BY DEF RunNext
<1>4. c.dev \in Devices /\ c.val \in Values
  BY <1>1 DEF Commands
<1>5. e \in [cmd : Commands, ok : BOOLEAN] /\ e.cmd = c /\ e.ok = ok
  BY <1>1, <1>2
<1> HIDE DEF e
<1>6. /\ new \in Run /\ new.pc = "run" /\ new.cmds = r.cmds /\ new.alone = r.alone
      /\ Len(new.done) = n + 1 /\ new.done[n + 1] = e
      /\ \A i \in 1..n : new.done[i] = r.done[i]
  <2>1. r.done \in Seq([cmd : Commands, ok : BOOLEAN])
    BY <1>1 DEF Run
  <2>2. /\ Append(r.done, e) \in Seq([cmd : Commands, ok : BOOLEAN])
        /\ Len(Append(r.done, e)) = n + 1 /\ Append(r.done, e)[n + 1] = e
        /\ \A i \in 1..n : Append(r.done, e)[i] = r.done[i]
    BY <1>5, <2>1
  <2>3. new \in Run /\ new.done = Append(r.done, e)
        /\ new.pc = "run" /\ new.cmds = r.cmds /\ new.alone = r.alone
    BY <1>1, <2>2 DEF Run
  <2> QED
    BY <2>2, <2>3
<1> DEFINE other(g) == IF req[g].pc = "run" THEN [req[g] EXCEPT !.alone = FALSE] ELSE req[g]
<1>7. req' = [g \in Handlers |-> IF g = h THEN new ELSE other(g)]
  BY <1>2 DEF Tried, e
<1> HIDE DEF new
<1>8. ASSUME NEW g \in Handlers
      PROVE  /\ other(g) \in Request /\ other(g).pc = req[g].pc
             /\ req[g].pc # "run" => other(g) = req[g]
             /\ req[g].pc = "run" => /\ other(g).done = req[g].done /\ other(g).cmds = req[g].cmds
                                     /\ other(g).alone = FALSE
  <2>1. CASE req[g].pc = "run"
    BY <2>1, RequestKinds DEF Safety, Request, Run
  <2>2. CASE req[g].pc # "run"
    BY <2>2, RequestKinds DEF Safety
  <2> QED
    BY <2>1, <2>2
<1> HIDE DEF other
<1>9. req'[h] = new /\ \A g \in Handlers \ {h} : req'[g] = other(g)
  BY <1>7
<1>10. TypeOK'
  <2>1. req' \in [Handlers -> Request]
    BY <1>6, <1>7, <1>8 DEF Request
  <2>2. state' \in [Devices -> Values]
    BY <1>2, <1>4 DEF Safety, TypeOK
  <2>3. \A g \in Handlers : req'[g].pc = "run" => Len(req'[g].done) <= Len(req'[g].cmds)
    <3>1. Len(r.cmds) \in Nat
      BY <1>1 DEF Run
    <3>2. Len(new.done) <= Len(new.cmds)
      BY <1>1, <1>6, <3>1
    <3>3. \A g \in Handlers \ {h} : req'[g].pc = "run" => Len(req'[g].done) <= Len(req'[g].cmds)
      BY <1>8, <1>9 DEF Safety, TypeOK
    <3> QED
      BY <1>9, <3>2, <3>3
  <2> QED
    BY <1>3, <2>1, <2>2, <2>3 DEF Safety, TypeOK, rows, Request
<1>11. WritesHitOwnScene' /\ EditsNameOldIds'
  <2>1. \A g \in Handlers : req'[g].pc \in {"update", "delete"} => req'[g] = req[g]
    BY <1>6, <1>8, <1>9
  <2> QED
    BY <1>3, <2>1 DEF Safety, WritesHitOwnScene, EditsNameOldIds, rows
<1>12. TriedInOrder'
  <2>1. \A i \in 1..n : r.done[i].cmd = r.cmds[i]
    BY <1>1 DEF Safety, TriedInOrder, Run
  <2>2. \A i \in 1..(n + 1) : new.done[i].cmd = new.cmds[i]
    <3> SUFFICES ASSUME NEW i \in 1..(n + 1) PROVE new.done[i].cmd = new.cmds[i]
      OBVIOUS
    <3>1. CASE i = n + 1
      BY <1>5, <1>6, <3>1
    <3>2. CASE i \in 1..n
      BY <1>6, <2>1, <3>2
    <3>3. i = n + 1 \/ i \in 1..n
      BY <1>1
    <3> QED
      BY <3>1, <3>2, <3>3
  <2> SUFFICES ASSUME NEW g \in Handlers, req'[g].pc = "run", NEW i \in 1..Len(req'[g].done)
               PROVE  req'[g].done[i].cmd = req'[g].cmds[i]
    BY DEF TriedInOrder
  <2>3. CASE g = h
    <3>1. req'[g] = new /\ i \in 1..(n + 1)
      BY <1>6, <1>9, <2>3
    <3> QED
      BY <2>2, <3>1
  <2>4. CASE g # h
    <3>1. req'[g] = other(g)
      BY <1>9, <2>4
    <3>2. req[g].pc = "run" /\ req'[g].done = req[g].done /\ req'[g].cmds = req[g].cmds
      BY <1>8, <3>1
    <3>3. i \in 1..Len(req[g].done)
      BY <3>2
    <3> QED
      BY <3>2, <3>3 DEF Safety, TriedInOrder
  <2> QED
    BY <2>3, <2>4
<1>13. LeftAsAsked'
  <2> SUFFICES ASSUME NEW g \in Handlers, req'[g].pc = "run", req'[g].alone,
                      NEW i \in 1..Len(req'[g].done), req'[g].done[i].ok,
                      \A j \in (i + 1)..Len(req'[g].done) :
                        req'[g].cmds[j].dev # req'[g].cmds[i].dev
               PROVE  state'[req'[g].cmds[i].dev] = req'[g].cmds[i].val
    BY DEF LeftAsAsked
  <2>1. g = h
    BY <1>8, <1>9
  <2>2. /\ i \in 1..(n + 1) /\ r.alone /\ new.done[i].ok
        /\ \A j \in (i + 1)..(n + 1) : r.cmds[j].dev # r.cmds[i].dev
    BY <1>6, <1>9, <2>1
  <2>3. CASE i = n + 1
    <3>1. ok
      BY <1>5, <1>6, <2>2, <2>3
    <3>2. state \in [Devices -> Values]
      BY DEF Safety, TypeOK
    <3>3. state'[c.dev] = c.val
      BY <1>2, <1>4, <3>1, <3>2
    <3>4. req'[g].cmds[i] = c
      BY <1>6, <1>9, <2>1, <2>3
    <3> QED
      BY <3>3, <3>4
  <2>4. CASE i \in 1..n
    <3>1. c.dev # r.cmds[i].dev
      BY <1>1, <2>2, <2>4, SMTT(30)
    <3>2. r.done[i].ok /\ \A j \in (i + 1)..n : r.cmds[j].dev # r.cmds[i].dev
      BY <1>1, <1>6, <2>2, <2>4
    <3>3. state[r.cmds[i].dev] = r.cmds[i].val
      BY <1>1, <2>2, <2>4, <3>2 DEF Safety, LeftAsAsked, Run
    <3>4. r.cmds[i] \in Commands
      BY <1>1, <2>4 DEF Run
    <3>5. r.cmds[i].dev \in Devices
      BY <3>4 DEF Commands
    <3>6. state \in [Devices -> Values]
      BY DEF Safety, TypeOK
    <3>7. state'[r.cmds[i].dev] = state[r.cmds[i].dev]
      BY <1>2, <1>4, <3>1, <3>5, <3>6
    <3>8. req'[g].cmds[i] = r.cmds[i]
      BY <1>6, <1>9, <2>1
    <3> QED
      BY <3>3, <3>7, <3>8
  <2> QED
    BY <1>1, <2>2, <2>3, <2>4
<1> QED
  BY <1>10, <1>11, <1>12, <1>13 DEF Safety

\* No step leaves the invariant.
LEMMA NextSafety == Safety /\ [Next]_vars => Safety'
<1> SUFFICES ASSUME Safety, [Next]_vars PROVE Safety'
  OBVIOUS
<1>1. there \subseteq Ids
  BY ScenesAssumption DEF Safety, TypeOK, Ids
<1>2. ASSUME NEW h \in Handlers, Handle(h) PROVE Safety'
  <2>1. CASE \E u \in Users, l \in Lists \union {NotAList} : Create(h, u, l)
    BY <2>1, CreateSafety
  <2>2. CASE Write(h) \/ Trigger(h)
    BY <2>2, UpdateSafety, DeleteSafety, ReadSafety, RunSafety DEF Write, Trigger
  <2>3. CASE \E s \in Ids : \/ \E u \in Users, l \in Lists \union {NotAList} : UpdateLookup(h, u, s, l)
                            \/ \E u \in Users : DeleteLookup(h, u, s) \/ TriggerLookup(h, u, s)
                            \/ VoiceTrigger(h, s)
    BY <2>3, LookupSafety
  <2> QED
    BY <1>1, <1>2, <2>1, <2>2, <2>3 DEF Handle
<1>3. CASE UNCHANGED vars
  BY <1>3 DEF vars, rows, Safety, TypeOK, WritesHitOwnScene, EditsNameOldIds, TriedInOrder, LeftAsAsked
<1> QED
  BY <1>2, <1>3, AccountSafety DEF Next

\* Safety holds in every reachable state.
THEOREM SafetyHolds == Spec => []Safety
  BY InitSafety, NextSafety, PTL DEF Spec

\* The variables keep their types; no trigger has more results than commands.
THEOREM TypeCorrect == Spec => []TypeOK
<1>1. Safety => TypeOK
  BY DEF Safety
<1> QED
  BY <1>1, SafetyHolds, PTL

\* The unconditional write of UpdateScene and DeleteScene hits a scene of the
\* user who asked for it, or none.
THEOREM EditsAreOwn == Spec => []WritesHitOwnScene
<1>1. Safety => WritesHitOwnScene
  BY DEF Safety
<1> QED
  BY <1>1, SafetyHolds, PTL

\* Unless another trigger interferes, each device is left as the last command
\* tried for it says (SceneService.Trigger), for lists of any length.
THEOREM SceneApplies == Spec => []LeftAsAsked
<1>1. Safety => LeftAsAsked
  BY DEF Safety
<1> QED
  BY <1>1, SafetyHolds, PTL

\* A trigger is answered when it has tried each command of the list it read,
\* once and in order (SceneService.Trigger).
THEOREM AnswersAreWhole == Spec => EveryCommandTried
<1>1. Safety /\ [Next]_vars =>
        [\A h \in Handlers : req[h].pc = "run" /\ req'[h] = Idle =>
           /\ Len(req[h].done) = Len(req[h].cmds)
           /\ \A i \in DOMAIN req[h].cmds : req[h].done[i].cmd = req[h].cmds[i]]_vars
  <2> SUFFICES ASSUME Safety, Next, NEW h \in Handlers, req[h].pc = "run", req'[h] = Idle
               PROVE  /\ Len(req[h].done) = Len(req[h].cmds)
                      /\ \A i \in DOMAIN req[h].cmds : req[h].done[i].cmd = req[h].cmds[i]
    BY DEF vars
  <2>1. req[h] # Idle /\ req[h] \in Run
    BY RequestKinds DEF Idle, Safety
  <2>2. PICK g \in Handlers : Handle(g)
    BY <2>1 DEF Next, AccountDeleted
  <2>3. ASSUME NEW c, NEW ok \in BOOLEAN, Tried(g, c, ok) PROVE FALSE
    <3> DEFINE e == [cmd |-> c, ok |-> ok]
    <3>1. /\ [req[h] EXCEPT !.alone = FALSE].pc = "run"
          /\ [req[h] EXCEPT !.done = Append(req[h].done, e)].pc = "run"
      BY <2>1 DEF Run
    <3>2. req'[h] = IF h = g THEN [req[h] EXCEPT !.done = Append(req[h].done, e)]
                             ELSE [req[h] EXCEPT !.alone = FALSE]
      BY <2>3 DEF Tried
    <3> QED
      BY <3>1, <3>2 DEF Idle
  <2>4. Answer(g) /\ g = h
    BY <2>1, <2>2, <2>3
    DEF Handle, Create, UpdateLookup, DeleteLookup, TriggerLookup, VoiceTrigger, Serve, Write,
        UpdateWrite, DeleteWrite, Trigger, TriggerRead, RunNext, Answer, Done, Safety, TypeOK
  <2>5. Len(req[h].done) = Len(req[h].cmds)
    BY <2>4 DEF Answer, Finished
  <2>6. DOMAIN req[h].cmds = 1..Len(req[h].cmds)
    BY <2>1 DEF Run
  <2> QED
    BY <2>5, <2>6 DEF Safety, TriedInOrder
<1> QED
  BY <1>1, SafetyHolds, PTL DEF Spec, EveryCommandTried

-----------------------------------------------------------------------------
(* The server process.  The parts of its invariant are about main, the     *)
(* clients and the callbacks, and each is proved for all steps before they *)
(* are put together.                                                       *)

\* What is left of a sequence when one element is taken out.
LEMMA Removed ==
    ASSUME NEW S, NEW s \in Seq(S), NEW i \in 1..Len(s)
    PROVE  /\ RemoveAt(s, i) \in Seq(S)
           /\ Len(RemoveAt(s, i)) = Len(s) - 1
           /\ \A j \in 1..(Len(s) - 1) :
                RemoveAt(s, i)[j] = IF j < i THEN s[j] ELSE s[j + 1]
<1> DEFINE front == SubSeq(s, 1, i - 1)
           back  == SubSeq(s, i + 1, Len(s))
<1>1. /\ front \in Seq(S) /\ Len(front) = i - 1
      /\ \A j \in 1..(i - 1) : front[j] = s[j]
  BY SubSeqProperties, LenProperties, ElementOfSeq
<1>2. /\ back \in Seq(S) /\ Len(back) = Len(s) - i
      /\ \A j \in 1..(Len(s) - i) : back[j] = s[i + j]
  BY SubSeqProperties, LenProperties, ElementOfSeq
<1>3. Len(s) \in Nat
  BY LenProperties
<1> HIDE DEF front, back
<1>4. /\ front \o back \in Seq(S)
      /\ Len(front \o back) = Len(front) + Len(back)
      /\ \A j \in 1..(Len(front) + Len(back)) :
           (front \o back)[j] = IF j <= Len(front) THEN front[j] ELSE back[j - Len(front)]
  BY <1>1, <1>2, ConcatProperties
<1>5. ASSUME NEW j \in 1..(Len(s) - 1)
      PROVE  (front \o back)[j] = IF j < i THEN s[j] ELSE s[j + 1]
  <2>1. /\ i \in Nat /\ j \in Nat /\ j \in 1..(Len(front) + Len(back))
        /\ j <= Len(front) <=> j < i
    BY <1>1, <1>2, <1>3
  <2>2. (front \o back)[j] = IF j < i THEN front[j] ELSE back[j - Len(front)]
    BY <1>4, <2>1
  <2>3. CASE j < i
    <3>1. j \in 1..(i - 1)
      BY <2>1, <2>3
    <3> QED
      BY <1>1, <2>2, <2>3, <3>1
  <2>4. CASE ~(j < i)
    <3>1. j - Len(front) \in 1..(Len(s) - i) /\ i + (j - Len(front)) = j + 1
      BY <1>1, <1>3, <2>1, <2>4
    <3>2. back[j - Len(front)] = s[j + 1]
      BY <1>2, <3>1
    <3> QED
      BY <2>2, <2>4, <3>2
  <2> QED
    BY <2>3, <2>4
<1>6. RemoveAt(s, i) = front \o back
  BY DEF RemoveAt, front, back
<1> QED
  BY <1>1, <1>2, <1>3, <1>4, <1>5, <1>6

\* The type of the list of callbacks, for every way it changes.
LEMMA CallsTyped ==
    ASSUME calls \in Seq(Call)
    PROVE  /\ \A k \in {"up", "lost"} : Start(k) => calls' \in Seq(Call)
           /\ \A i \in DOMAIN calls : RemoveAt(calls, i) \in Seq(Call)
           /\ \A i \in DOMAIN calls, t \in SUBSET Topics :
                /\ [calls EXCEPT ![i] = [kind |-> "subscribe", todo |-> t]] \in Seq(Call)
                /\ [calls EXCEPT ![i].todo = t] \in Seq(Call)
<1>1. DOMAIN calls = 1..Len(calls) /\ Len(calls) \in Nat
  BY LenProperties
<1>2. \A i \in DOMAIN calls : calls[i] \in Call
  BY <1>1, ElementOfSeq
<1>3. ASSUME NEW k \in {"up", "lost"}, Start(k)
      PROVE  calls' \in Seq(Call)
  BY <1>3, AppendProperties DEF Start, Call
<1>4. \A i \in DOMAIN calls : RemoveAt(calls, i) \in Seq(Call)
  BY <1>1, Removed
<1>5. ASSUME NEW i \in DOMAIN calls, NEW t \in SUBSET Topics
      PROVE  /\ [calls EXCEPT ![i] = [kind |-> "subscribe", todo |-> t]] \in Seq(Call)
             /\ [calls EXCEPT ![i].todo = t] \in Seq(Call)
  <2>1. /\ [kind |-> "subscribe", todo |-> t] \in Call
        /\ [calls[i] EXCEPT !.todo = t] \in Call
    BY <1>2 DEF Call
  <2>2. [calls EXCEPT ![i].todo = t] = [calls EXCEPT ![i] = [calls[i] EXCEPT !.todo = t]]
    OBVIOUS
  <2> QED
    BY <1>1, <2>1, <2>2, ExceptSeq
<1> QED
  BY <1>3, <1>4, <1>5

-----------------------------------------------------------------------------

\* A process that has just started is safe.
LEMMA ServerInitIsSafe ==
    ASSUME ServerInit
    PROVE  ServerSafety
<1> USE DEF ServerInit
<1>1. calls \in Seq(Call) /\ DOMAIN calls = {}
  BY EmptySeq, LenProperties
<1>2. losses \in 0..MaxLosses
  BY ServerAssumption
<1>3. ServerTypeOK
  BY <1>1, <1>2 DEF ServerTypeOK, Stages, Store
<1> QED
  BY <1>1, <1>3 DEF ServerSafety, QuietUntilDialled, ClosedInOrder, LastEventTells,
                    DrainedBeforeClose, ReportsFindDatabase, FlagFollows

\* Every step keeps the types.
LEMMA TypeStep ==
    ASSUME ServerTypeOK, QuietUntilDialled, [ServerNext]_serverVars
    PROVE  ServerTypeOK'
<1>1. CASE InitMySQL \/ InitRedis \/ Dial
  BY <1>1 DEF ServerTypeOK, QuietUntilDialled, InitMySQL, InitRedis, Dial, WantsBridge,
              Stages, Store, stores, mqtt, http
<1>2. CASE BridgeReady \/ BridgeGivesUp
             \/ ListenFails \/ Signal
             \/ Drained \/ DrainTimeout
  BY <1>2 DEF ServerTypeOK, BridgeReady, BridgeGivesUp, ListenFails, Signal, Drained,
              DrainTimeout, Stages, stores, mqtt, http
<1>3. CASE CloseDB \/ CloseRedis \/ CloseMQTT
  BY <1>3 DEF ServerTypeOK, QuietUntilDialled, CloseDB, CloseRedis, CloseMQTT, Closed,
              Stages, Store, stores, mqtt, http
<1>4. ASSUME NEW r \in Requests, Begin(r) \/ Upgrade(r) \/ End(r)
      PROVE  ServerTypeOK'
  BY <1>4 DEF ServerTypeOK, Begin, Upgrade, End, stores, mqtt
<1>5. CASE LinkUp
  <2>1. calls' \in Seq(Call)
    BY <1>5, CallsTyped DEF ServerTypeOK, LinkUp
  <2> QED
    BY <1>5, <2>1 DEF ServerTypeOK, LinkUp, stores, http
<1>6. CASE LinkLost
  <2>1. calls' \in Seq(Call)
    BY <1>6, CallsTyped DEF ServerTypeOK, LinkLost
  <2>2. losses' \in 0..MaxLosses
    BY <1>6, ServerAssumption DEF ServerTypeOK, LinkLost
  <2> QED
    BY <1>6, <2>1, <2>2 DEF ServerTypeOK, LinkLost, stores, http
<1>7. ASSUME NEW i \in DOMAIN calls, OnConnect(i) \/ OnConnectionLost(i)
      PROVE  ServerTypeOK'
  <2>1. calls' \in Seq(Call)
    <3>1. calls \in Seq(Call) /\ Topics \in SUBSET Topics
      BY DEF ServerTypeOK
    <3>2. \/ calls' = [calls EXCEPT ![i] = [kind |-> "subscribe", todo |-> Topics]]
          \/ calls' = RemoveAt(calls, i)
      BY <1>7 DEF OnConnect, OnConnectionLost
    <3> QED
      BY <3>1, <3>2, CallsTyped
  <2>2. crossed' \in BOOLEAN
    BY <1>7 DEF ServerTypeOK, OnConnect, OnConnectionLost, Overtakes
  <2> QED
    BY <1>7, <2>1, <2>2 DEF ServerTypeOK, OnConnect, OnConnectionLost, stores, http
<1>8. ASSUME NEW i \in DOMAIN calls, NEW t \in Topics, SubscribeNext(i, t)
      PROVE  ServerTypeOK'
  <2>1. calls[i].todo \ {t} \in SUBSET Topics
    <3>1. calls[i] \in Call
      BY LenProperties, ElementOfSeq DEF ServerTypeOK
    <3> QED
      BY <3>1 DEF Call
  <2>2. calls' = RemoveAt(calls, i) \/ calls' = [calls EXCEPT ![i].todo = calls[i].todo \ {t}]
    <3>1. calls' = IF calls[i].todo = {t} THEN RemoveAt(calls, i)
                   ELSE [calls EXCEPT ![i].todo = calls[i].todo \ {t}]
      BY <1>8, Zenon DEF SubscribeNext
    <3> QED
      BY <3>1, Zenon
  <2>3. calls \in Seq(Call)
    BY DEF ServerTypeOK
  <2>4. calls' \in Seq(Call)
    <3>1. PICK d \in SUBSET Topics : d = calls[i].todo \ {t}
      BY <2>1
    <3>2. RemoveAt(calls, i) \in Seq(Call) /\ [calls EXCEPT ![i].todo = d] \in Seq(Call)
      BY <2>3, CallsTyped
    <3> QED
      BY <2>2, <3>1, <3>2, Zenon
  <2>5. subs' \subseteq Topics /\ refused' \subseteq Topics
    <3>1. /\ subs' = subs \union {t} \/ subs' = subs
          /\ refused' = refused \union {t} \/ refused' = refused
      BY <1>8, Zenon DEF SubscribeNext
    <3> QED
      BY <3>1 DEF ServerTypeOK
  <2>6. UNCHANGED <<pc, db, rdb, bridge, library, link, connected, losses, crossed, rest,
                    socks, late>>
    BY <1>8 DEF SubscribeNext, stores, http
  <2> QED
    BY <2>4, <2>5, <2>6 DEF ServerTypeOK
<1>9. CASE UNCHANGED serverVars
  BY <1>9 DEF ServerTypeOK, serverVars, stores, mqtt, http
<1> QED
  BY <1>1, <1>2, <1>3, <1>4, <1>5, <1>6, <1>7, <1>8, <1>9 DEF ServerNext, Main, Client, Callback

\* What was not dialled does nothing; what was, is not dialled again.
LEMMA QuietStep ==
    ASSUME ServerTypeOK, QuietUntilDialled, [ServerNext]_serverVars
    PROVE  QuietUntilDialled'
<1>1. CASE Main \/ ListenFails \/ Signal
  BY <1>1 DEF Main, QuietUntilDialled, InitMySQL, InitRedis, Dial, BridgeReady,
              BridgeGivesUp, ListenFails, Signal, Drained, DrainTimeout, CloseDB,
              CloseRedis, CloseMQTT, mqtt
<1>2. CASE Client
  BY <1>2 DEF Client, QuietUntilDialled, Begin, Upgrade, End, mqtt
<1>3. CASE LinkUp \/ LinkLost
  BY <1>3 DEF QuietUntilDialled, LinkUp, LinkLost
<1>4. ASSUME NEW i \in DOMAIN calls, Callback(i)
      PROVE  QuietUntilDialled'
  <2>1. calls # <<>>
    BY EmptySeq, LenProperties DEF ServerTypeOK
  <2>2. library # "off" /\ library' = library /\ pc' = pc
    BY <1>4, <2>1 DEF QuietUntilDialled, Callback, OnConnect, OnConnectionLost,
                      SubscribeNext
  <2> QED
    BY <2>2 DEF QuietUntilDialled
<1>5. CASE UNCHANGED serverVars
  BY <1>5 DEF QuietUntilDialled, serverVars, mqtt
<1> QED
  BY <1>1, <1>2, <1>3, <1>4, <1>5 DEF ServerNext

\* The database is closed after the drain, and no request begins after it.
LEMMA DrainStep ==
    ASSUME ServerTypeOK, ClosedInOrder, DrainedBeforeClose, [ServerNext]_serverVars
    PROVE  ClosedInOrder' /\ DrainedBeforeClose'
<1> USE DEF ClosedInOrder, DrainedBeforeClose
<1>1. CASE InitMySQL \/ InitRedis \/ Dial \/ BridgeReady \/ BridgeGivesUp
             \/ ListenFails \/ Signal
  BY <1>1 DEF InitMySQL, InitRedis, Dial, BridgeReady, BridgeGivesUp, ListenFails,
              Signal, stores, http
<1>2. CASE Drained \/ DrainTimeout \/ CloseDB \/ CloseRedis \/ CloseMQTT
  BY <1>2 DEF Drained, DrainTimeout, CloseDB, CloseRedis, CloseMQTT, Closed, stores,
              http
<1>3. CASE Client
  BY <1>3 DEF Client, Begin, Upgrade, End, stores
<1>4. CASE LinkUp \/ LinkLost
  BY <1>4 DEF LinkUp, LinkLost, stores, http
<1>5. ASSUME NEW i \in DOMAIN calls, Callback(i)
      PROVE  ClosedInOrder' /\ DrainedBeforeClose'
  BY <1>5 DEF Callback, OnConnect, OnConnectionLost, SubscribeNext, stores, http
<1>6. CASE UNCHANGED serverVars
  BY <1>6 DEF serverVars, stores, http
<1> QED
  BY <1>1, <1>2, <1>3, <1>4, <1>5, <1>6 DEF ServerNext, Main

\* The client is dialled once there is a database, and the database is closed
\* only after the drain.
LEMMA ReportsStep ==
    ASSUME QuietUntilDialled, ClosedInOrder, ReportsFindDatabase, ServerTypeOK,
           [ServerNext]_serverVars
    PROVE  ReportsFindDatabase'
<1> USE DEF ReportsFindDatabase
<1>1. CASE InitMySQL \/ InitRedis
  BY <1>1 DEF InitMySQL, InitRedis, QuietUntilDialled, mqtt
<1>2. CASE Dial
  <2>1. db # "none" => db = "open"
    BY <1>2 DEF Dial, ClosedInOrder, ServerTypeOK, Store
  <2> QED
    BY <1>2, <2>1 DEF Dial, WantsBridge, QuietUntilDialled, stores
<1>3. CASE BridgeReady \/ BridgeGivesUp \/ ListenFails \/ Signal \/ Drained \/ DrainTimeout
  BY <1>3 DEF BridgeReady, BridgeGivesUp, ListenFails, Signal, Drained, DrainTimeout,
              stores, mqtt
<1>4. CASE CloseDB \/ CloseRedis \/ CloseMQTT
  BY <1>4 DEF CloseDB, CloseRedis, CloseMQTT
<1>5. CASE Client
  BY <1>5 DEF Client, Begin, Upgrade, End, stores, mqtt
<1>6. CASE LinkUp \/ LinkLost
  BY <1>6 DEF LinkUp, LinkLost, stores
<1>7. ASSUME NEW i \in DOMAIN calls, Callback(i)
      PROVE  ReportsFindDatabase'
  BY <1>7 DEF Callback, OnConnect, OnConnectionLost, SubscribeNext, stores
<1>8. CASE UNCHANGED serverVars
  BY <1>8 DEF serverVars, stores, mqtt
<1> QED
  BY <1>1, <1>2, <1>3, <1>4, <1>5, <1>6, <1>7, <1>8 DEF ServerNext, Main

\* The list when a callback has returned, and what it means that the one that
\* runs has overtaken none.
LEMMA Returned ==
    ASSUME calls \in Seq(Call), NEW n \in DOMAIN calls
    PROVE  /\ DOMAIN RemoveAt(calls, n) = 1..(Len(calls) - 1)
           /\ \A j \in 1..(Len(calls) - 1) : RemoveAt(calls, n)[j].kind =
                IF j < n THEN calls[j].kind ELSE calls[j + 1].kind
           /\ ~Overtakes(n) => \A i \in DOMAIN calls : i < n => calls[i].kind = "subscribe"
<1>1. Len(calls) \in Nat /\ DOMAIN calls = 1..Len(calls) /\ n \in 1..Len(calls)
  BY LenProperties
<1>2. /\ RemoveAt(calls, n) \in Seq(Call)
      /\ Len(RemoveAt(calls, n)) = Len(calls) - 1
      /\ \A j \in 1..(Len(calls) - 1) :
           RemoveAt(calls, n)[j] = IF j < n THEN calls[j] ELSE calls[j + 1]
  BY <1>1, Removed
<1>3. DOMAIN RemoveAt(calls, n) = 1..(Len(calls) - 1)
  BY <1>2, LenProperties
<1>4. \A j \in 1..(Len(calls) - 1) : RemoveAt(calls, n)[j].kind =
        IF j < n THEN calls[j].kind ELSE calls[j + 1].kind
  BY <1>2
<1>5. ASSUME ~Overtakes(n), NEW i \in DOMAIN calls, i < n
      PROVE  calls[i].kind = "subscribe"
  <2>1. i \in 1..(n - 1)
    BY <1>1, <1>5
  <2> QED
    BY <1>5, <2>1 DEF Overtakes
<1> QED
  BY <1>3, <1>4, <1>5

\* The flag follows the connection, as long as callbacks keep their order: the
\* one that runs is then the oldest event, and if it is the last one too, the
\* flag is set to what the connection is.
LEMMA FlagStep ==
    ASSUME ServerTypeOK, QuietUntilDialled, LastEventTells, FlagFollows, [ServerNext]_serverVars
    PROVE  LastEventTells' /\ FlagFollows'
<1> USE DEF LastEventTells, FlagFollows
<1>1. /\ Len(calls) \in Nat /\ DOMAIN calls = 1..Len(calls)
      /\ \A i \in DOMAIN calls : calls[i] \in Call
  BY LenProperties, ElementOfSeq DEF ServerTypeOK
<1>2. CASE Dial
  <2>1. calls = <<>> /\ calls' = calls /\ link' = link /\ connected' = connected
    BY <1>2 DEF Dial, QuietUntilDialled
  <2>2. link = connected
    BY <1>2 DEF Dial, QuietUntilDialled, ServerTypeOK
  <2>3. DOMAIN calls' = {}
    BY <2>1
  <2> QED
    BY <2>1, <2>2, <2>3
<1>3. CASE InitMySQL \/ InitRedis \/ BridgeReady \/ BridgeGivesUp
             \/ ListenFails \/ Signal
             \/ Drained \/ DrainTimeout \/ CloseDB \/ CloseRedis \/ CloseMQTT
  BY <1>3 DEF InitMySQL, InitRedis, BridgeReady, BridgeGivesUp, ListenFails, Signal,
              Drained, DrainTimeout, CloseDB, CloseRedis, CloseMQTT, mqtt
<1>4. CASE Client
  BY <1>4 DEF Client, Begin, Upgrade, End, mqtt
<1>5. CASE LinkUp \/ LinkLost
  <2>1. PICK k \in {"up", "lost"} :
          Start(k) /\ (link' <=> k = "up") /\ library' = library /\ crossed' = crossed
    BY <1>5 DEF LinkUp, LinkLost
  <2> DEFINE e == [kind |-> k, todo |-> {}]
  <2>3. e \in Call /\ calls' = Append(calls, e)
    BY <2>1 DEF Call, Start
  <2>4. /\ Len(calls') = Len(calls) + 1 /\ DOMAIN calls' = 1..(Len(calls) + 1)
        /\ calls'[Len(calls) + 1] = e
    BY <1>1, <2>3, AppendProperties, LenProperties DEF ServerTypeOK
  <2>5. calls'[Len(calls) + 1].kind = k
    BY <2>4
  <2>6. FlagFollows'
    BY <1>1, <2>4, <2>5
  <2>7. ASSUME NEW i \in DOMAIN calls', calls'[i].kind # "subscribe",
               \A j \in DOMAIN calls' : j > i => calls'[j].kind = "subscribe"
        PROVE  link' <=> calls'[i].kind = "up"
    <3>1. i = Len(calls) + 1
      BY <1>1, <2>4, <2>5, <2>7
    <3> QED
      BY <2>1, <2>5, <3>1
  <2> QED
    BY <2>6, <2>7
<1>6. ASSUME NEW n \in DOMAIN calls, OnConnect(n)
      PROVE  LastEventTells' /\ FlagFollows'
  <2>1. /\ calls[n].kind = "up" /\ connected' /\ link' = link /\ library' = library
        /\ calls' = [calls EXCEPT ![n] = [kind |-> "subscribe", todo |-> Topics]]
        /\ crossed' = (crossed \/ Overtakes(n))
    BY <1>6 DEF OnConnect
  <2>2. /\ DOMAIN calls' = DOMAIN calls
        /\ \A i \in DOMAIN calls : calls'[i].kind = IF i = n THEN "subscribe" ELSE calls[i].kind
    BY <2>1
  <2> SUFFICES ASSUME library' = "on", ~crossed'
               PROVE  LastEventTells' /\ FlagFollows'
    OBVIOUS
  <2>3. \A i \in DOMAIN calls : i < n => calls[i].kind = "subscribe"
    <3>1. ~Overtakes(n)
      BY <2>1
    <3> QED
      BY <3>1, Returned DEF ServerTypeOK
  <2>4. ASSUME NEW i \in DOMAIN calls', calls'[i].kind # "subscribe",
               \A j \in DOMAIN calls' : j > i => calls'[j].kind = "subscribe"
        PROVE  link' <=> calls'[i].kind = "up"
    <3>1. i # n /\ calls[i].kind # "subscribe" /\ i > n
      BY <1>1, <2>2, <2>3, <2>4
    <3>2. \A j \in DOMAIN calls : j > i => calls[j].kind = "subscribe"
      BY <1>1, <2>2, <2>4, <3>1
    <3> QED
      BY <2>1, <2>2, <3>1, <3>2
  <2>5. ASSUME \A i \in DOMAIN calls' : calls'[i].kind = "subscribe"
        PROVE  connected' = link'
    <3>1. \A j \in DOMAIN calls : j > n => calls[j].kind = "subscribe"
      BY <1>1, <2>2, <2>5
    <3>2. link
      BY <2>1, <3>1
    <3> QED
      BY <2>1, <3>2 DEF ServerTypeOK
  <2> QED
    BY <2>4, <2>5
<1>7. ASSUME NEW n \in DOMAIN calls, OnConnectionLost(n)
      PROVE  LastEventTells' /\ FlagFollows'
  <2>1. /\ calls[n].kind = "lost" /\ ~connected' /\ connected' \in BOOLEAN
        /\ link' = link /\ library' = library
        /\ calls' = RemoveAt(calls, n) /\ crossed' = (crossed \/ Overtakes(n))
    BY <1>7 DEF OnConnectionLost
  <2>2. /\ DOMAIN calls' = 1..(Len(calls) - 1)
        /\ \A j \in 1..(Len(calls) - 1) :
             calls'[j].kind = IF j < n THEN calls[j].kind ELSE calls[j + 1].kind
    BY <2>1, Returned DEF ServerTypeOK
  <2> SUFFICES ASSUME library' = "on", ~crossed'
               PROVE  LastEventTells' /\ FlagFollows'
    OBVIOUS
  <2>3. \A i \in DOMAIN calls : i < n => calls[i].kind = "subscribe"
    <3>1. ~Overtakes(n)
      BY <2>1
    <3> QED
      BY <3>1, Returned DEF ServerTypeOK
  <2>4. \A j \in DOMAIN calls : j > n => j - 1 \in DOMAIN calls' /\ calls'[j - 1].kind = calls[j].kind
    BY <1>1, <2>2
  <2>5. ASSUME NEW i \in DOMAIN calls', calls'[i].kind # "subscribe",
               \A j \in DOMAIN calls' : j > i => calls'[j].kind = "subscribe"
        PROVE  link' <=> calls'[i].kind = "up"
    <3>1. i >= n /\ i + 1 \in DOMAIN calls /\ calls'[i].kind = calls[i + 1].kind
      BY <1>1, <2>2, <2>3, <2>5
    <3>2. \A j \in DOMAIN calls : j > i + 1 => calls[j].kind = "subscribe"
      BY <1>1, <2>2, <2>4, <2>5, <3>1
    <3> QED
      BY <2>1, <2>5, <3>1, <3>2
  <2>6. ASSUME \A i \in DOMAIN calls' : calls'[i].kind = "subscribe"
        PROVE  connected' = link'
    <3>1. \A j \in DOMAIN calls : j > n => calls[j].kind = "subscribe"
      BY <2>4, <2>6
    <3>2. ~link
      BY <2>1, <3>1
    <3> QED
      BY <2>1, <3>2 DEF ServerTypeOK
  <2> QED
    BY <2>5, <2>6
<1>8. ASSUME NEW n \in DOMAIN calls, NEW t \in Topics, SubscribeNext(n, t)
      PROVE  LastEventTells' /\ FlagFollows'
  <2>1. /\ calls[n].kind = "subscribe" /\ connected' = connected
        /\ link' = link /\ library' = library /\ crossed' = crossed
    BY <1>8 DEF SubscribeNext
  <2>2. CASE calls' = [calls EXCEPT ![n].todo = @ \ {t}]
    <3>1. DOMAIN calls' = DOMAIN calls /\ \A i \in DOMAIN calls : calls'[i].kind = calls[i].kind
      BY <1>1, <2>2
    <3> QED
      BY <2>1, <3>1
  <2>3. CASE calls' = RemoveAt(calls, n)
    <3>1. /\ DOMAIN calls' = 1..(Len(calls) - 1)
          /\ \A j \in 1..(Len(calls) - 1) :
               calls'[j].kind = IF j < n THEN calls[j].kind ELSE calls[j + 1].kind
      BY <2>3, Returned DEF ServerTypeOK
    <3>2. \A j \in DOMAIN calls :
            /\ j < n => j \in DOMAIN calls' /\ calls'[j].kind = calls[j].kind
            /\ j > n => j - 1 \in DOMAIN calls' /\ calls'[j - 1].kind = calls[j].kind
      BY <1>1, <3>1
    <3>3. ASSUME NEW i \in DOMAIN calls', library = "on", ~crossed, calls'[i].kind # "subscribe",
                 \A j \in DOMAIN calls' : j > i => calls'[j].kind = "subscribe"
          PROVE  link <=> calls'[i].kind = "up"
      <4> DEFINE old == IF i < n THEN i ELSE i + 1
      <4>1. old \in DOMAIN calls /\ calls[old].kind = calls'[i].kind
        BY <1>1, <3>1
      <4>2. ASSUME NEW j \in DOMAIN calls, j > old
            PROVE  calls[j].kind = "subscribe"
        <5>1. CASE j < n
          BY <1>1, <3>1, <3>2, <3>3, <4>2, <5>1
        <5>2. CASE j = n
          BY <2>1, <5>2
        <5>3. CASE j > n
          <6>1. j - 1 > i /\ j - 1 \in DOMAIN calls'
            BY <1>1, <3>1, <4>2, <5>3
          <6> QED
            BY <3>2, <3>3, <5>3, <6>1
        <5> QED
          BY <1>1, <5>1, <5>2, <5>3
      <4> HIDE DEF old
      <4> QED
        BY <3>3, <4>1, <4>2
    <3>4. ASSUME \A i \in DOMAIN calls' : calls'[i].kind = "subscribe"
          PROVE  \A i \in DOMAIN calls : calls[i].kind = "subscribe"
      BY <1>1, <2>1, <3>2, <3>4
    <3> QED
      BY <2>1, <3>3, <3>4
  <2> QED
    BY <1>8, <2>2, <2>3 DEF SubscribeNext
<1>9. CASE UNCHANGED serverVars
  BY <1>9 DEF serverVars, mqtt
<1> QED
  BY <1>2, <1>3, <1>4, <1>5, <1>6, <1>7, <1>8, <1>9 DEF ServerNext, Main, Callback

-----------------------------------------------------------------------------

\* The invariant that all the rest follows from.
THEOREM ServerSafetyHolds == ServerSpec => []ServerSafety
<1>1. ServerSafety /\ [ServerNext]_serverVars => ServerSafety'
  BY TypeStep, QuietStep, DrainStep, ReportsStep, FlagStep DEF ServerSafety
<1> QED
  BY <1>1, ServerInitIsSafe, PTL DEF ServerSpec

\* Every reachable state of the process is well typed.
THEOREM ServerTypeCorrect == ServerSpec => []ServerTypeOK
<1>1. ServerSafety => ServerTypeOK
  BY DEF ServerSafety
<1> QED
  BY <1>1, ServerSafetyHolds, PTL

\* A request is cut off from the database only if Shutdown has given up waiting
\* (main, deps.Close), however many requests there are.
THEOREM RequestsDrained == ServerSpec => []DrainedBeforeClose
<1>1. ServerSafety => DrainedBeforeClose
  BY DEF ServerSafety
<1> QED
  BY <1>1, ServerSafetyHolds, PTL

\* From the first connection to the broker until the requests are drained, a
\* report is handled with an open database (buildDeps, deps.Close).
THEOREM ReportsAreKept == ServerSpec => []ReportsFindDatabase
<1>1. ServerSafety => ReportsFindDatabase
  BY DEF ServerSafety
<1> QED
  BY <1>1, ServerSafetyHolds, PTL

\* However often the connection to the broker breaks: unless a callback has
\* overtaken an older one, the bridge's flag says in the end whether there is a
\* connection (onConnect, onConnectionLost).
THEOREM FlagIsRight == ServerSpec => []FlagFollows
<1>1. ServerSafety => FlagFollows
  BY DEF ServerSafety
<1> QED
  BY <1>1, ServerSafetyHolds, PTL
=============================================================================
