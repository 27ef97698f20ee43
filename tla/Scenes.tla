------------------------------- MODULE Scenes -------------------------------
(***************************************************************************)
(* Scenes: lists of device commands that a user edits and triggers.        *)
(*                                                                         *)
(* Each SQL statement is one step.  A command is executed as one step that *)
(* succeeds or fails: module DeviceState has its statements.  The name of  *)
(* a scene is left out, and requests that are refused before any statement. *)
(***************************************************************************)
EXTENDS Naturals, Sequences

CONSTANTS
    Users, Handlers,
    Devices, Values,
    Lists,              \* the command lists clients store
    NotAList,           \* JSON that is not an array: stored all the same
    MaxScenes           \* bound: scenes ever created

Commands == [dev : Devices, val : Values]

ASSUME ScenesAssumption ==
    /\ MaxScenes \in Nat
    /\ Lists \subseteq Seq(Commands) /\ NotAList \notin Seq(Commands)

VARIABLES
    users,      \* the users that have an account
    scene,      \* scene[s]: owner and command list
    there,      \* the scenes that have a row
    last,       \* the last id given out (AUTO_INCREMENT)
    state,      \* state[d]: what device_states says of d
    req         \* req[h]: the request h is serving

rows == <<users, scene, there, last>>
vars == <<rows, state, req>>

Ids   == 1..MaxScenes
Scene == [owner : Users, list : Lists \union {NotAList}]

Idle == [pc |-> "idle"]

Update == [pc : {"update"}, user : Users, id : Ids, list : Lists \union {NotAList}]
Delete == [pc : {"delete"}, user : Users, id : Ids]
Lookup == [pc : {"read"}, id : Ids]

\* A trigger under way: the commands it read, and what became of those tried.
\* alone is a ghost: no other trigger has executed a command since it started.
Run == [pc : {"run"}, id : Ids, cmds : Seq(Commands),
        done : Seq([cmd : Commands, ok : BOOLEAN]), alone : BOOLEAN]

\* The type invariant: no trigger has more results than commands.
TypeOK ==
    /\ users \subseteq Users
    /\ there \subseteq 1..last /\ last \in 0..MaxScenes
    /\ scene \in [there -> Scene]
    /\ state \in [Devices -> Values]
    /\ req \in [Handlers -> Update \union Delete \union Lookup \union Run \union {Idle}]
    /\ \A h \in Handlers : req[h].pc = "run" => Len(req[h].done) <= Len(req[h].cmds)

Init ==
    /\ users = Users
    /\ there = {} /\ last = 0 /\ scene = [s \in {} |-> NotAList]
    /\ state \in [Devices -> Values]
    /\ req = [h \in Handlers |-> Idle]

Owns(u, s) == s \in there /\ scene[s].owner = u

Serve(h, r) == req[h] = Idle /\ req' = [req EXCEPT ![h] = r] /\ UNCHANGED <<rows, state>>

Done(h) == req' = [req EXCEPT ![h] = Idle]

-----------------------------------------------------------------------------
(* Editing *)

\* Faulty variant: the id of the scene created last may be given out again.
NewIdCounted == IF last = 0 \/ last \in there THEN last + 1 ELSE last

NewId == last + 1

\* POST /scenes: the foreign key refuses a user whose account is gone.
Create(h, u, l) ==
    /\ req[h] = Idle
    /\ u \in users
    /\ NewId \in Ids
    /\ last' = NewId
    /\ there' = there \union {NewId}
    /\ scene' = [s \in there \union {NewId} |->
                   IF s = NewId THEN [owner |-> u, list |-> l] ELSE scene[s]]
    /\ UNCHANGED <<users, state, req>>

\* PUT and DELETE /scenes/{id} look up the scene and its owner ...
UpdateLookup(h, u, s, l) ==
    Owns(u, s) /\ Serve(h, [pc |-> "update", user |-> u, id |-> s, list |-> l])

DeleteLookup(h, u, s) ==
    Owns(u, s) /\ Serve(h, [pc |-> "delete", user |-> u, id |-> s])

\* ... and write by scene id alone, which affects no row if the scene is gone.
UpdateWrite(h) ==
    /\ req[h].pc = "update"
    /\ scene' = [s \in there |-> IF s = req[h].id THEN [scene[s] EXCEPT !.list = req[h].list]
                                                  ELSE scene[s]]
    /\ Done(h)
    /\ UNCHANGED <<users, there, last, state>>

Without(gone) ==
    /\ there' = there \ gone
    /\ scene' = [s \in there \ gone |-> scene[s]]

DeleteWrite(h) ==
    /\ req[h].pc = "delete"
    /\ Without({req[h].id})
    /\ Done(h)
    /\ UNCHANGED <<users, last, state>>

\* Deleting an account takes its scenes along.
AccountDeleted(u) ==
    /\ u \in users
    /\ users' = users \ {u}
    /\ Without({s \in there : scene[s].owner = u})
    /\ UNCHANGED <<last, state, req>>

-----------------------------------------------------------------------------
(* Triggering *)

\* POST /scenes/{id}/trigger looks up the scene once for its owner.
TriggerLookup(h, u, s) == Owns(u, s) /\ Serve(h, [pc |-> "read", id |-> s])

\* A voice command names any scene id.
VoiceTrigger(h, s) == Serve(h, [pc |-> "read", id |-> s])

\* Faulty variant: nothing is answered when the scene is gone.
TriggerReadSilent(h) ==
    /\ req[h].pc = "read"
    /\ req[h].id \in there /\ scene[req[h].id].list # NotAList
    /\ req' = [req EXCEPT ![h] = [pc |-> "run", id |-> req[h].id, cmds |-> scene[req[h].id].list,
                                  done |-> <<>>, alone |-> TRUE]]
    /\ UNCHANGED <<rows, state>>

\* Trigger reads it for its commands.  Gone by now, or not a list: an error.
TriggerRead(h) ==
    /\ req[h].pc = "read"
    /\ LET s == req[h].id IN
         IF s \in there /\ scene[s].list # NotAList
           THEN req' = [req EXCEPT ![h] = [pc |-> "run", id |-> s, cmds |-> scene[s].list,
                                           done |-> <<>>, alone |-> TRUE]]
           ELSE Done(h)
    /\ UNCHANGED <<rows, state>>

\* The command at hand; the other triggers are not alone any more.
Tried(h, c, ok) ==
    req' = [g \in Handlers |->
              IF g = h THEN [req[h] EXCEPT !.done = Append(@, [cmd |-> c, ok |-> ok])]
              ELSE IF req[g].pc = "run" THEN [req[g] EXCEPT !.alone = FALSE] ELSE req[g]]

\* Faulty variant: the commands are taken from the end.
RunNextBackwards(h) ==
    /\ req[h].pc = "run" /\ Len(req[h].done) < Len(req[h].cmds)
    /\ LET c == req[h].cmds[Len(req[h].cmds) - Len(req[h].done)] IN
         Tried(h, c, TRUE) /\ state' = [state EXCEPT ![c.dev] = c.val]
    /\ UNCHANGED rows

\* One command after the other, whether or not those before it failed.  A
\* command that fails may have been written all the same (its time is up).
RunNext(h) ==
    /\ req[h].pc = "run" /\ Len(req[h].done) < Len(req[h].cmds)
    /\ LET c == req[h].cmds[Len(req[h].done) + 1] IN
         \/ Tried(h, c, TRUE) /\ state' = [state EXCEPT ![c.dev] = c.val]
         \/ Tried(h, c, FALSE) /\ state' \in {state, [state EXCEPT ![c.dev] = c.val]}
    /\ UNCHANGED rows

\* Faulty variant: a failure ends the trigger.
FinishedOrFailed(r) ==
    Len(r.done) = Len(r.cmds) \/ \E i \in DOMAIN r.done : ~r.done[i].ok

Finished(r) == Len(r.done) = Len(r.cmds)

\* The results by REST, or their number and that of the failures by voice.
Answer(h) ==
    /\ req[h].pc = "run" /\ Finished(req[h])
    /\ Done(h)
    /\ UNCHANGED <<rows, state>>

-----------------------------------------------------------------------------

Write(h)   == UpdateWrite(h) \/ DeleteWrite(h)
Trigger(h) == TriggerRead(h) \/ RunNext(h) \/ Answer(h)

Handle(h) ==
    \/ \E u \in Users, l \in Lists \union {NotAList} :
         Create(h, u, l) \/ \E s \in there : UpdateLookup(h, u, s, l)
    \/ \E u \in Users, s \in there : DeleteLookup(h, u, s) \/ TriggerLookup(h, u, s)
    \/ \E s \in Ids : VoiceTrigger(h, s)
    \/ Write(h) \/ Trigger(h)

Next == (\E h \in Handlers : Handle(h)) \/ (\E u \in Users : AccountDeleted(u))

Spec == Init /\ [][Next]_vars

\* A handler runs: every statement has a deadline, and so has every command.
FairSpec == Spec /\ \A h \in Handlers : WF_vars(Trigger(h))

-----------------------------------------------------------------------------
(* Properties *)

\* An edit that was let through hits a scene of the user who asked for it, or
\* none: an id is not given out twice and a scene keeps its owner, although the
\* statements of UpdateScene and DeleteScene name the id alone.
WritesHitOwnScene ==
    \A h \in Handlers : req[h].pc \in {"update", "delete"} /\ req[h].id \in there =>
        scene[req[h].id].owner = req[h].user

\* A trigger is answered when it has tried each command of one version of its
\* list, once and in order, whichever of them failed and whatever was edited
\* meanwhile (SceneService.Trigger).
EveryCommandTried ==
    [][\A h \in Handlers : req[h].pc = "run" /\ req'[h] = Idle =>
         /\ Len(req[h].done) = Len(req[h].cmds)
         /\ \A i \in DOMAIN req[h].cmds : req[h].done[i].cmd = req[h].cmds[i]]_vars

\* As long as no other trigger interferes, a device is left as the last command
\* tried for it says, if that one succeeded.
LeftAsAsked ==
    \A h \in Handlers : req[h].pc = "run" /\ req[h].alone =>
        LET c == req[h].cmds
            n == Len(req[h].done) IN
        \A i \in 1..n :
            req[h].done[i].ok /\ (\A j \in (i + 1)..n : c[j].dev # c[i].dev)
              => state[c[i].dev] = c[i].val

\* What makes the above inductive.
TriedInOrder ==
    \A h \in Handlers : req[h].pc = "run" =>
        \A i \in 1..Len(req[h].done) : req[h].done[i].cmd = req[h].cmds[i]

EditsNameOldIds ==
    \A h \in Handlers : req[h].pc \in {"update", "delete"} => req[h].id \in 1..last

Safety == TypeOK /\ WritesHitOwnScene /\ EditsNameOldIds /\ TriedInOrder /\ LeftAsAsked

\* Every trigger ends, whatever fails.
TriggersEnd == \A h \in Handlers : (req[h].pc \in {"read", "run"}) ~> (req[h] = Idle)
=============================================================================
