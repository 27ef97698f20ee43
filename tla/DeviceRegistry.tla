--------------------------- MODULE DeviceRegistry ---------------------------
(***************************************************************************)
(* The devices table and the server's operations on it: binding a pool     *)
(* device with its code, renaming, unbinding (a physical delete), deleting *)
(* the owner's account, and the MQTT heartbeat.                            *)
(*                                                                         *)
(* Every REST handler runs on its own goroutine and none of them opens a   *)
(* transaction, so each SQL statement is one atomic step and the steps of  *)
(* different handlers interleave.  A handler that refuses its request      *)
(* before it writes anything changes no state, and is left out: such a     *)
(* lookup has the refusal's negation as its guard.                         *)
(***************************************************************************)
CONSTANTS
    Users,      \* user ids with an account at the start
    Devices,    \* device ids
    Names,      \* display labels: a device's name and room together
    Handlers,   \* goroutines serving REST requests
    NoUser,     \* SQL NULL in owner_id
    NoName,     \* the label a client left blank
    Pool, Orphan, Gone      \* see Ownership

ASSUME RegistryAssumption ==
    /\ NoUser \notin Users
    /\ NoName \notin Names
    /\ Pool \notin Users /\ Orphan \notin Users /\ Gone \notin Users
    /\ Pool # Orphan /\ Pool # Gone /\ Orphan # Gone

VARIABLES
    users,      \* accounts that exist
    present,    \* devices that have a row
    row,        \* row[d]: the columns of d's row, when it has one
    req         \* req[h]: what handler h knows of the request it is serving

vars == <<users, present, row, req>>

Codes    == {"blank", "sticker", "wrong"}    \* what a client may type
Statuses == {"waiting_bind", "online", "offline"}

Row == [owner : Users \union {NoUser}, name : Names,
        status : Statuses, code : {"blank", "sticker"}]

\* A request between its statements, and a handler that serves none.
BindRequest    == [pc : {"bind_cas"}, user : Users, dev : Devices,
                   code : Codes, name : Names]
RenameRequest  == [pc : {"rename_update"}, user : Users, dev : Devices, name : Names]
UnbindRequest  == [pc : {"unbind_delete"}, user : Users, dev : Devices]
ProfileRequest == [pc : {"profile_delete"}, user : Users]
Idle           == [pc |-> "idle"]

Request ==
    BindRequest \union RenameRequest \union UnbindRequest \union ProfileRequest

\* The type invariant.  What it can catch in the code: a bind that stores the
\* blank label of a client that typed no name.
TypeOK ==
    /\ users \subseteq Users
    /\ present \subseteq Devices
    /\ row \in [Devices -> Row]
    /\ req \in [Handlers -> Request \union {Idle}]

-----------------------------------------------------------------------------
(* The migrations seed devices that belong to a user, with an empty bind   *)
(* code, and pool devices, with one.                                       *)

SeedRow(u, n, s) ==
    [owner  |-> u,
     name   |-> n,
     status |-> IF u = NoUser THEN "waiting_bind" ELSE s,
     code   |-> IF u = NoUser THEN "sticker" ELSE "blank"]

Init ==
    /\ users = Users
    /\ present = Devices
    /\ row \in [Devices -> { SeedRow(u, n, s) : u \in Users \union {NoUser},
                               n \in Names, s \in {"online", "offline"} }]
    /\ req = [h \in Handlers |-> Idle]

-----------------------------------------------------------------------------
Serve(h, r) ==
    /\ req[h] = Idle
    /\ req' = [req EXCEPT ![h] = r]
    /\ UNCHANGED <<users, present, row>>

Done(h) == req' = [req EXCEPT ![h] = Idle]

Owns(u, d) == d \in present /\ row[d].owner = u

\* Faulty variant: a blank code is let through.
BindLookupAnyCode(h, u, d, c, n) ==
    /\ d \in present
    /\ Serve(h, [pc |-> "bind_cas", user |-> u, dev |-> d, code |-> c,
                 name |-> IF n = NoName THEN row[d].name ELSE n])
\* Bind, first statement.  A blank code is refused before any query; the
\* name falls back to the device's own.
BindLookup(h, u, d, c, n) ==
    /\ c # "blank"
    /\ d \in present
    /\ Serve(h, [pc |-> "bind_cas", user |-> u, dev |-> d, code |-> c,
                 name |-> IF n = NoName THEN row[d].name ELSE n])

\* Bind, second statement: UPDATE ... WHERE device_id AND bind_code AND
\* owner_id IS NULL.  The foreign key refuses an account deleted meanwhile.
BindMatches(r) ==
    /\ r.dev \in present
    /\ row[r.dev].owner = NoUser
    /\ row[r.dev].code = r.code
    /\ r.user \in users

BindCAS(h) ==
    /\ req[h].pc = "bind_cas"
    /\ LET r == req[h] IN
         IF BindMatches(r)
           THEN row' = [row EXCEPT ![r.dev] =
                          [owner |-> r.user, name |-> r.name,
                           status |-> "online", code |-> "blank"]]
           ELSE UNCHANGED row
    /\ Done(h)
    /\ UNCHANGED <<users, present>>

RenameLookup(h, u, d, n) ==
    /\ n # NoName
    /\ Owns(u, d)
    /\ Serve(h, [pc |-> "rename_update", user |-> u, dev |-> d, name |-> n])

\* UPDATE ... WHERE device_id AND owner_id.  The driver's default reports the
\* rows the statement changed, so writing the same label affects none.
RenameAffects(r) ==
    /\ Owns(r.user, r.dev)
    /\ row[r.dev].name # r.name

RenameUpdate(h) ==
    /\ req[h].pc = "rename_update"
    /\ RenameAffects(req[h])
    /\ row' = [row EXCEPT ![req[h].dev].name = req[h].name]
    /\ Done(h)
    /\ UNCHANGED <<users, present>>

\* No row affected: the request is answered not_owner.
RenameRefused(h) ==
    /\ req[h].pc = "rename_update"
    /\ ~RenameAffects(req[h])
    /\ Done(h)
    /\ UNCHANGED <<users, present, row>>

\* Faulty variant: anybody may ask for the removal.
UnbindLookupAnyone(h, u, d) ==
    /\ d \in present
    /\ Serve(h, [pc |-> "unbind_delete", user |-> u, dev |-> d])

UnbindLookup(h, u, d) ==
    /\ Owns(u, d)
    /\ Serve(h, [pc |-> "unbind_delete", user |-> u, dev |-> d])

\* DELETE ... WHERE device_id, whoever owns it by now.
UnbindDelete(h) ==
    /\ req[h].pc = "unbind_delete"
    /\ present' = present \ {req[h].dev}
    /\ Done(h)
    /\ UNCHANGED <<users, row>>

\* Deleting one's account: the password check reads the user, then the row
\* is deleted and the foreign key clears owner_id in the user's devices.
ProfileVerify(h, u) ==
    /\ u \in users
    /\ Serve(h, [pc |-> "profile_delete", user |-> u])

\* Faulty variant: the deleted account's devices go back on the list.
ProfileDeleteToPool(h) ==
    /\ req[h].pc = "profile_delete"
    /\ users' = users \ {req[h].user}
    /\ row' = [d \in Devices |->
                 IF row[d].owner = req[h].user
                   THEN [row[d] EXCEPT !.owner = NoUser, !.status = "waiting_bind"]
                   ELSE row[d]]
    /\ Done(h)
    /\ UNCHANGED present

ProfileDelete(h) ==
    /\ req[h].pc = "profile_delete"
    /\ users' = users \ {req[h].user}
    /\ row' = [d \in Devices |->
                 IF row[d].owner = req[h].user
                   THEN [row[d] EXCEPT !.owner = NoUser] ELSE row[d]]
    /\ Done(h)
    /\ UNCHANGED present

\* An MQTT heartbeat marks any device that has a row as online.
Heartbeat(d) ==
    /\ d \in present
    /\ row' = [row EXCEPT ![d].status = "online"]
    /\ UNCHANGED <<users, present, req>>

Handle(h) ==
    \/ \E u \in Users, d \in Devices, c \in Codes, n \in Names \union {NoName} :
         BindLookup(h, u, d, c, n)
    \/ BindCAS(h)
    \/ \E u \in Users, d \in Devices, n \in Names \union {NoName} :
         RenameLookup(h, u, d, n)
    \/ RenameUpdate(h)
    \/ RenameRefused(h)
    \/ \E u \in Users, d \in Devices : UnbindLookup(h, u, d)
    \/ UnbindDelete(h)
    \/ \E u \in Users : ProfileVerify(h, u)
    \/ ProfileDelete(h)

Next ==
    \/ \E h \in Handlers : Handle(h)
    \/ \E d \in Devices : Heartbeat(d)

Spec == Init /\ [][Next]_vars

-----------------------------------------------------------------------------
(* Properties *)

\* A device with an owner has no bind code left, so losing its owner does not
\* put it back into reach of a bind (repository/device.go, BindToOwner).
CodeSpent ==
    \A d \in present : row[d].owner # NoUser => row[d].code = "blank"

\* The delete of an unbind names the device only.  Between its owner check and
\* the delete the owner may have lost the device, but nobody else can have
\* got it and it is not in the pool (service/device.go, UnbindDevice).
UnbindHitsOwnDevice ==
    \A h \in Handlers : req[h].pc = "unbind_delete" /\ req[h].dev \in present =>
        /\ row[req[h].dev].owner \in {req[h].user, NoUser}
        /\ row[req[h].dev].code = "blank"

\* Whatever the add-device page lists can be bound by whoever reads the code
\* off the device (repository/device.go, ListBindable and BindToOwner).
Listed(d) == d \in present /\ row[d].owner = NoUser /\ row[d].status = "waiting_bind"

ListedCanBeBound == \A d \in Devices : Listed(d) => row[d].code = "sticker"

\* Three facts behind these.  A device that has an owner is not waiting to be
\* bound; a bind that passed its checks carries a code that is not blank; and
\* all of it together is inductive.
OwnedIsNotWaiting == \A d \in present : row[d].owner # NoUser => row[d].status # "waiting_bind"

BindCarriesCode == \A h \in Handlers : req[h].pc = "bind_cas" => req[h].code # "blank"

Safety ==
    /\ TypeOK
    /\ CodeSpent
    /\ UnbindHitsOwnDevice
    /\ ListedCanBeBound
    /\ OwnedIsNotWaiting
    /\ BindCarriesCode

\* The registry implements the ownership lifecycle.  A row without an owner is
\* in the pool while it has its code and an orphan afterwards.
OwnerOf(d) ==
    IF d \notin present THEN Gone
    ELSE IF row[d].owner # NoUser THEN row[d].owner
    ELSE IF row[d].code = "sticker" THEN Pool ELSE Orphan

Lifecycle == INSTANCE Ownership WITH owner <- [d \in Devices |-> OwnerOf(d)]

\* Every behaviour of the registry is one of the ownership lifecycle: one bind
\* wins, no transfer from user to user, no way back to the pool.
OwnershipLifecycle == Lifecycle!Spec
=============================================================================
