------------------------ MODULE DeviceRegistryProofs ------------------------
(***************************************************************************)
(* What holds of the device registry for any number of users, devices and  *)
(* request handlers.  Safety is inductive; the invariants the model checker *)
(* is asked about are conjuncts of it, and it is what the refinement of    *)
(* the ownership lifecycle needs of every state.                           *)
(***************************************************************************)
EXTENDS DeviceRegistry, TLAPS

\* The kind of request a handler serves follows from where it is.
LEMMA RequestKinds ==
    ASSUME TypeOK, NEW h \in Handlers
    PROVE  /\ req[h].pc = "bind_cas"       => req[h] \in BindRequest
           /\ req[h].pc = "rename_update"  => req[h] \in RenameRequest
           /\ req[h].pc = "unbind_delete"  => req[h] \in UnbindRequest
           /\ req[h].pc = "profile_delete" => req[h] \in ProfileRequest
  BY DEF TypeOK, Request, BindRequest, RenameRequest, UnbindRequest, ProfileRequest, Idle

\* The rows the migrations leave satisfy the invariant.
LEMMA InitSafety == Init => Safety
<1> SUFFICES ASSUME Init PROVE Safety
  OBVIOUS
<1>1. TypeOK
  BY RegistryAssumption
  DEF Init, TypeOK, Row, SeedRow, Statuses, Request, Idle
<1>2. CodeSpent /\ ListedCanBeBound /\ OwnedIsNotWaiting
  <2> SUFFICES ASSUME NEW d \in Devices
               PROVE  /\ row[d].owner # NoUser => /\ row[d].code = "blank"
                                                  /\ row[d].status # "waiting_bind"
                      /\ Listed(d) => row[d].code = "sticker"
    BY DEF Init, CodeSpent, ListedCanBeBound, OwnedIsNotWaiting
  <2>1. PICK u \in Users \union {NoUser}, n \in Names, s \in {"online", "offline"} :
          row[d] = SeedRow(u, n, s)
    BY DEF Init
  <2> QED
    BY <2>1 DEF SeedRow, Listed
<1>3. UnbindHitsOwnDevice /\ BindCarriesCode
  BY DEF Init, UnbindHitsOwnDevice, BindCarriesCode, Idle
<1> QED
  BY <1>1, <1>2, <1>3 DEF Safety

\* Taking up a request leaves the rows alone, so what is said of the rows
\* stays true; what is said of the request is asked of the new one only.
LEMMA ServeSafety ==
    ASSUME Safety, NEW h \in Handlers, NEW r \in Request, Serve(h, r),
           r.pc = "bind_cas" => r.code # "blank",
           r.pc = "unbind_delete" => Owns(r.user, r.dev) /\ r.user \in Users
    PROVE  Safety'
<1>1. TypeOK'
  BY DEF Safety, TypeOK, Serve
<1>2. CodeSpent' /\ ListedCanBeBound' /\ OwnedIsNotWaiting'
  BY DEF Safety, CodeSpent, ListedCanBeBound, OwnedIsNotWaiting, Listed, Serve
<1>3. UnbindHitsOwnDevice'
  <2> SUFFICES ASSUME NEW g \in Handlers, req'[g].pc = "unbind_delete", req'[g].dev \in present
               PROVE  /\ row[req'[g].dev].owner \in {req'[g].user, NoUser}
                      /\ row[req'[g].dev].code = "blank"
    BY DEF UnbindHitsOwnDevice, Serve
  <2>1. CASE g = h
    BY <2>1, RegistryAssumption DEF Safety, TypeOK, Serve, Owns, CodeSpent
  <2>2. CASE g # h
    BY <2>2 DEF Safety, TypeOK, Serve, UnbindHitsOwnDevice
  <2> QED
    BY <2>1, <2>2
<1>4. BindCarriesCode'
  BY DEF Safety, TypeOK, Serve, BindCarriesCode
<1> QED
  BY <1>1, <1>2, <1>3, <1>4 DEF Safety

\* A handler that is done has no request any more, and the others keep theirs.
LEMMA DoneRequests ==
    ASSUME TypeOK, NEW h \in Handlers, Done(h)
    PROVE  /\ req' \in [Handlers -> Request \union {Idle}]
           /\ \A g \in Handlers : req'[g].pc \in {"bind_cas", "unbind_delete"} => req'[g] = req[g]
  BY DEF TypeOK, Done, Idle

\* The compare-and-set of a bind.
LEMMA BindCASSafety == ASSUME Safety, NEW h \in Handlers, BindCAS(h) PROVE Safety'
<1> DEFINE r == req[h]
<1>1. r \in BindRequest
  BY RequestKinds DEF Safety, BindCAS
<1>2. /\ req' \in [Handlers -> Request \union {Idle}]
      /\ \A g \in Handlers : req'[g].pc \in {"bind_cas", "unbind_delete"} => req'[g] = req[g]
  BY DoneRequests DEF Safety, BindCAS
<1>3. BindCarriesCode'
  BY <1>2 DEF Safety, BindCarriesCode
<1>4. CASE ~BindMatches(r)
  <2>1. UNCHANGED <<users, present, row>>
    BY <1>4 DEF BindCAS
  <2> QED
    BY <2>1, <1>2, <1>3
    DEF Safety, TypeOK, CodeSpent, ListedCanBeBound, Listed, OwnedIsNotWaiting, UnbindHitsOwnDevice
<1>5. CASE BindMatches(r)
  <2> DEFINE new == [owner |-> r.user, name |-> r.name, status |-> "online", code |-> "blank"]
  <2>1. row' = [row EXCEPT ![r.dev] = new] /\ UNCHANGED <<users, present>>
    BY <1>5 DEF BindCAS
  <2>2. r.dev \in present /\ r.dev \in Devices /\ new \in Row
    BY <1>1, <1>5 DEF BindMatches, BindRequest, Row, Statuses
  <2>3. row[r.dev].code # "blank"
    BY <1>5 DEF BindMatches, Safety, BindCarriesCode, BindCAS
  <2>4. \A d \in Devices : row'[d] = IF d = r.dev THEN new ELSE row[d]
    BY <2>1, <2>2 DEF Safety, TypeOK
  <2>5. TypeOK'
    BY <1>2, <2>1, <2>2 DEF Safety, TypeOK
  <2>6. CodeSpent' /\ ListedCanBeBound' /\ OwnedIsNotWaiting'
    BY <2>1, <2>4 DEF Safety, TypeOK, CodeSpent, ListedCanBeBound, Listed, OwnedIsNotWaiting
  <2>7. UnbindHitsOwnDevice'
    <3> SUFFICES ASSUME NEW g \in Handlers, req'[g].pc = "unbind_delete", req'[g].dev \in present
                 PROVE  /\ row'[req'[g].dev].owner \in {req'[g].user, NoUser}
                        /\ row'[req'[g].dev].code = "blank"
      BY <2>1 DEF UnbindHitsOwnDevice
    <3>1. req'[g] = req[g] /\ req[g].dev \in Devices
      BY <1>2 DEF Safety, TypeOK
    <3>2. row[req[g].dev].owner \in {req[g].user, NoUser} /\ row[req[g].dev].code = "blank"
      BY <3>1 DEF Safety, UnbindHitsOwnDevice
    <3>3. req[g].dev # r.dev
      BY <2>3, <3>2
    <3> QED
      BY <2>4, <3>1, <3>2, <3>3
  <2> QED
    BY <1>3, <2>5, <2>6, <2>7 DEF Safety
<1> QED
  BY <1>4, <1>5

\* The statements that end the other requests, and the heartbeat.
LEMMA UpdateSafety ==
    ASSUME Safety, NEW h \in Handlers,
           RenameUpdate(h) \/ RenameRefused(h) \/ UnbindDelete(h) \/ ProfileDelete(h)
    PROVE  Safety'
<1>1. /\ req' \in [Handlers -> Request \union {Idle}]
      /\ \A g \in Handlers : req'[g].pc \in {"bind_cas", "unbind_delete"} => req'[g] = req[g]
  BY DoneRequests DEF Safety, RenameUpdate, RenameRefused, UnbindDelete, ProfileDelete
<1>2. BindCarriesCode'
  BY <1>1 DEF Safety, BindCarriesCode
<1>3. CASE RenameUpdate(h)
  <2>1. req[h] \in RenameRequest
    BY <1>3, RequestKinds DEF Safety, RenameUpdate
  <2>2. row' \in [Devices -> Row]
    BY <1>3, <2>1 DEF Safety, TypeOK, RenameUpdate, RenameRequest, Row
  <2>3. \A d \in Devices : /\ row'[d].owner = row[d].owner /\ row'[d].code = row[d].code
                           /\ row'[d].status = row[d].status
    BY <1>3, <2>1 DEF Safety, TypeOK, RenameUpdate, RenameRequest, Row
  <2> QED
    BY <1>1, <1>2, <1>3, <2>2, <2>3
    DEF Safety, TypeOK, RenameUpdate, CodeSpent, ListedCanBeBound, Listed, OwnedIsNotWaiting,
        UnbindHitsOwnDevice
<1>4. CASE RenameRefused(h)
  BY <1>1, <1>2, <1>4
  DEF Safety, TypeOK, RenameRefused, CodeSpent, ListedCanBeBound, Listed, OwnedIsNotWaiting,
      UnbindHitsOwnDevice
<1>5. CASE UnbindDelete(h)
  BY <1>1, <1>2, <1>5
  DEF Safety, TypeOK, UnbindDelete, CodeSpent, ListedCanBeBound, Listed, OwnedIsNotWaiting,
      UnbindHitsOwnDevice
<1>6. CASE ProfileDelete(h)
  <2>1. row' \in [Devices -> Row]
    BY <1>6 DEF Safety, TypeOK, ProfileDelete, Row
  <2>2. \A d \in Devices : /\ row'[d].owner \in {row[d].owner, NoUser}
                           /\ row'[d].code = row[d].code /\ row'[d].status = row[d].status
    BY <1>6 DEF Safety, TypeOK, ProfileDelete, Row
  <2> QED
    BY <1>1, <1>2, <1>6, <2>1, <2>2
    DEF Safety, TypeOK, ProfileDelete, CodeSpent, ListedCanBeBound, Listed, OwnedIsNotWaiting,
        UnbindHitsOwnDevice
<1> QED
  BY <1>3, <1>4, <1>5, <1>6

\* Every step of the registry preserves the invariant.
LEMMA NextSafety == Safety /\ [Next]_vars => Safety'
<1> SUFFICES ASSUME Safety, [Next]_vars PROVE Safety'
  OBVIOUS
<1>1. ASSUME NEW h \in Handlers, Handle(h) PROVE Safety'
  <2>1. ASSUME NEW u \in Users, NEW d \in Devices, NEW c \in Codes,
               NEW n \in Names \union {NoName}, BindLookup(h, u, d, c, n)
        PROVE  Safety'
    <3> DEFINE name == IF n = NoName THEN row[d].name ELSE n
               r == [pc |-> "bind_cas", user |-> u, dev |-> d, code |-> c, name |-> name]
    <3>1. name \in Names
      BY DEF Safety, TypeOK, Row
    <3>2. r \in Request
      BY <3>1 DEF Request, BindRequest
    <3> QED
      BY <2>1, <3>2, ServeSafety DEF BindLookup
  <2>2. ASSUME NEW u \in Users, NEW d \in Devices, NEW n \in Names \union {NoName},
               RenameLookup(h, u, d, n)
        PROVE  Safety'
    <3> DEFINE r == [pc |-> "rename_update", user |-> u, dev |-> d, name |-> n]
    <3>1. r \in Request
      BY <2>2 DEF RenameLookup, Request, RenameRequest
    <3> QED
      BY <2>2, <3>1, ServeSafety DEF RenameLookup
  <2>3. ASSUME NEW u \in Users, NEW d \in Devices, UnbindLookup(h, u, d) PROVE Safety'
    <3> DEFINE r == [pc |-> "unbind_delete", user |-> u, dev |-> d]
    <3>1. r \in Request
      BY DEF Request, UnbindRequest
    <3> QED
      BY <2>3, <3>1, ServeSafety DEF UnbindLookup
  <2>4. ASSUME NEW u \in Users, ProfileVerify(h, u) PROVE Safety'
    <3> DEFINE r == [pc |-> "profile_delete", user |-> u]
    <3>1. r \in Request
      BY DEF Request, ProfileRequest
    <3> QED
      BY <2>4, <3>1, ServeSafety DEF ProfileVerify
  <2> QED
    BY <1>1, <2>1, <2>2, <2>3, <2>4, BindCASSafety, UpdateSafety DEF Handle
<1>2. ASSUME NEW d \in Devices, Heartbeat(d) PROVE Safety'
  <2>1. row' \in [Devices -> Row]
    BY <1>2 DEF Safety, TypeOK, Heartbeat, Row, Statuses
  <2>2. \A e \in Devices : /\ row'[e].owner = row[e].owner /\ row'[e].code = row[e].code
                           /\ row'[e].status \in {row[e].status, "online"}
    BY <1>2 DEF Safety, TypeOK, Heartbeat, Row
  <2> QED
    BY <1>2, <2>1, <2>2
    DEF Safety, TypeOK, Heartbeat, CodeSpent, ListedCanBeBound, Listed, OwnedIsNotWaiting,
        UnbindHitsOwnDevice, BindCarriesCode
<1>3. CASE UNCHANGED vars
  BY <1>3
  DEF vars, Safety, TypeOK, CodeSpent, ListedCanBeBound, Listed, OwnedIsNotWaiting,
      UnbindHitsOwnDevice, BindCarriesCode
<1> QED
  BY <1>1, <1>2, <1>3 DEF Next

\* Safety is an invariant of the registry.
THEOREM SafetyHolds == Spec => []Safety
  BY InitSafety, NextSafety, PTL DEF Spec

\* The registry's variables keep their types, whatever its handlers do.
THEOREM TypeCorrect == Spec => []TypeOK
  BY SafetyHolds, PTL DEF Safety

\* A bound device has no bind code left (repository/device.go, BindToOwner).
THEOREM CodeIsSpent == Spec => []CodeSpent
  BY SafetyHolds, PTL DEF Safety

\* The unguarded delete of an unbind never hits a device that somebody else
\* owns or can still bind (service/device.go, UnbindDevice).
THEOREM UnbindIsSafe == Spec => []UnbindHitsOwnDevice
  BY SafetyHolds, PTL DEF Safety

\* A device on the add-device page can be bound with the code on its sticker
\* (repository/device.go, ListBindable).
THEOREM ListedIsBindable == Spec => []ListedCanBeBound
  BY SafetyHolds, PTL DEF Safety

-----------------------------------------------------------------------------
(* The refinement.  Renaming, heartbeats and refusals are stutters of the  *)
(* lifecycle; the compare-and-set is Bind, because the code it matched is  *)
(* not blank and so the device was in the pool; the delete of an unbind is *)
(* Remove, or a stutter when the row is gone; deleting an account is       *)
(* Abandon, because none of its devices has a code left.                   *)

\* Seeded devices are in the pool or owned.
LEMMA RefinesInit == Init => Lifecycle!Init
<1> SUFFICES ASSUME Init, NEW d \in Devices PROVE OwnerOf(d) \in Users \union {Pool}
  BY DEF Lifecycle!Init
<1>1. PICK u \in Users \union {NoUser}, n \in Names, s \in {"online", "offline"} :
        row[d] = SeedRow(u, n, s)
  BY DEF Init
<1>2. d \in present
  BY DEF Init
<1> QED
  BY <1>1, <1>2 DEF SeedRow, OwnerOf

\* The abstract owner of a device depends on its row's owner and code only.
LEMMA OwnerStutters ==
    ASSUME UNCHANGED present,
           \A d \in Devices : row'[d].owner = row[d].owner /\ row'[d].code = row[d].code
    PROVE  UNCHANGED [d \in Devices |-> OwnerOf(d)]
<1>1. \A d \in Devices : OwnerOf(d)' = OwnerOf(d)
  BY DEF OwnerOf
<1> QED
  BY <1>1

\* A successful compare-and-set takes the device from the pool.
LEMMA BindRefines ==
    ASSUME Safety, NEW h \in Handlers, BindCAS(h)
    PROVE  [Lifecycle!Next]_([d \in Devices |-> OwnerOf(d)])
<1> DEFINE r == req[h]
<1>1. r \in BindRequest /\ r.code # "blank"
  BY RequestKinds DEF Safety, BindCAS, BindCarriesCode
<1>2. CASE ~BindMatches(r)
  BY <1>2, OwnerStutters DEF BindCAS
<1>3. CASE BindMatches(r)
  <2>1. r.dev \in Devices /\ r.user \in Users
    BY <1>1 DEF BindRequest
  <2>2. OwnerOf(r.dev) = Pool
    BY <1>1, <1>3, <2>1 DEF BindMatches, OwnerOf, Safety, TypeOK, Row
  <2>3. \A d \in Devices : OwnerOf(d)' = IF d = r.dev THEN r.user ELSE OwnerOf(d)
    <3> SUFFICES ASSUME NEW d \in Devices
                 PROVE  OwnerOf(d)' = IF d = r.dev THEN r.user ELSE OwnerOf(d)
      OBVIOUS
    <3>1. present' = present /\ r.dev \in present /\ r.user # NoUser
      BY <1>3, <2>1, RegistryAssumption DEF BindCAS, BindMatches
    <3>2. row' = [row EXCEPT ![r.dev] = [owner |-> r.user, name |-> r.name,
                                         status |-> "online", code |-> "blank"]]
      BY <1>3 DEF BindCAS
    <3>3. CASE d = r.dev
      <4>1. row'[d].owner = r.user
        BY <2>1, <3>2, <3>3 DEF Safety, TypeOK
      <4> QED
        BY <3>1, <3>3, <4>1 DEF OwnerOf
    <3>4. CASE d # r.dev
      <4>1. row'[d] = row[d]
        BY <3>2, <3>4 DEF Safety, TypeOK
      <4> QED
        BY <3>1, <3>4, <4>1 DEF OwnerOf
    <3> QED
      BY <3>3, <3>4
  <2>4. Lifecycle!Bind(r.user, r.dev)
    BY <2>1, <2>2, <2>3 DEF Lifecycle!Bind
  <2> QED
    BY <2>1, <2>4 DEF Lifecycle!Next
<1> QED
  BY <1>2, <1>3

\* The delete of an unbind removes a device that has, or had, an owner.
LEMMA UnbindRefines ==
    ASSUME Safety, NEW h \in Handlers, UnbindDelete(h)
    PROVE  [Lifecycle!Next]_([d \in Devices |-> OwnerOf(d)])
<1> DEFINE r == req[h]
<1>1. r \in UnbindRequest /\ r.dev \in Devices /\ r.user \in Users
  BY RequestKinds DEF Safety, UnbindDelete, UnbindRequest
<1>2. \A d \in Devices : OwnerOf(d)' = IF d = r.dev THEN Gone ELSE OwnerOf(d)
  BY DEF UnbindDelete, OwnerOf
<1>3. CASE r.dev \notin present
  <2>1. \A d \in Devices : OwnerOf(d)' = OwnerOf(d)
    BY <1>2, <1>3 DEF OwnerOf
  <2> QED
    BY <2>1
<1>4. CASE r.dev \in present
  <2>1. OwnerOf(r.dev) \in Users \union {Orphan}
    BY <1>1, <1>4 DEF Safety, UnbindHitsOwnDevice, UnbindDelete, OwnerOf
  <2>2. Lifecycle!Remove(r.dev)
    BY <1>1, <1>2, <2>1 DEF Lifecycle!Remove
  <2> QED
    BY <1>1, <2>2 DEF Lifecycle!Next
<1> QED
  BY <1>3, <1>4

\* Deleting an account makes orphans of its devices.
LEMMA ProfileDeleteRefines ==
    ASSUME Safety, NEW h \in Handlers, ProfileDelete(h)
    PROVE  [Lifecycle!Next]_([d \in Devices |-> OwnerOf(d)])
<1> DEFINE u == req[h].user
<1>1. u \in Users /\ u # NoUser
  BY RequestKinds, RegistryAssumption DEF Safety, ProfileDelete, ProfileRequest
<1>2. \A d \in Devices : OwnerOf(d)' = IF OwnerOf(d) = u THEN Orphan ELSE OwnerOf(d)
  <2> SUFFICES ASSUME NEW d \in Devices
               PROVE  OwnerOf(d)' = IF OwnerOf(d) = u THEN Orphan ELSE OwnerOf(d)
    OBVIOUS
  <2>1. row[d] \in Row /\ present' = present
    BY DEF Safety, TypeOK, ProfileDelete
  <2>2. CASE d \notin present
    BY <1>1, <2>1, <2>2, RegistryAssumption DEF OwnerOf
  <2>3. CASE d \in present /\ row[d].owner = u
    <3>1. row'[d].owner = NoUser /\ row'[d].code = row[d].code
      BY <2>1, <2>3 DEF ProfileDelete, Row
    <3>2. row[d].code = "blank"
      BY <1>1, <2>3 DEF Safety, CodeSpent
    <3> QED
      BY <1>1, <2>1, <2>3, <3>1, <3>2 DEF OwnerOf
  <2>4. CASE d \in present /\ row[d].owner # u
    <3>1. row'[d] = row[d]
      BY <2>4 DEF ProfileDelete
    <3>2. OwnerOf(d) # u
      BY <1>1, <2>1, <2>4, RegistryAssumption DEF OwnerOf, Row
    <3> QED
      BY <2>1, <3>1, <3>2 DEF OwnerOf
  <2> QED
    BY <2>2, <2>3, <2>4
<1>3. Lifecycle!Abandon(u)
  BY <1>2 DEF Lifecycle!Abandon
<1> QED
  BY <1>1, <1>3 DEF Lifecycle!Next

\* Every step of the registry is a step of the lifecycle or leaves it alone.
LEMMA RefinesNext ==
    Safety /\ [Next]_vars => [Lifecycle!Next]_([d \in Devices |-> OwnerOf(d)])
<1> SUFFICES ASSUME Safety, [Next]_vars
             PROVE  [Lifecycle!Next]_([d \in Devices |-> OwnerOf(d)])
  OBVIOUS
<1>1. ASSUME NEW h \in Handlers, NEW r, Serve(h, r)
      PROVE  UNCHANGED [d \in Devices |-> OwnerOf(d)]
  BY <1>1, OwnerStutters DEF Serve
<1>2. ASSUME NEW h \in Handlers, RenameUpdate(h) \/ RenameRefused(h)
      PROVE  UNCHANGED [d \in Devices |-> OwnerOf(d)]
  <2>1. CASE RenameRefused(h)
    BY <2>1, OwnerStutters DEF RenameRefused
  <2>2. CASE RenameUpdate(h)
    <3>1. \A d \in Devices : row'[d].owner = row[d].owner /\ row'[d].code = row[d].code
      BY <2>2 DEF Safety, TypeOK, RenameUpdate, Row
    <3> QED
      BY <2>2, <3>1, OwnerStutters DEF RenameUpdate
  <2> QED
    BY <1>2, <2>1, <2>2
<1>3. ASSUME NEW e \in Devices, Heartbeat(e)
      PROVE  UNCHANGED [d \in Devices |-> OwnerOf(d)]
  <2>1. \A d \in Devices : row'[d].owner = row[d].owner /\ row'[d].code = row[d].code
    BY <1>3 DEF Safety, TypeOK, Heartbeat, Row
  <2> QED
    BY <1>3, <2>1, OwnerStutters DEF Heartbeat
<1>4. CASE UNCHANGED vars
  BY <1>4, OwnerStutters DEF vars
<1>5. ASSUME NEW h \in Handlers, Handle(h)
      PROVE  [Lifecycle!Next]_([d \in Devices |-> OwnerOf(d)])
  <2>1. CASE \E r : Serve(h, r)
    BY <1>1, <2>1
  <2> QED
    BY <1>2, <1>5, <2>1, BindRefines, UnbindRefines, ProfileDeleteRefines
    DEF Handle, BindLookup, RenameLookup, UnbindLookup, ProfileVerify
<1> QED
  BY <1>3, <1>4, <1>5 DEF Next

\* The registry implements the ownership lifecycle: for any number of
\* concurrent requests one bind wins, no device passes from user to user, and
\* none returns to the pool.
THEOREM Refinement == Spec => OwnershipLifecycle
<1>1. Init => Lifecycle!Init
  BY RefinesInit
<1>2. Safety /\ [Next]_vars => [Lifecycle!Next]_([d \in Devices |-> OwnerOf(d)])
  BY RefinesNext
<1> QED
  BY <1>1, <1>2, SafetyHolds, PTL DEF Spec, OwnershipLifecycle, Lifecycle!Spec
=============================================================================
