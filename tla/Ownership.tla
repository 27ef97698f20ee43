----------------------------- MODULE Ownership -----------------------------
(***************************************************************************)
(* What the device registry promises about who owns a device.              *)
(*                                                                         *)
(* A device is seeded either in the pool of devices waiting to be bound or *)
(* owned by a user.  From the pool it can be bound, once, to one user.     *)
(* From there it can only lose its owner: the owner's account is deleted   *)
(* and the device becomes an orphan, or the device itself is removed.  It  *)
(* never passes from one user to another and never returns to the pool.    *)
(***************************************************************************)
CONSTANTS Users, Devices,
          Pool, Orphan, Gone    \* three values that are no users

VARIABLE owner    \* owner[d]: the user d belongs to, or Pool, Orphan or Gone

Init == owner \in [Devices -> Users \union {Pool}]

\* A user who presents the code on the device takes it from the pool.
Bind(u, d) ==
    /\ owner[d] = Pool
    /\ owner' = [owner EXCEPT ![d] = u]

\* The account u is deleted: every device of u loses its owner.
Abandon(u) ==
    owner' = [d \in Devices |-> IF owner[d] = u THEN Orphan ELSE owner[d]]

\* The device is removed.  An orphan can still be removed by a request that
\* its late owner made before the account was deleted.
Remove(d) ==
    /\ owner[d] \in Users \union {Orphan}
    /\ owner' = [owner EXCEPT ![d] = Gone]

Next ==
    \/ \E u \in Users, d \in Devices : Bind(u, d)
    \/ \E u \in Users : Abandon(u)
    \/ \E d \in Devices : Remove(d)

Spec == Init /\ [][Next]_owner
=============================================================================
