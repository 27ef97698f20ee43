--------------------------- MODULE AccountsProofs ---------------------------
(***************************************************************************)
(* What holds of accounts and sessions for any number of users, handlers   *)
(* and seconds.  Safety (module Accounts) is inductive; the two action     *)
(* properties follow from it step by step.                                 *)
(***************************************************************************)
EXTENDS Accounts, TLAPS

\* The kind of request a handler serves follows from where it is.
LEMMA RequestKinds ==
    ASSUME TypeOK, NEW h \in Handlers
    PROVE  /\ req[h].pc \in {"check_email", "insert"} => req[h] \in SignUp
           /\ req[h].pc = "revoke" => req[h] \in Logout
           /\ req[h].pc \in {"change_read", "change_update"} => req[h] \in Change
           /\ req[h].pc = "profile_update" => req[h] \in Edit
           /\ req[h].pc \in {"delete_read", "delete"} => req[h] \in Leave
  BY DEF TypeOK, Authenticated, SignUp, Logout, Change, Edit, Leave, Idle

\* A handler that goes on to its next statement still serves a request of the
\* same kind, for the same token.
LEMMA StepKeeps ==
    ASSUME TypeOK, NEW h \in Handlers, NEW pc,
           \/ req[h].pc = "check_email" /\ pc = "insert"
           \/ req[h].pc = "change_read" /\ pc = "change_update"
           \/ req[h].pc = "delete_read" /\ pc = "delete"
    PROVE  LET r == [req[h] EXCEPT !.pc = pc] IN
             /\ r \in SignUp \union Authenticated
             /\ r \in Authenticated => req[h] \in Authenticated /\ r.token = req[h].token
<1>1. CASE req[h].pc = "check_email" /\ pc = "insert"
  BY <1>1, RequestKinds DEF SignUp, Authenticated, Logout, Change, Edit, Leave
<1>2. CASE req[h].pc = "change_read" /\ pc = "change_update"
  BY <1>2, RequestKinds DEF Authenticated, Change
<1>3. CASE req[h].pc = "delete_read" /\ pc = "delete"
  BY <1>3, RequestKinds DEF Authenticated, Leave
<1> QED
  BY <1>1, <1>2, <1>3

\* Requests keep their types, and the token of a request that was there before
\* is one an earlier state had.
LEMMA RequestsAdvance ==
    ASSUME TypeOK, NEW h \in Handlers,
           \/ Done(h)
           \/ req[h].pc = "check_email" /\ Step(h, "insert")
           \/ req[h].pc = "change_read" /\ Step(h, "change_update")
           \/ req[h].pc = "delete_read" /\ Step(h, "delete")
    PROVE  /\ req' \in [Handlers -> SignUp \union Authenticated \union {Idle}]
           /\ \A g \in Handlers : req'[g] \in Authenticated =>
                /\ req[g] \in Authenticated
                /\ req'[g].token = req[g].token
<1>0. Idle \notin Authenticated
  BY DEF Idle, Authenticated, Logout, Change, Edit, Leave
<1>1. CASE Done(h)
  BY <1>0, <1>1 DEF Done, TypeOK
<1>2. ASSUME NEW pc, Step(h, pc),
             \/ req[h].pc = "check_email" /\ pc = "insert"
             \/ req[h].pc = "change_read" /\ pc = "change_update"
             \/ req[h].pc = "delete_read" /\ pc = "delete"
      PROVE  /\ req' \in [Handlers -> SignUp \union Authenticated \union {Idle}]
             /\ \A g \in Handlers : req'[g] \in Authenticated =>
                  /\ req[g] \in Authenticated
                  /\ req'[g].token = req[g].token
  <2> DEFINE r == [req[h] EXCEPT !.pc = pc]
  <2>1. /\ r \in SignUp \union Authenticated
        /\ r \in Authenticated => req[h] \in Authenticated /\ r.token = req[h].token
    BY <1>2, StepKeeps
  <2>2. req' = [req EXCEPT ![h] = r]
    BY <1>2 DEF Step
  <2> HIDE DEF r
  <2> QED
    BY <2>1, <2>2 DEF TypeOK
<1> QED
  BY <1>1, <1>2

\* A token for an account there is, issued now.
LEMMA IssueIsToken ==
    ASSUME TypeOK, NEW u \in Ids
    PROVE  Issue(u) \in Token /\ Issue(u).issued = now
  BY DEF TypeOK, Issue, Token

LEMMA InitSafety == Init => Safety
  BY AccountsAssumption
  DEF Init, Safety, TypeOK, Ids, Row, NoRow, Token, Idle, OneAccountPerContact, IssuedBefore,
      LeftAreListed, Authenticated, Logout, Change, Edit, Leave

\* A step of a request that writes nothing: what is said of rows and of the
\* blacklist is untouched, and requests have advanced.
LEMMA LookupSafety ==
    ASSUME Safety, UNCHANGED <<db, sess>>,
           req' \in [Handlers -> SignUp \union Authenticated \union {Idle}],
           \A g \in Handlers : req'[g] \in Authenticated =>
             \/ req[g] \in Authenticated /\ req'[g].token = req[g].token
             \/ req'[g].token \in tokens
    PROVE  Safety'
<1>1. TypeOK' /\ OneAccountPerContact' /\ LeftAreListed'
  BY DEF Safety, TypeOK, OneAccountPerContact, LeftAreListed, db, sess
<1>2. IssuedBefore'
  BY DEF Safety, IssuedBefore, db, sess
<1> QED
  BY <1>1, <1>2 DEF Safety

LEMMA RegisterSafety ==
    ASSUME Safety, NEW h \in Handlers, NEW p \in Phones \union {Blank},
           NEW e \in Emails \union {Blank}, NEW w \in Passwords, RegisterPhone(h, p, e, w)
    PROVE  Safety'
<1> DEFINE r == [pc |-> "check_email", phone |-> p, email |-> e, password |-> w]
<1>1. r \in SignUp /\ r \notin Authenticated
  BY DEF SignUp, Authenticated, Logout, Change, Edit, Leave
<1>2. req' = [req EXCEPT ![h] = r] /\ UNCHANGED <<db, sess>>
  BY DEF RegisterPhone
<1> HIDE DEF r
<1>3. /\ req' \in [Handlers -> SignUp \union Authenticated \union {Idle}]
      /\ \A g \in Handlers : req'[g] \in Authenticated => req'[g] = req[g]
  BY <1>1, <1>2 DEF Safety, TypeOK
<1> QED
  BY <1>2, <1>3, LookupSafety

\* Only a token that was handed out is admitted.
LEMMA AdmitSafety ==
    ASSUME Safety, NEW h \in Handlers, NEW r \in Begins, Admit(h, r)
    PROVE  Safety'
<1>1. r \in Authenticated /\ r.token \in tokens
  BY DEF Begins, Admit
<1>2. req' = [req EXCEPT ![h] = r] /\ UNCHANGED <<db, sess>>
  BY DEF Admit
<1>3. /\ req' \in [Handlers -> SignUp \union Authenticated \union {Idle}]
      /\ \A g \in Handlers : g # h => req'[g] = req[g]
      /\ req'[h] = r
  BY <1>1, <1>2 DEF Safety, TypeOK
<1> QED
  BY <1>1, <1>2, <1>3, LookupSafety

\* The second statement of a request reads.
LEMMA ReadSafety ==
    ASSUME Safety, NEW h \in Handlers, RegisterEmail(h) \/ ChangeRead(h) \/ DeleteRead(h)
    PROVE  Safety'
<1>1. /\ UNCHANGED <<db, sess>>
      /\ \/ Done(h)
         \/ req[h].pc = "check_email" /\ Step(h, "insert")
         \/ req[h].pc = "change_read" /\ Step(h, "change_update")
         \/ req[h].pc = "delete_read" /\ Step(h, "delete")
  BY DEF RegisterEmail, ChangeRead, DeleteRead
<1> QED
  BY <1>1, RequestsAdvance, LookupSafety DEF Safety

\* The unique keys decide, whatever the lookups found.
LEMMA InsertSafety ==
    ASSUME Safety, NEW h \in Handlers, RegisterInsert(h)
    PROVE  Safety'
<1>1. /\ req' \in [Handlers -> SignUp \union Authenticated \union {Idle}]
      /\ \A g \in Handlers : req'[g] \in Authenticated =>
           req[g] \in Authenticated /\ req'[g].token = req[g].token
  BY RequestsAdvance DEF Safety, RegisterInsert
<1>2. CASE InsertRefused(req[h])
  BY <1>1, <1>2, LookupSafety DEF RegisterInsert, db, sess
<1>3. CASE ~InsertRefused(req[h])
  <2> DEFINE new == [phone |-> req[h].phone, email |-> req[h].email, password |-> req[h].password]
  <2>1. /\ last < MaxUsers /\ last' = last + 1 /\ users' = users \union {last + 1}
        /\ row' = [row EXCEPT ![last + 1] = new]
        /\ tokens' = tokens \union {Issue(last + 1)}
        /\ UNCHANGED <<now, redis, until, left>>
    BY <1>3 DEF RegisterInsert
  <2>2. new \in Row
    BY RequestKinds DEF Safety, RegisterInsert, SignUp, Row
  <2>3. last + 1 \in Ids /\ last + 1 \notin users /\ \A u \in users : u \in Ids
    BY <2>1, AccountsAssumption DEF Safety, TypeOK, Ids
  <2>4. \A u \in users : row[u].phone # new.phone /\ row[u].email # new.email
    BY <1>3 DEF InsertRefused, PhoneTaken, EmailTaken
  <2> HIDE DEF new
  <2>5. row' \in [Ids -> Row] /\ row'[last + 1] = new /\ \A u \in users : row'[u] = row[u]
    BY <2>1, <2>2, <2>3 DEF Safety, TypeOK
  <2>6. OneAccountPerContact'
    BY <2>1, <2>4, <2>5 DEF Safety, OneAccountPerContact
  <2>7. Issue(last + 1) \in Token /\ Issue(last + 1).issued = now
    BY <2>3, IssueIsToken DEF Safety
  <2>8. now \in Nat
    BY DEF Safety, TypeOK
  <2>9. users' \subseteq 1..last' /\ last' \in 0..MaxUsers
    BY <2>1, AccountsAssumption DEF Safety, TypeOK
  <2>10. TypeOK'
    BY <1>1, <2>1, <2>5, <2>7, <2>9 DEF Safety, TypeOK
  <2>11. IssuedBefore' /\ LeftAreListed'
    BY <1>1, <2>1, <2>7, <2>8 DEF Safety, IssuedBefore, LeftAreListed
  <2> QED
    BY <2>6, <2>10, <2>11 DEF Safety
<1> QED
  BY <1>2, <1>3

\* The updates and the delete by user id: they add no account.
LEMMA WriteSafety ==
    ASSUME Safety, NEW h \in Handlers, ChangeUpdate(h) \/ ProfileUpdate(h) \/ Delete(h)
    PROVE  Safety'
<1> DEFINE u == req[h].token.user
<1>1. /\ req' \in [Handlers -> SignUp \union Authenticated \union {Idle}]
      /\ \A g \in Handlers : req'[g] \in Authenticated =>
           req[g] \in Authenticated /\ req'[g].token = req[g].token
  BY RequestsAdvance DEF Safety, ChangeUpdate, ProfileUpdate, Delete
<1>2. UNCHANGED <<last, sess>> /\ users' \subseteq users
  BY DEF ChangeUpdate, ProfileUpdate, Delete
<1>3. u \in Ids
  BY RequestKinds DEF Safety, ChangeUpdate, ProfileUpdate, Delete, Change, Edit, Leave, Token
<1>4. IssuedBefore' /\ LeftAreListed'
  BY <1>1, <1>2 DEF Safety, IssuedBefore, LeftAreListed, sess
<1>5. CASE ChangeUpdate(h)
  <2>1. req[h].new \in Passwords
    BY <1>5, RequestKinds DEF Safety, ChangeUpdate, Change
  <2>2. /\ row' \in [Ids -> Row] /\ users' = users
        /\ \A v \in Ids : row'[v].phone = row[v].phone /\ row'[v].email = row[v].email
    BY <1>3, <1>5, <2>1 DEF ChangeUpdate, Safety, TypeOK, Row
  <2>3. users \subseteq Ids
    BY AccountsAssumption DEF Safety, TypeOK, Ids
  <2> QED
    BY <1>1, <1>2, <1>4, <2>2, <2>3 DEF Safety, TypeOK, OneAccountPerContact, sess
<1>6. CASE ProfileUpdate(h)
  <2> DEFINE e == req[h].email
  <2>1. e \in Emails \union {Blank}
    BY <1>6, RequestKinds DEF Safety, ProfileUpdate, Edit
  <2>2. users \subseteq Ids /\ users' = users
    BY <1>6, AccountsAssumption DEF ProfileUpdate, Safety, TypeOK, Ids
  <2>3. CASE u \in users /\ \A v \in users \ {u} : row[v].email # e
    <3>1. row' = [row EXCEPT ![u].email = e]
      BY <1>6, <2>3 DEF ProfileUpdate
    <3>2. /\ row' \in [Ids -> Row]
          /\ \A v \in Ids : /\ row'[v].phone = row[v].phone
                            /\ row'[v].email = IF v = u THEN e ELSE row[v].email
      BY <1>3, <2>1, <3>1 DEF Safety, TypeOK, Row
    <3>3. OneAccountPerContact'
      BY <2>2, <2>3, <3>2 DEF Safety, OneAccountPerContact
    <3> QED
      BY <1>1, <1>2, <1>4, <2>2, <3>2, <3>3 DEF Safety, TypeOK, sess
  <2>4. CASE ~(u \in users /\ \A v \in users \ {u} : row[v].email # e)
    <3>1. row' = row
      BY <1>6, <2>4 DEF ProfileUpdate
    <3> QED
      BY <1>1, <1>2, <1>4, <2>2, <3>1 DEF Safety, TypeOK, OneAccountPerContact, sess
  <2> QED
    BY <2>3, <2>4
<1>7. CASE Delete(h)
  <2>1. row' = [row EXCEPT ![u] = NoRow] /\ users' = users \ {u} /\ NoRow \in Row
    BY <1>7 DEF Delete, NoRow, Row
  <2>2. row' \in [Ids -> Row] /\ \A v \in users' : row'[v] = row[v]
    BY <1>3, <2>1, AccountsAssumption DEF Safety, TypeOK, Ids
  <2>3. OneAccountPerContact'
    BY <1>2, <2>2 DEF Safety, OneAccountPerContact
  <2>4. TypeOK'
    BY <1>1, <1>2, <2>2 DEF Safety, TypeOK, sess
  <2> QED
    BY <1>4, <2>3, <2>4 DEF Safety
<1> QED
  BY <1>5, <1>6, <1>7

\* Logging in, the clock, and Redis coming and going.
LEMMA SessionSafety ==
    ASSUME Safety,
           \/ \E u \in users, w \in Passwords : Login(u, w)
           \/ Tick \/ RedisFails \/ RedisReturns
    PROVE  Safety'
<1>1. OneAccountPerContact'
  BY DEF Safety, OneAccountPerContact, Login, Tick, RedisFails, RedisReturns, db
<1>2. CASE \E u \in users, w \in Passwords : Login(u, w)
  <2>1. PICK u \in users, w \in Passwords : Login(u, w)
    BY <1>2
  <2>2. u \in Ids
    BY AccountsAssumption DEF Safety, TypeOK, Ids
  <2>3. Issue(u) \in Token /\ Issue(u).issued = now
    BY <2>2, IssueIsToken DEF Safety
  <2>4. now \in Nat
    BY DEF Safety, TypeOK
  <2> QED
    BY <1>1, <2>1, <2>3, <2>4 DEF Safety, TypeOK, IssuedBefore, LeftAreListed, Login, db
<1>3. CASE Tick
  <2>1. now \in Nat /\ now' = now + 1 /\ now' \in 0..MaxTime
    BY <1>3, AccountsAssumption DEF Safety, TypeOK, Tick
  <2>2. \A t \in Token : t.issued \in Nat
    BY AccountsAssumption DEF Token
  <2>3. \A h \in Handlers : req[h] \in Authenticated => req[h].token \in Token
    BY DEF Authenticated, Logout, Change, Edit, Leave
  <2>4. IssuedBefore'
    BY <1>3, <2>1, <2>2, <2>3 DEF Safety, TypeOK, IssuedBefore, Tick
  <2> QED
    BY <1>1, <1>3, <2>1, <2>4 DEF Safety, TypeOK, LeftAreListed, Tick, db
<1>4. CASE RedisFails \/ RedisReturns
  BY <1>1, <1>4 DEF Safety, TypeOK, IssuedBefore, LeftAreListed, RedisFails, RedisReturns, db
<1> QED
  BY <1>2, <1>3, <1>4

\* A logout lists the token for a whole lifetime from now on, and is answered
\* with ok only if that was written, or there is no list at all.
LEMMA RevokeSafety ==
    ASSUME Safety, NEW h \in Handlers, Revoke(h)
    PROVE  Safety'
<1> DEFINE t == req[h].token
<1>1. /\ req' \in [Handlers -> SignUp \union Authenticated \union {Idle}]
      /\ \A g \in Handlers : req'[g] \in Authenticated =>
           req[g] \in Authenticated /\ req'[g].token = req[g].token
  BY RequestsAdvance DEF Safety, Revoke
<1>2. t \in Token /\ req[h] \in Authenticated
  BY RequestKinds DEF Safety, Revoke, Logout, Authenticated
<1>3. OneAccountPerContact' /\ IssuedBefore'
  BY <1>1 DEF Safety, OneAccountPerContact, IssuedBefore, Revoke, db
<1>4. UNCHANGED <<users, last, row, now, redis, tokens>> /\ left' \subseteq Token
  BY <1>2 DEF Revoke, db, Safety, TypeOK
<1>5. t.issued \in Nat /\ t.issued <= now /\ now \in 0..MaxTime
  BY <1>2, AccountsAssumption DEF Token, Safety, TypeOK, IssuedBefore
<1>6. until' \in [Token -> 0..(MaxTime + TTL)] /\ LeftAreListed'
  <2>1. CASE redis # "none" /\ until' = [until EXCEPT ![t] = now + TTL]
    <3>1. now + TTL \in 0..(MaxTime + TTL) /\ t.issued + TTL <= now + TTL
      BY <1>5, AccountsAssumption
    <3>2. /\ until' \in [Token -> 0..(MaxTime + TTL)]
          /\ until'[t] = now + TTL /\ \A o \in Token : o # t => until'[o] = until[o]
      BY <1>2, <2>1, <3>1 DEF Safety, TypeOK
    <3>3. left' \subseteq left \union {t}
      BY DEF Revoke
    <3> QED
      BY <1>4, <2>1, <3>1, <3>2, <3>3 DEF Safety, TypeOK, LeftAreListed
  <2>2. CASE until' = until /\ (redis = "none" \/ left' = left)
    BY <1>4, <2>2 DEF Safety, TypeOK, LeftAreListed
  <2> QED
    BY <2>1, <2>2 DEF Revoke
<1> QED
  BY <1>1, <1>3, <1>4, <1>6 DEF Safety, TypeOK

\* No step leaves the invariant.
LEMMA NextSafety == Safety /\ [Next]_vars => Safety'
<1> SUFFICES ASSUME Safety, [Next]_vars PROVE Safety'
  OBVIOUS
<1>1. ASSUME NEW h \in Handlers, Handle(h) PROVE Safety'
  BY <1>1, RegisterSafety, AdmitSafety, ReadSafety, InsertSafety, WriteSafety, RevokeSafety
  DEF Handle
<1>2. CASE UNCHANGED vars
  BY <1>2 DEF vars, db, sess, Safety, TypeOK, OneAccountPerContact, IssuedBefore, LeftAreListed
<1> QED
  BY <1>1, <1>2, SessionSafety DEF Next

\* Safety holds in every reachable state.
THEOREM SafetyHolds == Spec => []Safety
  BY InitSafety, NextSafety, PTL DEF Spec

\* The variables keep their types, for any users, handlers and seconds.
THEOREM TypeCorrect == Spec => []TypeOK
<1>1. Safety => TypeOK
  BY DEF Safety
<1> QED
  BY <1>1, SafetyHolds, PTL

\* No two accounts have the same phone or the same email (UserService.Register,
\* UpdateUser), however many registrations and edits race.
THEOREM ContactsAreUnique == Spec => []OneAccountPerContact
<1>1. Safety => OneAccountPerContact
  BY DEF Safety
<1> QED
  BY <1>1, SafetyHolds, PTL

\* A token whose logout was answered with ok is not accepted while Redis can be
\* asked (RevokeToken, ParseToken), whenever it was issued and logged out.
THEOREM LogoutIsFinal == Spec => LogoutHolds
<1>1. Safety /\ [Next]_vars =>
        [\A h \in Handlers, t \in left :
           redis = "up" => ~(req[h] = Idle /\ req'[h] \in Authenticated /\ req'[h].token = t)]_vars
  <2> SUFFICES ASSUME Safety, Next, NEW h \in Handlers, NEW t \in left, redis = "up",
                      req[h] = Idle, req'[h] \in Authenticated, req'[h].token = t
               PROVE  FALSE
    BY DEF vars
  <2>1. Idle \notin Authenticated
    BY DEF Idle, Authenticated, Logout, Change, Edit, Leave
  <2>2. t \in Token /\ t.issued + TTL <= until[t] /\ now \in Nat /\ until[t] \in Nat
    BY AccountsAssumption DEF Safety, TypeOK, LeftAreListed
  <2>3. t.issued \in Nat
    BY <2>2, AccountsAssumption DEF Token
  <2>4. ASSUME NEW g \in Handlers, NEW r \in Begins, Admit(g, r) PROVE FALSE
    <3>1. g = h /\ r.token = t
      BY <2>1, <2>4 DEF Admit, Safety, TypeOK
    <3> QED
      BY <2>2, <2>3, <2>4, <3>1, AccountsAssumption DEF Admit, Passes, Expired
  <2>5. ASSUME NEW g \in Handlers, NEW p \in Phones \union {Blank},
               NEW e \in Emails \union {Blank}, NEW w \in Passwords, RegisterPhone(g, p, e, w)
        PROVE  FALSE
    <3> DEFINE r == [pc |-> "check_email", phone |-> p, email |-> e, password |-> w]
    <3>1. r \notin Authenticated
      BY DEF Authenticated, Logout, Change, Edit, Leave
    <3>2. req' = [req EXCEPT ![g] = r]
      BY <2>5 DEF RegisterPhone
    <3> HIDE DEF r
    <3> QED
      BY <2>1, <3>1, <3>2 DEF Safety, TypeOK
  <2>6. ASSUME NEW g \in Handlers,
               \/ RegisterEmail(g) \/ RegisterInsert(g) \/ Revoke(g) \/ ChangeRead(g)
               \/ ChangeUpdate(g) \/ ProfileUpdate(g) \/ DeleteRead(g) \/ Delete(g)
        PROVE  FALSE
    <3>1. \/ Done(g)
          \/ req[g].pc = "check_email" /\ Step(g, "insert")
          \/ req[g].pc = "change_read" /\ Step(g, "change_update")
          \/ req[g].pc = "delete_read" /\ Step(g, "delete")
      BY <2>6 DEF RegisterEmail, RegisterInsert, Revoke, ChangeRead, ChangeUpdate,
                  ProfileUpdate, DeleteRead, Delete
    <3> QED
      BY <2>1, <3>1, RequestsAdvance DEF Safety
  <2>7. ~ UNCHANGED req
    BY <2>1
  <2>8. \E g \in Handlers : Handle(g)
    BY <2>7 DEF Next, Login, Tick, RedisFails, RedisReturns
  <2> QED
    BY <2>4, <2>5, <2>6, <2>8 DEF Handle
<1> QED
  BY <1>1, SafetyHolds, PTL DEF Spec, LogoutHolds

\* A deleted account does not come back, and its id is not given out again
\* (UserRepo.Delete, AUTO_INCREMENT), whatever requests were under way.
THEOREM DeletedIsFinal == Spec => DeletedStaysDeleted
<1>1. Safety /\ [Next]_vars => [\A u \in 1..last : u \notin users => u \notin users']_vars
  <2> SUFFICES ASSUME Safety, Next, NEW u \in 1..last, u \notin users PROVE u \notin users'
    BY DEF vars
  <2>1. last \in Nat
    BY AccountsAssumption DEF Safety, TypeOK
  <2>2. ASSUME NEW h \in Handlers, Handle(h) PROVE users' \subseteq users \union {last + 1}
    BY <2>2 DEF Handle, RegisterPhone, RegisterEmail, RegisterInsert, Admit, Revoke, ChangeRead,
       ChangeUpdate, ProfileUpdate, DeleteRead, Delete, db
  <2>3. users' \subseteq users \union {last + 1}
    BY <2>2 DEF Next, Login, Tick, RedisFails, RedisReturns, db
  <2> QED
    BY <2>1, <2>3
<1> QED
  BY <1>1, SafetyHolds, PTL DEF Spec, DeletedStaysDeleted

=============================================================================
