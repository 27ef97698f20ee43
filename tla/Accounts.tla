------------------------------ MODULE Accounts ------------------------------
(***************************************************************************)
(* Accounts and sessions: the users table, the tokens the server signs, and *)
(* the blacklist of tokens that were logged out, which is kept in Redis.   *)
(*                                                                         *)
(* As in DeviceRegistry each SQL statement and each Redis call is one step, *)
(* and a request that is refused before it writes anything is left out.    *)
(* Nickname and avatar are left out of an account, since nothing depends   *)
(* on them, and the wording of the refusals.                               *)
(***************************************************************************)
EXTENDS Naturals

CONSTANTS
    Phones, Emails,     \* what a client may give
    Blank,              \* what it left out: stored as '', which is a value
    Passwords,
    Handlers,           \* goroutines serving requests
    TTL,                \* how long a token is valid, in seconds
    MaxUsers,           \* bound: accounts ever created
    MaxTime             \* bound: seconds modelled

ASSUME AccountsAssumption ==
    /\ Blank \notin Phones \union Emails \union Passwords
    /\ MaxUsers \in Nat /\ MaxTime \in Nat /\ TTL \in Nat \ {0}

VARIABLES
    users,      \* the ids that have a row
    last,       \* the last id given out (AUTO_INCREMENT)
    row,        \* row[u]: phone, email and password of u
    req,        \* req[h]: the request h is serving
    now,        \* the clock
    redis,      \* "none": not reachable at the start, never tried again
    until,      \* until[t]: when the blacklist forgets t
    tokens,     \* tokens handed out
    left        \* ghost: tokens whose logout was answered with ok

db   == <<users, last, row>>
sess == <<now, redis, until, tokens, left>>
vars == <<db, req, sess>>

Ids  == 1..MaxUsers
Row  == [phone : Phones \union {Blank}, email : Emails \union {Blank},
         password : Passwords \union {Blank}]
NoRow == [phone |-> Blank, email |-> Blank, password |-> Blank]

\* A token says who it is for and when it was issued, in seconds: two logins
\* of one user within a second get the same token.
Token == [user : Ids, issued : 0..MaxTime]

Idle   == [pc |-> "idle"]
SignUp == [pc : {"check_email", "insert"}, phone : Phones \union {Blank},
           email : Emails \union {Blank}, password : Passwords]
Logout == [pc : {"revoke"}, token : Token]
Change == [pc : {"change_read", "change_update"}, token : Token,
           password : Passwords, new : Passwords]
Edit   == [pc : {"profile_update"}, token : Token, email : Emails \union {Blank}]
Leave  == [pc : {"delete_read", "delete"}, token : Token, password : Passwords]

Authenticated == Logout \union Change \union Edit \union Leave

\* The type invariant.
TypeOK ==
    /\ users \subseteq 1..last
    /\ last \in 0..MaxUsers
    /\ row \in [Ids -> Row]
    /\ req \in [Handlers -> SignUp \union Authenticated \union {Idle}]
    /\ now \in 0..MaxTime
    /\ redis \in {"none", "up", "down"}
    /\ until \in [Token -> 0..(MaxTime + TTL)]
    /\ tokens \subseteq Token
    /\ left \subseteq Token

\* A fresh database.  The server found Redis when it started, or did not.
Init ==
    /\ users = {} /\ last = 0
    /\ row = [u \in Ids |-> NoRow]
    /\ req = [h \in Handlers |-> Idle]
    /\ now = 0
    /\ redis \in {"none", "up"}
    /\ until = [t \in Token |-> 0]
    /\ tokens = {} /\ left = {}

-----------------------------------------------------------------------------
(* The rows and the tokens, as the handlers see them *)

PhoneTaken(p) == \E u \in users : row[u].phone = p
EmailTaken(e) == \E u \in users : row[u].email = e

Knows(u, w) == u \in users /\ row[u].password = w

Issue(u) == [user |-> u, issued |-> now]

Expired(t) == now >= t.issued + TTL

\* An error of the blacklist lookup is ignored: the token passes.
Passes(t) == ~Expired(t) /\ (redis = "up" => now >= until[t])

Done(h) == req' = [req EXCEPT ![h] = Idle]

Step(h, pc) == req' = [req EXCEPT ![h].pc = pc]

-----------------------------------------------------------------------------
(* POST /auth/register: two lookups, then the insert *)

\* A phone or an email is required.  The phone is looked up when it is given.
RegisterPhone(h, p, e, w) ==
    /\ req[h] = Idle
    /\ p # Blank \/ e # Blank
    /\ p # Blank => ~PhoneTaken(p)
    /\ req' = [req EXCEPT ![h] =
                 [pc |-> "check_email", phone |-> p, email |-> e, password |-> w]]
    /\ UNCHANGED <<db, sess>>

\* The email is.  Without a nickname, one is made of the phone's last digits,
\* which panics when it has none; that ends the request.
RegisterEmail(h) ==
    /\ req[h].pc = "check_email"
    /\ LET taken == req[h].email # Blank /\ EmailTaken(req[h].email) IN
         \/ (taken \/ req[h].phone = Blank) /\ Done(h)
         \/ ~taken /\ Step(h, "insert")
    /\ UNCHANGED <<db, sess>>

\* Faulty variant: the lookups are trusted.
InsertRefusedNever(r) == FALSE

\* Both columns have a unique key, and what was left out is stored as ''.
InsertRefused(r) == PhoneTaken(r.phone) \/ EmailTaken(r.email)

\* The insert, and the token for the new account.
RegisterInsert(h) ==
    /\ req[h].pc = "insert"
    /\ \/ /\ InsertRefused(req[h])
          /\ UNCHANGED <<db, tokens>>
       \/ /\ ~InsertRefused(req[h])
          /\ last < MaxUsers
          /\ last' = last + 1
          /\ users' = users \union {last + 1}
          /\ row' = [row EXCEPT ![last + 1] =
                       [phone |-> req[h].phone, email |-> req[h].email,
                        password |-> req[h].password]]
          /\ tokens' = tokens \union {Issue(last + 1)}
    /\ Done(h)
    /\ UNCHANGED <<now, redis, until, left>>

\* POST /auth/login: one lookup, by phone, and the token.
Login(u, w) ==
    /\ Knows(u, w)
    /\ row[u].phone # Blank
    /\ tokens' = tokens \union {Issue(u)}
    /\ UNCHANGED <<db, req, now, redis, until, left>>

-----------------------------------------------------------------------------
(* Requests that carry a token *)

\* RequireAuth looks at the token once, before the handler runs.
Admit(h, r) ==
    /\ req[h] = Idle
    /\ r.token \in tokens
    /\ Passes(r.token)
    /\ req' = [req EXCEPT ![h] = r]
    /\ UNCHANGED <<db, sess>>

\* Faulty variant: the token is blacklisted for as long as it has been valid,
\* not for as long as it will be.
RevokeElapsed(h) ==
    /\ req[h].pc = "revoke"
    /\ LET t == req[h].token IN
         /\ until' = IF redis = "up" THEN [until EXCEPT ![t] = now + (now - t.issued)] ELSE until
         /\ left' = left \union {t}
    /\ Done(h)
    /\ UNCHANGED <<db, now, redis, tokens>>

\* POST /auth/logout.  Without Redis it is answered with ok; when Redis fails,
\* with an error, and then the entry may have been written all the same.
Revoke(h) ==
    /\ req[h].pc = "revoke"
    /\ LET t == req[h].token IN
         \/ /\ redis # "none"
            /\ until' = [until EXCEPT ![t] = now + TTL]
            /\ left' = IF redis = "up" THEN left \union {t} ELSE left
         \/ /\ redis # "up"
            /\ left' = IF redis = "none" THEN left \union {t} ELSE left
            /\ UNCHANGED until
    /\ Done(h)
    /\ UNCHANGED <<db, now, redis, tokens>>

\* POST /users/me/password
ChangeRead(h) ==
    /\ req[h].pc = "change_read"
    /\ IF Knows(req[h].token.user, req[h].password) THEN Step(h, "change_update") ELSE Done(h)
    /\ UNCHANGED <<db, sess>>

\* Faulty variant: the write is an upsert.
ChangeUpdateUpsert(h) ==
    /\ req[h].pc = "change_update"
    /\ users' = users \union {req[h].token.user}
    /\ row' = [row EXCEPT ![req[h].token.user].password = req[h].new]
    /\ Done(h)
    /\ UNCHANGED <<last, sess>>

\* UPDATE ... WHERE user_id: it affects no row once the account is gone, and
\* does not ask for the old password again.
ChangeUpdate(h) ==
    /\ req[h].pc = "change_update"
    /\ LET u == req[h].token.user IN
         row' = IF u \in users THEN [row EXCEPT ![u].password = req[h].new] ELSE row
    /\ Done(h)
    /\ UNCHANGED <<users, last, sess>>

\* PATCH /users/me: the unique key refuses the email of another account.
ProfileUpdate(h) ==
    /\ req[h].pc = "profile_update"
    /\ LET u == req[h].token.user
           e == req[h].email IN
         row' = IF u \in users /\ (\A v \in users \ {u} : row[v].email # e)
                  THEN [row EXCEPT ![u].email = e] ELSE row
    /\ Done(h)
    /\ UNCHANGED <<users, last, sess>>

\* DELETE /users/me
DeleteRead(h) ==
    /\ req[h].pc = "delete_read"
    /\ IF Knows(req[h].token.user, req[h].password) THEN Step(h, "delete") ELSE Done(h)
    /\ UNCHANGED <<db, sess>>

Delete(h) ==
    /\ req[h].pc = "delete"
    /\ users' = users \ {req[h].token.user}
    /\ row' = [row EXCEPT ![req[h].token.user] = NoRow]
    /\ Done(h)
    /\ UNCHANGED <<last, sess>>

-----------------------------------------------------------------------------
(* The environment *)

Tick ==
    /\ now < MaxTime
    /\ now' = now + 1
    /\ UNCHANGED <<db, req, redis, until, tokens, left>>

\* Redis keeps what it has been given; only the calls fail while it is down.
RedisFails ==
    /\ redis = "up"
    /\ redis' = "down"
    /\ UNCHANGED <<db, req, now, until, tokens, left>>

RedisReturns ==
    /\ redis = "down"
    /\ redis' = "up"
    /\ UNCHANGED <<db, req, now, until, tokens, left>>

Begins == { r \in Authenticated :
              r.pc \in {"revoke", "change_read", "profile_update", "delete_read"} }

Handle(h) ==
    \/ \E p \in Phones \union {Blank}, e \in Emails \union {Blank}, w \in Passwords :
         RegisterPhone(h, p, e, w)
    \/ RegisterEmail(h) \/ RegisterInsert(h)
    \/ \E r \in Begins : Admit(h, r)
    \/ Revoke(h)
    \/ ChangeRead(h) \/ ChangeUpdate(h)
    \/ ProfileUpdate(h)
    \/ DeleteRead(h) \/ Delete(h)

Next ==
    \/ \E h \in Handlers : Handle(h)
    \/ \E u \in users, w \in Passwords : Login(u, w)
    \/ Tick \/ RedisFails \/ RedisReturns

Spec == Init /\ [][Next]_vars

-----------------------------------------------------------------------------
(* Properties *)

\* However registrations and edits race, no two accounts have the same phone
\* or email; at most one account has none (UserService.Register, UpdateUser).
OneAccountPerContact ==
    \A u, v \in users : u # v => /\ row[u].phone # row[v].phone
                                 /\ row[u].email # row[v].email

\* A token whose logout was answered with ok is not accepted again, unless
\* Redis is out of reach: the entry outlives the token (RevokeToken, ParseToken).
LogoutHolds ==
    [][\A h \in Handlers, t \in left :
         redis = "up" => ~(req[h] = Idle /\ req'[h] \in Authenticated /\ req'[h].token = t)]_vars

\* An account that was deleted does not come back, whatever requests of its
\* tokens were still under way, so a token never leads to another account.
DeletedStaysDeleted == [][\A u \in 1..last : u \notin users => u \notin users']_vars

\* What makes the above inductive: no token is from the future, and the entry of
\* a token that was left is kept for as long as the token is valid.
IssuedBefore ==
    /\ \A t \in tokens : t.issued <= now
    /\ \A h \in Handlers : req[h] \in Authenticated => req[h].token.issued <= now

LeftAreListed == redis # "none" => \A t \in left : t.issued + TTL <= until[t]

Safety == TypeOK /\ OneAccountPerContact /\ IssuedBefore /\ LeftAreListed

\* A registration with a contact nobody else has is not turned away (docs: a
\* phone or an email is required, and one of them is enough).
OneContactIsEnough ==
    [][\A h \in Handlers :
         req[h].pc \in {"check_email", "insert"} /\ req'[h] = Idle /\ users' = users =>
           \/ req[h].phone # Blank /\ PhoneTaken(req[h].phone)
           \/ req[h].email # Blank /\ EmailTaken(req[h].email)]_vars
=============================================================================
