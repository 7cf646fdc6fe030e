---------------------------------- MODULE User ----------------------------------
(***************************************************************************)
(* user-service: HTTP handlers over one Postgres table.  Registering and   *)
(* logging in answer with a signed token that says whose it is and in      *)
(* which role; a change of profile and the change from client to owner     *)
(* each read the user and save the whole row afterwards.  Every read and   *)
(* every write is a statement of its own, and a token is signed after the  *)
(* read or the insertion it speaks of: other requests come in between.  A  *)
(* token cannot be called back.                                            *)
(***************************************************************************)
EXTENDS Integers

CONSTANTS
    Handlers,    \* the requests served at the same time
    UserIds,     \* the primary keys the table may hand out
    Names, Emails,
    Patches,     \* the profiles clients ask for
    ClaimsSet,   \* does a middleware hand the handlers the token's claims
    None

Roles == {"Client", "Owner"}

Row == [name : Names, email : Emails, role : Roles]

Patch == [name : Names \union {None}, email : Emails \union {None}]

\* Claims, without the time at which they expire.
Token == [user : UserIds, role : Roles]

ASSUME InputAssumption == Patches \subseteq Patch /\ ClaimsSet \in BOOLEAN

ASSUME NoneAssumption == None \notin Row /\ None \notin UserIds

VARIABLES
    users,    \* table users
    tokens,   \* the claims of the tokens handed out
    pc,       \* where each handler is
    uid,      \* the user it works on
    mem       \* the models.User it holds in memory

accounts == <<users, tokens>>
vars == <<users, tokens, pc, uid, mem>>

Answers == {"token", "saved", "forbidden", "unauthorized", "error"}

PCs == {"idle", "save", "sign"} \union Answers

Step(h, from, to) == pc[h] = from /\ pc' = [pc EXCEPT ![h] = to]

Stored(u) == users[u] # None

\* Mutation of Free: the column has no unique index.
FreeUnindexed(email, except) == TRUE

\* The unique index on the column: nothing in the code looks first.
Free(email, except) ==
    \A u \in UserIds \ except : Stored(u) => users[u].email # email

(***************************************************************************)
(* Register and Login                                                      *)
(***************************************************************************)
\* Mutation of Hold: the row in memory loses its id.
HoldUnnamed(h, u, row) == mem' = [mem EXCEPT ![h] = row] /\ UNCHANGED uid

Hold(h, u, row) == uid' = [uid EXCEPT ![h] = u] /\ mem' = [mem EXCEPT ![h] = row]

NewUser(name, email) == [name |-> name, email |-> email, role |-> "Client"]

\* Mutation of Register: the error of Create is not looked at.
RegisterUnchecked(h) ==
    \E u \in UserIds, name \in Names, email \in Emails, stored \in BOOLEAN :
        LET row == NewUser(name, email) IN
        /\ ~Stored(u) /\ Free(email, {})
        /\ Step(h, "idle", "sign")
        /\ users' = IF stored THEN [users EXCEPT ![u] = row] ELSE users
        /\ Hold(h, u, row)
        /\ UNCHANGED tokens

\* A row may be committed and its insertion be reported as failed.
Register(h) ==
    \E u \in UserIds, name \in Names, email \in Emails, reported \in BOOLEAN :
        LET row == NewUser(name, email) IN
        /\ ~Stored(u) /\ Free(email, {})
        /\ Step(h, "idle", IF reported THEN "sign" ELSE "error")
        /\ users' = [users EXCEPT ![u] = row]
        /\ Hold(h, u, row)
        /\ UNCHANGED tokens

\* Mutation of Login: the role is that of a token handed out before.
LoginClaimed(h) ==
    \E t \in tokens :
        /\ Stored(t.user)
        /\ Step(h, "idle", "sign")
        /\ Hold(h, t.user, [users[t.user] EXCEPT !.role = t.role])
        /\ UNCHANGED accounts

\* The row is read once; what is signed later is what it said then.
Login(h) ==
    \E u \in UserIds :
        /\ Stored(u)
        /\ Step(h, "idle", "sign")
        /\ Hold(h, u, users[u])
        /\ UNCHANGED accounts

GenerateToken(u, row) == tokens' = tokens \union {[user |-> u, role |-> row.role]}

\* After the insertion, or after the password has been compared with its hash.
SignToken(h) ==
    /\ Step(h, "sign", "token")
    /\ GenerateToken(uid[h], mem[h])
    /\ UNCHANGED <<users, uid, mem>>

\* The password of a login is wrong, or the token cannot be signed.
SignFails(h) ==
    /\ Step(h, "sign", "error")
    /\ UNCHANGED <<accounts, uid, mem>>

\* A request that does not get past its first statement: it does not decode,
\* its email is taken or unknown, the database fails.
Refuse(h) ==
    /\ Step(h, "idle", "error")
    /\ UNCHANGED <<accounts, uid, mem>>

(***************************************************************************)
(* UpdateMe and BecomeOwner                                                *)
(***************************************************************************)
Or(new, old) == IF new = None THEN old ELSE new

\* The request may name a role, which is not looked at.
Merge(row, p) == [row EXCEPT !.name = Or(p.name, @), !.email = Or(p.email, @)]

\* Mutation of UpdateMe: the role is that of the claims.
UpdateMeClaimed(h) ==
    \E t \in tokens, p \in Patches :
        /\ ClaimsSet /\ Stored(t.user)
        /\ Step(h, "idle", "save")
        /\ Hold(h, t.user, [Merge(users[t.user], p) EXCEPT !.role = t.role])
        /\ UNCHANGED accounts

\* Whose the request is, the claims say; in which role, nobody asks them.
UpdateMe(h) ==
    \E t \in tokens, p \in Patches :
        /\ ClaimsSet /\ Stored(t.user)
        /\ Step(h, "idle", "save")
        /\ Hold(h, t.user, Merge(users[t.user], p))
        /\ UNCHANGED accounts

BecomeOwner(h) ==
    \E t \in tokens :
        /\ ClaimsSet /\ Stored(t.user) /\ users[t.user].role = "Client"
        /\ Step(h, "idle", "save")
        /\ Hold(h, t.user, [users[t.user] EXCEPT !.role = "Owner"])
        /\ UNCHANGED accounts

BecomeOwnerRefused(h) ==
    \E t \in tokens :
        /\ ClaimsSet /\ Stored(t.user) /\ users[t.user].role # "Client"
        /\ Step(h, "idle", "forbidden")
        /\ UNCHANGED <<accounts, uid, mem>>

\* getClaims finds nothing: the request has no valid token, or no middleware
\* looks for one.
Unauthorized(h) ==
    /\ Step(h, "idle", "unauthorized")
    /\ UNCHANGED <<accounts, uid, mem>>

\* Save writes every column of the row in memory, whatever the table holds.
SaveUser(h) ==
    /\ \E answer \in {"saved", "error"} : Step(h, "save", answer)
    /\ Free(mem[h].email, {uid[h]})
    /\ users' = [users EXCEPT ![uid[h]] = mem[h]]
    /\ UNCHANGED <<tokens, uid, mem>>

\* The email is taken, or the database fails.
SaveFails(h) ==
    /\ Step(h, "save", "error")
    /\ UNCHANGED <<accounts, uid, mem>>

(***************************************************************************)
(* Everything else                                                         *)
(***************************************************************************)
Respond(h) ==
    /\ pc[h] \in Answers
    /\ pc' = [pc EXCEPT ![h] = "idle"]
    /\ uid' = [uid EXCEPT ![h] = None]
    /\ mem' = [mem EXCEPT ![h] = None]
    /\ UNCHANGED accounts

Nobody == [h \in Handlers |-> None]

\* The process dies: what was committed stays, and so do the tokens.
Restart ==
    /\ pc' = [h \in Handlers |-> "idle"]
    /\ uid' = Nobody /\ mem' = Nobody
    /\ UNCHANGED accounts

Init ==
    /\ users = [u \in UserIds |-> None]
    /\ tokens = {}
    /\ pc = [h \in Handlers |-> "idle"]
    /\ uid = Nobody /\ mem = Nobody

Auth(h) == Register(h) \/ Login(h) \/ Refuse(h)

Me(h) ==
    \/ UpdateMe(h) \/ BecomeOwner(h) \/ BecomeOwnerRefused(h) \/ Unauthorized(h)
    \/ Refuse(h)

Sign(h) == SignToken(h) \/ SignFails(h)

Save(h) == SaveUser(h) \/ SaveFails(h)

Next ==
    \/ \E h \in Handlers : Auth(h) \/ Sign(h) \/ Me(h) \/ Save(h) \/ Respond(h)
    \/ Restart

Spec == Init /\ [][Next]_vars

(***************************************************************************)
(* Properties                                                              *)
(***************************************************************************)
\* Every variable holds a value of its type, and a handler that is to save
\* or to sign holds a user who is in the table.
TypeOK ==
    /\ users \in [UserIds -> Row \union {None}]
    /\ tokens \subseteq Token
    /\ pc \in [Handlers -> PCs]
    /\ uid \in [Handlers -> UserIds \union {None}]
    /\ mem \in [Handlers -> Row \union {None}]
    /\ \A h \in Handlers :
           pc[h] \in {"save", "sign"} =>
               mem[h] \in Row /\ uid[h] \in UserIds /\ Stored(uid[h])

\* Two users never share an email, whatever registrations and changes of
\* profile run at the same time: a login could otherwise be either of them.
OneUserPerEmail ==
    \A u, v \in UserIds :
        Stored(u) /\ Stored(v) /\ users[u].email = users[v].email => u = v

\* A token is handed out only for a user who is in the table: a registration
\* signs nothing before its insertion is committed, and a restart leaves no
\* token without its user.
TokensOfUsers == \A t \in tokens : Stored(t.user)

Owner(u) == Stored(u) /\ users[u].role = "Owner"

\* A handler about to save the user as a client, as it read them.
Stale(u) == \E h \in Handlers : pc[h] = "save" /\ uid[h] = u /\ mem[h].role = "Client"

\* The role of owner is lost to nothing but a change of profile that read the
\* user before it was granted: once none of those is left, it stays.
GrantSettles ==
    [][\A u \in UserIds : Owner(u) /\ ~Stale(u) => (Owner(u) /\ ~Stale(u))']_vars

\* A handler about to save the user as a client, or to sign a token that says so.
HeldAsClient(u) ==
    \E h \in Handlers :
        pc[h] \in {"save", "sign"} /\ uid[h] = u /\ mem[h].role = "Client"

\* Handlers that hand out a token of the user in this step.
Issues(h, u) == pc[h] # "token" /\ pc'[h] = "token" /\ uid'[h] = u

\* An owner may yet be handed a token that says Client, but only by a login or
\* a registration that read or wrote the user before: once no handler holds
\* such a row, to save or to sign, none ever does, and each token issued from
\* then on says Owner.
TokensSettle ==
    [][\A u \in UserIds :
           Owner(u) /\ ~HeldAsClient(u) =>
               /\ (Owner(u) /\ ~HeldAsClient(u))'
               /\ \A h \in Handlers :
                      Issues(h, u) => [user |-> u, role |-> "Owner"] \in tokens']_vars
=================================================================================
