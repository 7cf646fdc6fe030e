------------------------------- MODULE UserProofs -------------------------------
(***************************************************************************)
(* Theorems about User, for any number of handlers and users: what         *)
(* requests that each read a user, and save it or sign a token for it      *)
(* later, cannot break.                                                    *)
(***************************************************************************)
EXTENDS User, TLAPS

-------------------------------------------------------------------------------
\* Types

LEMMA MergeType ==
    ASSUME NEW row \in Row, NEW p \in Patches
    PROVE  Merge(row, p) \in Row /\ Merge(row, p).role = row.role
  <1>1. p \in Patch
    BY InputAssumption
  <1>2. Or(p.name, row.name) \in Names /\ Or(p.email, row.email) \in Emails
    BY <1>1 DEF Patch, Row, Or
  <1>3. QED
    BY <1>2 DEF Merge, Row

LEMMA NewUserType ==
    ASSUME NEW name \in Names, NEW email \in Emails
    PROVE  /\ NewUser(name, email) \in Row
           /\ NewUser(name, email).role = "Client" /\ NewUser(name, email).email = email
  BY DEF NewUser, Row, Roles

LEMMA UserTypeInit == Init => TypeOK
  BY DEF Init, TypeOK, Nobody, PCs, Answers

LEMMA RegisterType ==
    ASSUME TypeOK, NEW h \in Handlers, Register(h) PROVE TypeOK'
  <1>1. PICK u \in UserIds, name \in Names, email \in Emails, reported \in BOOLEAN :
            /\ ~Stored(u)
            /\ Step(h, "idle", IF reported THEN "sign" ELSE "error")
            /\ users' = [users EXCEPT ![u] = NewUser(name, email)]
            /\ Hold(h, u, NewUser(name, email))
            /\ UNCHANGED tokens
    BY DEF Register
  <1>2. NewUser(name, email) \in Row
    BY NewUserType
  <1>3. users' \in [UserIds -> Row \union {None}]
    BY <1>1, <1>2 DEF TypeOK
  <1>4. /\ pc' \in [Handlers -> PCs]
        /\ \A k \in Handlers : k # h => pc'[k] = pc[k] /\ uid'[k] = uid[k] /\ mem'[k] = mem[k]
        /\ uid'[h] = u /\ mem'[h] \in Row
        /\ uid' \in [Handlers -> UserIds \union {None}]
        /\ mem' \in [Handlers -> Row \union {None}]
    BY <1>1, <1>2 DEF TypeOK, Step, Hold, PCs, Answers
  <1>5. \A v \in UserIds : users[v] # None \/ v = u => users'[v] # None
    BY <1>1, <1>2, NoneAssumption DEF TypeOK
  <1>6. QED
    BY <1>1, <1>3, <1>4, <1>5 DEF TypeOK, Stored

LEMMA ReadType ==
    ASSUME TypeOK, NEW h \in Handlers, Login(h) \/ UpdateMe(h) \/ BecomeOwner(h)
    PROVE  TypeOK'
  <1>1. PICK u \in UserIds, row \in Row, to \in {"save", "sign"} :
            Stored(u) /\ Step(h, "idle", to) /\ Hold(h, u, row) /\ UNCHANGED accounts
    <2>1. CASE UpdateMe(h)
      <3>1. PICK t \in tokens, p \in Patches :
                /\ Stored(t.user) /\ Step(h, "idle", "save") /\ UNCHANGED accounts
                /\ Hold(h, t.user, Merge(users[t.user], p))
        BY <2>1 DEF UpdateMe
      <3>2. t.user \in UserIds /\ users[t.user] \in Row
        BY <3>1 DEF TypeOK, Token, Stored
      <3>3. QED
        BY <3>1, <3>2, MergeType
    <2>2. CASE BecomeOwner(h)
      <3>1. PICK t \in tokens :
                /\ Stored(t.user) /\ Step(h, "idle", "save") /\ UNCHANGED accounts
                /\ Hold(h, t.user, [users[t.user] EXCEPT !.role = "Owner"])
        BY <2>2 DEF BecomeOwner
      <3>2. t.user \in UserIds /\ users[t.user] \in Row
        BY <3>1 DEF TypeOK, Token, Stored
      <3>3. [users[t.user] EXCEPT !.role = "Owner"] \in Row
        BY <3>2 DEF Row, Roles
      <3>4. QED
        BY <3>1, <3>2, <3>3
    <2>3. CASE Login(h)
      BY <2>3 DEF Login, TypeOK, Stored
    <2>4. QED
      BY <2>1, <2>2, <2>3
  <1>2. QED
    BY <1>1 DEF TypeOK, Step, Hold, accounts, PCs, Stored

LEMMA SaveType ==
    ASSUME TypeOK, NEW h \in Handlers, SaveUser(h) PROVE TypeOK'
  <1>1. mem[h] \in Row /\ uid[h] \in UserIds
    BY DEF TypeOK, SaveUser, Step
  <1>2. users' \in [UserIds -> Row \union {None}]
        /\ \A v \in UserIds : users[v] # None => users'[v] # None
    BY <1>1, NoneAssumption DEF TypeOK, SaveUser
  <1>3. /\ pc' \in [Handlers -> PCs]
        /\ \A k \in Handlers : pc'[k] \in {"save", "sign"} => pc'[k] = pc[k]
    BY DEF TypeOK, SaveUser, Step, PCs, Answers
  <1>4. QED
    BY <1>2, <1>3 DEF TypeOK, SaveUser, Stored

LEMMA UserTypeStep == TypeOK /\ [Next]_vars => TypeOK'
  <1> SUFFICES ASSUME TypeOK, [Next]_vars PROVE TypeOK'
    OBVIOUS
  <1>1. ASSUME NEW h \in Handlers, SignToken(h) PROVE TypeOK'
    <2>1. uid[h] \in UserIds /\ mem[h] \in Row
      BY <1>1 DEF SignToken, Step, TypeOK
    <2>2. tokens' \subseteq Token
      BY <1>1, <2>1 DEF SignToken, TypeOK, GenerateToken, Token, Row
    <2>3. QED
      BY <1>1, <2>2 DEF SignToken, TypeOK, Step, PCs, Answers, Stored
  <1>2. ASSUME NEW h \in Handlers,
               \/ Refuse(h) \/ SignFails(h) \/ BecomeOwnerRefused(h) \/ Unauthorized(h)
               \/ SaveFails(h) \/ Respond(h)
        PROVE  TypeOK'
    BY <1>2 DEF Refuse, SignFails, BecomeOwnerRefused, Unauthorized, SaveFails, Respond,
                accounts, Step, TypeOK, PCs, Answers, Stored
  <1>3. CASE Restart \/ UNCHANGED vars
    BY <1>3 DEF Restart, Nobody, vars, accounts, TypeOK, PCs, Stored
  <1>4. QED
    BY <1>1, <1>2, <1>3, RegisterType, ReadType, SaveType DEF Next, Auth, Sign, Me, Save

\* A handler that is to save or to sign holds a user, and that user is in the table.
THEOREM UserTypeCorrect == Spec => []TypeOK
  BY UserTypeInit, UserTypeStep, PTL DEF Spec

-------------------------------------------------------------------------------
\* Emails

LEMMA EmailStep ==
    ASSUME TypeOK, OneUserPerEmail, [Next]_vars PROVE OneUserPerEmail'
  <1>1. ASSUME NEW h \in Handlers, Register(h) PROVE OneUserPerEmail'
    <2>1. PICK u \in UserIds, name \in Names, email \in Emails :
              /\ ~Stored(u) /\ Free(email, {})
              /\ users' = [users EXCEPT ![u] = NewUser(name, email)]
      BY <1>1 DEF Register
    <2>2. users'[u].email = email /\ \A v \in UserIds : v # u => users'[v] = users[v]
      BY <2>1, NewUserType DEF TypeOK
    <2>3. QED
      BY <2>1, <2>2 DEF OneUserPerEmail, Free, Stored
  <1>2. ASSUME NEW h \in Handlers, SaveUser(h) PROVE OneUserPerEmail'
    <2>1. uid[h] \in UserIds /\ Free(mem[h].email, {uid[h]})
      BY <1>2 DEF SaveUser, Step, TypeOK
    <2>2. /\ users'[uid[h]] = mem[h]
          /\ \A v \in UserIds : v # uid[h] => users'[v] = users[v]
      BY <1>2, <2>1 DEF SaveUser, TypeOK
    <2>3. QED
      BY <2>1, <2>2 DEF OneUserPerEmail, Free, Stored
  <1>3. CASE UNCHANGED users
    BY <1>3 DEF OneUserPerEmail, Stored
  <1>4. QED
    BY <1>1, <1>2, <1>3 DEF Next, Auth, Sign, Me, Save, Login, Refuse, SignToken, SignFails,
       UpdateMe, BecomeOwner, BecomeOwnerRefused, Unauthorized, SaveFails, Respond, Restart, accounts, vars

\* Registrations and changes of profile never give two users one email.
THEOREM EmailsAreUnique == Spec => []OneUserPerEmail
  <1>1. Init => OneUserPerEmail
    BY DEF Init, OneUserPerEmail, Stored
  <1>2. TypeOK /\ OneUserPerEmail /\ [Next]_vars => OneUserPerEmail'
    BY EmailStep
  <1>3. QED
    BY <1>1, <1>2, UserTypeCorrect, PTL DEF Spec

-------------------------------------------------------------------------------
\* Tokens

\* No user is ever deleted.
LEMMA UsersStay ==
    ASSUME TypeOK, [Next]_vars, NEW u \in UserIds, Stored(u) PROVE Stored(u)'
  <1>1. ASSUME NEW h \in Handlers, Register(h) PROVE Stored(u)'
    BY <1>1, NewUserType, NoneAssumption DEF Register, Stored, TypeOK
  <1>2. ASSUME NEW h \in Handlers, SaveUser(h) PROVE Stored(u)'
    BY <1>2, NoneAssumption DEF SaveUser, Step, Stored, TypeOK
  <1>3. CASE UNCHANGED users
    BY <1>3 DEF Stored
  <1>4. QED
    BY <1>1, <1>2, <1>3 DEF Next, Auth, Sign, Me, Save, Login, Refuse, SignToken, SignFails,
       UpdateMe, BecomeOwner, BecomeOwnerRefused, Unauthorized, SaveFails, Respond, Restart,
       accounts, vars

LEMMA TokenStep ==
    ASSUME TypeOK, TokensOfUsers, [Next]_vars PROVE TokensOfUsers'
  <1>1. ASSUME NEW t \in tokens PROVE Stored(t.user)'
    BY UsersStay DEF TypeOK, Token, TokensOfUsers
  <1>2. ASSUME NEW h \in Handlers, SignToken(h) PROVE TokensOfUsers'
    <2>1. uid[h] \in UserIds /\ Stored(uid[h])
      BY <1>2 DEF SignToken, Step, TypeOK
    <2>2. Stored(uid[h])' /\ uid'[h] = uid[h]
      BY <1>2, <2>1 DEF SignToken, Stored
    <2>3. \A t \in tokens' : t \in tokens \/ t.user = uid[h]
      BY <1>2 DEF SignToken, GenerateToken
    <2>4. QED
      BY <1>1, <2>2, <2>3 DEF TokensOfUsers, Stored
  <1>3. CASE UNCHANGED tokens
    BY <1>1, <1>3 DEF TokensOfUsers, Stored
  <1>4. QED
    BY <1>2, <1>3 DEF Next, Auth, Sign, Me, Save, Register, Login, Refuse, SignFails, UpdateMe,
       BecomeOwner, BecomeOwnerRefused, Unauthorized, SaveUser, SaveFails, Respond, Restart,
       accounts, vars

\* Whatever fails or restarts between the insertion and the signing, a token is
\* a stored user's.
THEOREM TokensHaveUsers == Spec => []TokensOfUsers
  <1>1. Init => TokensOfUsers
    BY DEF Init, TokensOfUsers
  <1>2. TypeOK /\ TokensOfUsers /\ [Next]_vars => TokensOfUsers'
    BY TokenStep
  <1>3. QED
    BY <1>1, <1>2, UserTypeCorrect, PTL DEF Spec

-------------------------------------------------------------------------------
\* Roles

LEMMA GrantStep ==
    ASSUME TypeOK, [Next]_vars, NEW u \in UserIds, Owner(u), ~Stale(u)
    PROVE  Owner(u)' /\ ~Stale(u)'
  <1> USE DEF Owner, Stale, Stored
  <1>1. ASSUME NEW h \in Handlers, Register(h) PROVE Owner(u)' /\ ~Stale(u)'
    BY <1>1 DEF Register, Hold, Step, TypeOK
  <1>2. ASSUME NEW h \in Handlers, UpdateMe(h) PROVE Owner(u)' /\ ~Stale(u)'
    <2>1. PICK t \in tokens, p \in Patches :
              /\ users[t.user] # None /\ Step(h, "idle", "save") /\ UNCHANGED accounts
              /\ Hold(h, t.user, Merge(users[t.user], p))
      BY <1>2 DEF UpdateMe
    <2>2. t.user \in UserIds /\ users[t.user] \in Row
      BY <2>1 DEF TypeOK, Token
    <2>3. uid'[h] = t.user /\ mem'[h].role = users[t.user].role
      BY <2>1, <2>2, MergeType DEF Hold, TypeOK
    <2>4. \A k \in Handlers : k # h => pc'[k] = pc[k] /\ uid'[k] = uid[k] /\ mem'[k] = mem[k]
      BY <2>1 DEF Hold, Step, TypeOK
    <2>5. QED
      BY <2>1, <2>3, <2>4 DEF accounts
  <1>3. ASSUME NEW h \in Handlers, BecomeOwner(h) PROVE Owner(u)' /\ ~Stale(u)'
    <2>1. PICK t \in tokens :
              /\ users[t.user] # None /\ Step(h, "idle", "save") /\ UNCHANGED accounts
              /\ Hold(h, t.user, [users[t.user] EXCEPT !.role = "Owner"])
      BY <1>3 DEF BecomeOwner
    <2>2. t.user \in UserIds /\ users[t.user] \in Row
      BY <2>1 DEF TypeOK, Token
    <2>3. mem'[h].role = "Owner"
      BY <2>1, <2>2 DEF Hold, TypeOK, Row
    <2>4. \A k \in Handlers : k # h => pc'[k] = pc[k] /\ uid'[k] = uid[k] /\ mem'[k] = mem[k]
      BY <2>1 DEF Hold, Step, TypeOK
    <2>5. QED
      BY <2>1, <2>3, <2>4 DEF accounts
  <1>4. ASSUME NEW h \in Handlers, SaveUser(h) PROVE Owner(u)' /\ ~Stale(u)'
    <2>1. mem[h] \in Row /\ uid[h] \in UserIds /\ pc[h] = "save"
      BY <1>4 DEF SaveUser, Step, TypeOK
    <2>2. uid[h] = u => mem[h].role = "Owner"
      BY <2>1 DEF Row, Roles
    <2>3. /\ users'[uid[h]] = mem[h] /\ mem[h] # None
          /\ \A v \in UserIds : v # uid[h] => users'[v] = users[v]
      BY <1>4, <2>1, NoneAssumption DEF SaveUser, TypeOK
    <2>4. Owner(u)'
      BY <2>2, <2>3
    <2>5. QED
      BY <1>4, <2>4 DEF SaveUser, Step, TypeOK
  <1>5. ASSUME NEW h \in Handlers,
               \/ Login(h) \/ Refuse(h) \/ SignToken(h) \/ SignFails(h) \/ BecomeOwnerRefused(h)
               \/ Unauthorized(h) \/ SaveFails(h) \/ Respond(h)
        PROVE  Owner(u)' /\ ~Stale(u)'
    BY <1>5 DEF Login, Hold, Refuse, SignToken, SignFails, BecomeOwnerRefused, Unauthorized, SaveFails, Respond, accounts,
                Step, Answers, TypeOK
  <1>6. CASE Restart \/ UNCHANGED vars
    BY <1>6 DEF Restart, Nobody, accounts, vars
  <1>7. QED
    BY <1>1, <1>2, <1>3, <1>4, <1>5, <1>6 DEF Next, Auth, Sign, Me, Save

\* Once no handler holds the user as it was before, the role of owner stays.
THEOREM GrantsSettle == Spec => GrantSettles
  <1>1. TypeOK /\ [Next]_vars =>
            [\A u \in UserIds : Owner(u) /\ ~Stale(u) => (Owner(u) /\ ~Stale(u))']_vars
    BY GrantStep
  <1>2. QED
    BY <1>1, UserTypeCorrect, PTL DEF Spec, GrantSettles

\* Who holds what of a user, after a step of one handler: nothing new as a
\* client, when that handler holds none.
LEMMA StillUnheld ==
    ASSUME NEW h \in Handlers, NEW u, ~HeldAsClient(u),
           \A k \in Handlers \ {h} : pc'[k] = pc[k] /\ uid'[k] = uid[k] /\ mem'[k] = mem[k],
           pc'[h] \in {"save", "sign"} /\ uid'[h] = u => mem'[h].role # "Client"
    PROVE  ~HeldAsClient(u)'
  BY DEF HeldAsClient

LEMMA NothingIssued ==
    ASSUME NEW h \in Handlers, NEW u, pc'[h] # "token",
           \A k \in Handlers \ {h} : pc'[k] = pc[k]
    PROVE  \A k \in Handlers : ~Issues(k, u)
  BY DEF Issues

\* A user who is an owner and held as a client by nobody stays so, and is issued
\* tokens of an owner.
SettledUser(u) == Owner(u) /\ ~HeldAsClient(u)

SettledStep(u) ==
    /\ SettledUser(u)'
    /\ \A h \in Handlers : Issues(h, u) => [user |-> u, role |-> "Owner"] \in tokens'

LEMMA TokenSettleStep ==
    ASSUME TypeOK, [Next]_vars, NEW u \in UserIds, SettledUser(u)
    PROVE  SettledStep(u)
  <1> USE DEF SettledUser, SettledStep
  <1>1. ASSUME NEW h \in Handlers, Register(h) PROVE SettledStep(u)
    <2>1. PICK v \in UserIds, name \in Names, email \in Emails, to \in {"sign", "error"} :
              /\ ~Stored(v) /\ Step(h, "idle", to)
              /\ users' = [users EXCEPT ![v] = NewUser(name, email)]
              /\ Hold(h, v, NewUser(name, email))
      BY <1>1 DEF Register
    <2>2. v # u
      BY <2>1 DEF Owner
    <2>3. Owner(u)'
      BY <2>1, <2>2 DEF Owner, Stored, TypeOK
    <2>4. /\ uid'[h] = v /\ pc'[h] # "token"
          /\ \A k \in Handlers \ {h} :
                 pc'[k] = pc[k] /\ uid'[k] = uid[k] /\ mem'[k] = mem[k]
      BY <2>1 DEF Hold, Step, TypeOK
    <2>5. QED
      BY <2>2, <2>3, <2>4, StillUnheld, NothingIssued
  <1>2. ASSUME NEW h \in Handlers, Login(h) \/ UpdateMe(h) \/ BecomeOwner(h)
        PROVE  SettledStep(u)
    <2>1. PICK v \in UserIds, row \in Row, to \in {"save", "sign"} :
              /\ Stored(v) /\ Step(h, "idle", to) /\ Hold(h, v, row) /\ UNCHANGED accounts
              /\ row.role \in {users[v].role, "Owner"}
      <3>1. CASE Login(h)
        BY <3>1 DEF Login, TypeOK, Stored
      <3>2. CASE UpdateMe(h)
        <4>1. PICK t \in tokens, p \in Patches :
                  /\ Stored(t.user) /\ Step(h, "idle", "save") /\ UNCHANGED accounts
                  /\ Hold(h, t.user, Merge(users[t.user], p))
          BY <3>2 DEF UpdateMe
        <4>2. t.user \in UserIds /\ users[t.user] \in Row
          BY <4>1 DEF TypeOK, Token, Stored
        <4>3. QED
          BY <4>1, <4>2, MergeType
      <3>3. CASE BecomeOwner(h)
        <4>1. PICK t \in tokens :
                  /\ Stored(t.user) /\ Step(h, "idle", "save") /\ UNCHANGED accounts
                  /\ Hold(h, t.user, [users[t.user] EXCEPT !.role = "Owner"])
          BY <3>3 DEF BecomeOwner
        <4>2. t.user \in UserIds /\ users[t.user] \in Row
          BY <4>1 DEF TypeOK, Token, Stored
        <4>3. /\ [users[t.user] EXCEPT !.role = "Owner"] \in Row
              /\ [users[t.user] EXCEPT !.role = "Owner"].role = "Owner"
          BY <4>2 DEF Row, Roles
        <4>4. QED
          BY <4>1, <4>2, <4>3
      <3>4. QED
        BY <1>2, <3>1, <3>2, <3>3
    <2>2. v = u => row.role = "Owner"
      BY <2>1 DEF Owner
    <2>3. /\ uid'[h] = v /\ mem'[h] = row /\ pc'[h] # "token"
          /\ \A k \in Handlers \ {h} :
                 pc'[k] = pc[k] /\ uid'[k] = uid[k] /\ mem'[k] = mem[k]
      BY <2>1 DEF Hold, Step, TypeOK
    <2>4. Owner(u)'
      BY <2>1 DEF Owner, Stored, accounts
    <2>5. QED
      BY <2>2, <2>3, <2>4, StillUnheld, NothingIssued
  <1>3. ASSUME NEW h \in Handlers, SignToken(h) PROVE SettledStep(u)
    <2>1. pc[h] = "sign" /\ mem[h] \in Row
      BY <1>3 DEF SignToken, Step, TypeOK
    <2>2. uid[h] = u => mem[h].role = "Owner"
      BY <2>1 DEF HeldAsClient, Row, Roles
    <2>3. uid[h] = u => [user |-> u, role |-> "Owner"] \in tokens'
      BY <1>3, <2>2 DEF SignToken, GenerateToken
    <2>4. /\ pc'[h] = "token" /\ UNCHANGED <<users, uid, mem>>
          /\ \A k \in Handlers \ {h} : pc'[k] = pc[k]
      BY <1>3 DEF SignToken, Step, TypeOK
    <2>5. \A k \in Handlers : Issues(k, u) => k = h /\ uid[h] = u
      BY <2>4 DEF Issues
    <2>6. QED
      BY <2>3, <2>4, <2>5, StillUnheld DEF Owner, Stored
  <1>4. ASSUME NEW h \in Handlers, SaveUser(h) PROVE SettledStep(u)
    <2>1. mem[h] \in Row /\ uid[h] \in UserIds /\ pc[h] = "save"
      BY <1>4 DEF SaveUser, Step, TypeOK
    <2>2. uid[h] = u => mem[h].role = "Owner"
      BY <2>1 DEF HeldAsClient, Row, Roles
    <2>3. /\ users'[uid[h]] = mem[h] /\ mem[h] # None
          /\ \A v \in UserIds : v # uid[h] => users'[v] = users[v]
      BY <1>4, <2>1, NoneAssumption DEF SaveUser, TypeOK
    <2>4. Owner(u)'
      BY <2>2, <2>3 DEF Owner, Stored
    <2>5. /\ pc'[h] \in {"saved", "error"} /\ UNCHANGED <<uid, mem>>
          /\ \A k \in Handlers \ {h} : pc'[k] = pc[k]
      BY <1>4 DEF SaveUser, Step, TypeOK
    <2>6. QED
      BY <2>4, <2>5, StillUnheld, NothingIssued
  <1>5. ASSUME NEW h \in Handlers,
               \/ Refuse(h) \/ SignFails(h) \/ BecomeOwnerRefused(h) \/ Unauthorized(h)
               \/ SaveFails(h) \/ Respond(h)
        PROVE  SettledStep(u)
    <2>1. /\ pc'[h] \in {"idle", "error", "forbidden", "unauthorized"} /\ UNCHANGED users
          /\ \A k \in Handlers \ {h} :
                 pc'[k] = pc[k] /\ uid'[k] = uid[k] /\ mem'[k] = mem[k]
      BY <1>5 DEF Refuse, SignFails, BecomeOwnerRefused, Unauthorized, SaveFails, Respond,
                  accounts, Step, TypeOK
    <2>2. QED
      BY <2>1, StillUnheld, NothingIssued DEF Owner, Stored
  <1>6. CASE Restart
    BY <1>6 DEF Restart, Nobody, accounts, Owner, Stored, HeldAsClient, Issues
  <1>7. CASE UNCHANGED vars
    BY <1>7 DEF vars, Owner, Stored, HeldAsClient, Issues
  <1>8. QED
    BY <1>1, <1>2, <1>3, <1>4, <1>5, <1>6, <1>7 DEF Next, Auth, Sign, Me, Save

\* Once no handler is to save or to sign an owner as a client, none ever is,
\* and every token issued to that owner says Owner.
THEOREM TokensSettleForOwners == Spec => TokensSettle
  <1>1. ASSUME TypeOK, [Next]_vars, NEW u \in UserIds, Owner(u) /\ ~HeldAsClient(u)
        PROVE  /\ (Owner(u) /\ ~HeldAsClient(u))'
               /\ \A h \in Handlers : Issues(h, u) => [user |-> u, role |-> "Owner"] \in tokens'
    <2>1. SettledUser(u)
      BY <1>1 DEF SettledUser
    <2>2. SettledStep(u)
      BY <1>1, <2>1, TokenSettleStep
    <2>3. QED
      BY <2>2 DEF SettledStep, SettledUser
  <1>2. TypeOK /\ [Next]_vars =>
            [\A u \in UserIds :
               Owner(u) /\ ~HeldAsClient(u) =>
                   /\ (Owner(u) /\ ~HeldAsClient(u))'
                   /\ \A h \in Handlers :
                          Issues(h, u) => [user |-> u, role |-> "Owner"] \in tokens']_vars
    BY <1>1
  <1>3. QED
    BY <1>2, UserTypeCorrect, PTL DEF Spec, TokensSettle
================================================================================
