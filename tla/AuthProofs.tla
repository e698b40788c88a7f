----------------------------- MODULE AuthProofs -----------------------------
(***************************************************************************)
(* What the auth service guarantees for any clients, names, roles, life    *)
(* times and bounds, with requests that interleave and break off between   *)
(* any two statements.  There are four invariants, one on top of the       *)
(* other: types; which handler is at which point (AtPoint); what the       *)
(* tables know of each other (Tables); and, for each of the properties,    *)
(* what a request under way knows of the tables.                           *)
(***************************************************************************)
EXTENDS Auth, FiniteSetTheorems, TLAPS

(* The points of each handler.                                             *)
AtPoint(r) ==
    /\ r.pc = "find" => r.op = "login"
    /\ r.pc \in {"look", "revoke"} => r.op \in {"refresh", "logout"} /\ r.token # NoToken
    /\ r.pc = "insert" => r.op = "register" /\ r.token # NoToken /\ r.token.role = "admin"
    /\ r.pc \in {"check", "apply"} <=> r.op = "manage"
    /\ r.op = "manage" => r.token # NoToken /\ r.token.role = "admin"
    /\ r.pc = "user" => r.op = "refresh" /\ r.token # NoToken
    /\ r.pc = "save" => r.op \in {"login", "register", "refresh"} /\ r.user # NoUser
    /\ r.late => r.op = "refresh"

Shape == TypeOK /\ \A c \in Clients : AtPoint(req[c])

(* An administrator's request has seen every role its user has had.        *)
RolesSeen ==
    \A c \in Clients : req[c].op = "manage" =>
        /\ RoleOf(users, req[c].token.id) \subseteq req[c].roles
        /\ req[c].pc = "apply" => "admin" \in req[c].roles

(* Keys are unique and refer to rows that are there.                       *)
Holds(n, id) == users[n] # NoUser /\ users[n].id = id

Tables ==
    /\ \A m, n \in Names : users[n] # NoUser /\ Holds(m, users[n].id) => m = n
    /\ \A n \in Names : users[n] # NoUser => users[n].id <= serial
    /\ \A row \in rows : \E n \in Names : Holds(n, row.token.id)
    /\ \A row \in rows : row.no <= serial /\ row.root <= serial
    /\ \A row, other \in rows : row.no = other.no => row = other

(* A refresh that has found its row, and one that has revoked it.          *)
InSession(r) == r.op = "refresh" /\ r.pc \in {"revoke", "user", "save"}
Carries(r) == r.op = "refresh" /\ r.pc \in {"user", "save"}

(* A session that is not raced is in one hand: a row that is not revoked,  *)
(* and perhaps the refresh that has found it, or the refresh that has      *)
(* revoked it and will insert the next row.                                *)
OneHand ==
    /\ \A c \in Clients : InSession(req[c]) => req[c].root <= serial
    /\ \A c, d \in Clients :
         InSession(req[c]) /\ InSession(req[d]) /\ req[c].root = req[d].root
             /\ req[c].root \notin raced => c = d
    /\ \A c \in Clients : \A row \in rows :
         InSession(req[c]) /\ row.root = req[c].root /\ ~row.revoked /\ row.root \notin raced
             => ~Carries(req[c]) /\ row.no = req[c].stored

(* No account has this key any more, or ever again.                        *)
Dead(id) == id <= serial /\ \A n \in Names : ~Holds(n, id)

(* A refresh that came too late: its user is gone, or a revoked row of its *)
(* token is still there, and another one if it gets as far as revoking.    *)
Spent(token) ==
    Dead(token.id) \/ \E row \in rows : row.token = token /\ row.revoked

SpentTwice(token) ==
    Dead(token.id) \/ \E row, other \in rows :
        row.token = token /\ row.revoked /\ other.token = token /\ other.no # row.no

LateKnown ==
    \A c \in Clients : req[c].late =>
        /\ req[c].pc = "look" => Spent(req[c].token)
        /\ req[c].pc = "revoke" => SpentTwice(req[c].token)

----------------------------------------------------------------------------
(* Types and points                                                        *)

LEMMA IdleShape == Idle \in Handling /\ AtPoint(Idle)
  BY AuthAssumption DEF Idle, Handling, AtPoint

LEMMA RolesAreRoles ==
  ASSUME NEW table \in [Names -> User \cup {NoUser}], NEW id
  PROVE  RoleOf(table, id) \subseteq Roles
  BY DEF RoleOf, User

(* A request goes on and the table users stays.                            *)
LEMMA SetShape ==
  ASSUME Shape, NEW c \in Clients, NEW r \in Handling, AtPoint(r), Set(c, r)
  PROVE  req' \in [Clients -> Handling] /\ \A d \in Clients : AtPoint(req'[d])
  BY DEF Shape, TypeOK, Set

(* A request changes the table users and goes on.                          *)
LEMMA BecomesShape ==
  ASSUME Shape, NEW c \in Clients, NEW r \in Handling, AtPoint(r),
         NEW table \in [Names -> User \cup {NoUser}], Becomes(table, c, r)
  PROVE  /\ users' = table
         /\ req' \in [Clients -> Handling] /\ \A d \in Clients : AtPoint(req'[d])
         /\ req'[c] = r
         /\ \A d \in Clients \ {c} :
              /\ req[d].op # "manage" => req'[d] = req[d]
              /\ req[d].op = "manage" =>
                    req'[d] = [req[d] EXCEPT !.roles = @ \cup RoleOf(table, req[d].token.id)]
<1>1. users' = table /\ req'[c] = r
  BY DEF Becomes, Shape, TypeOK
<1>2. ASSUME NEW d \in Clients \ {c}
      PROVE  /\ req[d].op # "manage" => req'[d] = req[d]
             /\ req[d].op = "manage" =>
                   req'[d] = [req[d] EXCEPT !.roles = @ \cup RoleOf(table, req[d].token.id)]
             /\ req'[d] \in Handling /\ AtPoint(req'[d])
  <2>1. req[d] \in Handling /\ AtPoint(req[d])
    BY DEF Shape, TypeOK
  <2>2. CASE req[d].op # "manage"
    BY <2>1, <2>2 DEF Becomes
  <2>3. CASE req[d].op = "manage"
    <3> DEFINE seen == RoleOf(table, req[d].token.id)
    <3>1. seen \subseteq Roles
      BY RolesAreRoles
    <3>2. req'[d] = [req[d] EXCEPT !.roles = @ \cup seen]
      BY <2>3 DEF Becomes
    <3> HIDE DEF seen
    <3>3. [req[d] EXCEPT !.roles = @ \cup seen] \in Handling
      BY <2>1, <3>1 DEF Handling
    <3>4. AtPoint([req[d] EXCEPT !.roles = @ \cup seen])
      BY <2>1 DEF AtPoint, Handling
    <3> QED
      BY <2>3, <3>2, <3>3, <3>4 DEF seen
  <2> QED
    BY <2>2, <2>3
<1>3. req' \in [Clients -> Handling]
  <2>1. DOMAIN req' = Clients /\ req' = [d \in Clients |-> req'[d]]
    BY DEF Becomes
  <2> QED
    BY <1>1, <1>2, <2>1
<1> QED
  BY <1>1, <1>2, <1>3

LEMMA RequestShape ==
  ASSUME Shape, NEW c \in Clients, Request(c)
  PROVE  Shape'
<1> DEFINE made(op, pc, token) ==
             [Idle EXCEPT !.op = op, !.pc = pc, !.token = token,
                          !.late = op = "refresh" /\ Revoked(token),
                          !.roles = IF op = "manage" THEN RoleOf(users, token.id) ELSE {}]
<1>1. PICK op, pc, token :
        /\ Arrive(c, op, pc, token)
        /\ \/ op = "login" /\ pc = "find" /\ token = NoToken
           \/ op = "refresh" /\ pc = "look" /\ token \in issued
           \/ op = "logout" /\ pc = "look" /\ token \in issued
           \/ op = "register" /\ pc = "insert" /\ token \in issued /\ token.role = "admin"
           \/ op = "manage" /\ pc = "check" /\ token \in issued /\ token.role = "admin"
  BY DEF Request, GatewayPasses, RequiredRoles
<1>2. token \in Token \cup {NoToken} /\ (token \in issued => token # NoToken)
  BY <1>1, AuthAssumption DEF Shape, TypeOK, Token
<1>3. (IF op = "manage" THEN RoleOf(users, token.id) ELSE {}) \in SUBSET Roles
  BY RolesAreRoles DEF Shape, TypeOK
<1>4. (op = "refresh" /\ Revoked(token)) \in BOOLEAN
  OBVIOUS
<1>5. made(op, pc, token) \in Handling
  BY <1>1, <1>2, <1>3, <1>4, IdleShape DEF Handling, Idle
<1>6. AtPoint(made(op, pc, token))
  BY <1>1, <1>2 DEF AtPoint, Idle
<1>7. Set(c, made(op, pc, token)) /\ UNCHANGED <<users, rows, serial, issued, now, raced>>
  BY <1>1 DEF Arrive
<1> QED
  BY <1>5, <1>6, <1>7, SetShape DEF Shape, TypeOK

LEMMA CheckShape ==
  ASSUME Shape, NEW c \in Clients, Check(c)
  PROVE  Shape'
<1>1. req[c] \in Handling /\ AtPoint(req[c]) /\ req[c].pc = "check"
  BY DEF Shape, TypeOK, Check
<1> DEFINE next == [req[c] EXCEPT !.pc = "apply"]
<1>2. next \in Handling /\ AtPoint(next)
  BY <1>1 DEF Handling, AtPoint
<1>3. Set(c, next) \/ Set(c, Idle)
  BY DEF Check, Ends
<1>4. req' \in [Clients -> Handling] /\ \A d \in Clients : AtPoint(req'[d])
  BY <1>2, <1>3, IdleShape, SetShape
<1> QED
  BY <1>4 DEF Check, Shape, TypeOK

(* The user table after each of the statements that change it.             *)
LEMMA InsertShape ==
  ASSUME Shape, NEW c \in Clients, NEW name \in Names, NEW role \in Roles, NEW goesOn \in BOOLEAN,
         InsertUser(c, name, role, goesOn)
  PROVE  Shape'
<1> DEFINE user == [id |-> serial + 1, role |-> role]
           table == [users EXCEPT ![name] = user]
           saving == [Idle EXCEPT !.op = "register", !.pc = "save", !.user = user, !.name = name]
<1>1. user \in User /\ user # NoUser /\ serial' \in 1..MaxSerial
  BY AuthAssumption DEF User, InsertUser, Shape, TypeOK
<1>2. table \in [Names -> User \cup {NoUser}]
  BY <1>1 DEF Shape, TypeOK
<1>3. saving \in Handling /\ AtPoint(saving)
  BY <1>1, IdleShape DEF Handling, Idle, AtPoint
<1>4. Becomes(table, c, saving) \/ Becomes(table, c, Idle)
  BY DEF InsertUser
<1> HIDE DEF table, saving
<1>5. /\ users' = table /\ req' \in [Clients -> Handling] /\ \A d \in Clients : AtPoint(req'[d])
  BY <1>2, <1>3, <1>4, IdleShape, BecomesShape
<1> QED
  BY <1>1, <1>2, <1>5 DEF InsertUser, Shape, TypeOK

LEMMA UpdateTypes ==
  ASSUME Shape, NEW n \in Names, NEW new \in Names, NEW role \in Roles, users[n] # NoUser
  PROVE  /\ [users EXCEPT ![n].role = role] \in [Names -> User \cup {NoUser}]
         /\ [users EXCEPT ![n] = NoUser] \in [Names -> User \cup {NoUser}]
         /\ [[users EXCEPT ![n] = NoUser] EXCEPT ![new] = [users[n] EXCEPT !.role = role]]
                \in [Names -> User \cup {NoUser}]
<1>1. users \in [Names -> User \cup {NoUser}] /\ users[n] \in User
  BY DEF Shape, TypeOK
<1>2. [users[n] EXCEPT !.role = role] \in User
  BY <1>1 DEF User
<1> QED
  BY <1>1, <1>2

LEMMA UpdateShape ==
  ASSUME Shape, NEW c \in Clients, UpdateRole(c) \/ UpdateUser(c) \/ DeleteUser(c)
  PROVE  Shape'
<1>1. PICK table \in [Names -> User \cup {NoUser}] :
        Becomes(table, c, Idle) /\ rows' \subseteq rows /\ UNCHANGED <<serial, issued, now, raced>>
  <2>1. CASE UpdateRole(c)
    BY <2>1, UpdateTypes DEF UpdateRole, Known
  <2>2. CASE UpdateUser(c)
    <3> DEFINE table(n, new, role) ==
                 [[users EXCEPT ![n] = NoUser] EXCEPT ![new] = [users[n] EXCEPT !.role = role]]
    <3>1. PICK n \in Names, new \in Names, role \in Roles :
            /\ users[n] # NoUser /\ Becomes(table(n, new, role), c, Idle)
            /\ UNCHANGED <<rows, serial, issued, now, raced>>
      BY <2>2, Zenon DEF UpdateUser, Known
    <3>2. table(n, new, role) \in [Names -> User \cup {NoUser}]
      BY <3>1, UpdateTypes
    <3>3. rows' \subseteq rows
      BY <3>1
    <3> HIDE DEF table
    <3> QED
      BY <3>1, <3>2, <3>3, Zenon
  <2>3. CASE DeleteUser(c)
    <3> DEFINE table(n) == [users EXCEPT ![n] = NoUser]
    <3>1. PICK n \in Names : users[n] # NoUser /\ Becomes(table(n), c, Idle)
      BY <2>3, Zenon DEF DeleteUser, Known
    <3>2. table(n) \in [Names -> User \cup {NoUser}]
      BY <3>1 DEF Shape, TypeOK
    <3>3. rows' \subseteq rows /\ UNCHANGED <<serial, issued, now, raced>>
      BY <2>3 DEF DeleteUser
    <3> HIDE DEF table
    <3> QED
      BY <3>1, <3>2, <3>3, Zenon
  <2> QED
    BY <2>1, <2>2, <2>3
<1>2. users' = table /\ req' \in [Clients -> Handling] /\ \A d \in Clients : AtPoint(req'[d])
  BY <1>1, IdleShape, BecomesShape
<1> QED
  BY <1>1, <1>2 DEF Shape, TypeOK

LEMMA FoundShape ==
  ASSUME Shape, NEW c \in Clients, FindUser(c) \/ GetUser(c)
  PROVE  Shape'
<1>1. PICK n \in Names : users[n] # NoUser /\ Found(c, n)
  BY DEF FindUser, GetUser
<1> DEFINE next == [req[c] EXCEPT !.pc = "save", !.user = users[n], !.name = n, !.token = NoToken]
<1>2. /\ req[c] \in Handling /\ AtPoint(req[c]) /\ req[c].pc \in {"find", "user"}
      /\ users[n] \in User
  BY <1>1 DEF Shape, TypeOK, FindUser, GetUser
<1>3. next \in Handling /\ AtPoint(next)
  BY <1>1, <1>2 DEF Handling, AtPoint
<1>4. req' \in [Clients -> Handling] /\ \A d \in Clients : AtPoint(req'[d])
  BY <1>1, <1>3, SetShape DEF Found
<1> QED
  BY <1>4 DEF FindUser, GetUser, Shape, TypeOK

LEMMA LookShape ==
  ASSUME Shape, NEW c \in Clients, Look(c)
  PROVE  Shape'
<1>1. PICK row \in rows :
        /\ Set(c, [req[c] EXCEPT !.pc = "revoke", !.stored = row.no, !.root = row.root])
        /\ raced' \subseteq raced \cup {row.root}
  BY DEF Look, Overlaps
<1> DEFINE next == [req[c] EXCEPT !.pc = "revoke", !.stored = row.no, !.root = row.root]
<1>2. /\ req[c] \in Handling /\ AtPoint(req[c]) /\ req[c].pc = "look"
      /\ row.no \in Nat /\ row.root \in Nat
  BY DEF Shape, TypeOK, Look, Row
<1>3. next \in Handling /\ AtPoint(next)
  BY <1>2 DEF Handling, AtPoint
<1>4. req' \in [Clients -> Handling] /\ \A d \in Clients : AtPoint(req'[d])
  BY <1>1, <1>3, SetShape
<1>5. UNCHANGED <<users, rows, serial, issued, now>>
  BY DEF Look
<1>6. raced' \subseteq Nat
  BY <1>1, <1>2 DEF Shape, TypeOK
<1> HIDE DEF next
<1> QED
  BY <1>4, <1>5, <1>6 DEF Shape, TypeOK

LEMMA RevokeShape ==
  ASSUME Shape, NEW c \in Clients, Revoke(c)
  PROVE  Shape'
<1> DEFINE next == [req[c] EXCEPT !.pc = "user", !.stored = 0, !.late = FALSE]
<1>1. /\ req[c] \in Handling /\ AtPoint(req[c]) /\ req[c].pc = "revoke"
      /\ IF req[c].op = "logout" THEN Set(c, Idle) ELSE Set(c, next)
  BY DEF Shape, TypeOK, Revoke, Ends
<1>3. req[c].op # "logout" => next \in Handling /\ AtPoint(next)
  BY <1>1 DEF Handling, AtPoint
<1>4. req' \in [Clients -> Handling] /\ \A d \in Clients : AtPoint(req'[d])
  BY <1>1, <1>3, IdleShape, SetShape
<1>5. rows' \subseteq Row
  <2>1. ASSUME NEW row \in rows PROVE [row EXCEPT !.revoked = TRUE] \in Row
    BY DEF Shape, TypeOK, Row
  <2> QED
    BY <2>1 DEF Revoke, RevokedRows, Shape, TypeOK
<1> QED
  BY <1>4, <1>5 DEF Revoke, Shape, TypeOK

LEMMA SaveShape ==
  ASSUME Shape, NEW c \in Clients, NEW answered \in BOOLEAN, SaveRefreshToken(c, answered)
  PROVE  Shape'
<1> DEFINE r == req[c]
           token == [name |-> r.name, id |-> r.user.id, role |-> r.user.role, at |-> now]
           row == [no |-> serial + 1, token |-> token, revoked |-> FALSE,
                   root |-> IF r.op = "refresh" THEN r.root ELSE serial + 1]
<1>1. r \in Handling /\ AtPoint(r) /\ r.pc = "save" /\ serial' \in 1..MaxSerial
  BY AuthAssumption DEF Shape, TypeOK, SaveRefreshToken
<1>2. r.user \in User /\ r.root \in Nat /\ r.name \in Names
  BY <1>1 DEF Handling, AtPoint
<1>3. token \in Token
  BY <1>2 DEF Token, User, Shape, TypeOK
<1>4. row \in Row
  BY <1>2, <1>3 DEF Row, Shape, TypeOK
<1>5. /\ rows' = rows \cup {row} /\ issued' \subseteq issued \cup {token}
      /\ Set(c, Idle) /\ UNCHANGED <<users, now, raced>>
  BY DEF SaveRefreshToken, Ends
<1>6. req' \in [Clients -> Handling] /\ \A d \in Clients : AtPoint(req'[d])
  BY <1>5, IdleShape, SetShape
<1> QED
  BY <1>1, <1>3, <1>4, <1>5, <1>6 DEF Shape, TypeOK

LEMMA BreaksShape ==
  ASSUME Shape, NEW c \in Clients, Breaks(c)
  PROVE  Shape'
<1>1. req' \in [Clients -> Handling] /\ \A d \in Clients : AtPoint(req'[d])
  BY IdleShape, SetShape DEF Breaks, Ends
<1> QED
  BY <1>1 DEF Breaks, Shape, TypeOK

LEMMA ShapeInit == Init => Shape
<1> SUFFICES ASSUME Init PROVE Shape
  OBVIOUS
<1>1. users \in [Names -> User \cup {NoUser}]
  BY AuthAssumption DEF Init, User
<1>2. req \in [Clients -> Handling] /\ \A c \in Clients : AtPoint(req[c])
  BY IdleShape DEF Init
<1> QED
  BY <1>1, <1>2, AuthAssumption DEF Init, Shape, TypeOK

LEMMA ShapeStep == Shape /\ [Next]_vars => Shape'
<1> SUFFICES ASSUME Shape, [Next]_vars PROVE Shape'
  OBVIOUS
<1>1. ASSUME NEW c \in Clients, Register(c) \/ CreateUser(c) PROVE Shape'
  BY <1>1, InsertShape, AuthAssumption DEF Register, CreateUser
<1>2. CASE Tick
  BY <1>2, AuthAssumption DEF Tick, Shape, TypeOK
<1>3. CASE UNCHANGED vars
  BY <1>3 DEF vars, Shape, TypeOK
<1> QED
  BY <1>1, <1>2, <1>3, RequestShape, CheckShape, UpdateShape, FoundShape, LookShape, RevokeShape,
     SaveShape, BreaksShape DEF Next

(* The tables and the requests keep their types, whoever asks for what.    *)
THEOREM TypeCorrect == Spec => []TypeOK
<1>1. Shape => TypeOK
  BY DEF Shape
<1> QED
  BY <1>1, ShapeInit, ShapeStep, PTL DEF Spec

----------------------------------------------------------------------------
(* What a step leaves alone                                                *)

QuietStep(c) ==
    \/ Request(c) \/ Check(c) \/ FindUser(c) \/ Look(c) \/ Revoke(c) \/ GetUser(c) \/ Breaks(c)
    \/ \E answered \in BOOLEAN : SaveRefreshToken(c, answered)

UserStep(c) ==
    Register(c) \/ CreateUser(c) \/ UpdateRole(c) \/ UpdateUser(c) \/ DeleteUser(c)

LEMMA Steps == Next => Tick \/ \E c \in Clients : QuietStep(c) \/ UserStep(c)
  BY DEF Next, QuietStep, UserStep

(* r goes on as s, but may have seen more roles.                           *)
Same(r, s) ==
    /\ s.op = r.op /\ s.pc = r.pc /\ s.token = r.token /\ s.stored = r.stored /\ s.root = r.root
    /\ s.user = r.user /\ s.name = r.name /\ s.late = r.late

LEMMA QuietOthers ==
  ASSUME Shape, NEW c \in Clients, QuietStep(c)
  PROVE  users' = users /\ \A d \in Clients \ {c} : req'[d] = req[d]
  BY DEF QuietStep, Request, Arrive, Check, FindUser, Found, Look, Revoke, GetUser, Breaks,
         SaveRefreshToken, Ends, Set, Shape, TypeOK

LEMMA BecomesOthers ==
  ASSUME Shape, NEW c \in Clients, NEW r \in Handling, AtPoint(r),
         NEW table \in [Names -> User \cup {NoUser}], Becomes(table, c, r)
  PROVE  /\ users' = table /\ req'[c] = r
         /\ \A d \in Clients \ {c} : Same(req[d], req'[d])
         /\ \A d \in Clients \ {c} : req[d].op = "manage" =>
              req'[d].roles = req[d].roles \cup RoleOf(users', req[d].token.id)
<1>1. ASSUME NEW d \in Clients \ {c}
      PROVE  /\ Same(req[d], req'[d])
             /\ req[d].op = "manage" =>
                  req'[d].roles = req[d].roles \cup RoleOf(users', req[d].token.id)
  <2>1. req[d] \in Handling
    BY DEF Shape, TypeOK
  <2>2. CASE req[d].op # "manage"
    <3>1. req'[d] = req[d]
      BY <2>2, BecomesShape
    <3> QED
      BY <2>2, <3>1 DEF Same
  <2>3. CASE req[d].op = "manage"
    <3>1. /\ users' = table
          /\ req'[d] = [req[d] EXCEPT !.roles = @ \cup RoleOf(table, req[d].token.id)]
      BY <2>3, BecomesShape
    <3> QED
      BY <2>1, <3>1 DEF Same, Handling
  <2> QED
    BY <2>2, <2>3
<1> QED
  BY <1>1, BecomesShape

(* The five statements, with the table they leave.                         *)
LEMMA UserStatements ==
  ASSUME Shape, NEW c \in Clients, UserStep(c)
  PROVE  \E table \in [Names -> User \cup {NoUser}], r \in Handling :
           /\ Becomes(table, c, r) /\ AtPoint(r) /\ r.op # "manage" /\ ~InSession(r) /\ ~r.late
           /\ UNCHANGED <<issued, now, raced>>
           /\ \/ \E n \in Names :       \* INSERT
                   /\ users[n] = NoUser /\ table = [users EXCEPT ![n] = table[n]]
                   /\ table[n] # NoUser /\ table[n].id = serial + 1
                   /\ serial' = serial + 1 /\ rows' = rows
              \/ \E n, new \in Names :  \* UPDATE
                   /\ users[n] # NoUser /\ (new = n \/ users[new] = NoUser)
                   /\ table = [[users EXCEPT ![n] = NoUser] EXCEPT ![new] = table[new]]
                   /\ table[new] # NoUser /\ table[new].id = users[n].id
                   /\ serial' = serial /\ rows' = rows
              \/ \E n \in Names :       \* DELETE
                   /\ users[n] # NoUser /\ table = [users EXCEPT ![n] = NoUser]
                   /\ serial' = serial
                   /\ rows' = {row \in rows : row.token.id # users[n].id}
<1>0. Idle.op # "manage" /\ ~InSession(Idle) /\ ~Idle.late
  BY DEF Idle, InSession
<1>1. CASE Register(c) \/ CreateUser(c)
  <2> DEFINE user(role) == [id |-> serial + 1, role |-> role]
             saving(n, role) ==
               [Idle EXCEPT !.op = "register", !.pc = "save", !.user = user(role), !.name = n]
  <2>1. PICK n \in Names, role \in Roles, goesOn \in BOOLEAN : InsertUser(c, n, role, goesOn)
    BY <1>1, AuthAssumption DEF Register, CreateUser
  <2>2. user(role) \in User /\ user(role) # NoUser
    BY AuthAssumption DEF User, Shape, TypeOK
  <2>3. /\ saving(n, role) \in Handling /\ AtPoint(saving(n, role)) /\ saving(n, role).op # "manage"
        /\ ~InSession(saving(n, role)) /\ ~saving(n, role).late
    BY <2>2, IdleShape DEF Handling, Idle, AtPoint, InSession
  <2> DEFINE table == [users EXCEPT ![n] = user(role)]
  <2>4. table \in [Names -> User \cup {NoUser}] /\ table[n] = user(role)
    BY <2>2 DEF Shape, TypeOK
  <2>5. /\ users[n] = NoUser /\ serial' = serial + 1 /\ UNCHANGED <<rows, issued, now, raced>>
        /\ Becomes(table, c, saving(n, role)) \/ Becomes(table, c, Idle)
    BY <2>1 DEF InsertUser
  <2>6. table = [users EXCEPT ![n] = table[n]] /\ table[n].id = serial + 1 /\ table[n] # NoUser
    BY <2>2, <2>4
  <2>7. PICK r \in Handling : /\ Becomes(table, c, r) /\ AtPoint(r) /\ r.op # "manage"
                              /\ ~InSession(r) /\ ~r.late
    BY <2>3, <2>5, <1>0, IdleShape
  <2> HIDE DEF table, user, saving
  <2> QED
    BY <2>4, <2>5, <2>6, <2>7
<1>2. CASE UpdateRole(c)
  <2> DEFINE table(n, role) == [users EXCEPT ![n].role = role]
  <2>1. PICK n \in Names, role \in Roles :
          Known(c, n) /\ Becomes(table(n, role), c, Idle) /\ UNCHANGED <<rows, serial, issued, now, raced>>
    BY <1>2, Zenon DEF UpdateRole
  <2>2. users[n] # NoUser /\ users[n] \in User
    BY <2>1 DEF Known, Shape, TypeOK
  <2>3. table(n, role) \in [Names -> User \cup {NoUser}]
    BY <2>2, UpdateTypes
  <2>4. table(n, role)[n] \in User /\ table(n, role)[n].id = users[n].id
    BY <2>2 DEF User, Shape, TypeOK
  <2>5. table(n, role) = [[users EXCEPT ![n] = NoUser] EXCEPT ![n] = table(n, role)[n]]
    BY DEF Shape, TypeOK
  <2>6. table(n, role)[n] # NoUser
    BY <2>4, AuthAssumption DEF User
  <2> HIDE DEF table
  <2> QED
    BY <2>1, <2>2, <2>3, <2>4, <2>5, <2>6, <1>0, IdleShape
<1>3. CASE UpdateUser(c)
  <2> DEFINE user(n, role) == [users[n] EXCEPT !.role = role]
             table(n, new, role) == [[users EXCEPT ![n] = NoUser] EXCEPT ![new] = user(n, role)]
  <2>1. PICK n \in Names, new \in Names, role \in Roles :
          /\ Known(c, n) /\ (new = n \/ users[new] = NoUser)
          /\ Becomes(table(n, new, role), c, Idle)
          /\ UNCHANGED <<rows, serial, issued, now, raced>>
    BY <1>3, Zenon DEF UpdateUser
  <2>2. users[n] # NoUser /\ users[n] \in User
    BY <2>1 DEF Known, Shape, TypeOK
  <2>3. table(n, new, role) \in [Names -> User \cup {NoUser}]
    BY <2>2, UpdateTypes
  <2>4. user(n, role) \in User /\ user(n, role).id = users[n].id /\ user(n, role) # NoUser
    BY <2>2, AuthAssumption DEF User
  <2> HIDE DEF user
  <2>5. table(n, new, role)[new] = user(n, role)
    BY DEF Shape, TypeOK
  <2>6. table(n, new, role) = [[users EXCEPT ![n] = NoUser] EXCEPT ![new] = table(n, new, role)[new]]
    BY <2>5
  <2> HIDE DEF table
  <2> QED
    BY <2>1, <2>2, <2>3, <2>4, <2>5, <2>6, <1>0, IdleShape
<1>4. CASE DeleteUser(c)
  <2> DEFINE table(n) == [users EXCEPT ![n] = NoUser]
  <2>1. PICK n \in Names :
          /\ Known(c, n) /\ Becomes(table(n), c, Idle)
          /\ rows' = {row \in rows : row.token.id # users[n].id}
          /\ UNCHANGED <<serial, issued, now, raced>>
    BY <1>4, Zenon DEF DeleteUser
  <2>2. users[n] # NoUser /\ table(n) \in [Names -> User \cup {NoUser}]
    BY <2>1 DEF Known, Shape, TypeOK
  <2>3. table(n) = [users EXCEPT ![n] = NoUser]
    OBVIOUS
  <2> HIDE DEF table
  <2> QED
    BY <2>1, <2>2, <2>3, <1>0, IdleShape
<1> QED
  BY <1>1, <1>2, <1>3, <1>4 DEF UserStep

----------------------------------------------------------------------------
(* Administrators                                                          *)

LEMMA RolesSeenStep == Shape /\ RolesSeen /\ [Next]_vars => RolesSeen'
<1> SUFFICES ASSUME Shape, RolesSeen, [Next]_vars PROVE RolesSeen'
  OBVIOUS
<1>1. ASSUME NEW c \in Clients, QuietStep(c) PROVE RolesSeen'
  <2>1. users' = users /\ \A d \in Clients \ {c} : req'[d] = req[d]
    BY <1>1, QuietOthers
  <2>2. AtPoint(req'[c])
    BY <1>1, ShapeStep DEF Shape
  <2>3. ASSUME req'[c].op = "manage"
        PROVE  /\ RoleOf(users, req'[c].token.id) \subseteq req'[c].roles
               /\ req'[c].pc = "apply" => "admin" \in req'[c].roles
    <3>1. req'[c].pc \in {"check", "apply"}
      BY <2>2, <2>3 DEF AtPoint
    <3>2. CASE Request(c)
      <4>1. PICK op, pc, token : Arrive(c, op, pc, token) /\ pc # "apply"
        BY <3>2 DEF Request
      <4>2. req'[c] = [Idle EXCEPT !.op = op, !.pc = pc, !.token = token,
                          !.late = op = "refresh" /\ Revoked(token),
                          !.roles = IF op = "manage" THEN RoleOf(users, token.id) ELSE {}]
        BY <4>1 DEF Arrive, Set, Shape, TypeOK
      <4>3. req'[c].op = op /\ req'[c].pc = pc /\ req'[c].token = token
            /\ req'[c].roles = IF op = "manage" THEN RoleOf(users, token.id) ELSE {}
        BY <4>2 DEF Idle
      <4> QED
        BY <2>3, <4>1, <4>3
    <3>3. CASE Check(c)
      <4>1. req[c] \in Handling /\ AtPoint(req[c]) /\ req[c].pc = "check"
        BY <3>3 DEF Check, Shape, TypeOK
      <4>2. "admin" \in Trusted(req[c].token) /\ req'[c] = [req[c] EXCEPT !.pc = "apply"]
        BY <2>3, <3>3 DEF Check, Ends, Set, Idle, Shape, TypeOK
      <4>3. req'[c].token = req[c].token /\ req'[c].roles = req[c].roles
        BY <4>1, <4>2 DEF Handling
      <4> QED
        BY <4>1, <4>2, <4>3 DEF RolesSeen, AtPoint, Trusted
    <3>4. CASE ~Request(c) /\ ~Check(c)
      <4>1. req[c] \in Handling
        BY DEF Shape, TypeOK
      <4>2. req'[c].pc \notin {"check", "apply"}
        <5>1. CASE FindUser(c) \/ GetUser(c)
          <6>1. PICK n \in Names : Found(c, n)
            BY <5>1 DEF FindUser, GetUser
          <6>2. req'[c] = [req[c] EXCEPT !.pc = "save", !.user = users[n], !.name = n, !.token = NoToken]
            BY <6>1 DEF Found, Set, Shape, TypeOK
          <6> QED
            BY <4>1, <6>2 DEF Handling
        <5>2. CASE Look(c)
          <6>1. PICK row \in rows : Set(c, [req[c] EXCEPT !.pc = "revoke", !.stored = row.no, !.root = row.root])
            BY <5>2 DEF Look
          <6>2. req'[c] = [req[c] EXCEPT !.pc = "revoke", !.stored = row.no, !.root = row.root]
            BY <6>1 DEF Set, Shape, TypeOK
          <6> QED
            BY <4>1, <6>2 DEF Handling
        <5>3. CASE Revoke(c)
          <6>1. \/ req'[c] = [req[c] EXCEPT !.pc = "user", !.stored = 0, !.late = FALSE]
                \/ req'[c] = Idle
            BY <5>3 DEF Revoke, Ends, Set, Shape, TypeOK
          <6>2. CASE req'[c] = Idle
            BY <6>2 DEF Idle
          <6>3. CASE req'[c] = [req[c] EXCEPT !.pc = "user", !.stored = 0, !.late = FALSE]
            BY <4>1, <6>3 DEF Handling
          <6> QED
            BY <6>1, <6>2, <6>3
        <5>4. CASE Breaks(c) \/ \E answered \in BOOLEAN : SaveRefreshToken(c, answered)
          BY <4>1, <5>4 DEF Breaks, SaveRefreshToken, Ends, Set, Idle, Shape, TypeOK
        <5> QED
          BY <1>1, <3>4, <5>1, <5>2, <5>3, <5>4 DEF QuietStep
      <4> QED
        BY <3>1, <4>2
    <3> QED
      BY <3>2, <3>3, <3>4
  <2> QED
    BY <2>1, <2>3 DEF RolesSeen
<1>2. ASSUME NEW c \in Clients, UserStep(c) PROVE RolesSeen'
  <2>1. /\ \A d \in Clients \ {c} : Same(req[d], req'[d])
        /\ \A d \in Clients \ {c} : req[d].op = "manage" =>
             req'[d].roles = req[d].roles \cup RoleOf(users', req[d].token.id)
        /\ req'[c].op # "manage"
    BY <1>2, UserStatements, BecomesOthers
  <2> QED
    BY <2>1 DEF RolesSeen, Same
<1>3. CASE Tick
  BY <1>3 DEF Tick, RolesSeen
<1>4. CASE UNCHANGED vars
  BY <1>4 DEF vars, RolesSeen
<1> QED
  BY <1>1, <1>2, <1>3, <1>4, Steps

(* The statement that changes an account ends its request, or takes it on. *)
LEMMA PointMoves ==
  ASSUME Shape, NEW c \in Clients, UserStep(c)
  PROVE  req'[c].pc # req[c].pc
<1>1. req[c].pc \in {"insert", "apply"}
  BY DEF UserStep, Register, CreateUser, UpdateRole, UpdateUser, DeleteUser, Known
<1>2. PICK table \in [Names -> User \cup {NoUser}], r \in Handling :
        Becomes(table, c, r) /\ AtPoint(r) /\ r.op # "manage"
  BY UserStatements
<1>3. req'[c] = r /\ r.pc # "apply"
  BY <1>2, BecomesOthers DEF AtPoint
<1>4. CASE req[c].pc = "apply"
  BY <1>3, <1>4
<1>5. CASE Register(c)
  <2>1. PICK n \in Names : InsertUser(c, n, "user", TRUE)
    BY <1>5 DEF Register
  <2> DEFINE saving == [Idle EXCEPT !.op = "register", !.pc = "save",
                                    !.user = [id |-> serial + 1, role |-> "user"], !.name = n]
  <2>2. req'[c] = saving
    BY <2>1, Zenon DEF InsertUser, Becomes, Shape, TypeOK
  <2>3. saving.pc = "save"
    BY DEF Idle
  <2> QED
    BY <1>1, <2>2, <2>3
<1> QED
  BY <1>1, <1>4, <1>5 DEF UserStep, CreateUser, UpdateRole, UpdateUser, DeleteUser, Known

(* Nobody changes or deletes an account, or makes an administrator, with a *)
(* token alone: whatever changes of roles interleave, the role in the data *)
(* base was admin at some time during the request.  With a token alone, as *)
(* far as /register goes, accounts of plain users are added.               *)
THEOREM AdminsManage == Spec => ManagedByAdmins
<1> DEFINE Managed ==
      users' # users =>
        \E c \in Clients :
            /\ req'[c].pc # req[c].pc /\ req[c].token.role = "admin"
            /\ \/ req[c].pc = "apply" /\ "admin" \in req[c].roles
               \/ /\ req[c].pc = "insert"
                  /\ \A n \in Names : users'[n] # users[n] =>
                        users[n] = NoUser /\ users'[n].role = "user"
<1>1. Init => RolesSeen
  BY DEF Init, RolesSeen, Idle
<1>2. ASSUME Shape, RolesSeen, [Next]_vars PROVE [Managed]_vars
  <2> SUFFICES ASSUME Next, users' # users PROVE Managed
    BY <1>2
  <2>1. PICK c \in Clients : UserStep(c)
    BY <1>2, Steps, QuietOthers DEF Tick
  <2>2. req'[c].pc # req[c].pc /\ AtPoint(req[c])
    BY <1>2, <2>1, PointMoves DEF Shape
  <2>3. CASE req[c].pc = "apply"
    BY <1>2, <2>2, <2>3 DEF AtPoint, RolesSeen
  <2>4. CASE Register(c)
    <3>1. PICK n \in Names : InsertUser(c, n, "user", TRUE)
      BY <2>4 DEF Register
    <3>2. users[n] = NoUser /\ users' = [users EXCEPT ![n] = [id |-> serial + 1, role |-> "user"]]
      BY <3>1, Zenon DEF InsertUser, Becomes
    <3>3. \A m \in Names : users'[m] # users[m] => users[m] = NoUser /\ users'[m].role = "user"
      BY <1>2, <3>2 DEF Shape, TypeOK
    <3>4. req[c].pc = "insert"
      BY <2>4 DEF Register
    <3> QED
      BY <2>2, <3>3, <3>4 DEF AtPoint
  <2> QED
    BY <2>1, <2>3, <2>4 DEF UserStep, CreateUser, UpdateRole, UpdateUser, DeleteUser, Known
<1> QED
  BY <1>1, <1>2, ShapeInit, ShapeStep, RolesSeenStep, PTL DEF Spec, ManagedByAdmins

----------------------------------------------------------------------------
(* Keys                                                                    *)

(* Accounts that come, change and go.                                      *)
LEMMA InsertKeeps ==
  ASSUME Shape, Shape', Tables, NEW n \in Names, users[n] = NoUser,
         users' = [users EXCEPT ![n] = users'[n]], users'[n] # NoUser, users'[n].id = serial + 1,
         serial' = serial + 1, rows' = rows
  PROVE  Tables'
<1>1. \A m \in Names \ {n} : users'[m] = users[m]
  BY DEF Shape, TypeOK
<1>2. \A m \in Names : users[m] # NoUser => users[m].id \in Nat /\ users[m].id <= serial
  BY DEF Shape, TypeOK, User, Tables
<1>3. serial \in Nat
  BY DEF Shape, TypeOK
<1>4. \A k, m \in Names : (users[m] # NoUser /\ Holds(k, users[m].id))' => k = m
  BY <1>1, <1>2, <1>3 DEF Tables, Holds
<1>5. \A m \in Names : users'[m] # NoUser => users'[m].id <= serial'
  BY <1>1, <1>2, <1>3
<1>6. \A row \in rows' : \E m \in Names : Holds(m, row.token.id)'
  BY <1>1 DEF Tables, Holds
<1>7. \A row \in rows' : row.no <= serial' /\ row.root <= serial'
  BY <1>3 DEF Tables, Shape, TypeOK, Row
<1> QED
  BY <1>4, <1>5, <1>6, <1>7 DEF Tables

LEMMA UpdateKeeps ==
  ASSUME Shape, Shape', Tables, NEW n \in Names, NEW new \in Names,
         users[n] # NoUser, new = n \/ users[new] = NoUser,
         users' = [[users EXCEPT ![n] = NoUser] EXCEPT ![new] = users'[new]],
         users'[new] # NoUser, users'[new].id = users[n].id,
         serial' = serial, rows' = rows
  PROVE  /\ Tables'
         /\ \A id : (\E m \in Names : Holds(m, id)) <=> (\E m \in Names : Holds(m, id)')
<1>1. \A m \in Names \ {n, new} : users'[m] = users[m]
  BY DEF Shape, TypeOK
<1>2. new # n => users'[n] = NoUser
  BY DEF Shape, TypeOK
<1>3. \A id : (\E m \in Names : Holds(m, id)) <=> (\E m \in Names : Holds(m, id)')
  BY <1>1, <1>2 DEF Holds
<1>4. \A k, m \in Names : (users[m] # NoUser /\ Holds(k, users[m].id))' => k = m
  BY <1>1, <1>2 DEF Tables, Holds
<1>5. \A m \in Names : users'[m] # NoUser => users'[m].id <= serial'
  BY <1>1, <1>2 DEF Tables
<1> QED
  BY <1>3, <1>4, <1>5 DEF Tables

LEMMA DeleteKeeps ==
  ASSUME Shape, Shape', Tables, NEW n \in Names, users[n] # NoUser,
         users' = [users EXCEPT ![n] = NoUser], serial' = serial,
         rows' = {row \in rows : row.token.id # users[n].id}
  PROVE  Tables'
<1>1. \A m \in Names \ {n} : users'[m] = users[m]
  BY DEF Shape, TypeOK
<1>2. users'[n] = NoUser
  BY DEF Shape, TypeOK
<1>4. \A row \in rows' : \E m \in Names : Holds(m, row.token.id)'
  BY <1>1, <1>2 DEF Tables, Holds
<1> QED
  BY <1>1, <1>2, <1>4 DEF Tables, Holds

(* Rows that are revoked keep their keys.                                  *)
LEMMA RevokeKeeps ==
  ASSUME Shape, NEW no
  PROVE  /\ \A row \in RevokedRows(no) : \E old \in rows :
              /\ row.no = old.no /\ row.root = old.root /\ row.token = old.token
              /\ row = IF old.no = no THEN [old EXCEPT !.revoked = TRUE] ELSE old
              /\ row.revoked <=> old.revoked \/ old.no = no
         /\ \A old \in rows : \E row \in RevokedRows(no) :
              /\ row.no = old.no /\ row.root = old.root /\ row.token = old.token
              /\ row.revoked <=> old.revoked \/ old.no = no
<1> DEFINE new(old) == IF old.no = no THEN [old EXCEPT !.revoked = TRUE] ELSE old
<1>1. ASSUME NEW old \in rows
      PROVE  /\ new(old).no = old.no /\ new(old).root = old.root /\ new(old).token = old.token
             /\ new(old).revoked <=> old.revoked \/ old.no = no
  <2>1. old \in Row
    BY DEF Shape, TypeOK
  <2>2. CASE old.no = no
    BY <2>1, <2>2 DEF Row
  <2>3. CASE old.no # no
    BY <2>3
  <2> QED
    BY <2>2, <2>3
<1>2. RevokedRows(no) = {new(old) : old \in rows}
  BY DEF RevokedRows
<1> QED
  BY <1>1, <1>2

LEMMA RevokeTables ==
  ASSUME Shape, Tables, NEW no, rows' = RevokedRows(no), users' = users, serial' = serial
  PROVE  Tables'
<1>2. \A row \in rows' : \E m \in Names : Holds(m, row.token.id)'
  BY RevokeKeeps DEF Tables, Holds
<1>3. \A row \in rows' : row.no <= serial' /\ row.root <= serial'
  BY RevokeKeeps DEF Tables
<1>4. ASSUME NEW row \in rows', NEW other \in rows', row.no = other.no PROVE row = other
  <2> DEFINE new(old) == IF old.no = no THEN [old EXCEPT !.revoked = TRUE] ELSE old
  <2>1. PICK old \in rows : row.no = old.no /\ row = new(old)
    BY RevokeKeeps
  <2>2. PICK old2 \in rows : other.no = old2.no /\ other = new(old2)
    BY RevokeKeeps
  <2>3. old = old2
    BY <1>4, <2>1, <2>2 DEF Tables
  <2> QED
    BY <2>1, <2>2, <2>3
<1> QED
  BY <1>2, <1>3, <1>4 DEF Tables, Holds

----------------------------------------------------------------------------
(* What each step does to the tables and to its own request                *)

(* r may go on as s: as far in its session as before, and not in another.  *)
NoFurther(r, s) ==
    InSession(s) => InSession(r) /\ s.root = r.root /\ s.stored = r.stored /\ (Carries(s) => Carries(r))

(* Rows come from rows, and those that are good have not changed.          *)
OldRows ==
    \A row \in rows' : \E old \in rows :
        /\ old.no = row.no /\ old.root = row.root /\ old.token = row.token
        /\ ~row.revoked => row = old

LEMMA NoFurtherBySame ==
  ASSUME NEW r, NEW s, Same(r, s)
  PROVE  NoFurther(r, s)
  BY DEF NoFurther, Same, InSession, Carries

LEMMA QuietRequests ==
  ASSUME Shape, NEW c \in Clients,
         Request(c) \/ Check(c) \/ FindUser(c) \/ GetUser(c) \/ Breaks(c)
  PROVE  /\ UNCHANGED <<rows, serial, raced>> /\ NoFurther(req[c], req'[c])
         /\ req'[c].late /\ req'[c].pc \in {"look", "revoke"} => req'[c].pc = "look" /\ Revoked(req'[c].token)
<1>1. /\ UNCHANGED <<rows, serial, raced>>
      /\ req[c] \in Handling /\ AtPoint(req[c])
  BY DEF Request, Arrive, Check, FindUser, GetUser, Breaks, Shape, TypeOK
<1>2. CASE Request(c)
  <2>1. PICK op, pc, token : Arrive(c, op, pc, token) /\ pc \in {"find", "look", "insert", "check"}
    BY <1>2 DEF Request
  <2>2. req'[c] = [Idle EXCEPT !.op = op, !.pc = pc, !.token = token,
                          !.late = op = "refresh" /\ Revoked(token),
                          !.roles = IF op = "manage" THEN RoleOf(users, token.id) ELSE {}]
    BY <2>1 DEF Arrive, Set, Shape, TypeOK
  <2>3. req'[c].op = op /\ req'[c].pc = pc /\ req'[c].token = token
        /\ req'[c].late = (op = "refresh" /\ Revoked(token))
    BY <2>2 DEF Idle
  <2> QED
    BY <1>1, <2>1, <2>3 DEF NoFurther, InSession
<1>3. CASE Check(c)
  <2>1. req'[c] = [req[c] EXCEPT !.pc = "apply"] \/ req'[c] = Idle
    BY <1>3 DEF Check, Ends, Set, Shape, TypeOK
  <2>2. req'[c].pc \in {"apply", "idle"}
    BY <1>1, <2>1 DEF Handling, Idle
  <2> QED
    BY <1>1, <2>2 DEF NoFurther, InSession
<1>4. CASE FindUser(c) \/ GetUser(c)
  <2>1. PICK n \in Names : Found(c, n)
    BY <1>4 DEF FindUser, GetUser
  <2>2. req'[c] = [req[c] EXCEPT !.pc = "save", !.user = users[n], !.name = n, !.token = NoToken]
    BY <2>1 DEF Found, Set, Shape, TypeOK
  <2>3. req'[c].op = req[c].op /\ req'[c].pc = "save" /\ req'[c].root = req[c].root
        /\ req'[c].stored = req[c].stored
    BY <1>1, <2>2 DEF Handling
  <2>4. (req[c].pc = "find" /\ req[c].op = "login") \/ (req[c].pc = "user" /\ req[c].op = "refresh")
    BY <1>1, <1>4 DEF FindUser, GetUser, AtPoint
  <2> QED
    BY <1>1, <2>3, <2>4 DEF NoFurther, InSession, Carries
<1>5. CASE Breaks(c)
  <2>1. req'[c].pc = "idle"
    BY <1>5 DEF Breaks, Ends, Set, Idle, Shape, TypeOK
  <2> QED
    BY <1>1, <2>1 DEF NoFurther, InSession
<1> QED
  BY <1>2, <1>3, <1>4, <1>5

LEMMA LookRequest ==
  ASSUME Shape, NEW c \in Clients, Look(c)
  PROVE  \E row \in rows :
           /\ UNCHANGED <<rows, serial>> /\ req[c].pc = "look"
           /\ row.token = req[c].token /\ (req[c].op = "refresh" => ~row.revoked)
           /\ raced' = raced \cup (IF req[c].op = "refresh" THEN Overlaps(c, row) ELSE {})
           /\ req'[c].op = req[c].op /\ req'[c].pc = "revoke" /\ req'[c].token = req[c].token
           /\ req'[c].stored = row.no /\ req'[c].root = row.root /\ req'[c].late = req[c].late
<1>1. PICK row \in rows :
        /\ Set(c, [req[c] EXCEPT !.pc = "revoke", !.stored = row.no, !.root = row.root])
        /\ row.token = req[c].token /\ (req[c].op = "refresh" => ~row.revoked)
        /\ raced' = raced \cup (IF req[c].op = "refresh" THEN Overlaps(c, row) ELSE {})
  BY DEF Look, StillGood
<1>2. req'[c] = [req[c] EXCEPT !.pc = "revoke", !.stored = row.no, !.root = row.root]
  BY <1>1 DEF Set, Shape, TypeOK
<1>3. req[c] \in Handling
  BY DEF Shape, TypeOK
<1>4. /\ req'[c].op = req[c].op /\ req'[c].pc = "revoke" /\ req'[c].token = req[c].token
      /\ req'[c].stored = row.no /\ req'[c].root = row.root /\ req'[c].late = req[c].late
  BY <1>2, <1>3 DEF Handling
<1> QED
  BY <1>1, <1>4 DEF Look

LEMMA RevokeRequest ==
  ASSUME Shape, NEW c \in Clients, Revoke(c)
  PROVE  /\ UNCHANGED <<serial, raced>> /\ rows' = RevokedRows(req[c].stored)
         /\ req[c].pc = "revoke" /\ OldRows
         /\ req[c].op = "logout" => req'[c] = Idle
         /\ req[c].op # "logout" =>
              /\ req[c].op = "refresh" /\ req'[c].op = "refresh"
              /\ req'[c].pc = "user" /\ req'[c].root = req[c].root
<1>1. OldRows
  BY RevokeKeeps DEF OldRows, Revoke
<1>2. req[c] \in Handling /\ AtPoint(req[c])
  BY DEF Shape, TypeOK
<1>3. ASSUME req[c].op # "logout"
      PROVE  /\ req[c].op = "refresh" /\ req'[c].op = "refresh"
             /\ req'[c].pc = "user" /\ req'[c].root = req[c].root
  <2>1. req'[c] = [req[c] EXCEPT !.pc = "user", !.stored = 0, !.late = FALSE]
    BY <1>3 DEF Revoke, Set, Shape, TypeOK
  <2> QED
    BY <1>2, <1>3, <2>1 DEF Handling, Revoke, AtPoint
<1> QED
  BY <1>1, <1>3 DEF Revoke, Ends, Set, Shape, TypeOK

LEMMA SaveRequest ==
  ASSUME Shape, NEW c \in Clients, NEW answered \in BOOLEAN, SaveRefreshToken(c, answered)
  PROVE  \E row \in Row :
           /\ req[c].pc = "save" /\ req'[c] = Idle /\ UNCHANGED raced
           /\ serial' = serial + 1 /\ rows' = rows \cup {row}
           /\ row.no = serial + 1 /\ ~row.revoked
           /\ \E n \in Names : Holds(n, row.token.id)
           /\ row.root = IF req[c].op = "refresh" THEN req[c].root ELSE serial + 1
<1> DEFINE r == req[c]
           token == [name |-> r.name, id |-> r.user.id, role |-> r.user.role, at |-> now]
           row == [no |-> serial + 1, token |-> token, revoked |-> FALSE,
                   root |-> IF r.op = "refresh" THEN r.root ELSE serial + 1]
<1>1. r \in Handling /\ AtPoint(r) /\ r.pc = "save"
  BY DEF Shape, TypeOK, SaveRefreshToken
<1>2. r.user \in User /\ r.root \in Nat /\ r.name \in Names
  BY <1>1 DEF Handling, AtPoint
<1>3. token \in Token
  BY <1>2 DEF Token, User, Shape, TypeOK
<1>4. row \in Row
  BY <1>2, <1>3 DEF Row, Shape, TypeOK
<1>5. \E n \in Names : Holds(n, row.token.id)
  BY DEF SaveRefreshToken, RoleOf, Holds
<1>6. req'[c] = Idle
  BY DEF SaveRefreshToken, Ends, Set, Shape, TypeOK
<1> QED
  BY <1>1, <1>4, <1>5, <1>6 DEF SaveRefreshToken

----------------------------------------------------------------------------
(* Keys                                                                    *)

LEMMA TablesStep ==
  ASSUME Shape, Shape', Tables, OneHand, [Next]_vars
  PROVE  Tables'
<1>1. ASSUME NEW c \in Clients, QuietStep(c) PROVE Tables'
  <2>1. users' = users
    BY <1>1, QuietOthers
  <2>2. CASE Request(c) \/ Check(c) \/ FindUser(c) \/ GetUser(c) \/ Breaks(c)
    BY <2>1, <2>2, QuietRequests DEF Tables, Holds
  <2>3. CASE Look(c)
    BY <2>1, <2>3, LookRequest DEF Tables, Holds
  <2>4. CASE Revoke(c)
    BY <2>1, <2>4, RevokeRequest, RevokeTables
  <2>5. ASSUME NEW answered \in BOOLEAN, SaveRefreshToken(c, answered) PROVE Tables'
    <3>1. PICK row \in Row :
            /\ req[c].pc = "save" /\ serial' = serial + 1 /\ rows' = rows \cup {row}
            /\ row.no = serial + 1
            /\ \E n \in Names : Holds(n, row.token.id)
            /\ row.root = IF req[c].op = "refresh" THEN req[c].root ELSE serial + 1
      BY <2>5, SaveRequest
    <3>2. /\ serial \in Nat
          /\ \A old \in rows : old.no \in Nat /\ old.root \in Nat
          /\ \A n \in Names : users[n] # NoUser => users[n].id \in Nat
      BY DEF Shape, TypeOK, Row, User
    <3>3. row.root <= serial' /\ row.no <= serial'
      <4>1. CASE req[c].op = "refresh"
        <5>1. req[c].root <= serial /\ req[c].root \in Nat
          BY <3>1, <4>1 DEF OneHand, InSession, Shape, TypeOK, Handling
        <5> QED
          BY <3>1, <3>2, <4>1, <5>1
      <4>2. CASE req[c].op # "refresh"
        BY <3>1, <3>2, <4>2
      <4> QED
        BY <4>1, <4>2
    <3>4. \A old \in rows : old.no <= serial' /\ old.root <= serial' /\ old.no # row.no
      BY <3>1, <3>2 DEF Tables
    <3>5. \A n \in Names : users'[n] # NoUser => users'[n].id <= serial'
      BY <2>1, <3>1, <3>2 DEF Tables
    <3>6. \A r \in rows' : \E n \in Names : Holds(n, r.token.id)'
      BY <2>1, <3>1 DEF Tables, Holds
    <3> QED
      BY <2>1, <3>1, <3>3, <3>4, <3>5, <3>6 DEF Tables, Holds
  <2> QED
    BY <1>1, <2>2, <2>3, <2>4, <2>5 DEF QuietStep
<1>2. ASSUME NEW c \in Clients, UserStep(c) PROVE Tables'
  <2>1. PICK table \in [Names -> User \cup {NoUser}], r \in Handling :
           /\ Becomes(table, c, r) /\ AtPoint(r)
           /\ \/ \E n \in Names :
                   /\ users[n] = NoUser /\ table = [users EXCEPT ![n] = table[n]]
                   /\ table[n] # NoUser /\ table[n].id = serial + 1
                   /\ serial' = serial + 1 /\ rows' = rows
              \/ \E n, new \in Names :
                   /\ users[n] # NoUser /\ (new = n \/ users[new] = NoUser)
                   /\ table = [[users EXCEPT ![n] = NoUser] EXCEPT ![new] = table[new]]
                   /\ table[new] # NoUser /\ table[new].id = users[n].id
                   /\ serial' = serial /\ rows' = rows
              \/ \E n \in Names :
                   /\ users[n] # NoUser /\ table = [users EXCEPT ![n] = NoUser]
                   /\ serial' = serial
                   /\ rows' = {row \in rows : row.token.id # users[n].id}
    BY <1>2, UserStatements
  <2>2. users' = table
    BY <2>1, BecomesOthers
  <2> QED
    BY <2>1, <2>2, InsertKeeps, UpdateKeeps, DeleteKeeps
<1>3. CASE Tick
  BY <1>3 DEF Tick, Tables, Holds
<1>4. CASE UNCHANGED vars
  BY <1>4 DEF vars, Tables, Holds
<1> QED
  BY <1>1, <1>2, <1>3, <1>4, Steps

----------------------------------------------------------------------------
(* Sessions                                                                *)

Sessions == OneHand /\ OneLineage

(* A step that takes no session further and inserts no row.                *)
LEMMA NoFurtherKeeps ==
  ASSUME Shape, Shape', Sessions, OldRows, serial <= serial', raced \subseteq raced',
         \A d \in Clients : NoFurther(req[d], req'[d])
  PROVE  Sessions'
<1>1. ASSUME NEW d \in Clients, InSession(req'[d]) PROVE req'[d].root <= serial'
  <2>1. req[d].root <= serial /\ req'[d].root = req[d].root
    BY <1>1 DEF Sessions, OneHand, NoFurther
  <2>2. serial \in Nat /\ serial' \in Nat /\ req[d].root \in Nat
    BY DEF Shape, TypeOK, Handling
  <2> QED
    BY <2>1, <2>2
<1>2. ASSUME NEW c \in Clients, NEW d \in Clients, InSession(req'[c]), InSession(req'[d]),
             req'[c].root = req'[d].root, req'[c].root \notin raced'
      PROVE  c = d
  BY <1>2 DEF Sessions, OneHand, NoFurther
<1>3. ASSUME NEW c \in Clients, NEW row \in rows', InSession(req'[c]), row.root = req'[c].root,
             ~row.revoked, row.root \notin raced'
      PROVE  ~Carries(req'[c]) /\ row.no = req'[c].stored
  <2>1. row \in rows
    BY <1>3 DEF OldRows
  <2> QED
    BY <1>3, <2>1 DEF Sessions, OneHand, NoFurther
<1>4. OneLineage'
  BY DEF Sessions, OneLineage, OldRows
<1> QED
  BY <1>1, <1>2, <1>3, <1>4 DEF Sessions, OneHand

(* Refresh finds its row good; another that has found it and not revoked   *)
(* it yet is an overlap.                                                   *)
LEMMA LookKeeps ==
  ASSUME Shape, Shape', Tables, Sessions, NEW c \in Clients, Look(c)
  PROVE  Sessions'
<1>1. PICK row \in rows :
        /\ UNCHANGED <<rows, serial>> /\ req[c].pc = "look"
        /\ (req[c].op = "refresh" => ~row.revoked)
        /\ raced' = raced \cup (IF req[c].op = "refresh" THEN Overlaps(c, row) ELSE {})
        /\ req'[c].op = req[c].op /\ req'[c].pc = "revoke"
        /\ req'[c].stored = row.no /\ req'[c].root = row.root
  BY LookRequest
<1>2. \A d \in Clients \ {c} : req'[d] = req[d]
  BY QuietOthers DEF QuietStep
<1>3. raced \subseteq raced' /\ OldRows /\ serial <= serial'
  BY <1>1 DEF OldRows, Shape, TypeOK
<1>4. CASE req[c].op # "refresh"
  <2>1. \A d \in Clients : NoFurther(req[d], req'[d])
    BY <1>1, <1>2, <1>4 DEF NoFurther, InSession
  <2> QED
    BY <1>3, <2>1, NoFurtherKeeps
<1>5. CASE req[c].op = "refresh"
  <2>1. row.root <= serial /\ ~Carries(req'[c])
    BY <1>1 DEF Tables, Carries
  <2>2. ASSUME NEW d \in Clients \ {c}, InSession(req[d]), req[d].root = row.root, row.root \notin raced'
        PROVE  FALSE
    <3>1. ~Carries(req[d]) /\ row.no = req[d].stored
      BY <1>1, <1>5, <2>2 DEF Sessions, OneHand
    <3>2. row.root \in Overlaps(c, row)
      BY <2>2, <3>1 DEF Overlaps, InSession, Carries
    <3> QED
      BY <1>1, <1>5, <2>2, <3>2
  <2>3. ASSUME NEW other \in rows, other.root = row.root, ~other.revoked, row.root \notin raced'
        PROVE  other = row
    BY <1>1, <1>5, <2>3 DEF Sessions, OneLineage
  <2>4. OneLineage'
    BY <1>1 DEF Sessions, OneLineage
  <2>5. \A d \in Clients : InSession(req'[d]) => req'[d].root <= serial'
    BY <1>1, <1>2, <2>1 DEF Sessions, OneHand
  <2>6. ASSUME NEW a \in Clients, NEW b \in Clients, InSession(req'[a]), InSession(req'[b]),
               req'[a].root = req'[b].root, req'[a].root \notin raced'
        PROVE  a = b
    BY <1>1, <1>2, <2>2, <2>6 DEF Sessions, OneHand
  <2>7. ASSUME NEW d \in Clients, NEW other \in rows', InSession(req'[d]), other.root = req'[d].root,
               ~other.revoked, other.root \notin raced'
        PROVE  ~Carries(req'[d]) /\ other.no = req'[d].stored
    BY <1>1, <1>2, <2>1, <2>3, <2>7 DEF Sessions, OneHand
  <2> QED
    BY <2>4, <2>5, <2>6, <2>7 DEF Sessions, OneHand
<1> QED
  BY <1>4, <1>5

(* Refresh revokes the row it found, the only good one of its session.     *)
LEMMA RevokeSession ==
  ASSUME Shape, Shape', Sessions, NEW c \in Clients, Revoke(c)
  PROVE  Sessions'
<1>1. /\ UNCHANGED <<serial, raced>> /\ rows' = RevokedRows(req[c].stored)
      /\ req[c].pc = "revoke" /\ OldRows
      /\ req[c].op = "logout" => req'[c] = Idle
      /\ req[c].op # "logout" =>
           /\ req[c].op = "refresh" /\ req'[c].op = "refresh"
           /\ req'[c].pc = "user" /\ req'[c].root = req[c].root
  BY RevokeRequest
<1>2. \A d \in Clients \ {c} : req'[d] = req[d]
  BY QuietOthers DEF QuietStep
<1>3. serial <= serial'
  BY <1>1 DEF Shape, TypeOK
<1>4. CASE req[c].op = "logout"
  <2>1. \A d \in Clients : NoFurther(req[d], req'[d])
    BY <1>1, <1>2, <1>4 DEF NoFurther, InSession, Idle
  <2> QED
    BY <1>1, <1>3, <2>1, NoFurtherKeeps
<1>5. CASE req[c].op # "logout"
  <2>1. InSession(req[c]) /\ \A d \in Clients : InSession(req'[d]) => InSession(req[d]) /\ req'[d].root = req[d].root
    BY <1>1, <1>2, <1>5 DEF InSession
  <2>2. \A row \in rows' : ~row.revoked => row \in rows /\ row.no # req[c].stored
    BY <1>1, RevokeKeeps
  <2>3. OneLineage'
    BY <1>1, <2>2 DEF Sessions, OneLineage
  <2>4. \A d \in Clients : InSession(req'[d]) => req'[d].root <= serial'
    BY <1>1, <2>1 DEF Sessions, OneHand
  <2>5. ASSUME NEW a \in Clients, NEW b \in Clients, InSession(req'[a]), InSession(req'[b]),
               req'[a].root = req'[b].root, req'[a].root \notin raced'
        PROVE  a = b
    BY <1>1, <2>1, <2>5 DEF Sessions, OneHand
  <2>6. ASSUME NEW d \in Clients, NEW row \in rows', InSession(req'[d]), row.root = req'[d].root,
               ~row.revoked, row.root \notin raced'
        PROVE  ~Carries(req'[d]) /\ row.no = req'[d].stored
    <3>1. row \in rows /\ row.no # req[c].stored
      BY <2>2, <2>6
    <3>2. InSession(req[d]) /\ row.root = req[d].root /\ row.root \notin raced
      BY <1>1, <2>1, <2>6
    <3>3. ~Carries(req[d]) /\ row.no = req[d].stored
      BY <2>6, <3>1, <3>2 DEF Sessions, OneHand
    <3> QED
      BY <1>2, <3>1, <3>3
  <2> QED
    BY <2>3, <2>4, <2>5, <2>6 DEF Sessions, OneHand
<1> QED
  BY <1>4, <1>5

(* The refresh that inserts a row is the only one to carry the session,    *)
(* and a session that begins has a root that nobody knows.                 *)
LEMMA SaveKeeps ==
  ASSUME Shape, Shape', Tables, Sessions, NEW c \in Clients,
         NEW answered \in BOOLEAN, SaveRefreshToken(c, answered)
  PROVE  Sessions'
<1>1. PICK row \in Row :
        /\ req[c].pc = "save" /\ req'[c] = Idle /\ UNCHANGED raced
        /\ serial' = serial + 1 /\ rows' = rows \cup {row}
        /\ row.root = IF req[c].op = "refresh" THEN req[c].root ELSE serial + 1
  BY SaveRequest
<1>2. \A d \in Clients \ {c} : req'[d] = req[d]
  BY QuietOthers DEF QuietStep
<1>3. /\ serial \in Nat /\ \A old \in rows : old.root \in Nat /\ old.root <= serial
      /\ \A d \in Clients : req[d].root \in Nat
  BY DEF Shape, TypeOK, Tables, Row, Handling
<1>4. \A d \in Clients : InSession(req'[d]) => d # c /\ req'[d] = req[d] /\ req[d].root <= serial
  BY <1>1, <1>2 DEF InSession, Idle, Sessions, OneHand
<1>5. \A old \in rows : old.root = row.root /\ ~old.revoked => row.root \in raced
  BY <1>1, <1>3 DEF Sessions, OneHand, InSession, Carries
<1>6. \A d \in Clients : InSession(req'[d]) /\ req'[d].root = row.root => row.root \in raced
  BY <1>1, <1>3, <1>4 DEF Sessions, OneHand, InSession
<1>7. OneLineage'
  BY <1>1, <1>5 DEF Sessions, OneLineage
<1>8. \A d \in Clients : InSession(req'[d]) => req'[d].root <= serial'
  BY <1>1, <1>3, <1>4
<1>9. \A a, b \in Clients : InSession(req'[a]) /\ InSession(req'[b]) /\ req'[a].root = req'[b].root
         /\ req'[a].root \notin raced' => a = b
  BY <1>1, <1>4 DEF Sessions, OneHand
<1>10. \A d \in Clients : \A old \in rows' :
         InSession(req'[d]) /\ old.root = req'[d].root /\ ~old.revoked /\ old.root \notin raced'
           => ~Carries(req'[d]) /\ old.no = req'[d].stored
  BY <1>1, <1>4, <1>6 DEF Sessions, OneHand
<1> QED
  BY <1>7, <1>8, <1>9, <1>10 DEF Sessions, OneHand

LEMMA SessionsStep ==
  ASSUME Shape, Shape', Tables, Sessions, [Next]_vars
  PROVE  Sessions'
<1>1. ASSUME NEW c \in Clients, QuietStep(c) PROVE Sessions'
  <2>1. CASE Request(c) \/ Check(c) \/ FindUser(c) \/ GetUser(c) \/ Breaks(c)
    <3>1. UNCHANGED <<rows, serial, raced>> /\ NoFurther(req[c], req'[c])
      BY <2>1, QuietRequests
    <3>2. OldRows /\ serial <= serial' /\ raced \subseteq raced'
      BY <3>1 DEF OldRows, Shape, TypeOK
    <3>3. \A d \in Clients : NoFurther(req[d], req'[d])
      BY <1>1, <3>1, QuietOthers DEF NoFurther
    <3> QED
      BY <3>2, <3>3, NoFurtherKeeps
  <2> QED
    BY <1>1, <2>1, LookKeeps, RevokeSession, SaveKeeps DEF QuietStep
<1>2. ASSUME NEW c \in Clients, UserStep(c) PROVE Sessions'
  <2>1. PICK table \in [Names -> User \cup {NoUser}], r \in Handling :
           /\ Becomes(table, c, r) /\ AtPoint(r) /\ ~InSession(r) /\ UNCHANGED raced
           /\ serial' \in {serial, serial + 1} /\ rows' \subseteq rows
    BY <1>2, UserStatements
  <2>2. req'[c] = r /\ \A d \in Clients \ {c} : Same(req[d], req'[d])
    BY <2>1, BecomesOthers
  <2>3. \A d \in Clients : NoFurther(req[d], req'[d])
    BY <2>1, <2>2, NoFurtherBySame DEF NoFurther
  <2>4. OldRows /\ serial <= serial' /\ raced \subseteq raced'
    BY <2>1 DEF OldRows, Shape, TypeOK
  <2> QED
    BY <2>3, <2>4, NoFurtherKeeps
<1>3. CASE Tick \/ UNCHANGED vars
  BY <1>3 DEF Tick, vars, Sessions, OneHand, OneLineage
<1> QED
  BY <1>1, <1>2, <1>3, Steps

LEMMA SessionsInit == Init => Tables /\ Sessions
<1> SUFFICES ASSUME Init PROVE Tables /\ Sessions
  OBVIOUS
<1>1. users = [n \in Names |-> IF n = FirstAdmin THEN [id |-> 1, role |-> "admin"] ELSE NoUser]
      /\ rows = {} /\ serial = 1 /\ \A c \in Clients : ~InSession(req[c])
  BY DEF Init, Idle, InSession
<1>2. Tables
  BY <1>1 DEF Tables, Holds
<1> QED
  BY <1>1, <1>2 DEF Sessions, OneHand, OneLineage

(* However logins, refreshes and breakdowns interleave, a session without  *)
(* two overlapping refreshes has at most one valid token.                  *)
THEOREM OneTokenPerSession == Spec => []OneLineage
<1>1. Shape /\ Tables /\ Sessions /\ [Next]_vars => (Shape /\ Tables /\ Sessions)'
  BY ShapeStep, TablesStep, SessionsStep DEF Sessions
<1>2. Sessions => OneLineage
  BY DEF Sessions
<1> QED
  BY <1>1, <1>2, ShapeInit, SessionsInit, PTL DEF Spec

----------------------------------------------------------------------------
(* Revoked tokens                                                          *)

LEMMA DeadStays ==
  ASSUME Shape, Shape', Tables, [Next]_vars, NEW id \in Nat, Dead(id)
  PROVE  Dead(id)'
<1>0. serial \in Nat /\ serial' \in Nat /\ id <= serial
  BY DEF Shape, TypeOK, Dead
<1>1. ASSUME NEW c \in Clients, QuietStep(c) PROVE Dead(id)'
  <2>1. users' = users
    BY <1>1, QuietOthers
  <2>2. serial <= serial'
    <3>1. serial' = serial \/ serial' = serial + 1
      BY <1>1 DEF QuietStep, Request, Arrive, Check, FindUser, Look, Revoke, GetUser, Breaks, SaveRefreshToken
    <3> QED
      BY <1>0, <3>1
  <2> QED
    BY <1>0, <2>1, <2>2 DEF Dead, Holds
<1>2. ASSUME NEW c \in Clients, UserStep(c) PROVE Dead(id)'
  <2>1. PICK table \in [Names -> User \cup {NoUser}], r \in Handling :
           /\ Becomes(table, c, r) /\ AtPoint(r)
           /\ \/ \E n \in Names :
                   /\ users[n] = NoUser /\ table = [users EXCEPT ![n] = table[n]]
                   /\ table[n] # NoUser /\ table[n].id = serial + 1
                   /\ serial' = serial + 1 /\ rows' = rows
              \/ \E n, new \in Names :
                   /\ users[n] # NoUser /\ (new = n \/ users[new] = NoUser)
                   /\ table = [[users EXCEPT ![n] = NoUser] EXCEPT ![new] = table[new]]
                   /\ table[new] # NoUser /\ table[new].id = users[n].id
                   /\ serial' = serial /\ rows' = rows
              \/ \E n \in Names :
                   /\ users[n] # NoUser /\ table = [users EXCEPT ![n] = NoUser]
                   /\ serial' = serial
                   /\ rows' = {row \in rows : row.token.id # users[n].id}
    BY <1>2, UserStatements
  <2>2. users' = table
    BY <2>1, BecomesOthers
  <2>3. CASE \E n \in Names :
               /\ users[n] = NoUser /\ table = [users EXCEPT ![n] = table[n]]
               /\ table[n] # NoUser /\ table[n].id = serial + 1
               /\ serial' = serial + 1 /\ rows' = rows
    <3>1. PICK n \in Names :
               /\ table = [users EXCEPT ![n] = table[n]]
               /\ table[n].id = serial + 1 /\ serial' = serial + 1
      BY <2>3
    <3>2. \A m \in Names \ {n} : users'[m] = users[m]
      BY <2>2, <3>1 DEF Shape, TypeOK
    <3> QED
      BY <1>0, <2>2, <3>1, <3>2 DEF Dead, Holds
  <2>4. CASE \E n, new \in Names :
               /\ users[n] # NoUser /\ (new = n \/ users[new] = NoUser)
               /\ table = [[users EXCEPT ![n] = NoUser] EXCEPT ![new] = table[new]]
               /\ table[new] # NoUser /\ table[new].id = users[n].id
               /\ serial' = serial /\ rows' = rows
    BY <2>2, <2>4, UpdateKeeps DEF Dead
  <2>5. CASE \E n \in Names : users[n] # NoUser /\ table = [users EXCEPT ![n] = NoUser] /\ serial' = serial
    <3>1. PICK n \in Names : table = [users EXCEPT ![n] = NoUser] /\ serial' = serial
      BY <2>5
    <3>2. users'[n] = NoUser /\ \A m \in Names \ {n} : users'[m] = users[m]
      BY <2>2, <3>1 DEF Shape, TypeOK
    <3> QED
      BY <3>1, <3>2 DEF Dead, Holds
  <2> QED
    BY <2>1, <2>3, <2>4, <2>5
<1>3. CASE Tick \/ UNCHANGED vars
  BY <1>3 DEF Tick, vars, Dead, Holds
<1> QED
  BY <1>1, <1>2, <1>3, Steps

(* What a step leaves of a row: it, perhaps revoked; without its account,  *)
(* nothing.                                                                *)
LEMMA RowsStay ==
  ASSUME Shape, Shape', Tables, [Next]_vars, NEW row \in rows
  PROVE  \/ Dead(row.token.id)'
         \/ \E new \in rows' : new.token = row.token /\ new.no = row.no /\ (row.revoked => new.revoked)
<1>1. ASSUME NEW c \in Clients, QuietStep(c)
      PROVE  \E new \in rows' : new.token = row.token /\ new.no = row.no /\ (row.revoked => new.revoked)
  <2>1. CASE Revoke(c)
    BY <2>1, RevokeKeeps DEF Revoke
  <2>2. CASE ~Revoke(c)
    <3>1. row \in rows'
      BY <1>1, <2>2 DEF QuietStep, Request, Arrive, Check, FindUser, Look, GetUser, Breaks, SaveRefreshToken
    <3> QED
      BY <3>1
  <2> QED
    BY <2>1, <2>2
<1>2. ASSUME NEW c \in Clients, UserStep(c)
      PROVE  Dead(row.token.id)' \/ row \in rows'
  <2>1. PICK table \in [Names -> User \cup {NoUser}], r \in Handling :
           /\ Becomes(table, c, r) /\ AtPoint(r)
           /\ \/ rows' = rows
              \/ \E n \in Names :
                   /\ users[n] # NoUser /\ table = [users EXCEPT ![n] = NoUser]
                   /\ serial' = serial
                   /\ rows' = {old \in rows : old.token.id # users[n].id}
    BY <1>2, UserStatements
  <2>2. users' = table
    BY <2>1, BecomesOthers
  <2>3. ASSUME NEW n \in Names, users[n] # NoUser, table = [users EXCEPT ![n] = NoUser],
               serial' = serial, row.token.id = users[n].id
        PROVE  Dead(row.token.id)'
    <3>1. users'[n] = NoUser /\ \A m \in Names \ {n} : users'[m] = users[m]
      BY <2>2, <2>3 DEF Shape, TypeOK
    <3>2. users[n].id <= serial'
      BY <2>3 DEF Tables
    <3>3. \A m \in Names : ~(users'[m] # NoUser /\ users'[m].id = users[n].id)
      BY <2>3, <3>1 DEF Tables, Holds
    <3> QED
      BY <2>3, <3>2, <3>3 DEF Dead, Holds
  <2> QED
    BY <2>1, <2>3
<1>3. CASE Tick \/ UNCHANGED vars
  BY <1>3 DEF Tick, vars
<1> QED
  BY <1>1, <1>2, <1>3, Steps

(* What is known of a late refresh stays known while it waits.             *)
LEMMA SpentStays ==
  ASSUME Shape, Shape', Tables, [Next]_vars, NEW token \in Token
  PROVE  (Spent(token) => Spent(token)') /\ (SpentTwice(token) => SpentTwice(token)')
<1>1. token.id \in Nat
  BY DEF Token
<1>2. Dead(token.id) => Dead(token.id)'
  BY <1>1, DeadStays
<1>3. ASSUME NEW row \in rows, row.token = token, ~Dead(token.id)'
      PROVE  \E new \in rows' : new.token = token /\ new.no = row.no /\ (row.revoked => new.revoked)
  BY <1>3, RowsStay
<1>4. Spent(token) => Spent(token)'
  BY <1>2, <1>3 DEF Spent
<1>5. SpentTwice(token) => SpentTwice(token)'
  <2>1. ASSUME NEW row \in rows, NEW other \in rows, row.token = token, row.revoked,
               other.token = token, other.no # row.no, ~Dead(token.id)'
        PROVE  \E new, newer \in rows' :
                 new.token = token /\ new.revoked /\ newer.token = token /\ newer.no # new.no
    BY <1>3, <2>1
  <2> QED
    BY <1>2, <2>1 DEF SpentTwice
<1> QED
  BY <1>4, <1>5

LateHere(d) ==
    req[d].late => /\ req[d].pc = "look" => Spent(req[d].token)
                   /\ req[d].pc = "revoke" => SpentTwice(req[d].token)

LEMMA LateWaits ==
  ASSUME Shape, Shape', Tables, [Next]_vars, NEW d \in Clients, LateHere(d), Same(req[d], req'[d])
  PROVE  LateHere(d)'
<1> SUFFICES ASSUME req'[d].late, req'[d].pc \in {"look", "revoke"} PROVE LateHere(d)'
  BY DEF LateHere
<1>1. PICK t \in Token : t = req[d].token /\ t = req'[d].token
  BY DEF Shape, TypeOK, Handling, AtPoint, Same
<1>2. (Spent(t) => Spent(t)') /\ (SpentTwice(t) => SpentTwice(t)')
  BY SpentStays
<1>3. (req'[d].pc = "look" => Spent(t)) /\ (req'[d].pc = "revoke" => SpentTwice(t))
  BY <1>1 DEF LateHere, Same
<1> QED
  BY <1>1, <1>2, <1>3 DEF LateHere, Spent, SpentTwice, Dead, Holds

LEMMA LateKnownStep ==
  ASSUME Shape, Shape', Tables, LateKnown, [Next]_vars
  PROVE  LateKnown'
<1>0. \A d \in Clients : LateHere(d)
  BY DEF LateKnown, LateHere
<1>1. ASSUME NEW c \in Clients, QuietStep(c) PROVE LateKnown'
  <2>1. ASSUME NEW d \in Clients \ {c} PROVE LateHere(d)'
    BY <1>0, <1>1, QuietOthers, LateWaits DEF Same
  <2>2. LateHere(c)'
    <3>1. CASE Request(c) \/ Check(c) \/ FindUser(c) \/ GetUser(c) \/ Breaks(c)
      <4>1. /\ rows' = rows
            /\ req'[c].late /\ req'[c].pc \in {"look", "revoke"} =>
                 req'[c].pc = "look" /\ Revoked(req'[c].token)
        BY <3>1, QuietRequests
      <4> QED
        BY <4>1 DEF LateHere, Spent, Revoked
    <3>2. CASE Look(c)
      <4>1. PICK row \in rows :
              /\ UNCHANGED <<rows, serial>> /\ req[c].pc = "look"
              /\ row.token = req[c].token /\ (req[c].op = "refresh" => ~row.revoked)
              /\ req'[c].pc = "revoke" /\ req'[c].token = req[c].token /\ req'[c].late = req[c].late
        BY <3>2, LookRequest
      <4>2. CASE ~req[c].late
        BY <4>1, <4>2 DEF LateHere
      <4>3. CASE req[c].late
        <5>1. users' = users /\ req[c].op = "refresh"
          BY <1>1, <4>3, QuietOthers DEF Shape, AtPoint
        <5>2. Spent(req[c].token)
          BY <1>0, <4>1, <4>3 DEF LateHere
        <5>3. CASE Dead(req[c].token.id)
          BY <4>1, <5>1, <5>3 DEF LateHere, SpentTwice, Dead, Holds
        <5>4. CASE \E old \in rows : old.token = req[c].token /\ old.revoked
          <6>1. PICK old \in rows : old.token = req[c].token /\ old.revoked
            BY <5>4
          <6>2. old.no # row.no
            BY <4>1, <5>1, <6>1 DEF Tables
          <6> QED
            BY <4>1, <6>1, <6>2 DEF LateHere, SpentTwice
        <5> QED
          BY <5>2, <5>3, <5>4 DEF Spent
      <4> QED
        BY <4>2, <4>3
    <3>3. CASE Revoke(c)
      <4>1. req'[c].pc \in {"idle", "user"}
        BY <3>3, RevokeRequest DEF Idle, Shape, TypeOK
      <4> QED
        BY <4>1 DEF LateHere
    <3>4. CASE \E answered \in BOOLEAN : SaveRefreshToken(c, answered)
      BY <3>4, SaveRequest DEF LateHere, Idle
    <3> QED
      BY <1>1, <3>1, <3>2, <3>3, <3>4 DEF QuietStep
  <2> QED
    BY <2>1, <2>2 DEF LateKnown, LateHere
<1>2. ASSUME NEW c \in Clients, UserStep(c) PROVE LateKnown'
  <2>1. ~req'[c].late /\ \A d \in Clients \ {c} : Same(req[d], req'[d])
    BY <1>2, UserStatements, BecomesOthers
  <2>2. LateHere(c)' /\ \A d \in Clients \ {c} : LateHere(d)'
    BY <1>0, <2>1, LateWaits DEF LateHere
  <2> QED
    BY <2>2 DEF LateKnown, LateHere
<1>3. CASE Tick \/ UNCHANGED vars
  BY <1>3 DEF Tick, vars, LateKnown, Spent, SpentTwice, Dead, Holds
<1> QED
  BY <1>1, <1>2, <1>3, Steps

LEMMA LateMeansGoneOrTwice ==
  ASSUME Shape, Tables, LateKnown
  PROVE  RevokedStaysOut
<1> SUFFICES ASSUME NEW c \in Clients, req[c].pc = "revoke", req[c].late
             PROVE  Cardinality({row \in rows : row.token = req[c].token}) # 1
  BY DEF RevokedStaysOut
<1> DEFINE same == {row \in rows : row.token = req[c].token}
<1>1. CASE Dead(req[c].token.id)
  <2>1. same = {}
    BY <1>1 DEF Dead, Tables
  <2> QED
    BY <2>1, FS_EmptySet
<1>2. ASSUME NEW row \in same, NEW other \in same, row.no # other.no
      PROVE  Cardinality(same) # 1
  <2> DEFINE key == [r \in same |-> r.no]
  <2>1. IsFiniteSet(0..serial)
    BY FS_Interval DEF Shape, TypeOK
  <2>2. key \in Injection(same, 0..serial)
    BY DEF Injection, IsInjective, Tables, Shape, TypeOK, Row
  <2>3. IsFiniteSet(same)
    BY <2>1, <2>2, FS_Injection
  <2>4. ~\E x : same = {x}
    BY <1>2
  <2> QED
    BY <2>3, <2>4, FS_Singleton
<1> QED
  BY <1>1, <1>2 DEF LateKnown, SpentTwice

(* However requests interleave and accounts change, a refresh gets no      *)
(* further with a token that was revoked when it came in, unless two       *)
(* answers gave out the same token or its account is gone.                 *)
THEOREM RevokedIsOut == Spec => []RevokedStaysOut
<1>1. Shape /\ Tables /\ Sessions /\ LateKnown /\ [Next]_vars => (Shape /\ Tables /\ Sessions /\ LateKnown)'
  BY ShapeStep, TablesStep, SessionsStep, LateKnownStep DEF Sessions
<1>2. Init => LateKnown
  BY DEF Init, LateKnown, Idle
<1>3. Shape /\ Tables /\ LateKnown => RevokedStaysOut
  BY LateMeansGoneOrTwice
<1> QED
  BY <1>1, <1>2, <1>3, ShapeInit, SessionsInit, PTL DEF Spec
=============================================================================
