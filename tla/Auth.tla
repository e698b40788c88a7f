------------------------------- MODULE Auth -------------------------------
(***************************************************************************)
(* AuthService behind API-Gateway: accounts, refresh tokens and the        *)
(* requests about them.  The gateway checks the claims of the bearer token *)
(* (internal/api/middleware/auth.go); the service works statement by       *)
(* statement over PostgreSQL, without transactions, so requests interleave *)
(* between any two statements and may end after any of them: a statement   *)
(* fails, a client goes away, an answer is lost.                           *)
(*                                                                         *)
(* Passwords, e-mail addresses and input checks are left out: a request    *)
(* that fails them ends as one whose statement fails.  A name stands for   *)
(* name and e-mail, each unique.  Requests that only read are left out.    *)
(* The bearer of a request is either token of a pair a client got.         *)
(***************************************************************************)
EXTENDS Naturals, Sequences, FiniteSets

CONSTANTS
    Clients,     \* requests under way at a time
    Names,
    Roles,       \* those of isValidRole()
    FirstAdmin,  \* the account 001_seed.sql makes an administrator
    NoUser, NoToken,
    AccessTTL, RefreshTTL,  \* in seconds
    MaxNow,      \* bound: seconds
    MaxSerial    \* bound: rows ever inserted

ASSUME AuthAssumption ==
    /\ FirstAdmin \in Names /\ {"user", "admin"} \subseteq Roles
    /\ NoUser \notin [id : Nat, role : Roles]
    /\ NoToken \notin [name : Names, id : Nat, role : Roles, at : 0..MaxNow]
    /\ {AccessTTL, RefreshTTL, MaxNow} \subseteq Nat /\ MaxSerial \in Nat \ {0}

VARIABLES
    users,   \* table users, by name
    rows,    \* table refresh_tokens
    serial,  \* rows inserted so far: the primary keys
    issued,  \* token pairs that reached a client
    now,     \* the clock; a token knows it to the second
    req,     \* per client: its request
    raced    \* sessions for which two refreshes of one token overlapped

vars == <<users, rows, serial, issued, now, req, raced>>

User == [id : Nat, role : Roles]

(* A pair of tokens has nothing of its own but these claims (jwt.go:54):   *)
(* two pairs of one user and one second are the same strings.              *)
Token == [name : Names, id : Nat, role : Roles, at : 0..MaxNow]

(* root only observes: the session, named after the row it began with.     *)
Row == [no : Nat, token : Token, root : Nat, revoked : BOOLEAN]

(* What handlers keep between statements: the refresh token (or bearer, if *)
(* the gateway wants an administrator), the stored row, the user's name and row.   *)
(* late and roles only observe: the token was revoked already when the     *)
(* request came in; the roles its user has had in the meantime.  Other     *)
(* input is chosen where it is first used, and so is the one of create,    *)
(* update, role and delete a request of op "manage" is.                    *)
Idle == [op |-> "none", pc |-> "idle", token |-> NoToken, stored |-> 0, root |-> 0,
         user |-> NoUser, name |-> FirstAdmin, late |-> FALSE, roles |-> {}]

Handling ==
    [ op : {"none", "login", "refresh", "logout", "register", "manage"},
      pc : {"idle", "find", "look", "insert", "check", "apply", "revoke", "user", "save"},
      token : Token \cup {NoToken}, stored : Nat, root : Nat, user : User \cup {NoUser},
      name : Names, late : BOOLEAN, roles : SUBSET Roles ]

Set(c, r) == req' = [req EXCEPT ![c] = r]

Ends(c) == Set(c, Idle)

----------------------------------------------------------------------------
(* API-Gateway                                                             *)

(* The first rule whose prefix and methods fit, as requiredRoles() finds   *)
(* it; no role asked for means public.  All routes here but these have     *)
(* the last rule.                                                          *)
RequiredRoles(op) ==
    IF op \in {"login", "refresh"} THEN {} ELSE IF op \in {"manage", "register"} THEN {"admin"} ELSE Roles

Fresh(token, ttl) == now <= token.at + ttl

(* token_type is not among the claims the gateway looks at: a refresh      *)
(* token passes as well, for as long as it lives.                          *)
GatewayPasses(op, bearer) ==
    \/ RequiredRoles(op) = {}
    \/ /\ bearer # NoToken /\ bearer.role \in RequiredRoles(op)
       /\ \E ttl \in {AccessTTL, RefreshTTL} : Fresh(bearer, ttl)

RoleOf(table, id) == {table[n].role : n \in {m \in Names : table[m] # NoUser /\ table[m].id = id}}

(* The table users changes: what the requests under way observe of it.     *)
Becomes(table, c, r) ==
    /\ users' = table
    /\ req' = [[d \in Clients |-> IF req[d].op # "manage" THEN req[d] ELSE
                 [req[d] EXCEPT !.roles = @ \cup RoleOf(table, req[d].token.id)]] EXCEPT ![c] = r]

Revoked(token) == \E row \in rows : row.token = token /\ row.revoked

Arrive(c, op, pc, token) ==
    /\ req[c].pc = "idle"
    /\ Set(c, [Idle EXCEPT !.op = op, !.pc = pc, !.token = token,
                 !.late = op = "refresh" /\ Revoked(token),
                 !.roles = IF op = "manage" THEN RoleOf(users, token.id) ELSE {}])
    /\ UNCHANGED <<users, rows, serial, issued, now, raced>>

Request(c) ==
    \/ Arrive(c, "login", "find", NoToken)
    \/ \E t \in issued : Fresh(t, RefreshTTL) /\ Arrive(c, "refresh", "look", t)
    \/ \E bearer \in issued :
        \/ GatewayPasses("logout", bearer) /\ \E t \in issued : Arrive(c, "logout", "look", t)
        \/ GatewayPasses("register", bearer) /\ Arrive(c, "register", "insert", bearer)
        \/ GatewayPasses("manage", bearer) /\ Arrive(c, "manage", "check", bearer)

----------------------------------------------------------------------------
(* AuthService                                                             *)

\* Fault: the claims are believed.
TrustedClaims(token) == {token.role}

(* AuthRequired(admin), which guards all of "manage" in the router: the    *)
(* role in the data base counts, not the claims, and the token has to be   *)
(* an access token.  (The request whose bearer is the refresh token of the *)
(* pair ends here or, as a failed one, in Breaks.)                         *)
Trusted(token) == RoleOf(users, token.id)

Check(c) ==
    /\ req[c].pc = "check"
    /\ IF Fresh(req[c].token, AccessTTL) /\ "admin" \in Trusted(req[c].token)
       THEN Set(c, [req[c] EXCEPT !.pc = "apply"])
       ELSE Ends(c)
    /\ UNCHANGED <<users, rows, serial, issued, now, raced>>

(* A name that is taken ends the request.                                  *)
InsertUser(c, name, role, goesOn) ==
    LET user == [id |-> serial + 1, role |-> role]
    IN  /\ users[name] = NoUser /\ serial < MaxSerial
        /\ serial' = serial + 1
        /\ Becomes([users EXCEPT ![name] = user], c,
                   IF goesOn THEN [Idle EXCEPT !.op = "register", !.pc = "save", !.user = user, !.name = name]
                             ELSE Idle)
        /\ UNCHANGED <<rows, issued, now, raced>>

Register(c) ==
    req[c].pc = "insert" /\ \E n \in Names : InsertUser(c, n, "user", TRUE)

CreateUser(c) ==
    req[c].pc = "apply" /\ \E n \in Names, role \in Roles : InsertUser(c, n, role, FALSE)

(* By the user's id, so only if the account is there.                      *)
Known(c, n) == req[c].pc = "apply" /\ users[n] # NoUser

UpdateRole(c) ==
    \E n \in Names, role \in Roles :
        /\ Known(c, n)
        /\ Becomes([users EXCEPT ![n].role = role], c, Idle)
        /\ UNCHANGED <<rows, serial, issued, now, raced>>

(* Any of name and role; a name that is taken ends the request.            *)
UpdateUser(c) ==
    \E n, new \in Names, role \in Roles :
        /\ Known(c, n) /\ (new = n \/ users[new] = NoUser)
        /\ Becomes([[users EXCEPT ![n] = NoUser] EXCEPT ![new] = [users[n] EXCEPT !.role = role]], c, Idle)
        /\ UNCHANGED <<rows, serial, issued, now, raced>>

(* ON DELETE CASCADE                                                       *)
DeleteUser(c) ==
    \E n \in Names :
        /\ Known(c, n)
        /\ rows' = {row \in rows : row.token.id # users[n].id}
        /\ Becomes([users EXCEPT ![n] = NoUser], c, Idle)
        /\ UNCHANGED <<serial, issued, now, raced>>

Found(c, name) ==
    Set(c, [req[c] EXCEPT !.pc = "save", !.user = users[name], !.name = name, !.token = NoToken])

(* Login's GetUserByNameOrEmail.                                           *)
FindUser(c) ==
    /\ req[c].pc = "find"
    /\ \E n \in Names : users[n] # NoUser /\ Found(c, n)
    /\ UNCHANGED <<users, rows, serial, issued, now, raced>>

\* Fault: Refresh does not look at `revoked'.
StillGoodAlways(row) == TRUE

(* GetRefreshTokenByHash: any row with the hash, if there are several.     *)
StillGood(row) == ~row.revoked

Overlaps(c, row) ==
    {row.root : d \in {e \in Clients \ {c} : req[e].op = "refresh" /\ req[e].pc = "revoke" /\ req[e].stored = row.no}}

Look(c) ==
    /\ req[c].pc = "look"
    /\ \E row \in rows :
        /\ row.token = req[c].token
        /\ req[c].op = "refresh" => StillGood(row) /\ Fresh(row.token, RefreshTTL)
        /\ Set(c, [req[c] EXCEPT !.pc = "revoke", !.stored = row.no, !.root = row.root])
        /\ raced' = raced \cup (IF req[c].op = "refresh" THEN Overlaps(c, row) ELSE {})
    /\ UNCHANGED <<users, rows, serial, issued, now>>

\* Fault: the row is looked up by its user's key.
RevokedRowsOfUser(no) == {IF row.token.id = no THEN [row EXCEPT !.revoked = TRUE] ELSE row : row \in rows}

RevokedRows(no) == {IF row.no = no THEN [row EXCEPT !.revoked = TRUE] ELSE row : row \in rows}

Revoke(c) ==
    /\ req[c].pc = "revoke"
    /\ rows' = RevokedRows(req[c].stored)
    /\ IF req[c].op = "logout" THEN Ends(c)
       ELSE Set(c, [req[c] EXCEPT !.pc = "user", !.stored = 0, !.late = FALSE])
    /\ UNCHANGED <<users, serial, issued, now, raced>>

(* Refresh's GetUserByID: name and role may be others than the token's.    *)
GetUser(c) ==
    /\ req[c].pc = "user"
    /\ \E n \in Names : users[n] # NoUser /\ users[n].id = req[c].token.id /\ Found(c, n)
    /\ UNCHANGED <<users, rows, serial, issued, now, raced>>

(* GenerateTokenPair and saveRefreshToken; the foreign key wants the user. *)
SaveRefreshToken(c, answered) ==
    LET r == req[c]
        token == [name |-> r.name, id |-> r.user.id, role |-> r.user.role, at |-> now]
    IN  /\ r.pc = "save" /\ RoleOf(users, r.user.id) # {} /\ serial < MaxSerial
        /\ serial' = serial + 1
        /\ rows' = rows \cup {[no |-> serial + 1, token |-> token, revoked |-> FALSE,
                               root |-> IF r.op = "refresh" THEN r.root ELSE serial + 1]}
        /\ issued' = IF answered THEN issued \cup {token} ELSE issued
        /\ Ends(c)
        /\ UNCHANGED <<users, now, raced>>

(* A refusal, a failed statement or a client that went away.               *)
Breaks(c) ==
    /\ req[c].pc # "idle" /\ Ends(c)
    /\ UNCHANGED <<users, rows, serial, issued, now, raced>>

Tick == now < MaxNow /\ now' = now + 1 /\ UNCHANGED <<users, rows, serial, issued, req, raced>>

----------------------------------------------------------------------------
Init ==
    /\ users = [n \in Names |-> IF n = FirstAdmin THEN [id |-> 1, role |-> "admin"] ELSE NoUser]
    /\ rows = {} /\ serial = 1 /\ issued = {} /\ now = 0
    /\ req = [c \in Clients |-> Idle] /\ raced = {}

Next ==
    \/ \E c \in Clients :
        \/ Request(c) \/ Check(c) \/ Register(c) \/ CreateUser(c) \/ UpdateRole(c) \/ UpdateUser(c)
        \/ DeleteUser(c) \/ FindUser(c) \/ Look(c) \/ Revoke(c) \/ GetUser(c) \/ Breaks(c)
        \/ \E answered \in BOOLEAN : SaveRefreshToken(c, answered)
    \/ Tick

Spec == Init /\ [][Next]_vars

----------------------------------------------------------------------------
(* The tables and the requests have the shapes above.                      *)
TypeOK ==
    /\ users \in [Names -> User \cup {NoUser}]
    /\ rows \subseteq Row /\ serial \in 1..MaxSerial
    /\ issued \subseteq Token /\ now \in 0..MaxNow /\ raced \subseteq Nat
    /\ req \in [Clients -> Handling]

(* A token that was revoked, by a logout or an earlier refresh, is taken   *)
(* by no later refresh.  The exception is a token that was issued twice,   *)
(* by two requests of one user within a second: each of the two has a row, *)
(* and a logout revokes only one of them.  (With no row any more, the user *)
(* has been deleted and the refresh fails further on.)                     *)
RevokedStaysOut ==
    \A c \in Clients :
        req[c].op = "refresh" /\ req[c].pc = "revoke" /\ req[c].late
            => Cardinality({row \in rows : row.token = req[c].token}) # 1

(* A login is the beginning of one session: however its tokens are         *)
(* refreshed, interrupted and retried, at most one of them is valid at a   *)
(* time, unless two refreshes of the same token overlapped: both find it   *)
(* valid before either revokes it (auth.go:227 and :232).                  *)
OneLineage ==
    \A row, other \in rows :
        row.root = other.root /\ ~row.revoked /\ ~other.revoked /\ row.root \notin raced => row = other

(* Accounts are created, changed and deleted only for whom the gateway     *)
(* took for an administrator, and who was one in the data base at some     *)
(* time during the request.  /register is the exception, which the service *)
(* does not guard (router.go:26): the word of a token up to RefreshTTL old *)
(* is enough there, but all it does is to add an account, of a plain user. *)
ManagedByAdmins ==
    [][users' # users =>
        \E c \in Clients :
            /\ req'[c].pc # req[c].pc /\ req[c].token.role = "admin"
            /\ \/ req[c].pc = "apply" /\ "admin" \in req[c].roles
               \/ /\ req[c].pc = "insert"
                  /\ \A n \in Names : users'[n] # users[n] =>
                        users[n] = NoUser /\ users'[n].role = "user"]_vars
===========================================================================
