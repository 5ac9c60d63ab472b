---------------------------- MODULE AuthSessions ----------------------------
(***************************************************************************)
(* Registration, login, refresh and logout (src/src/auth/auth.service.ts)  *)
(* over the users and refresh_sessions tables.                             *)
(*                                                                         *)
(* The API is one or more Node processes over one PostgreSQL database at   *)
(* READ COMMITTED, and every await is a point where other requests run, so *)
(* one action here is the code between two database round trips: a request *)
(* reads, decides, and writes in separate actions, and anything may happen *)
(* in between.  Each request is served once; a client that retries makes a *)
(* new request with the same token.                                        *)
(*                                                                         *)
(* Every id the code draws with randomUUID (the jti of a refresh token,    *)
(* the id of a session, the id of a registered user) is drawn at most once *)
(* by a request, so it is named here by the request that drew it: token r  *)
(* is the refresh token request r issued, session r the one it started.    *)
(***************************************************************************)
EXTENDS Naturals

CONSTANTS
    Request,    \* the requests clients ever make
    SeedUser,   \* accounts created beforehand (npm run seed:auth)
    Email,      \* normalized email addresses
    SeedEmail,  \* the address of each seeded account
    Ops,        \* the endpoints clients call: a subset of OpName
    TTL,        \* lifetime of a refresh token, in clock ticks
    MaxTime,    \* bound on the clock
    None        \* no id, no token, no address

VARIABLES
    now,        \* the clock (one clock for the API and the database)
    users,      \* table users
    sessions,   \* table refresh_sessions
    claims,     \* claims[r]: what the refresh token issued by r carries
    held,       \* the refresh tokens that reached a client
    pc,         \* pc[r]: the next step of request r
    call,       \* call[r]: what request r asks
    found,      \* found[r]: the account a login has read
    answer      \* answer[r]: the outcome of r, "none" while it runs

vars == <<now, users, sessions, claims, held, pc, call, found, answer>>

OpName == {"register", "login", "refresh", "logout"}

User == SeedUser \cup Request

ASSUME NoneAssumption == None \notin User \cup Email
ASSUME UserAssumption == SeedUser \cap Request = {}
ASSUME SeedAssumption ==
    /\ SeedEmail \in [SeedUser -> Email]
    /\ \A u, v \in SeedUser : SeedEmail[u] = SeedEmail[v] => u = v
ASSUME OpsAssumption == Ops \subseteq OpName
ASSUME TTLAssumption == TTL \in Nat \ {0}
ASSUME TimeAssumption == MaxTime \in Nat

-----------------------------------------------------------------------------
(* Rows and local values *)

UserRow == [email : Email \cup {None}, state : {"absent", "active", "inactive"}]
NoUser == [email |-> None, state |-> "absent"]

SessionRow == [userId : User \cup {None}, tokenHash : Request \cup {None},
               expiresAt : Nat, state : {"absent", "live", "revoked"}]
NoSession == [userId |-> None, tokenHash |-> None, expiresAt |-> 0, state |-> "absent"]

Claims == [sub : User \cup {None}, sid : Request \cup {None}, exp : Nat]
NoClaims == [sub |-> None, sid |-> None, exp |-> 0]

Call == [op : OpName \cup {"none"}, email : Email \cup {None},
         password : {"right", "wrong"}, token : Request \cup {None}]
NoCall == [op |-> "none", email |-> None, password |-> "wrong", token |-> None]

Found == [id : User \cup {None}, state : {"absent", "active", "inactive"}]
NotFound == [id |-> None, state |-> "absent"]

Step == {"idle", "checkEmail", "insertUser", "commit", "findUser", "verify",
         "insertSession", "findSession", "loadUser", "rotate", "revoke", "done"}

Rejection == {"emailTaken", "invalidCredentials", "invalidRefreshToken",
              "sessionRevoked", "userInactive", "serverError", "crashed"}
Answer == Rejection \cup {"none", "tokens", "loggedOut"}

TypeOK ==
    /\ now \in 0..MaxTime
    /\ users \in [User -> UserRow]
    /\ sessions \in [Request -> SessionRow]
    /\ claims \in [Request -> Claims]
    /\ held \in SUBSET Request
    /\ pc \in [Request -> Step]
    /\ call \in [Request -> Call]
    /\ found \in [Request -> Found]
    /\ answer \in [Request -> Answer]

(* The program starts with the seeded accounts and no session. *)
Init ==
    /\ now = 0
    /\ users = [u \in User |->
                  IF u \in SeedUser THEN [email |-> SeedEmail[u], state |-> "active"]
                                    ELSE NoUser]
    /\ sessions = [s \in Request |-> NoSession]
    /\ claims = [r \in Request |-> NoClaims]
    /\ held = {}
    /\ pc = [r \in Request |-> "idle"]
    /\ call = [r \in Request |-> NoCall]
    /\ found = [r \in Request |-> NotFound]
    /\ answer = [r \in Request |-> "none"]

-----------------------------------------------------------------------------
(* Helpers *)

(* The account with address e, as a SELECT sees it: at most one, by the    *)
(* unique constraint UQ_users_email.                                       *)
AccountsAt(e) == {u \in User : users[u].state # "absent" /\ users[u].email = e}

(* A request arrives with its parameters. *)
Ask(r, c) == call' = [call EXCEPT ![r] = c]

(* The handler goes on to its next step. *)
GoTo(r, step) ==
    /\ pc' = [pc EXCEPT ![r] = step]
    /\ UNCHANGED answer

(* The handler returns or throws. *)
Reply(r, a) ==
    /\ pc' = [pc EXCEPT ![r] = "done"]
    /\ answer' = [answer EXCEPT ![r] = a]

(* issueTokens: signs a refresh token for user u and session s. *)
IssueTokens(r, u, s) ==
    claims' = [claims EXCEPT ![r] = [sub |-> u, sid |-> s, exp |-> now + TTL]]

(* refreshExpiry is read from the clock after the token was signed and     *)
(* before the statement that stores it runs.                               *)
RefreshExpiry(r) == claims[r].exp .. (now + TTL)

(* The row startSession inserts: session s of user u, with token r. *)
InsertSessionRow(r, u) ==
    \E e \in RefreshExpiry(r) :
        sessions' = [sessions EXCEPT ![r] = [userId |-> u, tokenHash |-> r,
                                             expiresAt |-> e, state |-> "live"]]

-----------------------------------------------------------------------------
(* register: check the address, hash the password, then insert the user    *)
(* and its first session in one transaction.                               *)

RegisterArrives(r) ==
    /\ pc[r] = "idle"
    /\ "register" \in Ops
    /\ \E e \in Email : Ask(r, [op |-> "register", email |-> e,
                                password |-> "right", token |-> None])
    /\ GoTo(r, "checkEmail")
    /\ UNCHANGED <<now, users, sessions, claims, held, found>>

CheckEmail(r) ==
    /\ pc[r] = "checkEmail"
    /\ IF AccountsAt(call[r].email) = {} THEN GoTo(r, "insertUser")
                                         ELSE Reply(r, "emailTaken")
    /\ UNCHANGED <<now, users, sessions, claims, held, call, found>>

(* Requests whose transaction has inserted address e and not committed. *)
InsertingEmail(e) == {q \in Request : pc[q] = "commit" /\ call[q].email = e}

(* Fault: the user is inserted outside the transaction, so it is visible    *)
(* before its session exists and survives a crash.                          *)
InsertUserAutocommit(r) ==
    /\ pc[r] = "insertUser"
    /\ AccountsAt(call[r].email) = {}
    /\ users' = [users EXCEPT ![r] = [email |-> call[r].email, state |-> "active"]]
    /\ IssueTokens(r, r, r)
    /\ GoTo(r, "commit")
    /\ UNCHANGED <<now, sessions, held, call, found>>

(* Fault: no unique constraint on the address, only the pre-check. *)
InsertUserUnchecked(r) ==
    /\ pc[r] = "insertUser"
    /\ IssueTokens(r, r, r)
    /\ GoTo(r, "commit")
    /\ UNCHANGED <<now, users, sessions, held, call, found>>

(* Fault: the unique violation of the insert is passed on as it is. *)
InsertUserUntranslated(r) ==
    /\ pc[r] = "insertUser"
    /\ InsertingEmail(call[r].email) = {}
    /\ IF AccountsAt(call[r].email) = {}
       THEN IssueTokens(r, r, r) /\ GoTo(r, "commit")
       ELSE Reply(r, "uniqueViolation") /\ UNCHANGED claims
    /\ UNCHANGED <<now, users, sessions, held, call, found>>

(* INSERT INTO users inside the transaction.  PostgreSQL makes the insert  *)
(* wait for any uncommitted row with the same address; a committed one     *)
(* raises the unique violation that create() turns into 409.  The new row  *)
(* is invisible to others until the commit, so users is unchanged.         *)
InsertUser(r) ==
    /\ pc[r] = "insertUser"
    /\ InsertingEmail(call[r].email) = {}
    /\ \/ /\ AccountsAt(call[r].email) = {}
          /\ IssueTokens(r, r, r)
          /\ GoTo(r, "commit")
       \/ /\ AccountsAt(call[r].email) # {}
          /\ Reply(r, "emailTaken")
          /\ UNCHANGED claims
    /\ UNCHANGED <<now, users, sessions, held, call, found>>

(* INSERT INTO refresh_sessions, then COMMIT: both rows appear at once. *)
CommitRegistration(r) ==
    /\ pc[r] = "commit"
    /\ users' = [users EXCEPT ![r] = [email |-> call[r].email, state |-> "active"]]
    /\ InsertSessionRow(r, r)
    /\ Reply(r, "tokens")
    /\ UNCHANGED <<now, claims, held, call, found>>

-----------------------------------------------------------------------------
(* login: read the account, verify the password, insert a session. *)

LoginArrives(r) ==
    /\ pc[r] = "idle"
    /\ "login" \in Ops
    /\ \E e \in Email, p \in {"right", "wrong"} :
          Ask(r, [op |-> "login", email |-> e, password |-> p, token |-> None])
    /\ GoTo(r, "findUser")
    /\ UNCHANGED <<now, users, sessions, claims, held, found>>

FindUser(r) ==
    /\ pc[r] = "findUser"
    /\ \/ /\ AccountsAt(call[r].email) = {}
          /\ UNCHANGED found
       \/ \E u \in AccountsAt(call[r].email) :
             found' = [found EXCEPT ![r] = [id |-> u, state |-> users[u].state]]
    /\ GoTo(r, "verify")
    /\ UNCHANGED <<now, users, sessions, claims, held, call>>

(* argon2 runs against the account as it was read; so does the check of    *)
(* its active flag.  The token is signed right after.                      *)
VerifyPassword(r) ==
    /\ pc[r] = "verify"
    /\ \/ /\ found[r].id = None \/ call[r].password = "wrong"
          /\ Reply(r, "invalidCredentials")
          /\ UNCHANGED claims
       \/ /\ found[r].id # None
          /\ call[r].password = "right"
          /\ found[r].state # "active"
          /\ Reply(r, "userInactive")
          /\ UNCHANGED claims
       \/ /\ found[r].id # None
          /\ call[r].password = "right"
          /\ found[r].state = "active"
          /\ IssueTokens(r, found[r].id, r)
          /\ GoTo(r, "insertSession")
    /\ UNCHANGED <<now, users, sessions, held, call, found>>

(* The foreign key refuses a session of an account deleted meanwhile. *)
InsertSession(r) ==
    /\ pc[r] = "insertSession"
    /\ \/ /\ users[found[r].id].state = "absent"
          /\ Reply(r, "serverError")
          /\ UNCHANGED sessions
       \/ /\ users[found[r].id].state # "absent"
          /\ InsertSessionRow(r, found[r].id)
          /\ Reply(r, "tokens")
    /\ UNCHANGED <<now, users, claims, held, call, found>>

-----------------------------------------------------------------------------
(* findUsableSession, the shared beginning of refresh and logout. *)

(* verifyRefreshToken: the signature holds for every token a client was    *)
(* given; an expired one is refused before anything is read.               *)
TokenArrives(r, o) ==
    /\ pc[r] = "idle"
    /\ o \in Ops
    /\ \E t \in held :
          /\ Ask(r, [op |-> o, email |-> None, password |-> "wrong", token |-> t])
          /\ IF now < claims[t].exp THEN GoTo(r, "findSession")
                                    ELSE Reply(r, "invalidRefreshToken")
    /\ UNCHANGED <<now, users, sessions, claims, held, found>>

RefreshArrives(r) == TokenArrives(r, "refresh")
LogoutArrives(r) == TokenArrives(r, "logout")

(* The token a request presents, and the session it names. *)
Presented(r) == call[r].token
Target(r) == claims[Presented(r)].sid

(* SELECT ... WHERE id = sid AND user_id = sub. *)
SessionMissing(r) ==
    \/ sessions[Target(r)].state = "absent"
    \/ sessions[Target(r)].userId # claims[Presented(r)].sub

FindSession(r) ==
    /\ pc[r] = "findSession"
    /\ LET row == sessions[Target(r)]
       IN \/ /\ SessionMissing(r)
             /\ Reply(r, "invalidRefreshToken")
          \/ /\ ~SessionMissing(r)
             /\ row.state = "revoked"
             /\ Reply(r, "sessionRevoked")
          \/ /\ ~SessionMissing(r)
             /\ row.state = "live"
             /\ row.expiresAt <= now \/ row.tokenHash # Presented(r)
             /\ Reply(r, "invalidRefreshToken")
          \/ /\ ~SessionMissing(r)
             /\ row.state = "live"
             /\ row.expiresAt > now
             /\ row.tokenHash = Presented(r)
             /\ GoTo(r, IF call[r].op = "refresh" THEN "loadUser" ELSE "revoke")
    /\ UNCHANGED <<now, users, sessions, claims, held, call, found>>

-----------------------------------------------------------------------------
(* refresh, after findUsableSession: load the account, sign the new token, *)
(* then swap the hash with one conditional UPDATE.                         *)

(* Fault: refresh does not look at users.active. *)
LoadUserIgnoringActive(r) ==
    /\ pc[r] = "loadUser"
    /\ users[claims[Presented(r)].sub].state # "absent"
    /\ IssueTokens(r, claims[Presented(r)].sub, Target(r))
    /\ GoTo(r, "rotate")
    /\ UNCHANGED <<now, users, sessions, held, call, found>>

LoadUser(r) ==
    /\ pc[r] = "loadUser"
    /\ LET u == claims[Presented(r)].sub
       IN \/ /\ users[u].state = "absent"
             /\ Reply(r, "invalidRefreshToken")
             /\ UNCHANGED claims
          \/ /\ users[u].state = "inactive"
             /\ Reply(r, "userInactive")
             /\ UNCHANGED claims
          \/ /\ users[u].state = "active"
             /\ IssueTokens(r, u, Target(r))
             /\ GoTo(r, "rotate")
    /\ UNCHANGED <<now, users, sessions, held, call, found>>

(* Fault: the UPDATE trusts the hash compared in findUsableSession. *)
StillCurrentUnguarded(r) ==
    /\ sessions[Target(r)].state = "live"
    /\ sessions[Target(r)].userId = claims[Presented(r)].sub

(* WHERE id, user_id, token_hash match AND revoked_at IS NULL: the row the *)
(* UPDATE of logout touches.                                               *)
StillCurrent(r) ==
    LET row == sessions[Target(r)]
    IN /\ row.state = "live"
       /\ row.userId = claims[Presented(r)].sub
       /\ row.tokenHash = Presented(r)

(* Fault: the UPDATE of refresh does not ask for expires_at > now(). *)
RotatableExpired(r) == StillCurrent(r)

(* Fault: nor for revoked_at IS NULL. *)
RotatableRevoked(r) ==
    LET row == sessions[Target(r)]
    IN /\ row.state # "absent"
       /\ row.tokenHash = Presented(r)
       /\ row.expiresAt > now

(* The UPDATE of refresh also asks for expires_at > now(). *)
Rotatable(r) == StillCurrent(r) /\ sessions[Target(r)].expiresAt > now

(* Faults: what the request that lost a race might do instead of failing   *)
(* alone.                                                                   *)
RotateWith(r, loserDoes) ==
    /\ pc[r] = "rotate"
    /\ \/ /\ Rotatable(r)
          /\ \E e \in RefreshExpiry(r) :
                sessions' = [sessions EXCEPT ![Target(r)] =
                                [@ EXCEPT !.tokenHash = r, !.expiresAt = e]]
          /\ Reply(r, "tokens")
       \/ /\ ~Rotatable(r)
          /\ loserDoes
    /\ UNCHANGED <<now, users, claims, held, call, found>>

(* Fault: a superseded token revokes the session (token-family revocation). *)
RotateRevokingOnConflict(r) ==
    RotateWith(r, /\ Reply(r, "invalidRefreshToken")
                  /\ sessions' = [sessions EXCEPT ![Target(r)].state = "revoked"])

(* Fault: the loser puts the token its client still has back in the row. *)
RotateRestoringOnConflict(r) ==
    RotateWith(r, /\ Reply(r, "invalidRefreshToken")
                  /\ sessions' = [sessions EXCEPT ![Target(r)].tokenHash = Presented(r)])

(* Fault: the loser tries the UPDATE again, for ever. *)
RotateRetryingOnConflict(r) ==
    RotateWith(r, GoTo(r, "rotate") /\ UNCHANGED sessions)

(* Fault: rotation keeps the expiry the session started with. *)
RotateKeepingExpiry(r) ==
    /\ pc[r] = "rotate"
    /\ Rotatable(r)
    /\ sessions' = [sessions EXCEPT ![Target(r)].tokenHash = r]
    /\ Reply(r, "tokens")
    /\ UNCHANGED <<now, users, claims, held, call, found>>

(* When no row matched, the request alone is rejected. *)
Rotate(r) ==
    /\ pc[r] = "rotate"
    /\ \/ /\ Rotatable(r)
          /\ \E e \in RefreshExpiry(r) :
                sessions' = [sessions EXCEPT ![Target(r)] =
                                [@ EXCEPT !.tokenHash = r, !.expiresAt = e]]
          /\ Reply(r, "tokens")
       \/ /\ ~Rotatable(r)
          /\ Reply(r, "invalidRefreshToken")
          /\ UNCHANGED sessions
    /\ UNCHANGED <<now, users, claims, held, call, found>>

(* logout, after findUsableSession: revoke the row the token is current in. *)
Revoke(r) ==
    /\ pc[r] = "revoke"
    /\ \/ /\ StillCurrent(r)
          /\ sessions' = [sessions EXCEPT ![Target(r)].state = "revoked"]
          /\ Reply(r, "loggedOut")
       \/ /\ ~StillCurrent(r)
          /\ Reply(r, "invalidRefreshToken")
          /\ UNCHANGED sessions
    /\ UNCHANGED <<now, users, claims, held, call, found>>

-----------------------------------------------------------------------------
(* Around the requests *)

(* The response with the token reaches the client; it may also be lost, in *)
(* which case this step is never taken.                                    *)
Deliver(r) ==
    /\ answer[r] = "tokens"
    /\ r \notin held
    /\ held' = held \cup {r}
    /\ UNCHANGED <<now, users, sessions, claims, pc, call, found, answer>>

(* The process dies, or a statement fails, under a running request: its    *)
(* open transaction is rolled back and nothing more happens on its behalf. *)
Crash(r) ==
    /\ pc[r] \notin {"idle", "done"}
    /\ Reply(r, "crashed")
    /\ UNCHANGED <<now, users, sessions, claims, held, call, found>>

(* No endpoint changes users.active: an operator does, with SQL. *)
SetActive(u, from, to) ==
    /\ users[u].state = from
    /\ users' = [users EXCEPT ![u].state = to]
    /\ UNCHANGED <<now, sessions, claims, held, pc, call, found, answer>>

Deactivate(u) == SetActive(u, "active", "inactive")
Activate(u) == SetActive(u, "inactive", "active")

(* Deleting the row takes the account's sessions with it (ON DELETE CASCADE). *)
DeleteUser(u) ==
    /\ users[u].state # "absent"
    /\ users' = [users EXCEPT ![u] = NoUser]
    /\ sessions' = [s \in Request |->
                      IF sessions[s].userId = u THEN NoSession ELSE sessions[s]]
    /\ UNCHANGED <<now, claims, held, pc, call, found, answer>>

Tick ==
    /\ now < MaxTime
    /\ now' = now + 1
    /\ UNCHANGED <<users, sessions, claims, held, pc, call, found, answer>>

-----------------------------------------------------------------------------

Arrive(r) == RegisterArrives(r) \/ LoginArrives(r) \/ RefreshArrives(r) \/ LogoutArrives(r)

Serve(r) ==
    \/ CheckEmail(r) \/ InsertUser(r) \/ CommitRegistration(r)
    \/ FindUser(r) \/ VerifyPassword(r) \/ InsertSession(r)
    \/ FindSession(r) \/ LoadUser(r) \/ Rotate(r) \/ Revoke(r)

Operator(u) == Deactivate(u) \/ Activate(u) \/ DeleteUser(u)

Next ==
    \/ \E r \in Request : Arrive(r) \/ Serve(r) \/ Deliver(r) \/ Crash(r)
    \/ \E u \in User : Operator(u)
    \/ Tick

Spec == Init /\ [][Next]_vars

(* The event loop and the database never abandon a request that can go on. *)
(* Clients, operators, the network and the clock owe nothing.              *)
FairSpec == Spec /\ \A r \in Request : WF_vars(Serve(r))

-----------------------------------------------------------------------------
(* Properties *)

GotTokens(r) == answer[r] = "tokens"

(* r is a refresh that was answered with tokens: it exchanged the token it *)
(* presented.                                                              *)
Exchanged(r) == call[r].op = "refresh" /\ GotTokens(r)
Spent == {Presented(r) : r \in {q \in Request : Exchanged(q)}}

(* "Exactly one request can rotate a given token" (auth.service.ts:33-42): *)
(* however refreshes with the same token interleave, at most one gets      *)
(* tokens for it.                                                          *)
SingleUse ==
    \A r, q \in Request :
        Exchanged(r) /\ Exchanged(q) /\ Presented(r) = Presented(q) => r = q

(* "The previous token can never succeed again": a token that was          *)
(* exchanged is never again the current one of any session.                *)
SpentNeverCurrent ==
    \A s \in Request : sessions[s].state # "absent" => sessions[s].tokenHash \notin Spent

(* No client is ever left holding a dead token through the fault of a      *)
(* concurrent request: a token the API handed out and nobody exchanged is  *)
(* the current one of its session as long as that session is live.         *)
UnspentIsCurrent ==
    \A r \in Request :
        /\ GotTokens(r)
        /\ r \notin Spent
        /\ sessions[claims[r].sid].state = "live"
        => sessions[claims[r].sid].tokenHash = r

(* A session row never expires before the token that is current in it: the *)
(* token's own exp is what ends it.                                        *)
SessionOutlivesToken ==
    \A s \in Request :
        sessions[s].state # "absent" => claims[sessions[s].tokenHash].exp <= sessions[s].expiresAt

(* Registration is one transaction: an account that was registered, and    *)
(* not seeded, has a session from its first instant on.                    *)
RegisteredHasSession ==
    \A u \in Request :
        users[u].state # "absent" => \E s \in Request : sessions[s].userId = u

(* However registrations race, no two accounts share an address. *)
UniqueEmail ==
    \A u, v \in User :
        /\ users[u].state # "absent"
        /\ users[v].state # "absent"
        /\ users[u].email = users[v].email
        => u = v

(* "Only logout revokes a session": a live session becomes revoked only in *)
(* the step in which a logout that presented its current token succeeds.   *)
OnlyLogoutRevokes ==
    [][\A s \in Request :
          sessions[s].state = "live" /\ sessions'[s].state = "revoked" =>
             \E r \in Request :
                /\ call[r].op = "logout"
                /\ Presented(r) = sessions[s].tokenHash
                /\ answer[r] = "none"
                /\ answer'[r] = "loggedOut"]_vars

(* A revoked or expired session is over: no request in flight revives it,  *)
(* extends it or gets tokens for it.                                       *)
EndedSessionIsFinal ==
    [][\A s \in Request :
          \/ sessions[s].state = "revoked"
          \/ sessions[s].state = "live" /\ sessions[s].expiresAt <= now
          => /\ sessions'[s].state \in {sessions[s].state, "revoked", "absent"}
             /\ sessions'[s].state # "absent" =>
                   /\ sessions'[s].tokenHash = sessions[s].tokenHash
                   /\ sessions'[s].expiresAt = sessions[s].expiresAt]_vars

(* A rejected request leaves no trace, at whichever of its steps it was    *)
(* rejected or killed: no account, no session and no token of its own is   *)
(* in the tables or with a client, however far it had come.                *)
RejectedLeavesNoTrace ==
    \A r \in Request :
        answer[r] \in Rejection =>
           /\ users[r].state = "absent"
           /\ r \notin held
           /\ \A s \in Request :
                 sessions[s].state # "absent" => r \notin {s, sessions[s].tokenHash}

(* From the moment an account is out of use for good, a login or refresh   *)
(* that has not arrived yet never gets tokens for it.                      *)
DeactivationLocksOut ==
    \A u \in SeedUser, r \in Request :
        [](([](users[u].state # "active") /\ pc[r] = "idle")
             => [](GotTokens(r) => claims[r].sub # u))

(* Every request that arrives is answered, whatever the others do, also a  *)
(* registration that waits for another one's transaction.                  *)
EveryRequestAnswered ==
    \A r \in Request : pc[r] # "idle" ~> pc[r] = "done"

-----------------------------------------------------------------------------
(* Why the properties hold: what is true between the steps of the handlers *)

Opened(s) == GotTokens(s) /\ call[s].op \in {"register", "login"}
Granted == {r \in Request : GotTokens(r)}

(* Where a request stands agrees with what it asks, and the token it       *)
(* presents was handed out before.                                         *)
HandlerInv ==
    \A r \in Request :
        /\ pc[r] = "done" <=> answer[r] # "none"
        /\ pc[r] \in {"checkEmail", "insertUser", "commit"} => call[r].op = "register"
        /\ pc[r] \in {"findUser", "verify", "insertSession"} => call[r].op = "login"
        /\ pc[r] \in {"loadUser", "rotate"} => call[r].op = "refresh"
        /\ pc[r] = "revoke" => call[r].op = "logout"
        /\ pc[r] = "findSession" => call[r].op \in {"refresh", "logout"}
        /\ pc[r] = "insertSession" => found[r].id # None
        /\ call[r].op \in {"refresh", "logout"} => Presented(r) \in held
        /\ GotTokens(r) => call[r].op \in {"register", "login", "refresh"}

(* The claims of a token agree with the session and the account it was     *)
(* signed for, from the signature on.                                      *)
ClaimsInv ==
    /\ held \subseteq Granted
    /\ \A r \in Request :
        /\ pc[r] \in {"commit", "insertSession"} => claims[r].sid = r
        /\ pc[r] = "commit" => claims[r].sub = r
        /\ pc[r] = "insertSession" => claims[r].sub = found[r].id
        /\ pc[r] = "rotate" => /\ claims[r].sid = Target(r)
                               /\ claims[r].sub = claims[Presented(r)].sub
        /\ GotTokens(r) => /\ claims[r].sid \in Request
                           /\ claims[r].sub \in User
                           /\ Opened(claims[r].sid)

(* A row belongs to a session that was opened, and holds a token that was  *)
(* handed out for that session and its account.                            *)
RowInv ==
    \A s \in Request :
        LET row == sessions[s]
        IN row.state # "absent" =>
              /\ Opened(s)
              /\ row.tokenHash \in Granted
              /\ claims[row.tokenHash].sid = s
              /\ claims[row.tokenHash].sub = row.userId

(* While a registration holds the unique index entry of its address, the   *)
(* address is free of accounts and of other registrations.                 *)
EmailInv ==
    \A r \in Request :
        pc[r] = "commit" => /\ AccountsAt(call[r].email) = {}
                            /\ \A q \in InsertingEmail(call[r].email) : q = r

(* A registered account was committed by its own request, and owns the     *)
(* session that request opened.                                            *)
AccountInv ==
    \A u \in Request :
        users[u].state # "absent" => /\ GotTokens(u)
                                     /\ sessions[u].userId = u

(* The inductive invariant: each part needs the ones before it. *)
IInv ==
    /\ HandlerInv /\ ClaimsInv /\ RowInv /\ EmailInv /\ AccountInv
    /\ SingleUse /\ SpentNeverCurrent /\ UnspentIsCurrent /\ UniqueEmail
    /\ SessionOutlivesToken

-----------------------------------------------------------------------------
(* The promise of TokenChain, read off the tables: a session lives while   *)
(* its row is live, and has ended when its row is revoked or gone.         *)

Phase ==
    [s \in Request |-> IF sessions[s].state = "live" THEN "live"
                       ELSE IF Opened(s) THEN "ended" ELSE "unborn"]
Head == [s \in Request |-> IF sessions[s].state = "live" THEN sessions[s].tokenHash ELSE None]

Chain == INSTANCE TokenChain
           WITH Session <- Request, Token <- Request, NoToken <- None,
                phase <- Phase, head <- Head, granted <- Granted, spent <- Spent

(* The tables and handlers implement the chain of tokens. *)
ImplementsTokenChain == Chain!Spec
=============================================================================
