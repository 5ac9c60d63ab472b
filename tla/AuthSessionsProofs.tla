------------------------- MODULE AuthSessionsProofs -------------------------
(***************************************************************************)
(* Proofs about AuthSessions, for any number of requests, accounts and     *)
(* addresses and any token lifetime.                                       *)
(***************************************************************************)
EXTENDS AuthSessions, TLAPS

USE NoneAssumption, UserAssumption, SeedAssumption, TTLAssumption, TimeAssumption

(* What the helpers do to the variables they write. *)
LEMMA ReplyType ==
    ASSUME NEW r \in Request, NEW a \in Answer, TypeOK, Reply(r, a)
    PROVE  pc' \in [Request -> Step] /\ answer' \in [Request -> Answer]
  BY DEF TypeOK, Reply, Step

(* Moving a handler on keeps pc and answer in their types. *)
LEMMA GoToType ==
    ASSUME NEW r \in Request, NEW step \in Step, TypeOK, GoTo(r, step)
    PROVE  pc' \in [Request -> Step] /\ answer' \in [Request -> Answer]
  BY DEF TypeOK, GoTo

(* Signing a token writes claims of the right type. *)
LEMMA IssueType ==
    ASSUME NEW r \in Request, NEW u \in User \cup {None}, NEW s \in Request \cup {None},
           TypeOK, IssueTokens(r, u, s)
    PROVE  claims' \in [Request -> Claims]
  BY DEF TypeOK, IssueTokens, Claims

(* Inserting a session writes a row of the right type. *)
LEMMA InsertRowType ==
    ASSUME NEW r \in Request, NEW u \in User \cup {None}, TypeOK, InsertSessionRow(r, u)
    PROVE  sessions' \in [Request -> SessionRow]
  BY DEF TypeOK, InsertSessionRow, RefreshExpiry, SessionRow, Claims

(* A refresh or logout in progress presents a token, and the token names a *)
(* session and an account.                                                 *)
LEMMA PresentedType ==
    ASSUME NEW r \in Request, TypeOK, HandlerInv,
           pc[r] \in {"findSession", "loadUser", "rotate", "revoke"}
    PROVE  /\ Presented(r) \in Request
           /\ Target(r) \in Request \cup {None}
           /\ claims[Presented(r)].sub \in User \cup {None}
  <1>1. Presented(r) \in held
    BY DEF HandlerInv
  <1>2. QED
    BY <1>1 DEF TypeOK, Target, Claims

(* The rows that stand for nothing have the types of rows. *)
LEMMA EmptyRows ==
    /\ NoUser \in UserRow
    /\ NoSession \in SessionRow
    /\ NoClaims \in Claims
    /\ NoCall \in Call
    /\ NotFound \in Found
  BY DEF NoUser, UserRow, NoSession, SessionRow, NoClaims, Claims, NoCall, Call,
         NotFound, Found, OpName

(* Rotation rewrites a row into a row. *)
LEMMA RotatedRow ==
    ASSUME NEW row \in SessionRow, NEW t \in Request, NEW e \in Nat
    PROVE  [row EXCEPT !.tokenHash = t, !.expiresAt = e] \in SessionRow
  BY DEF SessionRow

(* The initial state has the right types. *)
LEMMA TypeInit == Init => TypeOK
  <1> SUFFICES ASSUME Init PROVE TypeOK
    OBVIOUS
  <1>1. users \in [User -> UserRow]
    BY EmptyRows DEF Init, UserRow
  <1>2. QED
    BY <1>1, EmptyRows DEF Init, TypeOK, Step, Answer

(* Every step keeps the types; the one that needs more than types is the   *)
(* rotation, whose target session comes from the claims of the presented   *)
(* token.                                                                  *)
LEMMA TypeNext == TypeOK /\ HandlerInv /\ [Next]_vars => TypeOK'
  <1> SUFFICES ASSUME TypeOK, HandlerInv, [Next]_vars PROVE TypeOK'
    OBVIOUS
  <1> USE DEF Step, Answer, Rejection
  <1>1. ASSUME NEW r \in Request, RegisterArrives(r) PROVE TypeOK'
    <2>1. call' \in [Request -> Call]
      BY <1>1 DEF TypeOK, RegisterArrives, Ask, Call, OpName
    <2>2. QED
      BY <1>1, <2>1, GoToType DEF RegisterArrives, TypeOK
  <1>2. ASSUME NEW r \in Request, LoginArrives(r) PROVE TypeOK'
    <2>1. call' \in [Request -> Call]
      BY <1>2 DEF TypeOK, LoginArrives, Ask, Call, OpName
    <2>2. QED
      BY <1>2, <2>1, GoToType DEF LoginArrives, TypeOK
  <1>3. ASSUME NEW r \in Request, NEW o \in {"refresh", "logout"}, TokenArrives(r, o)
        PROVE  TypeOK'
    <2>1. call' \in [Request -> Call]
      BY <1>3 DEF TypeOK, TokenArrives, Ask, Call, OpName
    <2>2. pc' \in [Request -> Step] /\ answer' \in [Request -> Answer]
      BY <1>3, GoToType, ReplyType DEF TokenArrives
    <2>3. QED
      BY <1>3, <2>1, <2>2 DEF TokenArrives, TypeOK
  <1>4. ASSUME NEW r \in Request, CheckEmail(r) PROVE TypeOK'
    <2>1. pc' \in [Request -> Step] /\ answer' \in [Request -> Answer]
      BY <1>4, GoToType, ReplyType DEF CheckEmail
    <2>2. QED
      BY <1>4, <2>1 DEF CheckEmail, TypeOK
  <1>5. ASSUME NEW r \in Request, InsertUser(r) PROVE TypeOK'
    <2>1. pc' \in [Request -> Step] /\ answer' \in [Request -> Answer]
      BY <1>5, GoToType, ReplyType DEF InsertUser
    <2>2. claims' \in [Request -> Claims]
      <3>1. claims \in [Request -> Claims]
        BY DEF TypeOK
      <3>2. QED
        BY <1>5, <3>1, IssueType DEF InsertUser, User
    <2>3. QED
      BY <1>5, <2>1, <2>2 DEF InsertUser, TypeOK
  <1>6. ASSUME NEW r \in Request, CommitRegistration(r) PROVE TypeOK'
    <2>1. pc' \in [Request -> Step] /\ answer' \in [Request -> Answer]
      BY <1>6, ReplyType DEF CommitRegistration
    <2>2. sessions' \in [Request -> SessionRow]
      BY <1>6, InsertRowType DEF CommitRegistration, User
    <2>3. users' \in [User -> UserRow]
      BY <1>6 DEF CommitRegistration, TypeOK, UserRow, Call
    <2>4. QED
      BY <1>6, <2>1, <2>2, <2>3 DEF CommitRegistration, TypeOK
  <1>7. ASSUME NEW r \in Request, FindUser(r) PROVE TypeOK'
    <2>1. found' \in [Request -> Found]
      BY <1>7 DEF FindUser, TypeOK, Found, AccountsAt, UserRow
    <2>2. QED
      BY <1>7, <2>1, GoToType DEF FindUser, TypeOK
  <1>8. ASSUME NEW r \in Request, VerifyPassword(r) PROVE TypeOK'
    <2>1. pc' \in [Request -> Step] /\ answer' \in [Request -> Answer]
      BY <1>8, GoToType, ReplyType DEF VerifyPassword
    <2>2. found[r].id \in User \cup {None}
      BY DEF TypeOK, Found
    <2>3. claims' \in [Request -> Claims]
      BY <1>8, <2>2, IssueType DEF VerifyPassword, TypeOK
    <2>4. QED
      BY <1>8, <2>1, <2>3 DEF VerifyPassword, TypeOK
  <1>9. ASSUME NEW r \in Request, InsertSession(r) PROVE TypeOK'
    <2>1. pc' \in [Request -> Step] /\ answer' \in [Request -> Answer]
      BY <1>9, ReplyType DEF InsertSession
    <2>2. found[r].id \in User \cup {None}
      BY DEF TypeOK, Found
    <2>3. sessions' \in [Request -> SessionRow]
      BY <1>9, <2>2, InsertRowType DEF InsertSession, TypeOK
    <2>4. QED
      BY <1>9, <2>1, <2>3 DEF InsertSession, TypeOK
  <1>10. ASSUME NEW r \in Request, FindSession(r) PROVE TypeOK'
    <2>1. pc' \in [Request -> Step] /\ answer' \in [Request -> Answer]
      BY <1>10, GoToType, ReplyType DEF FindSession
    <2>2. QED
      BY <1>10, <2>1 DEF FindSession, TypeOK
  <1>11. ASSUME NEW r \in Request, LoadUser(r) PROVE TypeOK'
    <2>1. pc' \in [Request -> Step] /\ answer' \in [Request -> Answer]
      BY <1>11, GoToType, ReplyType DEF LoadUser
    <2>2. claims' \in [Request -> Claims]
      <3>1. claims \in [Request -> Claims]
        BY DEF TypeOK
      <3>2. pc[r] = "loadUser"
        BY <1>11 DEF LoadUser
      <3>3. /\ Target(r) \in Request \cup {None}
            /\ claims[Presented(r)].sub \in User \cup {None}
        BY <3>2, PresentedType
      <3>4. QED
        BY <1>11, <3>1, <3>3, IssueType DEF LoadUser
    <2>3. QED
      BY <1>11, <2>1, <2>2 DEF LoadUser, TypeOK
  <1>12. ASSUME NEW r \in Request, Rotate(r) PROVE TypeOK'
    <2>1. pc' \in [Request -> Step] /\ answer' \in [Request -> Answer]
      BY <1>12, ReplyType DEF Rotate
    <2>2. sessions' \in [Request -> SessionRow]
      <3>1. /\ sessions \in [Request -> SessionRow]
            /\ claims[r].exp \in Nat
            /\ now \in Nat
        BY DEF TypeOK, Claims
      <3>2. CASE UNCHANGED sessions
        BY <3>1, <3>2
      <3>3. ASSUME NEW e \in RefreshExpiry(r),
                   sessions' = [sessions EXCEPT ![Target(r)] =
                                   [@ EXCEPT !.tokenHash = r, !.expiresAt = e]]
            PROVE  sessions' \in [Request -> SessionRow]
        <4>1. e \in Nat
          BY <3>1 DEF RefreshExpiry
        <4>2. QED
          BY <3>1, <3>3, <4>1, RotatedRow
      <3>4. QED
        BY <1>12, <3>2, <3>3 DEF Rotate
    <2>3. QED
      BY <1>12, <2>1, <2>2 DEF Rotate, TypeOK
  <1>13. ASSUME NEW r \in Request, Revoke(r) PROVE TypeOK'
    <2>1. pc' \in [Request -> Step] /\ answer' \in [Request -> Answer]
      BY <1>13, ReplyType DEF Revoke
    <2>2. sessions' \in [Request -> SessionRow]
      <3>1. sessions \in [Request -> SessionRow]
        BY DEF TypeOK
      <3>2. QED
        BY <1>13, <3>1 DEF Revoke, SessionRow
    <2>3. QED
      BY <1>13, <2>1, <2>2 DEF Revoke, TypeOK
  <1>14. ASSUME NEW r \in Request, Deliver(r) PROVE TypeOK'
    BY <1>14 DEF Deliver, TypeOK
  <1>15. ASSUME NEW r \in Request, Crash(r) PROVE TypeOK'
    BY <1>15, ReplyType DEF Crash, TypeOK
  <1>16. ASSUME NEW u \in User, Operator(u) PROVE TypeOK'
    <2>1. users' \in [User -> UserRow]
      BY <1>16, EmptyRows DEF Operator, Deactivate, Activate, SetActive, DeleteUser, TypeOK, UserRow
    <2>2. sessions' \in [Request -> SessionRow]
      BY <1>16, EmptyRows DEF Operator, Deactivate, Activate, SetActive, DeleteUser, TypeOK
    <2>3. QED
      BY <1>16, <2>1, <2>2 DEF Operator, Deactivate, Activate, SetActive, DeleteUser, TypeOK
  <1>17. CASE Tick
    BY <1>17 DEF Tick, TypeOK
  <1>18. CASE UNCHANGED vars
    BY <1>18 DEF vars, TypeOK
  <1>19. QED
    BY <1>1, <1>2, <1>3, <1>4, <1>5, <1>6, <1>7, <1>8, <1>9, <1>10, <1>11, <1>12,
       <1>13, <1>14, <1>15, <1>16, <1>17, <1>18
       DEF Next, Arrive, Serve, RefreshArrives, LogoutArrives

-----------------------------------------------------------------------------
(* Requests and the steps they are at *)

(* No request has arrived in the initial state. *)
LEMMA HandlerInit == Init => HandlerInv
  <1> SUFFICES ASSUME Init, NEW r \in Request
               PROVE  pc[r] = "idle" /\ answer[r] = "none" /\ call[r].op = "none"
    BY DEF HandlerInv, GotTokens
  <1>1. QED
    BY DEF Init, NoCall

(* Only the request that takes the step changes its place, its question or *)
(* its answer, and held only grows.                                        *)
LEMMA HandlerNext == TypeOK /\ HandlerInv /\ [Next]_vars => HandlerInv'
  <1> SUFFICES ASSUME TypeOK, HandlerInv, [Next]_vars PROVE HandlerInv'
    OBVIOUS
  <1>types. /\ pc \in [Request -> Step]
            /\ answer \in [Request -> Answer]
            /\ call \in [Request -> Call]
            /\ found \in [Request -> Found]
    BY DEF TypeOK
  <1> USE <1>types DEF HandlerInv, GotTokens, Presented, Reply, GoTo
  <1>1. ASSUME NEW r \in Request, RegisterArrives(r) PROVE HandlerInv'
    BY <1>1 DEF RegisterArrives, Ask
  <1>2. ASSUME NEW r \in Request, LoginArrives(r) PROVE HandlerInv'
    BY <1>2 DEF LoginArrives, Ask
  <1>3. ASSUME NEW r \in Request, NEW o \in {"refresh", "logout"}, TokenArrives(r, o)
        PROVE  HandlerInv'
    BY <1>3 DEF TokenArrives, Ask
  <1>4. ASSUME NEW r \in Request, CheckEmail(r) PROVE HandlerInv'
    BY <1>4 DEF CheckEmail
  <1>5. ASSUME NEW r \in Request, InsertUser(r) PROVE HandlerInv'
    BY <1>5 DEF InsertUser
  <1>6. ASSUME NEW r \in Request, CommitRegistration(r) PROVE HandlerInv'
    BY <1>6 DEF CommitRegistration
  <1>7. ASSUME NEW r \in Request, FindUser(r) PROVE HandlerInv'
    BY <1>7 DEF FindUser
  <1>8. ASSUME NEW r \in Request, VerifyPassword(r) PROVE HandlerInv'
    BY <1>8 DEF VerifyPassword
  <1>9. ASSUME NEW r \in Request, InsertSession(r) PROVE HandlerInv'
    BY <1>9 DEF InsertSession
  <1>10. ASSUME NEW r \in Request, FindSession(r) PROVE HandlerInv'
    BY <1>10 DEF FindSession
  <1>11. ASSUME NEW r \in Request, LoadUser(r) PROVE HandlerInv'
    BY <1>11 DEF LoadUser
  <1>12. ASSUME NEW r \in Request, Rotate(r) PROVE HandlerInv'
    <2>1. pc[r] = "rotate" /\ UNCHANGED <<held, call, found>>
      BY <1>12 DEF Rotate
    <2>2. Reply(r, "tokens") \/ Reply(r, "invalidRefreshToken")
      BY <1>12 DEF Rotate
    <2>3. QED
      BY <2>1, <2>2
  <1>13. ASSUME NEW r \in Request, Revoke(r) PROVE HandlerInv'
    BY <1>13 DEF Revoke
  <1>14. ASSUME NEW r \in Request, Deliver(r) PROVE HandlerInv'
    BY <1>14 DEF Deliver
  <1>15. ASSUME NEW r \in Request, Crash(r) PROVE HandlerInv'
    BY <1>15 DEF Crash
  <1>16. ASSUME NEW u \in User, Operator(u) PROVE HandlerInv'
    BY <1>16 DEF Operator, Deactivate, Activate, SetActive, DeleteUser
  <1>17. CASE Tick
    BY <1>17 DEF Tick
  <1>18. CASE UNCHANGED vars
    BY <1>18 DEF vars
  <1>19. QED
    BY <1>1, <1>2, <1>3, <1>4, <1>5, <1>6, <1>7, <1>8, <1>9, <1>10, <1>11, <1>12,
       <1>13, <1>14, <1>15, <1>16, <1>17, <1>18
       DEF Next, Arrive, Serve, RefreshArrives, LogoutArrives

(* The types hold in every reachable state, of every instance. *)
THEOREM TypeCorrect == Spec => []TypeOK
  <1>1. Init => TypeOK /\ HandlerInv
    BY TypeInit, HandlerInit
  <1>2. (TypeOK /\ HandlerInv) /\ [Next]_vars => (TypeOK /\ HandlerInv)'
    BY TypeNext, HandlerNext
  <1>3. QED
    BY <1>1, <1>2, PTL DEF Spec

-----------------------------------------------------------------------------
(* What a step may do to a request and to a session *)

(* An answered request is over: nothing about it changes any more. *)
LEMMA DoneIsFinal ==
    ASSUME TypeOK, HandlerInv, [Next]_vars, NEW q \in Request, answer[q] # "none"
    PROVE  /\ pc'[q] = "done"
           /\ answer'[q] = answer[q]
           /\ call'[q] = call[q]
           /\ claims'[q] = claims[q]
  <1>types. /\ pc \in [Request -> Step]
            /\ answer \in [Request -> Answer]
            /\ call \in [Request -> Call]
            /\ claims \in [Request -> Claims]
    BY DEF TypeOK
  <1>done. pc[q] = "done"
    BY DEF HandlerInv
  <1> USE <1>types, <1>done DEF Reply, GoTo, Ask, IssueTokens
  <1> DEFINE Kept == /\ pc'[q] = "done"
                     /\ answer'[q] = answer[q]
                     /\ call'[q] = call[q]
                     /\ claims'[q] = claims[q]
  <1>1. ASSUME NEW r \in Request, Arrive(r) PROVE Kept
    BY <1>1 DEF Arrive, RegisterArrives, LoginArrives, RefreshArrives, LogoutArrives, TokenArrives
  <1>2. ASSUME NEW r \in Request, CheckEmail(r) \/ InsertUser(r) \/ CommitRegistration(r)
        PROVE  Kept
    BY <1>2 DEF CheckEmail, InsertUser, CommitRegistration
  <1>3. ASSUME NEW r \in Request, FindUser(r) \/ VerifyPassword(r) \/ InsertSession(r)
        PROVE  Kept
    BY <1>3 DEF FindUser, VerifyPassword, InsertSession
  <1>4. ASSUME NEW r \in Request, FindSession(r) \/ LoadUser(r) PROVE Kept
    BY <1>4 DEF FindSession, LoadUser
  <1>5. ASSUME NEW r \in Request, Rotate(r) \/ Revoke(r) PROVE Kept
    BY <1>5 DEF Rotate, Revoke
  <1>6. ASSUME NEW r \in Request, Deliver(r) \/ Crash(r) PROVE Kept
    BY <1>6 DEF Deliver, Crash
  <1>7. ASSUME NEW u \in User, Operator(u) PROVE Kept
    BY <1>7 DEF Operator, Deactivate, Activate, SetActive, DeleteUser
  <1>8. CASE Tick \/ UNCHANGED vars
    BY <1>8 DEF Tick, vars
  <1>9. QED
    BY <1>1, <1>2, <1>3, <1>4, <1>5, <1>6, <1>7, <1>8 DEF Next, Serve

(* The three ways in which a step writes to row s. *)
Opens(s) ==
    /\ pc[s] \in {"commit", "insertSession"}
    /\ answer'[s] = "tokens"
    /\ sessions'[s].state = "live"
    /\ sessions'[s].tokenHash = s
    /\ sessions'[s].userId = (IF pc[s] = "commit" THEN s ELSE found[s].id)
    /\ claims[s].exp <= sessions'[s].expiresAt

Rotates(s, r) ==
    /\ pc[r] = "rotate"
    /\ s = Target(r)
    /\ Rotatable(r)
    /\ answer'[r] = "tokens"
    /\ sessions'[s].state = "live"
    /\ sessions'[s].tokenHash = r
    /\ sessions'[s].userId = sessions[s].userId
    /\ claims[r].exp <= sessions'[s].expiresAt

Revokes(s, r) ==
    /\ pc[r] = "revoke"
    /\ s = Target(r)
    /\ StillCurrent(r)
    /\ answer'[r] = "loggedOut"
    /\ sessions'[s].state = "revoked"
    /\ sessions'[s].tokenHash = sessions[s].tokenHash
    /\ sessions'[s].userId = sessions[s].userId
    /\ sessions'[s].expiresAt = sessions[s].expiresAt

(* A request newly answered with tokens has just written its token to the  *)
(* row of its session.                                                     *)
Grants(r) == Opens(r) \/ \E s \in Request : Rotates(s, r)

(* Inserting a row touches that row only. *)
LEMMA InsertRowEffect ==
    ASSUME NEW r \in Request, NEW u, TypeOK, InsertSessionRow(r, u)
    PROVE  /\ \A s \in Request \ {r} : sessions'[s] = sessions[s]
           /\ sessions'[r].state = "live"
           /\ sessions'[r].tokenHash = r
           /\ sessions'[r].userId = u
           /\ claims[r].exp <= sessions'[r].expiresAt
  <1>1. PICK e \in RefreshExpiry(r) :
           sessions' = [sessions EXCEPT ![r] = [userId |-> u, tokenHash |-> r,
                                                expiresAt |-> e, state |-> "live"]]
    BY DEF InsertSessionRow
  <1>2. sessions \in [Request -> SessionRow] /\ claims[r].exp \in Nat /\ now \in Nat
    BY DEF TypeOK, Claims
  <1>3. claims[r].exp <= e
    BY <1>2 DEF RefreshExpiry
  <1>4. QED
    BY <1>1, <1>2, <1>3

(* Rotating and revoking touch the row of the target only. *)
LEMMA RotateEffect ==
    ASSUME NEW r \in Request, TypeOK, Rotate(r), Rotatable(r), Target(r) \in Request
    PROVE  /\ \A s \in Request \ {Target(r)} : sessions'[s] = sessions[s]
           /\ answer'[r] = "tokens"
           /\ Rotates(Target(r), r)
  <1>types. /\ sessions \in [Request -> SessionRow]
            /\ answer \in [Request -> Answer]
            /\ claims[r].exp \in Nat
            /\ now \in Nat
    BY DEF TypeOK, Claims
  <1>1. PICK e \in RefreshExpiry(r) :
           sessions' = [sessions EXCEPT ![Target(r)] =
                           [@ EXCEPT !.tokenHash = r, !.expiresAt = e]]
    BY DEF Rotate
  <1>2. claims[r].exp <= e
    BY <1>types DEF RefreshExpiry
  <1>3. sessions[Target(r)] \in SessionRow
    BY <1>types
  <1>4. sessions'[Target(r)] = [sessions[Target(r)] EXCEPT !.tokenHash = r, !.expiresAt = e]
    BY <1>1, <1>types
  <1>5. /\ sessions'[Target(r)].tokenHash = r
        /\ sessions'[Target(r)].expiresAt = e
        /\ sessions'[Target(r)].userId = sessions[Target(r)].userId
        /\ sessions'[Target(r)].state = sessions[Target(r)].state
    BY <1>3, <1>4 DEF SessionRow
  <1>6. pc[r] = "rotate" /\ answer'[r] = "tokens"
    BY <1>types DEF Rotate, Reply
  <1>7. sessions[Target(r)].state = "live"
    BY DEF Rotatable, StillCurrent
  <1>8. \A s \in Request \ {Target(r)} : sessions'[s] = sessions[s]
    BY <1>1, <1>types
  <1>9. QED
    BY <1>2, <1>5, <1>6, <1>7, <1>8 DEF Rotates

(* Likewise for the UPDATE of logout. *)
LEMMA RevokeEffect ==
    ASSUME NEW r \in Request, TypeOK, Revoke(r), StillCurrent(r), Target(r) \in Request
    PROVE  /\ \A s \in Request \ {Target(r)} : sessions'[s] = sessions[s]
           /\ Revokes(Target(r), r)
  <1>types. /\ sessions \in [Request -> SessionRow]
            /\ answer \in [Request -> Answer]
    BY DEF TypeOK
  <1>1. sessions' = [sessions EXCEPT ![Target(r)].state = "revoked"]
    BY DEF Revoke
  <1>2. sessions[Target(r)] \in SessionRow
    BY <1>types
  <1>3. /\ sessions'[Target(r)].tokenHash = sessions[Target(r)].tokenHash
        /\ sessions'[Target(r)].expiresAt = sessions[Target(r)].expiresAt
        /\ sessions'[Target(r)].userId = sessions[Target(r)].userId
        /\ sessions'[Target(r)].state = "revoked"
    BY <1>1, <1>2, <1>types DEF SessionRow
  <1>4. pc[r] = "revoke" /\ answer'[r] = "loggedOut"
    BY <1>types DEF Revoke, Reply
  <1>5. QED
    BY <1>1, <1>3, <1>4, <1>types DEF Revokes

(* The token a request presents was issued for a session. *)
LEMMA TargetIsSession ==
    ASSUME NEW r \in Request, TypeOK, HandlerInv, ClaimsInv,
           pc[r] \in {"findSession", "loadUser", "rotate", "revoke"}
    PROVE  /\ Presented(r) \in Granted
           /\ Target(r) \in Request
           /\ claims[Presented(r)].sub \in User
           /\ Opened(Target(r))
           /\ Presented(r) # r
  <1>1. Presented(r) \in held
    BY DEF HandlerInv
  <1>2. Presented(r) \in Granted
    BY <1>1 DEF ClaimsInv
  <1>3. answer[r] = "none"
    BY DEF HandlerInv
  <1>4. QED
    BY <1>2, <1>3 DEF ClaimsInv, Granted, GotTokens, Target

(* Whatever the step, a row stays, disappears with its account, is         *)
(* inserted, rotated or revoked.                                           *)
LEMMA SessionSteps ==
    ASSUME TypeOK, HandlerInv, ClaimsInv, [Next]_vars, NEW s \in Request
    PROVE  \/ sessions'[s] = sessions[s]
           \/ sessions'[s] = NoSession /\ \E u \in User : DeleteUser(u) /\ sessions[s].userId = u
           \/ Opens(s)
           \/ \E r \in Request : Rotates(s, r) \/ Revokes(s, r)
  <1> DEFINE Goal == \/ sessions'[s] = sessions[s]
                     \/ /\ sessions'[s] = NoSession
                        /\ \E u \in User : DeleteUser(u) /\ sessions[s].userId = u
                     \/ Opens(s)
                     \/ \E r \in Request : Rotates(s, r) \/ Revokes(s, r)
  <1>types. /\ sessions \in [Request -> SessionRow]
            /\ answer \in [Request -> Answer]
    BY DEF TypeOK
  <1>1. ASSUME NEW r \in Request, CommitRegistration(r) PROVE Goal
    <2>1. pc[r] = "commit" /\ answer'[r] = "tokens"
      BY <1>1, <1>types DEF CommitRegistration, Reply
    <2>2. InsertSessionRow(r, r)
      BY <1>1 DEF CommitRegistration
    <2>3. CASE s = r
      BY <2>1, <2>2, <2>3, InsertRowEffect DEF Opens
    <2>4. CASE s # r
      BY <2>2, <2>4, InsertRowEffect
    <2>5. QED
      BY <2>3, <2>4
  <1>2. ASSUME NEW r \in Request, InsertSession(r) PROVE Goal
    <2>1. CASE UNCHANGED sessions
      BY <2>1
    <2>2. CASE InsertSessionRow(r, found[r].id) /\ Reply(r, "tokens")
      <3>1. pc[r] = "insertSession" /\ answer'[r] = "tokens"
        BY <1>2, <2>2, <1>types DEF InsertSession, Reply
      <3>2. CASE s = r
        BY <2>2, <3>1, <3>2, InsertRowEffect DEF Opens
      <3>3. CASE s # r
        BY <2>2, <3>3, InsertRowEffect
      <3>4. QED
        BY <3>2, <3>3
    <2>3. QED
      BY <1>2, <2>1, <2>2 DEF InsertSession
  <1>3. ASSUME NEW r \in Request, Rotate(r) PROVE Goal
    <2>1. Target(r) \in Request
      BY <1>3, TargetIsSession DEF Rotate
    <2>2. CASE Rotatable(r)
      BY <1>3, <2>1, <2>2, RotateEffect
    <2>3. CASE ~Rotatable(r)
      BY <1>3, <2>3 DEF Rotate
    <2>4. QED
      BY <2>2, <2>3
  <1>4. ASSUME NEW r \in Request, Revoke(r) PROVE Goal
    <2>1. Target(r) \in Request
      BY <1>4, TargetIsSession DEF Revoke
    <2>2. CASE StillCurrent(r)
      BY <1>4, <2>1, <2>2, RevokeEffect
    <2>3. CASE ~StillCurrent(r)
      BY <1>4, <2>3 DEF Revoke
    <2>4. QED
      BY <2>2, <2>3
  <1>5. ASSUME NEW u \in User, DeleteUser(u) PROVE Goal
    BY <1>5 DEF DeleteUser
  <1>6. ASSUME UNCHANGED sessions PROVE Goal
    BY <1>6
  <1>7. ASSUME NEW r \in Request, Arrive(r) \/ Deliver(r) \/ Crash(r) PROVE UNCHANGED sessions
    BY <1>7 DEF Arrive, RegisterArrives, LoginArrives, RefreshArrives, LogoutArrives,
                TokenArrives, Deliver, Crash
  <1>8. ASSUME NEW r \in Request,
               \/ CheckEmail(r) \/ InsertUser(r) \/ FindUser(r) \/ VerifyPassword(r)
               \/ FindSession(r) \/ LoadUser(r)
        PROVE  UNCHANGED sessions
    BY <1>8 DEF CheckEmail, InsertUser, FindUser, VerifyPassword, FindSession, LoadUser
  <1>9. ASSUME NEW u \in User, Deactivate(u) \/ Activate(u) PROVE UNCHANGED sessions
    BY <1>9 DEF Deactivate, Activate, SetActive
  <1>10. CASE Tick \/ UNCHANGED vars
    BY <1>6, <1>10 DEF Tick, vars
  <1>11. QED
    BY <1>1, <1>2, <1>3, <1>4, <1>5, <1>6, <1>7, <1>8, <1>9, <1>10
       DEF Next, Serve, Operator

(* Only a step that writes its token to a row answers a request with       *)
(* tokens.                                                                 *)
LEMMA GrantSteps ==
    ASSUME TypeOK, HandlerInv, ClaimsInv, [Next]_vars,
           NEW q \in Request, answer[q] # "tokens", answer'[q] = "tokens"
    PROVE  /\ call'[q] = call[q]
           /\ claims'[q] = claims[q]
           /\ Grants(q)
  <1> DEFINE Goal == call'[q] = call[q] /\ claims'[q] = claims[q] /\ Grants(q)
  <1>types. /\ pc \in [Request -> Step]
            /\ answer \in [Request -> Answer]
    BY DEF TypeOK
  <1> USE <1>types DEF Reply, GoTo
  <1>1. ASSUME NEW r \in Request, CommitRegistration(r) PROVE Goal
    <2>1. q = r /\ pc[r] = "commit" /\ call' = call /\ claims' = claims
      BY <1>1 DEF CommitRegistration
    <2>2. InsertSessionRow(r, r)
      BY <1>1 DEF CommitRegistration
    <2>3. QED
      BY <2>1, <2>2, InsertRowEffect DEF Grants, Opens
  <1>2. ASSUME NEW r \in Request, InsertSession(r) PROVE Goal
    <2>1. q = r /\ pc[r] = "insertSession" /\ call' = call /\ claims' = claims
      BY <1>2 DEF InsertSession
    <2>2. InsertSessionRow(r, found[r].id)
      BY <1>2, <2>1 DEF InsertSession
    <2>3. QED
      BY <2>1, <2>2, InsertRowEffect DEF Grants, Opens
  <1>3. ASSUME NEW r \in Request, Rotate(r) PROVE Goal
    <2>1. q = r /\ Rotatable(r) /\ call' = call /\ claims' = claims
      BY <1>3 DEF Rotate
    <2>2. Target(r) \in Request
      BY <1>3, TargetIsSession DEF Rotate
    <2>3. QED
      BY <1>3, <2>1, <2>2, RotateEffect DEF Grants
  <1>4. ASSUME NEW r \in Request, Arrive(r) PROVE FALSE
    BY <1>4 DEF Arrive, RegisterArrives, LoginArrives, RefreshArrives, LogoutArrives, TokenArrives
  <1>5. ASSUME NEW r \in Request,
               \/ CheckEmail(r) \/ InsertUser(r) \/ FindUser(r) \/ VerifyPassword(r)
               \/ FindSession(r) \/ LoadUser(r)
        PROVE  FALSE
    BY <1>5 DEF CheckEmail, InsertUser, FindUser, VerifyPassword, FindSession, LoadUser
  <1>6. ASSUME NEW r \in Request, Revoke(r) \/ Deliver(r) \/ Crash(r) PROVE FALSE
    BY <1>6 DEF Revoke, Deliver, Crash
  <1>7. ASSUME NEW u \in User, Operator(u) PROVE FALSE
    BY <1>7 DEF Operator, Deactivate, Activate, SetActive, DeleteUser
  <1>8. CASE Tick \/ UNCHANGED vars
    BY <1>8 DEF Tick, vars
  <1>9. QED
    BY <1>1, <1>2, <1>3, <1>4, <1>5, <1>6, <1>7, <1>8 DEF Next, Serve

-----------------------------------------------------------------------------
(* Rows and claims *)

(* What was handed out stays handed out, with the same claims, and opened  *)
(* sessions stay opened.                                                   *)
LEMMA GrantedForever ==
    ASSUME TypeOK, HandlerInv, [Next]_vars, NEW q \in Request
    PROVE  /\ q \in Granted => q \in Granted' /\ claims'[q] = claims[q]
           /\ Opened(q) => Opened(q)'
  <1>1. ASSUME answer[q] = "tokens"
        PROVE  answer'[q] = "tokens" /\ claims'[q] = claims[q] /\ call'[q] = call[q]
    BY <1>1, DoneIsFinal
  <1>2. QED
    BY <1>1 DEF Granted, GotTokens, Opened

(* A session that opens in this step is an opened one. *)
LEMMA OpensIsOpened ==
    ASSUME TypeOK, HandlerInv, ClaimsInv, [Next]_vars, NEW s \in Request, Opens(s)
    PROVE  Opened(s)' /\ claims'[s] = claims[s] /\ ~Opened(s) /\ s \notin Granted
  <1>1. answer[s] = "none" /\ call[s].op \in {"register", "login"}
    BY DEF Opens, HandlerInv
  <1>2. call'[s] = call[s] /\ claims'[s] = claims[s] /\ answer'[s] = "tokens"
    BY <1>1, GrantSteps DEF Opens
  <1>3. QED
    BY <1>1, <1>2 DEF Opened, GotTokens, Granted

(* No token has been issued in the initial state. *)
LEMMA ClaimsInit == Init => ClaimsInv
  <1> SUFFICES ASSUME Init PROVE ClaimsInv
    OBVIOUS
  <1>1. held = {} /\ \A r \in Request : pc[r] = "idle" /\ answer[r] = "none"
    BY DEF Init
  <1>2. QED
    BY <1>1 DEF ClaimsInv, GotTokens

(* Every step keeps claims in agreement with sessions and accounts. *)
LEMMA ClaimsNext ==
    TypeOK /\ HandlerInv /\ ClaimsInv /\ RowInv /\ [Next]_vars => ClaimsInv'
  <1> SUFFICES ASSUME TypeOK, HandlerInv, ClaimsInv, RowInv, [Next]_vars
               PROVE  ClaimsInv'
    OBVIOUS
  <1>types. /\ pc \in [Request -> Step]
            /\ answer \in [Request -> Answer]
            /\ call \in [Request -> Call]
            /\ claims \in [Request -> Claims]
            /\ found \in [Request -> Found]
    BY DEF TypeOK
  <1>1. (held \subseteq Granted)'
    <2>1. CASE held' = held
      BY <2>1, GrantedForever DEF ClaimsInv, Granted
    <2>2. ASSUME NEW r \in Request, Deliver(r) PROVE held' \subseteq Granted'
      BY <2>2, GrantedForever DEF Deliver, ClaimsInv, Granted, GotTokens
    <2>3. ASSUME NEW r \in Request, Arrive(r) \/ Serve(r) \/ Crash(r) PROVE held' = held
      BY <2>3 DEF Arrive, RegisterArrives, LoginArrives, RefreshArrives, LogoutArrives,
                  TokenArrives, Serve, CheckEmail, InsertUser, CommitRegistration, FindUser,
                  VerifyPassword, InsertSession, FindSession, LoadUser, Rotate, Revoke, Crash
    <2>4. ASSUME NEW u \in User, Operator(u) PROVE held' = held
      BY <2>4 DEF Operator, Deactivate, Activate, SetActive, DeleteUser
    <2>5. CASE Tick \/ UNCHANGED vars
      BY <2>1, <2>5 DEF Tick, vars
    <2>6. QED
      BY <2>1, <2>2, <2>3, <2>4, <2>5 DEF Next
  <1>2. ASSUME NEW q \in Request, GotTokens(q)'
        PROVE  /\ claims'[q].sid \in Request
               /\ claims'[q].sub \in User
               /\ Opened(claims[q].sid)'
               /\ claims'[q] = claims[q]
    <2>1. CASE GotTokens(q)
      <3>1. /\ claims'[q] = claims[q]
            /\ claims[q].sid \in Request /\ claims[q].sub \in User /\ Opened(claims[q].sid)
        BY <2>1, GrantedForever DEF Granted, ClaimsInv
      <3>2. QED
        BY <3>1, GrantedForever
    <2>2. CASE ~GotTokens(q)
      <3>1. claims'[q] = claims[q] /\ Grants(q)
        BY <1>2, <2>2, GrantSteps DEF GotTokens
      <3>2. CASE Opens(q)
        <4>1. claims[q].sid = q
          BY <3>2 DEF Opens, ClaimsInv
        <4>2. claims[q].sub \in User
          BY <1>types, <3>2 DEF Opens, ClaimsInv, HandlerInv, Found, User
        <4>3. QED
          BY <3>1, <3>2, <4>1, <4>2, OpensIsOpened
      <3>3. ASSUME NEW s \in Request, Rotates(s, q)
            PROVE  claims[q].sid = s /\ claims[q].sub \in User /\ Opened(s)'
        <4>1. pc[q] = "rotate" /\ s = Target(q)
          BY <3>3 DEF Rotates
        <4>2. claims[q].sid = s /\ claims[q].sub = claims[Presented(q)].sub
          BY <4>1 DEF ClaimsInv
        <4>3. Opened(s) /\ claims[Presented(q)].sub \in User
          BY <4>1, TargetIsSession
        <4>4. QED
          BY <4>2, <4>3, GrantedForever
      <3>4. QED
        BY <3>1, <3>2, <3>3 DEF Grants, Opens, ClaimsInv
    <2>3. QED
      BY <2>1, <2>2
  <1>3. ASSUME NEW q \in Request
        PROVE  /\ pc'[q] \in {"commit", "insertSession"} => claims'[q].sid = q
               /\ pc'[q] = "commit" => claims'[q].sub = q
               /\ pc'[q] = "insertSession" => claims'[q].sub = found'[q].id
               /\ pc'[q] = "rotate" => /\ claims'[q].sid = Target(q)'
                                       /\ claims'[q].sub = claims'[Presented(q)'].sub
    <2> DEFINE Goal == /\ pc'[q] \in {"commit", "insertSession"} => claims'[q].sid = q
                       /\ pc'[q] = "commit" => claims'[q].sub = q
                       /\ pc'[q] = "insertSession" => claims'[q].sub = found'[q].id
                       /\ pc'[q] = "rotate" => /\ claims'[q].sid = Target(q)'
                                               /\ claims'[q].sub = claims'[Presented(q)'].sub
    <2>1. ASSUME pc'[q] = pc[q], claims'[q] = claims[q], call'[q] = call[q], found'[q] = found[q]
          PROVE  Goal
      <3>1. CASE pc[q] = "rotate"
        <4>1. Presented(q) \in Granted
          BY <3>1, TargetIsSession
        <4>2. claims'[Presented(q)] = claims[Presented(q)]
          BY <4>1, GrantedForever DEF Granted
        <4>3. QED
          BY <2>1, <3>1, <4>2 DEF ClaimsInv, Target, Presented
      <3>2. CASE pc[q] # "rotate"
        BY <2>1, <3>2 DEF ClaimsInv
      <3>3. QED
        BY <3>1, <3>2
    <2>2. ASSUME pc'[q] \notin {"commit", "insertSession", "rotate"} PROVE Goal
      BY <2>2
    <2> HIDE DEF Goal
    <2> USE <1>types DEF Reply, GoTo, IssueTokens, Ask
    <2>3. ASSUME NEW r \in Request, InsertUser(r) PROVE Goal
      BY <2>1, <2>2, <2>3 DEF InsertUser, Goal
    <2>4. ASSUME NEW r \in Request, VerifyPassword(r) PROVE Goal
      BY <2>1, <2>2, <2>4 DEF VerifyPassword, Goal
    <2>5. ASSUME NEW r \in Request, LoadUser(r) PROVE Goal
      <3>1. CASE q = r /\ pc'[r] = "rotate"
        <4>1. /\ Presented(r)' = Presented(r)
              /\ Presented(r) # r
              /\ Target(r) \in Request
          BY <2>5, TargetIsSession DEF LoadUser, Presented
        <4>2. claims' = [claims EXCEPT ![r] = [sub |-> claims[Presented(r)].sub,
                                               sid |-> Target(r), exp |-> now + TTL]]
          BY <2>5, <3>1 DEF LoadUser
        <4>3. claims'[Presented(r)] = claims[Presented(r)]
          BY <4>1, <4>2
        <4>4. Target(r)' = Target(r)
          BY <4>1, <4>3 DEF Target
        <4>5. QED
          BY <3>1, <4>1, <4>2, <4>3, <4>4 DEF Goal
      <3>2. CASE q # r \/ pc'[r] # "rotate"
        BY <2>1, <2>2, <2>5, <3>2 DEF LoadUser
      <3>3. QED
        BY <3>1, <3>2
    <2>6. ASSUME NEW r \in Request, Arrive(r) PROVE Goal
      BY <2>1, <2>2, <2>6 DEF Arrive, RegisterArrives, LoginArrives, RefreshArrives,
                              LogoutArrives, TokenArrives
    <2>7. ASSUME NEW r \in Request, CheckEmail(r) \/ CommitRegistration(r) PROVE Goal
      BY <2>1, <2>2, <2>7 DEF CheckEmail, CommitRegistration
    <2>8. ASSUME NEW r \in Request, FindUser(r) \/ InsertSession(r) \/ FindSession(r) PROVE Goal
      BY <2>1, <2>2, <2>8 DEF FindUser, InsertSession, FindSession
    <2>9. ASSUME NEW r \in Request, Rotate(r) \/ Revoke(r) \/ Deliver(r) \/ Crash(r) PROVE Goal
      BY <2>1, <2>2, <2>9 DEF Rotate, Revoke, Deliver, Crash
    <2>10. ASSUME NEW u \in User, Operator(u) PROVE Goal
      BY <2>1, <2>10 DEF Operator, Deactivate, Activate, SetActive, DeleteUser
    <2>11. ASSUME Tick \/ UNCHANGED vars PROVE Goal
      <3>1. pc' = pc /\ claims' = claims /\ call' = call /\ found' = found
        BY <2>11 DEF Tick, vars
      <3>2. QED
        BY <2>1, <3>1
    <2>12. QED
      BY <2>3, <2>4, <2>5, <2>6, <2>7, <2>8, <2>9, <2>10, <2>11 DEF Next, Serve, Goal
  <1>4. QED
    BY <1>1, <1>2, <1>3 DEF ClaimsInv

(* No row exists in the initial state. *)
LEMMA RowInit == Init => RowInv
  <1> SUFFICES ASSUME Init, NEW s \in Request PROVE sessions[s].state = "absent"
    BY DEF RowInv
  <1>1. QED
    BY DEF Init, NoSession

(* Every step keeps rows on tokens handed out for their session. *)
LEMMA RowNext ==
    TypeOK /\ HandlerInv /\ ClaimsInv /\ RowInv /\ [Next]_vars => RowInv'
  <1> SUFFICES ASSUME TypeOK, HandlerInv, ClaimsInv, RowInv, [Next]_vars,
                      NEW s \in Request, sessions'[s].state # "absent"
               PROVE  /\ Opened(s)'
                      /\ sessions'[s].tokenHash \in Granted'
                      /\ claims'[sessions'[s].tokenHash].sid = s
                      /\ claims'[sessions'[s].tokenHash].sub = sessions'[s].userId
    BY DEF RowInv
  <1> DEFINE Goal == /\ Opened(s)'
                     /\ sessions'[s].tokenHash \in Granted'
                     /\ claims'[sessions'[s].tokenHash].sid = s
                     /\ claims'[sessions'[s].tokenHash].sub = sessions'[s].userId
  <1>1. ASSUME sessions[s].state # "absent",
               sessions'[s].tokenHash = sessions[s].tokenHash,
               sessions'[s].userId = sessions[s].userId
        PROVE  Goal
    <2>1. /\ Opened(s)
          /\ sessions[s].tokenHash \in Granted
          /\ claims[sessions[s].tokenHash].sid = s
          /\ claims[sessions[s].tokenHash].sub = sessions[s].userId
      BY <1>1 DEF RowInv
    <2>2. sessions[s].tokenHash \in Request
      BY <2>1 DEF Granted
    <2>3. QED
      BY <1>1, <2>1, <2>2, GrantedForever
  <1>2. CASE sessions'[s] = sessions[s]
    BY <1>1, <1>2
  <1>3. CASE sessions'[s] = NoSession
    BY <1>3 DEF NoSession
  <1>4. CASE Opens(s)
    <2>1. Opened(s)' /\ claims'[s] = claims[s]
      BY <1>4, OpensIsOpened
    <2>2. s \in Granted' /\ sessions'[s].tokenHash = s
      BY <1>4 DEF Opens, Granted, GotTokens
    <2>3. claims[s].sid = s /\ claims[s].sub = sessions'[s].userId
      BY <1>4 DEF Opens, ClaimsInv
    <2>4. QED
      BY <2>1, <2>2, <2>3
  <1>5. ASSUME NEW r \in Request, Rotates(s, r) PROVE Goal
    <2>1. pc[r] = "rotate" /\ s = Target(r) /\ answer'[r] = "tokens"
      BY <1>5 DEF Rotates
    <2>2. answer[r] = "none"
      BY <2>1 DEF HandlerInv
    <2>3. claims'[r] = claims[r]
      BY <2>1, <2>2, GrantSteps
    <2>4. claims[r].sid = s /\ claims[r].sub = claims[Presented(r)].sub
      BY <2>1 DEF ClaimsInv
    <2>5. claims[Presented(r)].sub = sessions[s].userId
      BY <1>5, <2>1 DEF Rotates, Rotatable, StillCurrent
    <2>6. Opened(s)'
      BY <2>1, TargetIsSession, GrantedForever
    <2>7. sessions'[s].tokenHash = r /\ sessions'[s].userId = sessions[s].userId
      BY <1>5 DEF Rotates
    <2>8. QED
      BY <2>1, <2>3, <2>4, <2>5, <2>6, <2>7 DEF Granted, GotTokens
  <1>6. ASSUME NEW r \in Request, Revokes(s, r) PROVE Goal
    BY <1>1, <1>6 DEF Revokes, StillCurrent
  <1>7. QED
    BY <1>2, <1>3, <1>4, <1>5, <1>6, SessionSteps

-----------------------------------------------------------------------------
(* The chain of tokens of a session *)

ChainInv == SingleUse /\ SpentNeverCurrent /\ UnspentIsCurrent

(* The hypotheses every step of the remaining lemmas starts from. *)
Base == TypeOK /\ HandlerInv /\ ClaimsInv /\ RowInv

(* An exchange is never taken back, and the step that makes one rotates    *)
(* the row of the session.                                                 *)
LEMMA ExchangeSteps ==
    ASSUME Base, [Next]_vars, NEW q \in Request
    PROVE  /\ Exchanged(q) => Exchanged(q)' /\ Presented(q)' = Presented(q)
           /\ Exchanged(q)' => Presented(q)' = Presented(q)
           /\ Exchanged(q)' /\ ~Exchanged(q) => /\ pc[q] = "rotate"
                                              /\ \E s \in Request : Rotates(s, q)
  <1> USE DEF Base
  <1>1. ASSUME answer[q] = "tokens"
        PROVE  call'[q] = call[q] /\ answer'[q] = "tokens"
    BY <1>1, DoneIsFinal
  <1>2. ASSUME answer[q] # "tokens", answer'[q] = "tokens"
        PROVE  call'[q] = call[q] /\ Grants(q)
    BY <1>2, GrantSteps
  <1>3. ASSUME Opens(q) PROVE call[q].op # "refresh"
    BY <1>3 DEF Opens, HandlerInv
  <1>4. QED
    BY <1>1, <1>2, <1>3 DEF Exchanged, GotTokens, Presented, Grants, Rotates

(* A token that was exchanged had been handed out before the exchange. *)
LEMMA ExchangedWasGranted ==
    ASSUME Base, [Next]_vars, NEW q \in Request, Exchanged(q)'
    PROVE  Presented(q) \in Granted
  <1> USE DEF Base
  <1>1. CASE Exchanged(q)
    BY <1>1 DEF Exchanged, HandlerInv, ClaimsInv
  <1>2. CASE ~Exchanged(q)
    BY <1>2, ExchangeSteps, TargetIsSession
  <1>3. QED
    BY <1>1, <1>2

(* A request that is about to receive tokens has not received any. *)
LEMMA GrantsIsNew ==
    ASSUME Base, NEW q \in Request, pc[q] # "done"
    PROVE  q \notin Granted
  BY DEF Base, Granted, GotTokens, HandlerInv

(* No step exchanges a token a second time. *)
LEMMA SingleUseNext == Base /\ ChainInv /\ [Next]_vars => SingleUse'
  <1> SUFFICES ASSUME Base, ChainInv, [Next]_vars, NEW r \in Request, NEW q \in Request,
                      Exchanged(r)', Exchanged(q)', Presented(r)' = Presented(q)'
               PROVE  r = q
    BY DEF SingleUse
  <1>1. Presented(r) = Presented(q)
    BY ExchangeSteps
  <1>2. ASSUME NEW a \in Request, NEW b \in Request, Exchanged(a), ~Exchanged(b),
               Exchanged(b)', Presented(a) = Presented(b)
        PROVE  FALSE
    <2>1. PICK s \in Request : Rotates(s, b)
      BY <1>2, ExchangeSteps
    <2>2. sessions[s].state = "live" /\ sessions[s].tokenHash = Presented(b)
      BY <2>1 DEF Rotates, Rotatable, StillCurrent
    <2>3. Presented(b) \in Spent
      BY <1>2 DEF Spent
    <2>4. QED
      BY <2>2, <2>3 DEF ChainInv, SpentNeverCurrent
  <1>3. CASE ~Exchanged(r) /\ ~Exchanged(q)
    <2>1. PICK s \in Request : Rotates(s, r)
      BY <1>3, ExchangeSteps
    <2>2. PICK t \in Request : Rotates(t, q)
      BY <1>3, ExchangeSteps
    <2>3. s = t
      BY <1>1, <2>1, <2>2 DEF Rotates, Target
    <2>4. QED
      BY <2>1, <2>2, <2>3 DEF Rotates
  <1>4. CASE Exchanged(r) /\ Exchanged(q)
    BY <1>1, <1>4 DEF ChainInv, SingleUse
  <1>5. QED
    BY <1>1, <1>2, <1>3, <1>4

(* No step puts an exchanged token back in a row. *)
LEMMA SpentNeverCurrentNext == Base /\ ChainInv /\ [Next]_vars => SpentNeverCurrent'
  <1> SUFFICES ASSUME Base, ChainInv, [Next]_vars, NEW s \in Request,
                      sessions'[s].state # "absent",
                      NEW q \in Request, Exchanged(q)',
                      Presented(q)' = sessions'[s].tokenHash
               PROVE  FALSE
    BY DEF SpentNeverCurrent, Spent
  <1> USE DEF Base
  <1>1. Presented(q) = sessions'[s].tokenHash /\ Presented(q) \in Granted
    BY ExchangeSteps, ExchangedWasGranted
  <1>2. ASSUME sessions[s].state # "absent", sessions'[s].tokenHash = sessions[s].tokenHash
        PROVE  FALSE
    <2>1. CASE Exchanged(q)
      BY <1>1, <1>2, <2>1 DEF ChainInv, SpentNeverCurrent, Spent
    <2>2. CASE ~Exchanged(q)
      <3>1. PICK t \in Request : Rotates(t, q)
        BY <2>2, ExchangeSteps
      <3>2. Target(q) = s
        BY <1>1, <1>2 DEF RowInv, Target
      <3>3. sessions'[s].tokenHash = q /\ pc[q] = "rotate"
        BY <3>1, <3>2 DEF Rotates
      <3>4. QED
        BY <1>1, <3>3, TargetIsSession
    <2>3. QED
      BY <2>1, <2>2
  <1>3. CASE sessions'[s] = sessions[s]
    BY <1>2, <1>3
  <1>4. CASE sessions'[s] = NoSession
    BY <1>4 DEF NoSession
  <1>5. CASE Opens(s)
    BY <1>1, <1>5, GrantsIsNew DEF Opens
  <1>6. ASSUME NEW r \in Request, Rotates(s, r) PROVE FALSE
    BY <1>1, <1>6, GrantsIsNew DEF Rotates
  <1>7. ASSUME NEW r \in Request, Revokes(s, r) PROVE FALSE
    BY <1>2, <1>7 DEF Revokes, StillCurrent
  <1>8. QED
    BY <1>3, <1>4, <1>5, <1>6, <1>7, SessionSteps

(* No step displaces a token other than by exchanging it. *)
LEMMA UnspentIsCurrentNext == Base /\ ChainInv /\ [Next]_vars => UnspentIsCurrent'
  <1> SUFFICES ASSUME Base, ChainInv, [Next]_vars, NEW r \in Request,
                      GotTokens(r)', r \notin Spent',
                      sessions'[claims'[r].sid].state = "live"
               PROVE  sessions'[claims'[r].sid].tokenHash = r
    BY DEF UnspentIsCurrent
  <1> USE DEF Base
  <1>1. CASE ~GotTokens(r)
    <2>1. claims'[r] = claims[r] /\ Grants(r)
      BY <1>1, GrantSteps DEF GotTokens
    <2>2. CASE Opens(r)
      BY <2>1, <2>2 DEF Opens, ClaimsInv
    <2>3. ASSUME NEW s \in Request, Rotates(s, r) PROVE sessions'[claims'[r].sid].tokenHash = r
      BY <2>1, <2>3 DEF Rotates, ClaimsInv
    <2>4. QED
      BY <2>1, <2>2, <2>3 DEF Grants
  <1>2. CASE GotTokens(r)
    <2> DEFINE s == claims[r].sid
    <2>1. claims'[r].sid = s /\ s \in Request /\ Opened(s)
      BY <1>2, GrantedForever DEF Granted, ClaimsInv
    <2>2. r \notin Spent
      BY ExchangeSteps DEF Spent
    <2>3. sessions[s].state = "live" => sessions[s].tokenHash = r
      BY <1>2, <2>2 DEF ChainInv, UnspentIsCurrent
    <2>4. sessions'[s].state = "live"
      BY <2>1
    <2> HIDE DEF s
    <2>5. CASE sessions'[s] = sessions[s]
      BY <2>1, <2>3, <2>4, <2>5
    <2>6. CASE sessions'[s] = NoSession
      BY <2>4, <2>6 DEF NoSession
    <2>7. CASE Opens(s)
      BY <2>1, <2>7, OpensIsOpened
    <2>8. ASSUME NEW q \in Request, Rotates(s, q) PROVE FALSE
      <3>1. Presented(q) = r
        BY <2>3, <2>8 DEF Rotates, Rotatable, StillCurrent
      <3>2. answer[q] # "tokens" /\ call[q].op = "refresh"
        BY <2>8 DEF Rotates, HandlerInv
      <3>3. call'[q] = call[q] /\ answer'[q] = "tokens"
        BY <2>8, <3>2, GrantSteps DEF Rotates
      <3>4. Exchanged(q)' /\ Presented(q)' = r
        BY <3>1, <3>2, <3>3 DEF Exchanged, GotTokens, Presented
      <3>5. QED
        BY <3>4 DEF Spent
    <2>9. ASSUME NEW q \in Request, Revokes(s, q) PROVE FALSE
      BY <2>4, <2>9 DEF Revokes
    <2>10. QED
      BY <2>1, <2>5, <2>6, <2>7, <2>8, <2>9, SessionSteps
  <1>3. QED
    BY <1>1, <1>2

(* Rows outlive the tokens in them. *)
LEMMA ExpiryNext == Base /\ SessionOutlivesToken /\ [Next]_vars => SessionOutlivesToken'
  <1> SUFFICES ASSUME Base, SessionOutlivesToken, [Next]_vars, NEW s \in Request,
                      sessions'[s].state # "absent"
               PROVE  claims'[sessions'[s].tokenHash].exp <= sessions'[s].expiresAt
    BY DEF SessionOutlivesToken
  <1> USE DEF Base
  <1> DEFINE Goal == claims'[sessions'[s].tokenHash].exp <= sessions'[s].expiresAt
  <1>1. ASSUME sessions[s].state # "absent",
               sessions'[s].tokenHash = sessions[s].tokenHash,
               sessions'[s].expiresAt = sessions[s].expiresAt
        PROVE  Goal
    <2>1. sessions[s].tokenHash \in Granted
      BY <1>1 DEF RowInv
    <2>2. claims'[sessions[s].tokenHash] = claims[sessions[s].tokenHash]
      BY <2>1, GrantedForever DEF Granted
    <2>3. QED
      BY <1>1, <2>2 DEF SessionOutlivesToken
  <1>2. CASE sessions'[s] = sessions[s]
    BY <1>1, <1>2
  <1>3. CASE sessions'[s] = NoSession
    BY <1>3 DEF NoSession
  <1>4. CASE Opens(s)
    BY <1>4, OpensIsOpened DEF Opens
  <1>5. ASSUME NEW r \in Request, Rotates(s, r) PROVE Goal
    <2>1. answer[r] # "tokens" /\ answer'[r] = "tokens"
      BY <1>5 DEF Rotates, HandlerInv
    <2>2. claims'[r] = claims[r]
      BY <2>1, GrantSteps
    <2>3. QED
      BY <1>5, <2>2 DEF Rotates
  <1>6. ASSUME NEW r \in Request, Revokes(s, r) PROVE Goal
    BY <1>1, <1>6 DEF Revokes, StillCurrent
  <1>7. QED
    BY <1>2, <1>3, <1>4, <1>5, <1>6, SessionSteps

-----------------------------------------------------------------------------
(* Accounts *)

(* Whatever the step, an account stays, is committed by its registration,  *)
(* is switched on or off, or is deleted.                                   *)
LEMMA UserSteps ==
    ASSUME TypeOK, [Next]_vars, NEW u \in User
    PROVE  \/ users'[u] = users[u]
           \/ u \in Request /\ CommitRegistration(u) /\ users'[u].email = call[u].email
           \/ users[u].state # "absent" /\ users'[u].email = users[u].email
           \/ users'[u] = NoUser
  <1> DEFINE Goal == \/ users'[u] = users[u]
                     \/ u \in Request /\ CommitRegistration(u) /\ users'[u].email = call[u].email
                     \/ users[u].state # "absent" /\ users'[u].email = users[u].email
                     \/ users'[u] = NoUser
  <1>types. users \in [User -> UserRow]
    BY DEF TypeOK
  <1>1. ASSUME NEW r \in Request, CommitRegistration(r) PROVE Goal
    <2>1. users' = [users EXCEPT ![r] = [email |-> call[r].email, state |-> "active"]]
      BY <1>1 DEF CommitRegistration
    <2>2. QED
      BY <1>1, <2>1, <1>types
  <1>2. ASSUME NEW v \in User, NEW from \in {"active", "inactive"},
               NEW to \in {"active", "inactive"}, SetActive(v, from, to)
        PROVE  Goal
    <2>1. users' = [users EXCEPT ![v].state = to] /\ users[v].state = from
      BY <1>2 DEF SetActive
    <2>2. users[v] \in UserRow
      BY <1>types
    <2>3. QED
      BY <2>1, <2>2, <1>types DEF UserRow
  <1>3. ASSUME NEW v \in User, DeleteUser(v) PROVE Goal
    BY <1>3, <1>types DEF DeleteUser
  <1>4. ASSUME UNCHANGED users PROVE Goal
    BY <1>4
  <1>5. ASSUME NEW r \in Request, Arrive(r) \/ Deliver(r) \/ Crash(r) PROVE UNCHANGED users
    BY <1>5 DEF Arrive, RegisterArrives, LoginArrives, RefreshArrives, LogoutArrives,
                TokenArrives, Deliver, Crash
  <1>6. ASSUME NEW r \in Request,
               \/ CheckEmail(r) \/ InsertUser(r) \/ FindUser(r) \/ VerifyPassword(r)
               \/ InsertSession(r) \/ FindSession(r) \/ LoadUser(r) \/ Rotate(r) \/ Revoke(r)
        PROVE  UNCHANGED users
    BY <1>6 DEF CheckEmail, InsertUser, FindUser, VerifyPassword, InsertSession,
                FindSession, LoadUser, Rotate, Revoke
  <1>7. CASE Tick \/ UNCHANGED vars
    BY <1>4, <1>7 DEF Tick, vars
  <1>8. QED
    BY <1>1, <1>2, <1>3, <1>4, <1>5, <1>6, <1>7
       DEF Next, Serve, Operator, Deactivate, Activate

(* An account was present before, or is being committed. *)
LEMMA PresentSteps ==
    ASSUME TypeOK, [Next]_vars, NEW u \in User, users'[u].state # "absent"
    PROVE  \/ users[u].state # "absent" /\ users'[u].email = users[u].email
           \/ u \in Request /\ CommitRegistration(u) /\ users'[u].email = call[u].email
  BY UserSteps DEF NoUser

(* A request reaches its commit only by inserting its user, and keeps its  *)
(* address until then.                                                     *)
LEMMA CommitSteps ==
    ASSUME TypeOK, [Next]_vars, NEW q \in Request, pc'[q] = "commit"
    PROVE  /\ call'[q] = call[q]
           /\ pc[q] = "commit" \/ InsertUser(q)
  <1> DEFINE Goal == call'[q] = call[q] /\ (pc[q] = "commit" \/ InsertUser(q))
  <1>types. /\ pc \in [Request -> Step]
            /\ call \in [Request -> Call]
    BY DEF TypeOK
  <1> USE <1>types DEF Reply, GoTo
  <1>1. ASSUME NEW r \in Request, Arrive(r) PROVE Goal
    BY <1>1 DEF Arrive, RegisterArrives, LoginArrives, RefreshArrives, LogoutArrives,
                TokenArrives, Ask
  <1>2. ASSUME NEW r \in Request, InsertUser(r) PROVE Goal
    BY <1>2 DEF InsertUser
  <1>3. ASSUME NEW r \in Request, CheckEmail(r) \/ CommitRegistration(r) PROVE Goal
    BY <1>3 DEF CheckEmail, CommitRegistration
  <1>4. ASSUME NEW r \in Request, FindUser(r) \/ VerifyPassword(r) \/ InsertSession(r) PROVE Goal
    BY <1>4 DEF FindUser, VerifyPassword, InsertSession
  <1>5. ASSUME NEW r \in Request, FindSession(r) \/ LoadUser(r) \/ Rotate(r) \/ Revoke(r) PROVE Goal
    BY <1>5 DEF FindSession, LoadUser, Rotate, Revoke
  <1>6. ASSUME NEW r \in Request, Deliver(r) \/ Crash(r) PROVE Goal
    BY <1>6 DEF Deliver, Crash
  <1>7. ASSUME NEW u \in User, Operator(u) PROVE Goal
    BY <1>7 DEF Operator, Deactivate, Activate, SetActive, DeleteUser
  <1>8. CASE Tick \/ UNCHANGED vars
    BY <1>8 DEF Tick, vars
  <1>9. QED
    BY <1>1, <1>2, <1>3, <1>4, <1>5, <1>6, <1>7, <1>8 DEF Next, Serve

(* Every step keeps addresses unique and index entries exclusive. *)
LEMMA EmailNext ==
    TypeOK /\ HandlerInv /\ EmailInv /\ UniqueEmail /\ [Next]_vars => EmailInv' /\ UniqueEmail'
  <1> SUFFICES ASSUME TypeOK, HandlerInv, EmailInv, UniqueEmail, [Next]_vars
               PROVE  EmailInv' /\ UniqueEmail'
    OBVIOUS
  <1>1. ASSUME NEW r \in Request, pc'[r] = "commit", NEW q \in Request, pc'[q] = "commit",
               call'[q].email = call'[r].email
        PROVE  q = r
    <2>1. call'[r] = call[r] /\ call'[q] = call[q]
      BY <1>1, CommitSteps
    <2>2. CASE pc[r] = "commit" /\ pc[q] = "commit"
      BY <1>1, <2>1, <2>2 DEF EmailInv, InsertingEmail
    <2>3. ASSUME InsertUser(r) PROVE q = r
      <3>1. pc[q] # "commit"
        BY <1>1, <2>1, <2>3 DEF InsertUser, InsertingEmail
      <3>2. InsertUser(q)
        BY <1>1, <3>1, CommitSteps
      <3>3. QED
        BY <1>1, <2>3, <3>1, <3>2 DEF InsertUser, GoTo, Reply, TypeOK
    <2>4. ASSUME InsertUser(q) PROVE q = r
      <3>1. pc[r] # "commit"
        BY <1>1, <2>1, <2>4 DEF InsertUser, InsertingEmail
      <3>2. QED
        BY <1>1, <2>4, <3>1 DEF InsertUser, GoTo, Reply, TypeOK
    <2>5. QED
      BY <1>1, <2>2, <2>3, <2>4, CommitSteps
  <1>2. ASSUME NEW r \in Request, pc'[r] = "commit", NEW u \in User, users'[u].state # "absent"
        PROVE  users'[u].email # call'[r].email
    <2>1. call'[r] = call[r] /\ (pc[r] = "commit" \/ InsertUser(r))
      BY <1>2, CommitSteps
    <2>2. CASE users[u].state # "absent" /\ users'[u].email = users[u].email
      <3>1. AccountsAt(call[r].email) = {}
        BY <1>2, <2>1 DEF EmailInv, InsertUser, Reply, TypeOK
      <3>2. QED
        BY <2>1, <2>2, <3>1 DEF AccountsAt
    <2>3. ASSUME u \in Request, CommitRegistration(u), users'[u].email = call[u].email
          PROVE  users'[u].email # call'[r].email
      <3>1. pc[u] = "commit" /\ pc'[u] = "done"
        BY <2>3 DEF CommitRegistration, Reply, TypeOK
      <3>2. pc[r] = "commit"
        BY <1>2, <2>3 DEF CommitRegistration, Reply, TypeOK
      <3>3. r # u
        BY <1>2, <3>1
      <3>4. QED
        BY <2>1, <2>3, <3>1, <3>2, <3>3 DEF EmailInv, InsertingEmail
    <2>4. QED
      BY <1>2, <2>2, <2>3, PresentSteps
  <1>3. ASSUME NEW u \in User, NEW v \in User, users'[u].state # "absent",
               users'[v].state # "absent", users'[u].email = users'[v].email
        PROVE  u = v
    <2>1. ASSUME NEW a \in User, NEW b \in User, a \in Request, CommitRegistration(a),
                 users'[a].email = call[a].email, users[b].state # "absent",
                 users'[b].email = users[b].email, users'[a].email = users'[b].email
          PROVE  FALSE
      <3>1. AccountsAt(call[a].email) = {}
        BY <2>1 DEF CommitRegistration, EmailInv
      <3>2. QED
        BY <2>1, <3>1 DEF AccountsAt
    <2>2. ASSUME u \in Request, v \in Request, CommitRegistration(u), CommitRegistration(v)
          PROVE  u = v
      BY <2>2 DEF CommitRegistration, Reply, TypeOK
    <2>3. QED
      BY <1>3, <2>1, <2>2, PresentSteps DEF UniqueEmail
  <1>4. EmailInv'
    BY <1>1, <1>2 DEF EmailInv, AccountsAt, InsertingEmail
  <1>5. UniqueEmail'
    BY <1>3 DEF UniqueEmail
  <1>6. QED
    BY <1>4, <1>5

(* Every step keeps registered accounts with the session they opened. *)
LEMMA AccountNext == Base /\ AccountInv /\ [Next]_vars => AccountInv'
  <1> SUFFICES ASSUME Base, AccountInv, [Next]_vars, NEW u \in Request,
                      users'[u].state # "absent"
               PROVE  answer'[u] = "tokens" /\ sessions'[u].userId = u
    BY DEF AccountInv, GotTokens
  <1> USE DEF Base
  <1>0. u \in User
    BY DEF User
  <1>1. CASE CommitRegistration(u)
    <2>1. InsertSessionRow(u, u) /\ answer'[u] = "tokens"
      BY <1>1 DEF CommitRegistration, Reply, TypeOK
    <2>2. QED
      BY <2>1, InsertRowEffect
  <1>2. CASE users[u].state # "absent"
    <2>1. answer[u] = "tokens" /\ sessions[u].userId = u
      BY <1>2 DEF AccountInv, GotTokens
    <2>2. answer'[u] = "tokens"
      BY <2>1, DoneIsFinal
    <2>3. ASSUME NEW v \in User, DeleteUser(v), sessions[u].userId = v PROVE FALSE
      <3>1. users'[u] = NoUser
        BY <2>1, <2>3, <1>0 DEF DeleteUser, TypeOK
      <3>2. QED
        BY <3>1 DEF NoUser
    <2>4. CASE Opens(u)
      <3>1. pc[u] = "done"
        BY <2>1 DEF HandlerInv
      <3>2. QED
        BY <2>4, <3>1 DEF Opens
    <2>5. ASSUME NEW r \in Request, Rotates(u, r) \/ Revokes(u, r)
          PROVE  sessions'[u].userId = u
      BY <2>1, <2>5 DEF Rotates, Revokes
    <2>6. sessions'[u].userId = u
      BY <2>1, <2>3, <2>4, <2>5, SessionSteps
    <2>7. QED
      BY <2>2, <2>6
  <1>3. QED
    BY <1>0, <1>1, <1>2, PresentSteps

-----------------------------------------------------------------------------
(* The invariant of the specification *)

(* The inductive invariant holds initially. *)
LEMMA IInvInit == Init => IInv
  <1> SUFFICES ASSUME Init PROVE IInv
    OBVIOUS
  <1>1. \A r \in Request : /\ pc[r] = "idle"
                           /\ answer[r] = "none"
                           /\ sessions[r].state = "absent"
                           /\ users[r].state = "absent"
    BY DEF Init, NoSession, NoUser, User
  <1>2. SingleUse /\ SpentNeverCurrent /\ UnspentIsCurrent /\ SessionOutlivesToken
    BY <1>1 DEF SingleUse, SpentNeverCurrent, UnspentIsCurrent, SessionOutlivesToken,
                Exchanged, GotTokens
  <1>3. EmailInv /\ AccountInv
    BY <1>1 DEF EmailInv, AccountInv
  <1>4. \A u \in User : users[u].state # "absent" => /\ u \in SeedUser
                                                    /\ users[u].email = SeedEmail[u]
    BY DEF Init, NoUser
  <1>5. UniqueEmail
    BY <1>4 DEF UniqueEmail
  <1>6. QED
    BY <1>2, <1>3, <1>5, HandlerInit, ClaimsInit, RowInit DEF IInv

(* Every step preserves the inductive invariant. *)
LEMMA IInvNext == TypeOK /\ IInv /\ [Next]_vars => TypeOK' /\ IInv'
  <1> SUFFICES ASSUME TypeOK, IInv, [Next]_vars PROVE TypeOK' /\ IInv'
    OBVIOUS
  <1>1. Base /\ ChainInv
    BY DEF IInv, Base, ChainInv
  <1>2. TypeOK' /\ HandlerInv' /\ ClaimsInv' /\ RowInv'
    BY <1>1, TypeNext, HandlerNext, ClaimsNext, RowNext DEF Base
  <1>3. SingleUse' /\ SpentNeverCurrent' /\ UnspentIsCurrent'
    BY <1>1, SingleUseNext, SpentNeverCurrentNext, UnspentIsCurrentNext
  <1>4. EmailInv' /\ UniqueEmail'
    BY EmailNext DEF IInv
  <1>5. SessionOutlivesToken' /\ AccountInv'
    BY <1>1, ExpiryNext, AccountNext DEF IInv
  <1>6. QED
    BY <1>2, <1>3, <1>4, <1>5 DEF IInv

(* The inductive invariant holds in every reachable state. *)
THEOREM Invariance == Spec => [](TypeOK /\ IInv)
  <1>1. Init => TypeOK /\ IInv
    BY TypeInit, IInvInit
  <1>2. (TypeOK /\ IInv) /\ [Next]_vars => (TypeOK /\ IInv)'
    BY IInvNext
  <1>3. QED
    BY <1>1, <1>2, PTL DEF Spec

(* "Exactly one request can rotate a given token": no two requests are     *)
(* ever answered with tokens for the same refresh token.                   *)
THEOREM TokenIsSingleUse == Spec => []SingleUse
  <1>1. TypeOK /\ IInv => SingleUse
    BY DEF IInv
  <1>2. QED
    BY <1>1, Invariance, PTL

(* A superseded token never becomes current again. *)
THEOREM SpentIsGone == Spec => []SpentNeverCurrent
  <1>1. TypeOK /\ IInv => SpentNeverCurrent
    BY DEF IInv
  <1>2. QED
    BY <1>1, Invariance, PTL

(* The token a client was last given works for as long as its session is   *)
(* live: a request that loses a race cannot take it away.                  *)
THEOREM WinnerKeepsSession == Spec => []UnspentIsCurrent
  <1>1. TypeOK /\ IInv => UnspentIsCurrent
    BY DEF IInv
  <1>2. QED
    BY <1>1, Invariance, PTL

(* No two accounts share an address, however registrations interleave. *)
THEOREM EmailsAreUnique == Spec => []UniqueEmail
  <1>1. TypeOK /\ IInv => UniqueEmail
    BY DEF IInv
  <1>2. QED
    BY <1>1, Invariance, PTL

(* Registration never leaves an account without the session it created. *)
THEOREM RegistrationIsAtomic == Spec => []RegisteredHasSession
  <1>1. TypeOK /\ IInv => RegisteredHasSession
    BY DEF IInv, AccountInv, RegisteredHasSession
  <1>2. QED
    BY <1>1, Invariance, PTL

(* The expiry of a row is never earlier than that of its current token. *)
THEOREM TokenExpiresFirst == Spec => []SessionOutlivesToken
  <1>1. TypeOK /\ IInv => SessionOutlivesToken
    BY DEF IInv
  <1>2. QED
    BY <1>1, Invariance, PTL

-----------------------------------------------------------------------------
(* What a step may never do *)

(* Only a successful logout revokes a session. *)
THEOREM LogoutRevokes == Spec => OnlyLogoutRevokes
  <1>1. ASSUME TypeOK, IInv, [Next]_vars, NEW s \in Request,
               sessions[s].state = "live", sessions'[s].state = "revoked"
        PROVE  \E r \in Request : /\ call[r].op = "logout"
                                  /\ Presented(r) = sessions[s].tokenHash
                                  /\ answer[r] = "none"
                                  /\ answer'[r] = "loggedOut"
    <2>1. PICK r \in Request : Revokes(s, r)
      BY <1>1, SessionSteps DEF IInv, NoSession, Opens, Rotates
    <2>2. /\ pc[r] = "revoke"
          /\ Presented(r) = sessions[s].tokenHash
          /\ answer'[r] = "loggedOut"
      BY <2>1 DEF Revokes, StillCurrent
    <2>3. call[r].op = "logout" /\ answer[r] = "none"
      BY <1>1, <2>2 DEF IInv, HandlerInv
    <2>4. QED
      BY <2>2, <2>3
  <1>2. TypeOK /\ IInv /\ [Next]_vars =>
           [\A s \in Request :
               sessions[s].state = "live" /\ sessions'[s].state = "revoked" =>
                  \E r \in Request : /\ call[r].op = "logout"
                                     /\ Presented(r) = sessions[s].tokenHash
                                     /\ answer[r] = "none"
                                     /\ answer'[r] = "loggedOut"]_vars
    BY <1>1
  <1>3. QED
    BY <1>2, Invariance, PTL DEF Spec, OnlyLogoutRevokes

(* No request in flight brings a revoked or expired session back. *)
THEOREM EndIsFinal == Spec => EndedSessionIsFinal
  <1>1. ASSUME TypeOK, IInv, [Next]_vars, NEW s \in Request,
               \/ sessions[s].state = "revoked"
               \/ sessions[s].state = "live" /\ sessions[s].expiresAt <= now
        PROVE  /\ sessions'[s].state \in {sessions[s].state, "revoked", "absent"}
               /\ sessions'[s].state # "absent" =>
                     /\ sessions'[s].tokenHash = sessions[s].tokenHash
                     /\ sessions'[s].expiresAt = sessions[s].expiresAt
    <2>1. ~Opens(s)
      BY <1>1, OpensIsOpened DEF IInv, RowInv
    <2>2. ASSUME NEW r \in Request, Rotates(s, r) PROVE FALSE
      <3>1. sessions[s].state = "live" /\ sessions[s].expiresAt > now
        BY <2>2 DEF Rotates, Rotatable, StillCurrent
      <3>2. sessions[s].expiresAt \in Nat /\ now \in Nat
        BY <1>1 DEF TypeOK, SessionRow
      <3>3. QED
        BY <1>1, <3>1, <3>2
    <2>3. QED
      BY <1>1, <2>1, <2>2, SessionSteps DEF IInv, NoSession, Revokes
  <1>2. TypeOK /\ IInv /\ [Next]_vars =>
           [\A s \in Request :
               \/ sessions[s].state = "revoked"
               \/ sessions[s].state = "live" /\ sessions[s].expiresAt <= now
               => /\ sessions'[s].state \in {sessions[s].state, "revoked", "absent"}
                  /\ sessions'[s].state # "absent" =>
                        /\ sessions'[s].tokenHash = sessions[s].tokenHash
                        /\ sessions'[s].expiresAt = sessions[s].expiresAt]_vars
    BY <1>1
  <1>3. QED
    BY <1>2, Invariance, PTL DEF Spec, EndedSessionIsFinal

(* A rejected request leaves no trace: what is in the tables or with a     *)
(* client stems from requests that were answered with tokens.              *)
THEOREM RejectionIsHarmless == Spec => []RejectedLeavesNoTrace
  <1>1. TypeOK /\ IInv => RejectedLeavesNoTrace
    <2> SUFFICES ASSUME TypeOK, IInv, NEW r \in Request, answer[r] \in Rejection
                 PROVE  /\ users[r].state = "absent"
                        /\ r \notin held
                        /\ \A s \in Request :
                              sessions[s].state # "absent" => r \notin {s, sessions[s].tokenHash}
      BY DEF RejectedLeavesNoTrace
    <2>1. ~GotTokens(r)
      BY DEF GotTokens, Rejection
    <2>2. users[r].state = "absent"
      BY <2>1 DEF IInv, AccountInv
    <2>3. r \notin held
      BY <2>1 DEF IInv, ClaimsInv, Granted
    <2>4. ASSUME NEW s \in Request, sessions[s].state # "absent"
          PROVE  r \notin {s, sessions[s].tokenHash}
      BY <2>1, <2>4 DEF IInv, RowInv, Opened, Granted
    <2>5. QED
      BY <2>2, <2>3, <2>4
  <1>2. QED
    BY <1>1, Invariance, PTL

-----------------------------------------------------------------------------
(* The handlers implement the chain of tokens *)

(* A step that grants no token and writes no session is a stutter of the   *)
(* chain.                                                                  *)
LEMMA ChainStutters ==
    ASSUME Base, [Next]_vars, Granted' = Granted, sessions' = sessions
    PROVE  UNCHANGED Chain!vars
  <1> USE DEF Base
  <1>1. ASSUME NEW q \in Request
        PROVE  Opened(q)' <=> Opened(q)
    <2>1. q \in Granted => call'[q] = call[q] /\ answer'[q] = answer[q]
      BY DoneIsFinal DEF Granted, GotTokens
    <2>2. q \in Granted' <=> q \in Granted
      OBVIOUS
    <2>3. QED
      BY <2>1, <2>2 DEF Granted, Opened, GotTokens
  <1>2. ASSUME NEW q \in Request
        PROVE  /\ Exchanged(q)' <=> Exchanged(q)
               /\ Exchanged(q) => Presented(q)' = Presented(q)
    <2>1. q \in Granted => call'[q] = call[q] /\ answer'[q] = answer[q]
      BY DoneIsFinal DEF Granted, GotTokens
    <2>2. q \in Granted' <=> q \in Granted
      OBVIOUS
    <2>3. QED
      BY <2>1, <2>2 DEF Granted, Exchanged, GotTokens, Presented
  <1>3. Spent' = Spent
    BY <1>2 DEF Spent
  <1>4. Phase' = Phase /\ Head' = Head
    BY <1>1 DEF Phase, Head
  <1>5. QED
    BY <1>3, <1>4 DEF Chain!vars

(* Which sessions are open, and which tokens are spent, after a step in    *)
(* which at most request r is newly answered with tokens.                  *)
LEMMA GrantEffect ==
    ASSUME Base, [Next]_vars, NEW r \in Request, Granted' \subseteq Granted \cup {r},
           NEW q \in Request, q # r
    PROVE  /\ Opened(q)' <=> Opened(q)
           /\ Exchanged(q)' <=> Exchanged(q)
           /\ Exchanged(q) => Presented(q)' = Presented(q)
  <1>1. q \in Granted => call'[q] = call[q] /\ answer'[q] = answer[q]
    BY DoneIsFinal DEF Base, Granted, GotTokens
  <1>2. q \in Granted' => q \in Granted
    OBVIOUS
  <1>3. QED
    BY <1>1, <1>2 DEF Granted, Opened, Exchanged, GotTokens, Presented

(* Inserting a session opens a chain. *)
LEMMA ChainOpens ==
    ASSUME Base, [Next]_vars, NEW r \in Request, Opens(r), Granted' = Granted \cup {r},
           \A s \in Request \ {r} : sessions'[s] = sessions[s]
    PROVE  Chain!Open(r, r)
  <1> USE DEF Base
  <1>1. Opened(r)' /\ ~Opened(r) /\ r \notin Granted
    BY OpensIsOpened
  <1>2. sessions[r].state = "absent"
    BY <1>1 DEF RowInv
  <1>3. sessions'[r].state = "live" /\ sessions'[r].tokenHash = r
    BY DEF Opens
  <1>4. \A q \in Request \ {r} : Opened(q)' <=> Opened(q)
    BY GrantEffect
  <1>5. Phase[r] = "unborn"
    BY <1>1, <1>2 DEF Phase
  <1>6. Phase' = [Phase EXCEPT ![r] = "live"]
    BY <1>3, <1>4 DEF Phase
  <1>7. Head' = [Head EXCEPT ![r] = r]
    BY <1>3 DEF Head
  <1>8. ~Exchanged(r) /\ ~Exchanged(r)'
    <2>1. pc[r] # "rotate"
      BY DEF Opens
    <2>2. ~Exchanged(r)
      BY <1>1 DEF Granted, Exchanged
    <2>3. QED
      BY <2>1, <2>2, ExchangeSteps
  <1>9. Spent' = Spent
    BY <1>8, GrantEffect DEF Spent
  <1>10. QED
    BY <1>1, <1>5, <1>6, <1>7, <1>9 DEF Chain!Open

(* A rotation exchanges the head of the chain. *)
LEMMA ChainExchanges ==
    ASSUME Base, [Next]_vars, NEW r \in Request, NEW s \in Request, Rotates(s, r),
           Granted' = Granted \cup {r},
           \A t \in Request \ {s} : sessions'[t] = sessions[t]
    PROVE  Chain!Exchange(s, r)
  <1> USE DEF Base
  <1>1. /\ pc[r] = "rotate"
        /\ sessions[s].state = "live"
        /\ sessions[s].tokenHash = Presented(r)
        /\ sessions'[s].state = "live"
        /\ sessions'[s].tokenHash = r
        /\ answer'[r] = "tokens"
    BY DEF Rotates, Rotatable, StillCurrent
  <1>2. r \notin Granted /\ answer[r] # "tokens" /\ call[r].op = "refresh"
    BY <1>1, GrantsIsNew DEF HandlerInv
  <1>3. call'[r] = call[r]
    BY <1>1, <1>2, GrantSteps
  <1>4. Exchanged(r)' /\ ~Exchanged(r) /\ Presented(r)' = Presented(r)
    BY <1>1, <1>2, <1>3 DEF Exchanged, GotTokens, Presented
  <1>5. Opened(r)' <=> Opened(r)
    BY <1>2, <1>3 DEF Opened
  <1>6. \A q \in Request : Opened(q)' <=> Opened(q)
    BY <1>5, GrantEffect
  <1>7. Phase' = Phase /\ Phase[s] = "live"
    BY <1>1, <1>6 DEF Phase
  <1>8. Head' = [Head EXCEPT ![s] = r] /\ Head[s] = Presented(r)
    BY <1>1 DEF Head
  <1>9. \A q \in Request \ {r} : /\ Exchanged(q)' <=> Exchanged(q)
                                /\ Exchanged(q) => Presented(q)' = Presented(q)
    BY GrantEffect
  <1>10. Spent' = Spent \cup {Presented(r)}
    <2>1. \A q \in Request : Exchanged(q)' <=> Exchanged(q) \/ q = r
      <3>1. Exchanged(r)'
        BY <1>4
      <3>2. ASSUME NEW q \in Request PROVE Exchanged(q)' <=> Exchanged(q) \/ q = r
        <4>1. CASE q = r
          BY <3>1, <4>1 DEF Exchanged, GotTokens
        <4>2. CASE q # r
          BY <4>2, GrantEffect DEF Exchanged, GotTokens
        <4>3. QED
          BY <4>1, <4>2
      <3>3. QED
        BY <3>2
    <2>2. \A q \in Request : Exchanged(q)' => Presented(q)' = Presented(q)
      BY <1>4, <1>9, <2>1 DEF Exchanged, GotTokens, Presented
    <2>3. ASSUME NEW t PROVE t \in Spent' <=> \E q \in Request : Exchanged(q)' /\ t = Presented(q)'
      BY DEF Spent
    <2>4. ASSUME NEW t PROVE t \in Spent <=> \E q \in Request : Exchanged(q) /\ t = Presented(q)
      BY DEF Spent
    <2>5. Exchanged(r)' /\ Presented(r)' = Presented(r)
      BY <1>4
    <2>6. ASSUME NEW t \in Spent' PROVE t \in Spent \cup {Presented(r)}
      BY <2>1, <2>2, <2>3, <2>4, <2>6
    <2>7. ASSUME NEW t \in Spent PROVE t \in Spent'
      <3>1. PICK q \in Request : Exchanged(q) /\ t = Presented(q)
        BY <2>4, <2>7
      <3>2. Exchanged(q)' /\ t = Presented(q)'
        BY <2>1, <2>2, <3>1
      <3>3. QED
        BY <2>3, <3>2
    <2>8. Presented(r) \in Spent'
      BY <2>3, <2>5
    <2>9. QED
      BY <2>6, <2>7, <2>8
  <1>11. QED
    BY <1>2, <1>7, <1>8, <1>10 DEF Chain!Exchange

(* Revoking a session, or deleting those of an account, ends chains. *)
LEMMA ChainEnds ==
    ASSUME Base, [Next]_vars, Granted' = Granted,
           \A s \in Request : \/ sessions'[s] = sessions[s]
                             \/ sessions'[s].state \in {"revoked", "absent"}
    PROVE  (\E S \in SUBSET Request : Chain!End(S)) \/ UNCHANGED Chain!vars
  <1> USE DEF Base
  <1> DEFINE S == {s \in Request : sessions[s].state = "live" /\ sessions'[s].state # "live"}
  <1>1. ASSUME NEW q \in Request
        PROVE  /\ Opened(q)' <=> Opened(q)
               /\ Exchanged(q)' <=> Exchanged(q)
               /\ Exchanged(q) => Presented(q)' = Presented(q)
    <2>1. q \in Granted => call'[q] = call[q] /\ answer'[q] = answer[q]
      BY DoneIsFinal DEF Granted, GotTokens
    <2>2. q \in Granted' <=> q \in Granted
      OBVIOUS
    <2>3. QED
      BY <2>1, <2>2 DEF Granted, Opened, Exchanged, GotTokens, Presented
  <1>2. Spent' = Spent
    BY <1>1 DEF Spent
  <1>3. \A s \in Request : sessions[s].state = "live" => Opened(s)
    BY DEF RowInv
  <1>4. S \subseteq {s \in Request : Phase[s] = "live"}
    BY DEF Phase
  <1>5. Phase' = [s \in Request |-> IF s \in S THEN "ended" ELSE Phase[s]]
    BY <1>1, <1>3 DEF Phase
  <1>6. Head' = [s \in Request |-> IF s \in S THEN None ELSE Head[s]]
    BY DEF Head
  <1>7. CASE S = {}
    <2>1. Phase' = Phase /\ Head' = Head
      BY <1>5, <1>6, <1>7 DEF Phase, Head
    <2>2. QED
      BY <1>2, <2>1 DEF Chain!vars
  <1>8. CASE S # {}
    <2>1. Chain!End(S)
      BY <1>2, <1>4, <1>5, <1>6, <1>8 DEF Chain!End
    <2>2. QED
      BY <2>1
  <1>9. QED
    BY <1>7, <1>8

(* Every step of the handlers is a step of the chain or a stutter. *)
LEMMA ChainNext ==
    TypeOK /\ IInv /\ [Next]_vars => [Chain!Next]_(Chain!vars)
  <1> SUFFICES ASSUME TypeOK, IInv, [Next]_vars PROVE [Chain!Next]_(Chain!vars)
    OBVIOUS
  <1>base. Base
    BY DEF IInv, Base
  <1>types. answer \in [Request -> Answer] /\ sessions \in [Request -> SessionRow]
    BY DEF TypeOK
  <1> DEFINE Goal == [Chain!Next]_(Chain!vars)
  <1>1. ASSUME Granted' = Granted, sessions' = sessions PROVE Goal
    BY <1>1, <1>base, ChainStutters
  <1>2. ASSUME NEW r \in Request, Opens(r), Granted' = Granted \cup {r},
               \A s \in Request \ {r} : sessions'[s] = sessions[s]
        PROVE  Goal
    BY <1>2, <1>base, ChainOpens DEF Chain!Next
  <1>3. ASSUME NEW r \in Request, NEW s \in Request, Rotates(s, r),
               Granted' = Granted \cup {r},
               \A t \in Request \ {s} : sessions'[t] = sessions[t]
        PROVE  Goal
    BY <1>3, <1>base, ChainExchanges DEF Chain!Next
  <1>4. ASSUME Granted' = Granted,
               \A s \in Request : \/ sessions'[s] = sessions[s]
                                 \/ sessions'[s].state \in {"revoked", "absent"}
        PROVE  Goal
    BY <1>4, <1>base, ChainEnds DEF Chain!Next
  <1>5. ASSUME NEW r \in Request, CommitRegistration(r) PROVE Goal
    <2>1. pc[r] = "commit" /\ answer' = [answer EXCEPT ![r] = "tokens"]
      BY <1>5 DEF CommitRegistration, Reply
    <2>2. Granted' = Granted \cup {r}
      BY <2>1, <1>types DEF Granted, GotTokens
    <2>3. InsertSessionRow(r, r)
      BY <1>5 DEF CommitRegistration
    <2>4. Opens(r) /\ \A s \in Request \ {r} : sessions'[s] = sessions[s]
      BY <2>1, <2>3, <1>types, InsertRowEffect DEF Opens
    <2>5. QED
      BY <1>2, <2>2, <2>4
  <1>6. ASSUME NEW r \in Request, InsertSession(r) PROVE Goal
    <2>1. CASE Reply(r, "serverError") /\ UNCHANGED sessions
      <3>1. Granted' = Granted
        BY <1>6, <2>1, <1>types, <1>base DEF InsertSession, Reply, Granted, GotTokens, Base, HandlerInv
      <3>2. QED
        BY <1>1, <2>1, <3>1
    <2>2. CASE InsertSessionRow(r, found[r].id) /\ Reply(r, "tokens")
      <3>1. pc[r] = "insertSession" /\ answer' = [answer EXCEPT ![r] = "tokens"]
        BY <1>6, <2>2 DEF InsertSession, Reply
      <3>2. Granted' = Granted \cup {r}
        BY <3>1, <1>types DEF Granted, GotTokens
      <3>3. Opens(r) /\ \A s \in Request \ {r} : sessions'[s] = sessions[s]
        BY <2>2, <3>1, <1>types, InsertRowEffect DEF Opens
      <3>4. QED
        BY <1>2, <3>2, <3>3
    <2>3. QED
      BY <1>6, <2>1, <2>2 DEF InsertSession
  <1>7. ASSUME NEW r \in Request, Rotate(r) PROVE Goal
    <2>1. pc[r] = "rotate" /\ answer[r] = "none"
      BY <1>7, <1>base DEF Rotate, Base, HandlerInv
    <2>2. Target(r) \in Request
      BY <2>1, <1>base, TargetIsSession DEF Base
    <2>3. CASE Rotatable(r)
      <3>1. answer' = [answer EXCEPT ![r] = "tokens"]
        BY <1>7, <2>3 DEF Rotate, Reply
      <3>2. Granted' = Granted \cup {r}
        BY <3>1, <1>types DEF Granted, GotTokens
      <3>3. QED
        BY <1>3, <1>7, <2>2, <2>3, <3>2, RotateEffect
    <2>4. CASE ~Rotatable(r)
      <3>1. sessions' = sessions /\ answer' = [answer EXCEPT ![r] = "invalidRefreshToken"]
        BY <1>7, <2>4 DEF Rotate, Reply
      <3>2. Granted' = Granted
        BY <2>1, <3>1, <1>types DEF Granted, GotTokens
      <3>3. QED
        BY <1>1, <3>1, <3>2
    <2>5. QED
      BY <2>3, <2>4
  <1>8. ASSUME NEW r \in Request, Revoke(r) PROVE Goal
    <2>1. pc[r] = "revoke" /\ answer[r] = "none"
      BY <1>8, <1>base DEF Revoke, Base, HandlerInv
    <2>2. Target(r) \in Request
      BY <2>1, <1>base, TargetIsSession DEF Base
    <2>3. \E a \in {"loggedOut", "invalidRefreshToken"} : answer' = [answer EXCEPT ![r] = a]
      BY <1>8 DEF Revoke, Reply
    <2>4. Granted' = Granted
      BY <2>1, <2>3, <1>types DEF Granted, GotTokens
    <2>5. CASE StillCurrent(r)
      BY <1>4, <1>8, <2>2, <2>4, <2>5, RevokeEffect DEF Revokes
    <2>6. CASE ~StillCurrent(r)
      BY <1>1, <1>8, <2>4, <2>6 DEF Revoke
    <2>7. QED
      BY <2>5, <2>6
  <1>9. ASSUME NEW u \in User, DeleteUser(u) PROVE Goal
    <2>1. Granted' = Granted
      BY <1>9 DEF DeleteUser, Granted, GotTokens
    <2>2. QED
      BY <1>4, <1>9, <2>1 DEF DeleteUser, NoSession
  <1>10. ASSUME NEW r \in Request, Arrive(r) \/ Crash(r) PROVE Granted' = Granted /\ sessions' = sessions
    BY <1>10, <1>types, <1>base
       DEF Arrive, RegisterArrives, LoginArrives, RefreshArrives, LogoutArrives, TokenArrives,
           Crash, Reply, GoTo, Granted, GotTokens, Base, HandlerInv
  <1>11. ASSUME NEW r \in Request, CheckEmail(r) \/ InsertUser(r) \/ FindUser(r)
         PROVE  Granted' = Granted /\ sessions' = sessions
    BY <1>11, <1>types, <1>base
       DEF CheckEmail, InsertUser, FindUser, Reply, GoTo, Granted, GotTokens, Base, HandlerInv
  <1>12. ASSUME NEW r \in Request, VerifyPassword(r) \/ FindSession(r) \/ LoadUser(r)
         PROVE  Granted' = Granted /\ sessions' = sessions
    BY <1>12, <1>types, <1>base
       DEF VerifyPassword, FindSession, LoadUser, Reply, GoTo, Granted, GotTokens, Base, HandlerInv
  <1>13. ASSUME NEW r \in Request, Deliver(r) PROVE Granted' = Granted /\ sessions' = sessions
    BY <1>13 DEF Deliver, Granted, GotTokens
  <1>14. ASSUME NEW u \in User, Deactivate(u) \/ Activate(u)
         PROVE  Granted' = Granted /\ sessions' = sessions
    BY <1>14 DEF Deactivate, Activate, SetActive, Granted, GotTokens
  <1>15. ASSUME Tick \/ UNCHANGED vars PROVE Granted' = Granted /\ sessions' = sessions
    BY <1>15 DEF Tick, vars, Granted, GotTokens
  <1>16. QED
    BY <1>1, <1>5, <1>6, <1>7, <1>8, <1>9, <1>10, <1>11, <1>12, <1>13, <1>14, <1>15
       DEF Next, Serve, Operator

(* The handlers and tables implement the promise of TokenChain. *)
THEOREM Refinement == Spec => ImplementsTokenChain
  <1>1. Init => Chain!Init
    <2>1. ASSUME Init
          PROVE  \A r \in Request : sessions[r].state = "absent" /\ ~GotTokens(r)
      BY <2>1 DEF Init, NoSession, GotTokens
    <2>2. QED
      BY <2>1 DEF Chain!Init, Phase, Head, Granted, Spent, Exchanged, Opened
  <1>2. QED
    BY <1>1, ChainNext, Invariance, PTL DEF Spec, Chain!Spec, ImplementsTokenChain

-----------------------------------------------------------------------------
(* One request, whatever the others do                                     *)

(* What a handler remembers between its steps. *)
Local(r) == <<pc[r], call[r], found[r], claims[r], answer[r]>>

(* Only its own steps change it: the others leave it where it stands. *)
LEMMA OwnSteps ==
    ASSUME TypeOK, [Next]_vars, NEW r \in Request
    PROVE  Local(r)' = Local(r) \/ Arrive(r) \/ Serve(r) \/ Crash(r)
  <1>. USE DEF TypeOK, Local
  <1>1. ASSUME NEW q \in Request, q # r, Arrive(q) PROVE Local(r)' = Local(r)
    BY <1>1 DEF Arrive, RegisterArrives, LoginArrives, RefreshArrives, LogoutArrives,
                TokenArrives, Ask, GoTo, Reply
  <1>2. ASSUME NEW q \in Request, q # r, CheckEmail(q) \/ InsertUser(q) \/ CommitRegistration(q)
        PROVE  Local(r)' = Local(r)
    BY <1>2 DEF CheckEmail, InsertUser, CommitRegistration, IssueTokens, GoTo, Reply
  <1>3. ASSUME NEW q \in Request, q # r, FindUser(q) \/ VerifyPassword(q) \/ InsertSession(q)
        PROVE  Local(r)' = Local(r)
    BY <1>3 DEF FindUser, VerifyPassword, InsertSession, IssueTokens, GoTo, Reply
  <1>4. ASSUME NEW q \in Request, q # r,
               FindSession(q) \/ LoadUser(q) \/ Rotate(q) \/ Revoke(q)
        PROVE  Local(r)' = Local(r)
    BY <1>4 DEF FindSession, LoadUser, Rotate, Revoke, IssueTokens, GoTo, Reply
  <1>5. ASSUME NEW q \in Request, q # r, Crash(q) PROVE Local(r)' = Local(r)
    BY <1>5 DEF Crash, Reply
  <1>6. ASSUME NEW q \in Request, Deliver(q) PROVE Local(r)' = Local(r)
    BY <1>6 DEF Deliver
  <1>7. ASSUME NEW u \in User, Operator(u) PROVE Local(r)' = Local(r)
    BY <1>7 DEF Operator, Deactivate, Activate, SetActive, DeleteUser
  <1>8. ASSUME Tick \/ UNCHANGED vars PROVE Local(r)' = Local(r)
    BY <1>8 DEF Tick, vars
  <1>9. QED
    BY <1>1, <1>2, <1>3, <1>4, <1>5, <1>6, <1>7, <1>8 DEF Next, Serve

(* A login that has not read an account knows of none. *)
FoundInv == \A r \in Request : pc[r] \in {"idle", "findUser"} => found[r] = NotFound

LEMMA FoundNext == TypeOK /\ FoundInv /\ [Next]_vars => FoundInv'
  <1> SUFFICES ASSUME TypeOK, FoundInv, [Next]_vars, NEW r \in Request,
                      pc'[r] \in {"idle", "findUser"}
               PROVE  found'[r] = NotFound
    BY DEF FoundInv
  <1>1. CASE Local(r)' = Local(r)
    BY <1>1 DEF Local, FoundInv
  <1>2. CASE Arrive(r)
    BY <1>2 DEF Arrive, RegisterArrives, LoginArrives, RefreshArrives, LogoutArrives,
                TokenArrives, FoundInv
  <1>3. CASE Serve(r) \/ Crash(r)
    BY <1>3 DEF TypeOK, Serve, CheckEmail, InsertUser, CommitRegistration, FindUser,
                VerifyPassword, InsertSession, FindSession, LoadUser, Rotate, Revoke, Crash,
                GoTo, Reply
  <1>4. QED
    BY <1>1, <1>2, <1>3, OwnSteps

(* Request r neither holds account u as an active one nor carries a token  *)
(* for it.                                                                 *)
KeptFrom(u, r) ==
    /\ pc[r] \in {"idle", "findUser"} => found[r].id # u
    /\ pc[r] = "verify" /\ found[r].id = u => found[r].state # "active"
    /\ pc[r] \in {"commit", "insertSession", "rotate"} => claims[r].sub # u
    /\ GotTokens(r) => claims[r].sub # u

(* It stays so as long as the account is not active: what a handler        *)
(* remembers of it, it has read since.                                     *)
LEMMA KeptFromNext ==
    ASSUME NEW u \in SeedUser, NEW r \in Request,
           TypeOK, HandlerInv, [Next]_vars, users[u].state # "active", KeptFrom(u, r)
    PROVE  KeptFrom(u, r)'
  <1>. USE DEF TypeOK, KeptFrom, GotTokens
  <1>1. CASE Local(r)' = Local(r)
    BY <1>1 DEF Local
  <1>2. CASE Arrive(r)
    BY <1>2 DEF Arrive, RegisterArrives, LoginArrives, RefreshArrives, LogoutArrives,
                TokenArrives, GoTo, Reply, HandlerInv
  <1>3. CASE CheckEmail(r) \/ FindSession(r) \/ Revoke(r) \/ Crash(r)
    BY <1>3 DEF CheckEmail, FindSession, Revoke, Crash, GoTo, Reply, HandlerInv
  <1>4. CASE InsertUser(r)
    <2>1. r # u
      OBVIOUS
    <2>2. QED
      BY <1>4, <2>1 DEF InsertUser, IssueTokens, GoTo, Reply, HandlerInv
  <1>5. CASE CommitRegistration(r) \/ InsertSession(r) \/ Rotate(r)
    BY <1>5 DEF CommitRegistration, InsertSession, Rotate, Reply, HandlerInv
  <1>6. CASE FindUser(r)
    BY <1>6 DEF FindUser, GoTo, HandlerInv
  <1>7. CASE VerifyPassword(r)
    BY <1>7 DEF VerifyPassword, IssueTokens, GoTo, Reply, HandlerInv
  <1>8. CASE LoadUser(r)
    <2>1. claims[Presented(r)].sub # u \/ ~(users[claims[Presented(r)].sub].state = "active")
      OBVIOUS
    <2>2. QED
      BY <1>8, <2>1 DEF LoadUser, IssueTokens, GoTo, Reply, HandlerInv
  <1>9. QED
    BY <1>1, <1>2, <1>3, <1>4, <1>5, <1>6, <1>7, <1>8, OwnSteps DEF Serve

(* A login or refresh that arrives when the account is out of use for good *)
(* never gets tokens for it.                                               *)
THEOREM LockedOut == Spec => DeactivationLocksOut
  <1>1. SUFFICES ASSUME NEW u \in SeedUser, NEW r \in Request
                 PROVE  Spec => []([](users[u].state # "active") /\ pc[r] = "idle"
                                     => [](GotTokens(r) => claims[r].sub # u))
    BY DEF DeactivationLocksOut
  <1>2. Init => FoundInv
    BY DEF Init, FoundInv
  <1>3. TypeOK /\ HandlerInv /\ FoundInv /\ pc[r] = "idle" => KeptFrom(u, r)
    BY DEF TypeOK, HandlerInv, FoundInv, KeptFrom, NotFound, GotTokens, User
  <1>4. TypeOK /\ HandlerInv /\ users[u].state # "active" /\ KeptFrom(u, r) /\ [Next]_vars
          => KeptFrom(u, r)'
    BY KeptFromNext
  <1>5. KeptFrom(u, r) => (GotTokens(r) => claims[r].sub # u)
    BY DEF KeptFrom
  <1>6. IInv => HandlerInv
    BY DEF IInv
  <1>7. QED
    BY <1>2, <1>3, <1>4, <1>5, <1>6, FoundNext, Invariance, PTL DEF Spec

-----------------------------------------------------------------------------
(* Progress                                                                *)

(* The round trips a handler has before it, at most. *)
StepsLeft(r) ==
    CASE pc[r] \in {"checkEmail", "findUser", "findSession"} -> 3
      [] pc[r] \in {"insertUser", "verify", "loadUser"} -> 2
      [] pc[r] \in {"commit", "insertSession", "rotate", "revoke"} -> 1
      [] OTHER -> 0

(* The INSERT of r waits for the transaction of another registration. *)
Waiting(r) == pc[r] = "insertUser" /\ InsertingEmail(call[r].email) # {}

Able(r) == pc[r] \notin {"idle", "done"} /\ ~Waiting(r)

(* FairSpec with the guard of Serve(r) written out, as ENABLED is beyond   *)
(* the provers: a request that runs can be served unless its INSERT waits. *)
Served == \A r \in Request : []<>(~Able(r)) \/ []<><<Serve(r)>>_vars

EachReleases == \A r \in Request : <>[](pc[r] # "commit")
NobodyHolds == \A r \in Request : pc[r] # "commit"

(* Valid for every finite set of requests, by induction on it, which is    *)
(* beyond the provers too.  Among infinitely many, each might hold an      *)
(* address for a while only and yet some other one always.                 *)
FinitelyMany == EachReleases => <>[]NobodyHolds

(* The clock only ticks, and a token is signed for its lifetime from now.  *)
LEMMA ClockAndSignature ==
    ASSUME TypeOK, [Next]_vars, NEW r \in Request
    PROVE  /\ now' \in {now, now + 1}
           /\ claims'[r] = claims[r] \/ claims'[r].exp = now + TTL
  <1>1. now' \in {now, now + 1}
    <2>. DEFINE Stays == now' = now
    <2>1. ASSUME NEW q \in Request, Arrive(q) \/ Deliver(q) \/ Crash(q) PROVE Stays
      BY <2>1 DEF Arrive, RegisterArrives, LoginArrives, RefreshArrives, LogoutArrives,
                  TokenArrives, Deliver, Crash
    <2>2. ASSUME NEW q \in Request, Serve(q) PROVE Stays
      BY <2>2 DEF Serve, CheckEmail, InsertUser, CommitRegistration, FindUser, VerifyPassword,
                  InsertSession, FindSession, LoadUser, Rotate, Revoke
    <2>3. ASSUME NEW u \in User, Operator(u) PROVE Stays
      BY <2>3 DEF Operator, Deactivate, Activate, SetActive, DeleteUser
    <2>4. Tick => now' = now + 1
      BY DEF Tick
    <2>5. UNCHANGED vars => Stays
      BY DEF vars
    <2>6. QED
      BY <2>1, <2>2, <2>3, <2>4, <2>5 DEF Next
  <1>2. Local(r)' = Local(r) \/ Arrive(r) \/ Crash(r) => claims'[r] = claims[r]
    BY DEF Local, Arrive, RegisterArrives, LoginArrives, RefreshArrives, LogoutArrives,
           TokenArrives, Crash
  <1>3. Serve(r) => UNCHANGED claims \/ \E u, s : IssueTokens(r, u, s)
    BY DEF Serve, CheckEmail, InsertUser, CommitRegistration, FindUser, VerifyPassword,
           InsertSession, FindSession, LoadUser, Rotate, Revoke
  <1>4. (\E u, s : IssueTokens(r, u, s)) => claims'[r].exp = now + TTL
    BY DEF IssueTokens, TypeOK
  <1>5. QED
    BY <1>1, <1>2, <1>3, <1>4, OwnSteps

(* No token is valid for longer than its lifetime from now on, so that     *)
(* refreshExpiry, read after the signature, is never before the token's    *)
(* own (auth.service.ts:119, 166, 292-294): RefreshExpiry is not empty.    *)
THEOREM LifetimeIsBounded == Spec => [](\A r \in Request : claims[r].exp <= now + TTL)
  <1>. DEFINE Bounded == \A r \in Request : claims[r].exp <= now + TTL
  <1>1. Init => Bounded
    <2>1. SUFFICES ASSUME Init, NEW r \in Request PROVE claims[r].exp <= now + TTL
      OBVIOUS
    <2>2. now = 0 /\ claims[r] = NoClaims
      BY <2>1 DEF Init
    <2>3. claims[r].exp = 0
      BY <2>2 DEF NoClaims
    <2>4. QED
      BY <2>2, <2>3
  <1>2. ASSUME TypeOK, Bounded, [Next]_vars PROVE Bounded'
    <2>1. SUFFICES ASSUME NEW r \in Request PROVE claims'[r].exp <= now' + TTL
      OBVIOUS
    <2>2. now \in Nat /\ claims[r].exp \in Nat /\ claims[r].exp <= now + TTL
      BY <1>2 DEF TypeOK, Claims
    <2>3. QED
      BY <1>2, <2>2, ClockAndSignature
  <1>3. QED
    BY <1>1, <1>2, Invariance, PTL DEF Spec

(* A round trip takes a handler forward; what others do leaves it where    *)
(* it stands.                                                              *)
LEMMA Forward ==
    ASSUME TypeOK, HandlerInv, [Next]_vars, NEW r \in Request, pc[r] # "idle"
    PROVE  /\ \/ pc'[r] = pc[r] /\ StepsLeft(r)' = StepsLeft(r)
              \/ pc'[r] # "idle" /\ StepsLeft(r)' < StepsLeft(r)
           /\ Serve(r) => StepsLeft(r)' < StepsLeft(r)
  <1>. USE DEF StepsLeft, GoTo, Reply
  <1>types. pc \in [Request -> Step]
    BY DEF TypeOK
  <1>. DEFINE Ahead == pc'[r] # "idle" /\ StepsLeft(r)' < StepsLeft(r)
  <1>1. CASE Local(r)' = Local(r) /\ ~Serve(r)
    BY <1>1 DEF Local
  <1>2. ASSUME Arrive(r) PROVE FALSE
    BY <1>2 DEF Arrive, RegisterArrives, LoginArrives, RefreshArrives, LogoutArrives, TokenArrives
  <1>3. CheckEmail(r) \/ InsertUser(r) \/ CommitRegistration(r) => Ahead
    BY <1>types DEF CheckEmail, InsertUser, CommitRegistration
  <1>4. FindUser(r) \/ VerifyPassword(r) \/ InsertSession(r) => Ahead
    BY <1>types DEF FindUser, VerifyPassword, InsertSession
  <1>5. FindSession(r) \/ LoadUser(r) => Ahead
    BY <1>types DEF FindSession, LoadUser
  <1>6. Rotate(r) \/ Revoke(r) => Ahead
    <2>1. Rotate(r) \/ Revoke(r) => pc[r] \in {"rotate", "revoke"} /\ pc' = [pc EXCEPT ![r] = "done"]
      BY DEF Rotate, Revoke
    <2>2. QED
      BY <1>types, <2>1
  <1>7. Crash(r) => Ahead
    BY <1>types DEF Crash, Step
  <1>. HIDE DEF Ahead
  <1>8. Serve(r) => Ahead
    BY <1>3, <1>4, <1>5, <1>6 DEF Serve
  <1>9. QED
    BY <1>1, <1>2, <1>7, <1>8, OwnSteps DEF Ahead

(* A registration holds an address once, and nothing makes its COMMIT wait *)
(* (auth.service.ts:78-84).                                                *)
THEOREM AddressIsReleased == Spec /\ Served => EachReleases
  <1>1. SUFFICES ASSUME NEW r \in Request PROVE Spec /\ Served => <>[](pc[r] # "commit")
    BY DEF EachReleases
  <1>2. Served => []<>(~Able(r)) \/ []<><<Serve(r)>>_vars
    BY DEF Served
  <1>. DEFINE Held == pc[r] = "commit"
              Over == pc[r] = "done"
  <1>3. Held => Able(r)
    BY DEF Able, Waiting
  <1>4. TypeOK /\ HandlerInv /\ [Next]_vars /\ Held =>
          /\ Held' \/ Over'
          /\ Serve(r) => ~Held'
    <2>1. TypeOK => pc \in [Request -> Step]
      BY DEF TypeOK
    <2>2. ASSUME TypeOK, HandlerInv, [Next]_vars PROVE pc'[r] \in Step
      BY <2>2, TypeNext DEF TypeOK
    <2>3. QED
      BY <2>1, <2>2, Forward DEF StepsLeft, Step
  <1>5. TypeOK /\ HandlerInv /\ [Next]_vars /\ Over => Over'
    BY DoneIsFinal DEF HandlerInv
  <1>6. /\ Over => ~Held
        /\ ~Held => pc[r] # "commit"
    OBVIOUS
  <1>7. IInv => HandlerInv
    BY DEF IInv
  <1>. HIDE DEF Held, Over
  <1>8. QED
    BY <1>2, <1>3, <1>4, <1>5, <1>6, <1>7, Invariance, PTL DEF Spec

(* How far request r is, as a fact for each number of steps that are left. *)
LEMMA Stages ==
    ASSUME TypeOK, HandlerInv, NEW r \in Request
    PROVE  /\ pc[r] # "idle" => (pc[r] = "done" <=> StepsLeft(r) = 0)
           /\ pc[r] # "idle" /\ ~Waiting(r) => (Able(r) <=> StepsLeft(r) # 0)
  <1>1. pc[r] \in Step
    BY DEF TypeOK
  <1>2. QED
    BY <1>1 DEF Step, StepsLeft, Able

(* A request whose INSERT does not wait for ever is answered.              *)
LEMMA AnsweredUnlessWaiting ==
    ASSUME NEW r \in Request
    PROVE  Spec /\ Served /\ <>[](~Waiting(r)) => (pc[r] # "idle" ~> pc[r] = "done")
  <1>. DEFINE Arrived == pc[r] # "idle"
              Over == pc[r] = "done"
              Left(n) == Arrived /\ StepsLeft(r) = n
              Good == TypeOK /\ HandlerInv
  <1>1. Served => []<>(~Able(r)) \/ []<><<Serve(r)>>_vars
    BY DEF Served
  <1>. StepsLeft(r) \in {0, 1, 2, 3} /\ StepsLeft(r)' \in {0, 1, 2, 3}
    BY DEF StepsLeft
  <1>2. Good /\ [Next]_vars /\ Left(3) =>
          /\ Left(3)' \/ Left(2)' \/ Left(1)' \/ Left(0)'
          /\ Serve(r) => ~Left(3)'
    BY Forward
  <1>3. Good /\ [Next]_vars /\ Left(2) =>
          /\ Left(2)' \/ Left(1)' \/ Left(0)'
          /\ Serve(r) => ~Left(2)'
    BY Forward
  <1>4. Good /\ [Next]_vars /\ Left(1) =>
          /\ Left(1)' \/ Left(0)'
          /\ Serve(r) => ~Left(1)'
    BY Forward
  <1>5. Good => /\ Arrived => Left(3) \/ Left(2) \/ Left(1) \/ Left(0)
                /\ Left(0) => Over
                /\ Left(3) \/ Left(2) \/ Left(1) => Able(r) \/ Waiting(r)
    BY Stages
  <1>6. IInv => HandlerInv
    BY DEF IInv
  <1>7. Good <=> TypeOK /\ HandlerInv
    OBVIOUS
  <1>. HIDE DEF Left, Good
  <1>8. QED
    BY <1>1, <1>2, <1>3, <1>4, <1>5, <1>6, <1>7, Invariance, PTL DEF Spec

(* A login, a refresh and a logout never wait for another request: the     *)
(* database and the event loop alone carry them to their answer.           *)
THEOREM NobodyBlocksASession ==
    Spec /\ Served =>
      \A r \in Request : pc[r] # "idle" ~> pc[r] = "done" \/ call[r].op = "register"
  <1>1. SUFFICES ASSUME NEW r \in Request
                 PROVE  Spec /\ Served => (pc[r] # "idle" ~> pc[r] = "done" \/ call[r].op = "register")
    OBVIOUS
  <1>2. TypeOK /\ HandlerInv /\ Waiting(r) => call[r].op = "register"
    BY DEF Waiting, HandlerInv
  <1>3. IInv => HandlerInv
    BY DEF IInv
  <1>4. QED
    BY <1>2, <1>3, AnsweredUnlessWaiting, Invariance, PTL

(* The address a registration waits for is free in the end, as no other    *)
(* holds it for ever.                                                      *)
LEMMA WaitingEnds ==
    ASSUME NEW r \in Request
    PROVE  Spec /\ Served /\ FinitelyMany => <>[](~Waiting(r))
  <1>1. NobodyHolds => ~Waiting(r)
    BY DEF NobodyHolds, Waiting, InsertingEmail
  <1>2. QED
    BY <1>1, AddressIsReleased, PTL DEF FinitelyMany

(* Every request is answered: also a registration that waits for others of *)
(* its address, which it can lose the race to only once each               *)
(* (auth.service.ts:71-153, users.service.ts:68-85).                       *)
THEOREM EverybodyIsAnswered == Spec /\ Served /\ FinitelyMany => EveryRequestAnswered
  <1>1. SUFFICES ASSUME NEW r \in Request
                 PROVE  Spec /\ Served /\ FinitelyMany => (pc[r] # "idle" ~> pc[r] = "done")
    BY DEF EveryRequestAnswered
  <1>2. QED
    BY AnsweredUnlessWaiting, WaitingEnds, PTL
=============================================================================
