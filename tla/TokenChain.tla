----------------------------- MODULE TokenChain -----------------------------
(***************************************************************************)
(* What the refresh sessions promise, with no requests, no database and no *)
(* clock.  A session is a chain of refresh tokens: it starts with one      *)
(* token, each exchange replaces the token at its head, and once ended it  *)
(* never moves again.  A token is handed out once and exchanged at most    *)
(* once, so the head of a live session is always a token that somebody was *)
(* given and nobody has exchanged.                                         *)
(*                                                                         *)
(* AuthSessions implements this specification; the promise itself is the   *)
(* class comment of src/src/auth/auth.service.ts:33-42.                    *)
(***************************************************************************)
CONSTANTS
    Session,    \* names of sessions
    Token,      \* names of refresh tokens
    NoToken     \* the head of a session that is not live

VARIABLES
    phase,      \* phase[s]: "unborn", "live" or "ended"
    head,       \* head[s]: the token that can still be exchanged in s
    granted,    \* the tokens handed out so far
    spent       \* the tokens exchanged so far

vars == <<phase, head, granted, spent>>

Init ==
    /\ phase = [s \in Session |-> "unborn"]
    /\ head = [s \in Session |-> NoToken]
    /\ granted = {}
    /\ spent = {}

(* A login or a registration opens session s with a token of its own. *)
Open(s, t) ==
    /\ phase[s] = "unborn"
    /\ t \notin granted
    /\ phase' = [phase EXCEPT ![s] = "live"]
    /\ head' = [head EXCEPT ![s] = t]
    /\ granted' = granted \cup {t}
    /\ UNCHANGED spent

(* The head of a live session is exchanged for a token never seen before. *)
Exchange(s, t) ==
    /\ phase[s] = "live"
    /\ t \notin granted
    /\ head' = [head EXCEPT ![s] = t]
    /\ granted' = granted \cup {t}
    /\ spent' = spent \cup {head[s]}
    /\ UNCHANGED phase

(* Sessions end one at a time by logout, or together with their account.   *)
(* Nothing about an ended session changes any more.                        *)
End(S) ==
    /\ S \subseteq {s \in Session : phase[s] = "live"}
    /\ S # {}
    /\ phase' = [s \in Session |-> IF s \in S THEN "ended" ELSE phase[s]]
    /\ head' = [s \in Session |-> IF s \in S THEN NoToken ELSE head[s]]
    /\ UNCHANGED <<granted, spent>>

Next ==
    \/ \E s \in Session, t \in Token : Open(s, t) \/ Exchange(s, t)
    \/ \E S \in SUBSET Session : End(S)

Spec == Init /\ [][Next]_vars
=============================================================================
