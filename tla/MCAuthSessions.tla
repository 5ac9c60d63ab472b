--------------------------- MODULE MCAuthSessions ---------------------------
(* Instances of AuthSessions for TLC. *)
EXTENDS AuthSessions, TLC

CONSTANTS r1, r2, r3, r4, u1, e1, e2

(* The one seeded account of these instances has address e1. *)
MCSeedEmail == [u \in SeedUser |-> e1]

(* Requests differ in nothing but their name. *)
RequestSymmetry == Permutations(Request)
=============================================================================
