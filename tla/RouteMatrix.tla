------------------------------ MODULE RouteMatrix ------------------------------
(***************************************************************************)
(* What the three route adapters make of a provider's answer: one estimate *)
(* per destination, in the order of the request, and a status.             *)
(*                                                                         *)
(* A matrix is a sequence of rows, of which only the first is read.  A     *)
(* cell names its target (counted from 0, as on the wire) or leaves it     *)
(* out, and has a time in seconds or none.  Positions here count from 1.   *)
(***************************************************************************)
EXTENDS Integers, Sequences

NoIndex == -1     \* to_index is absent
NoTime == -1      \* time is absent or null
NoRoute == 0      \* walkingMinutes = null: a walk takes one minute at least

Statuses == {"AVAILABLE", "PARTIAL", "UNAVAILABLE"}
Cell == [to : {NoIndex} \cup Nat, time : {NoTime} \cup Nat]

\* Math.max(1, Math.round(seconds / 60))
Minutes(seconds) == IF seconds < 90 THEN 1 ELSE (seconds + 30) \div 60

MinutesOrNone(seconds) == IF seconds = NoTime THEN NoRoute ELSE Minutes(seconds)

unavailable(n) == [status |-> "UNAVAILABLE", estimates |-> [i \in 1..n |-> NoRoute]]

\* All of the routes, none of them, or some.
StatusOf(estimates) ==
  IF \A i \in DOMAIN estimates : estimates[i] # NoRoute THEN "AVAILABLE"
  ELSE IF \A i \in DOMAIN estimates : estimates[i] = NoRoute THEN "UNAVAILABLE"
  ELSE "PARTIAL"

Resolved(estimates) == [status |-> StatusOf(estimates), estimates |-> estimates]

\* Fault: the position in the row is taken for the target.
TargetByPosition(row, k) == k

\* cell.to_index ?? index
TargetOf(row, k) == IF row[k].to = NoIndex THEN k ELSE row[k].to + 1

TimedCells(row, i) == {k \in DOMAIN row : row[k].time # NoTime /\ TargetOf(row, k) = i}

\* Map.set: of two times for one target the later cell's is kept.
SecondsByTarget(row, i) ==
  IF TimedCells(row, i) = {} THEN NoTime
  ELSE row[CHOOSE k \in TimedCells(row, i) : \A j \in TimedCells(row, i) : j <= k].time

\* ValhallaRouteAdapter.mapResponse
ValhallaResponse(matrix, n) ==
  IF matrix = <<>> THEN unavailable(n)
  ELSE Resolved([i \in 1..n |-> MinutesOrNone(SecondsByTarget(matrix[1], i))])

\* ExternalRouteAdapter.mapResponse: by position, targets are not named.
ExternalResponse(matrix, n) ==
  Resolved([i \in 1..n |->
    IF matrix # <<>> /\ i \in DOMAIN matrix[1] THEN MinutesOrNone(matrix[1][i].time)
    ELSE NoRoute])

mapResponse(mode, matrix, n) ==
  IF mode = "valhalla" THEN ValhallaResponse(matrix, n) ELSE ExternalResponse(matrix, n)

\* DeterministicRouteAdapter: never fails; the walk is the one of a straight line.
DeterministicResponse(seconds) == Resolved([i \in DOMAIN seconds |-> Minutes(seconds[i])])

--------------------------------------------------------------------------------
(* The provider, seen from the program                                     *)

\* A provider tells the truth about the targets it answers for: a time is that of
\* the target named, or of the target in that place when none is named.  It may
\* leave targets out, change their order or answer for targets nobody asked for.
Honest(mode, matrix, seconds) ==
  matrix # <<>> =>
    \A k \in DOMAIN matrix[1] :
      LET target == IF mode = "valhalla" /\ matrix[1][k].to # NoIndex
                    THEN matrix[1][k].to + 1 ELSE k
      IN target \in DOMAIN seconds => matrix[1][k].time \in {NoTime, seconds[target]}
================================================================================
