------------------------------ MODULE OpeningHours ------------------------------
(***************************************************************************)
(* Whether a restaurant is open at an instant.  A schedule is a set of     *)
(* periods; a period that closes after midnight belongs to two weekdays.   *)
(*                                                                         *)
(* Instants are minutes since the epoch, which was a Thursday.  A time of  *)
(* day in the JSON column is <<hour, minute>>, or <<>> for a text that is  *)
(* not of the form HH:mm.  Bogota has been at UTC-5 since April 1993.      *)
(***************************************************************************)
EXTENDS Integers, Sequences

MinutesPerDay == 1440
DaysPerWeek == 7
CLOSING_SOON_MINUTES == 30

OpeningStatuses == {"OPEN", "CLOSING_SOON", "CLOSED"}

\* Minutes since midnight; -1 for a text that is no time of day.
parseClock(text) ==
  IF text = <<>> \/ text[1] > 23 \/ text[2] > 59 THEN -1 ELSE text[1] * 60 + text[2]

localClock(instant) ==
  LET local == instant - 5 * 60
  IN [dayOfWeek |-> (local \div MinutesPerDay + 4) % DaysPerWeek,
      minuteOfDay |-> local % MinutesPerDay]

\* Fault: the hours after midnight are looked for on the day the period opens.
activeOnOpeningDayOnly(periodDay, opensAt, closesAt, clock) ==
  IF /\ clock.dayOfWeek = periodDay
     /\ \/ opensAt <= clock.minuteOfDay /\ clock.minuteOfDay < closesAt
        \/ closesAt < opensAt /\ clock.minuteOfDay < closesAt
  THEN {closesAt - clock.minuteOfDay}
  ELSE {}

\* The minutes until the period closes, as a set of one number, or none.
activeMinutesUntilClose(periodDay, opensAt, closesAt, clock) ==
  CASE /\ opensAt < closesAt
       /\ clock.dayOfWeek = periodDay
       /\ opensAt <= clock.minuteOfDay /\ clock.minuteOfDay < closesAt
         -> {closesAt - clock.minuteOfDay}
    [] /\ opensAt > closesAt
       /\ clock.dayOfWeek = periodDay /\ clock.minuteOfDay >= opensAt
         -> {MinutesPerDay - clock.minuteOfDay + closesAt}
    [] /\ opensAt > closesAt
       /\ ~(clock.dayOfWeek = periodDay /\ clock.minuteOfDay >= opensAt)
       /\ clock.dayOfWeek = (periodDay + 1) % DaysPerWeek /\ clock.minuteOfDay < closesAt
         -> {closesAt - clock.minuteOfDay}
    [] OTHER -> {}

MinutesUntilClose(openingHours, clock) ==
  UNION {activeMinutesUntilClose(p.dayOfWeek, parseClock(p.opensAt),
                                 parseClock(p.closesAt), clock) : p \in openingHours}

\* The period that closes first decides.
evaluateOpeningStatus(openingHours, instant) ==
  LET minutes == MinutesUntilClose(openingHours, localClock(instant))
  IN IF minutes = {} THEN "CLOSED"
     ELSE IF \E m \in minutes : m <= CLOSING_SOON_MINUTES THEN "CLOSING_SOON" ELSE "OPEN"

--------------------------------------------------------------------------------
(* The reference: a week is a circle of minutes, and a period an arc on it *)
(* from its opening to its closing time, shorter than a day.               *)

MinutesPerWeek == DaysPerWeek * MinutesPerDay

TimesOfDay == (0..23) \X (0..59)
Periods == [dayOfWeek : 0..6, opensAt : TimesOfDay, closesAt : TimesOfDay]
Clocks == [dayOfWeek : 0..6, minuteOfDay : 0..1439]

MinuteOfDay(time) == time[1] * 60 + time[2]
MinuteOfWeek(clock) == clock.dayOfWeek * MinutesPerDay + clock.minuteOfDay

\* How long the period has been open on the circle, and how long it lasts.
SinceOpening(p, clock) ==
  (MinuteOfWeek(clock) - (p.dayOfWeek * MinutesPerDay + MinuteOfDay(p.opensAt))) % MinutesPerWeek
Duration(p) == (MinuteOfDay(p.closesAt) - MinuteOfDay(p.opensAt)) % MinutesPerDay

Covers(p, clock) == SinceOpening(p, clock) < Duration(p)

\* Open at the instant, by the reference.
OpenAt(openingHours, instant) == \E p \in openingHours : Covers(p, localClock(instant))
================================================================================
