--------------------------- MODULE OpeningHoursProofs ---------------------------
(* The case analysis of opening-hours.ts agrees with arcs on the circle of the *)
(* week, for every period and every minute of the week.                        *)
EXTENDS OpeningHours, TLAPS

LEMMA ParseClockValid ==
  ASSUME NEW text \in TimesOfDay
  PROVE  parseClock(text) = MinuteOfDay(text) /\ MinuteOfDay(text) \in 0..1439
<1>1. PICK h \in 0..23, m \in 0..59 : text = <<h, m>>
  BY DEF TimesOfDay
<1>2. text # <<>> /\ text[1] = h /\ text[2] = m
  BY <1>1
<1>3. MinuteOfDay(text) = h * 60 + m
  BY <1>2 DEF MinuteOfDay
<1>4. parseClock(text) = h * 60 + m
  BY <1>2 DEF parseClock
<1> QED
  BY <1>3, <1>4

LEMMA LocalClockType ==
  ASSUME NEW instant \in Int
  PROVE  localClock(instant) \in Clocks
BY DEF localClock, Clocks, MinutesPerDay, DaysPerWeek

\* activeMinutesUntilClose (opening-hours.ts:51-81) yields the minutes left on the arc
\* of the period exactly when the clock lies on it: every overnight period, the last
\* minute before closing and the wrap from Saturday to Sunday included.
THEOREM ActiveMinutesExact ==
  ASSUME NEW p \in Periods, NEW clock \in Clocks
  PROVE  activeMinutesUntilClose(p.dayOfWeek, parseClock(p.opensAt), parseClock(p.closesAt), clock)
           = IF Covers(p, clock) THEN {Duration(p) - SinceOpening(p, clock)} ELSE {}
<1> DEFINE d == p.dayOfWeek
           o == MinuteOfDay(p.opensAt)
           c == MinuteOfDay(p.closesAt)
           e == clock.dayOfWeek
           m == clock.minuteOfDay
           since == ((e * 1440 + m) - (d * 1440 + o)) % 10080
           lasts == (c - o) % 1440
<1>1. /\ d \in 0..6 /\ e \in 0..6 /\ m \in 0..1439
      /\ o \in 0..1439 /\ c \in 0..1439
      /\ parseClock(p.opensAt) = o /\ parseClock(p.closesAt) = c
  BY ParseClockValid DEF Periods, Clocks
<1>2. SinceOpening(p, clock) = since /\ Duration(p) = lasts
  BY DEF SinceOpening, Duration, MinuteOfWeek, MinutesPerDay, MinutesPerWeek, DaysPerWeek
<1>3. Covers(p, clock) <=> since < lasts
  BY <1>2 DEF Covers
<1>4. activeMinutesUntilClose(d, o, c, clock) =
        CASE o < c /\ e = d /\ o <= m /\ m < c -> {c - m}
          [] o > c /\ e = d /\ m >= o -> {1440 - m + c}
          [] o > c /\ ~(e = d /\ m >= o) /\ e = (d + 1) % 7 /\ m < c -> {c - m}
          [] OTHER -> {}
  BY DEF activeMinutesUntilClose, MinutesPerDay, DaysPerWeek
<1> HIDE DEF d, o, c, e, m
<1>5. /\ o < c /\ e = d /\ o <= m /\ m < c => since < lasts /\ lasts - since = c - m
      /\ o > c /\ e = d /\ m >= o => since < lasts /\ lasts - since = 1440 - m + c
      /\ o > c /\ e = (d + 1) % 7 /\ m < c => since < lasts /\ lasts - since = c - m
      /\ since < lasts => \/ o < c /\ e = d /\ o <= m /\ m < c
                          \/ o > c /\ e = d /\ m >= o
                          \/ o > c /\ e = (d + 1) % 7 /\ m < c
      /\ e = d => e # (d + 1) % 7
  BY <1>1, SMTT(120)
<1> HIDE DEF since, lasts
<1>6. activeMinutesUntilClose(d, o, c, clock) = IF since < lasts THEN {lasts - since} ELSE {}
  <2>1. CASE o < c /\ e = d /\ o <= m /\ m < c
    BY <2>1, <1>1, <1>4, <1>5
  <2>2. CASE o > c /\ e = d /\ m >= o
    BY <2>2, <1>1, <1>4, <1>5
  <2>3. CASE o > c /\ e = (d + 1) % 7 /\ m < c
    BY <2>3, <1>1, <1>4, <1>5
  <2>4. CASE /\ ~(o < c /\ e = d /\ o <= m /\ m < c)
             /\ ~(o > c /\ e = d /\ m >= o)
             /\ ~(o > c /\ e = (d + 1) % 7 /\ m < c)
    BY <2>4, <1>4, <1>5
  <2> QED
    BY <2>1, <2>2, <2>3, <2>4
<1> QED
  BY <1>1, <1>2, <1>3, <1>6 DEF d, o, c

\* evaluateOpeningStatus (opening-hours.ts:17-49) says CLOSED exactly outside all the
\* periods of a schedule.
THEOREM ClosedExactly ==
  ASSUME NEW hours \in SUBSET Periods, NEW at \in Int
  PROVE  evaluateOpeningStatus(hours, at) # "CLOSED" <=> OpenAt(hours, at)
<1> DEFINE clock == localClock(at)
<1>1. clock \in Clocks
  BY LocalClockType
<1>2. \A p \in hours :
        activeMinutesUntilClose(p.dayOfWeek, parseClock(p.opensAt), parseClock(p.closesAt), clock) # {}
          <=> Covers(p, clock)
  BY <1>1, ActiveMinutesExact
<1> HIDE DEF clock
<1>3. MinutesUntilClose(hours, clock) # {} <=> \E p \in hours : Covers(p, clock)
  <2> DEFINE A(p) == activeMinutesUntilClose(p.dayOfWeek, parseClock(p.opensAt),
                                             parseClock(p.closesAt), clock)
  <2>1. MinutesUntilClose(hours, clock) = UNION {A(p) : p \in hours}
    BY DEF MinutesUntilClose
  <2>2. \A p \in hours : A(p) # {} <=> Covers(p, clock)
    BY <1>2
  <2> HIDE DEF A
  <2>3. ASSUME NEW x \in UNION {A(p) : p \in hours}
        PROVE  \E p \in hours : A(p) # {}
    OBVIOUS
  <2>4. ASSUME NEW p \in hours, A(p) # {}
        PROVE  UNION {A(q) : q \in hours} # {}
    BY <2>4
  <2> QED
    BY <2>1, <2>2, <2>3, <2>4
<1>4. evaluateOpeningStatus(hours, at) # "CLOSED" <=> MinutesUntilClose(hours, clock) # {}
  BY DEF evaluateOpeningStatus, clock
<1> QED
  BY <1>3, <1>4 DEF OpenAt, clock

\* It says CLOSING_SOON exactly when one of the periods around the instant has half an
\* hour or less left, at the latest its last minute, and OPEN when none has.
THEOREM ClosingSoonExactly ==
  ASSUME NEW hours \in SUBSET Periods, NEW at \in Int
  PROVE  evaluateOpeningStatus(hours, at) = "CLOSING_SOON" <=>
           \E p \in hours : /\ Covers(p, localClock(at))
                            /\ Duration(p) - SinceOpening(p, localClock(at)) <= CLOSING_SOON_MINUTES
<1> DEFINE clock == localClock(at)
           A(p) == activeMinutesUntilClose(p.dayOfWeek, parseClock(p.opensAt),
                                           parseClock(p.closesAt), clock)
           Left(p) == Duration(p) - SinceOpening(p, clock)
<1>1. \A p \in hours : A(p) = IF Covers(p, clock) THEN {Left(p)} ELSE {}
  BY LocalClockType, ActiveMinutesExact
<1>2. MinutesUntilClose(hours, clock) = UNION {A(p) : p \in hours}
  BY DEF MinutesUntilClose
<1> HIDE DEF A, Left, clock
<1>3. \A m : m \in MinutesUntilClose(hours, clock)
               <=> \E p \in hours : Covers(p, clock) /\ m = Left(p)
  <2>1. \A m : m \in MinutesUntilClose(hours, clock) <=> \E p \in hours : m \in A(p)
    BY <1>2
  <2>2. \A p \in hours : \A m : m \in A(p) <=> Covers(p, clock) /\ m = Left(p)
    BY <1>1
  <2> QED
    BY <2>1, <2>2
<1>4. evaluateOpeningStatus(hours, at) = "CLOSING_SOON" <=>
        \E m \in MinutesUntilClose(hours, clock) : m <= CLOSING_SOON_MINUTES
  BY DEF evaluateOpeningStatus, clock
<1>5. evaluateOpeningStatus(hours, at) = "CLOSING_SOON" <=>
        \E p \in hours : Covers(p, clock) /\ Left(p) <= CLOSING_SOON_MINUTES
  BY <1>3, <1>4
<1> QED
  BY <1>5 DEF Left, clock

LEMMA OpeningStatusType ==
  ASSUME NEW hours, NEW at
  PROVE  evaluateOpeningStatus(hours, at) \in OpeningStatuses
BY DEF evaluateOpeningStatus, OpeningStatuses
================================================================================
