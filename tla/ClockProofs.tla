---------------------------- MODULE ClockProofs ----------------------------
(***************************************************************************)
(* The clock for days, weeks, offsets and times of any length, and start   *)
(* times of any number: the points in time that come due are those of the  *)
(* schedule that pass, each of them once and on its own weekday.           *)
(***************************************************************************)
EXTENDS Clock, SequenceTheorems, TLAPS

\* The lengths are positive, times and the start time at boot are numbers.
LEMMA Numbers ==
  /\ DayLength \in Nat \ {0} /\ WeekLength \in Nat \ {0}
  /\ PhaseLength \in Nat \ {0}
  /\ MaxTime \in Nat /\ MaxSets \in Nat /\ MaxRestarts \in Nat
  /\ BootStart \in Nat /\ MaxStart \in Nat
BY LengthsAssumption, TimesAssumption, BootAssumption

USE Numbers

-----------------------------------------------------------------------------
(***************************************************************************)
(* Division of integers.                                                   *)
(***************************************************************************)

\* Quotient and remainder, as Clock uses them for days and times of day.
LEMMA DivMod ==
  ASSUME NEW a \in Int, NEW d \in Nat \ {0}
  PROVE  /\ a \div d \in Int /\ a % d \in 0 .. d - 1
         /\ a = (a \div d) * d + (a % d)
OBVIOUS

\* Multiples of d are at least d apart.
LEMMA Multiples ==
  ASSUME NEW d \in Nat \ {0}, NEW p \in Int, NEW q \in Int, p < q
  PROVE  p * d + d <= q * d
<1>1. PICK k \in Nat : q = p + 1 + k
  <2>1. q - (p + 1) \in Nat OBVIOUS
  <2> QED BY <2>1
<1>2. q * d = p * d + d + k * d BY <1>1
<1>3. k * d \in Nat OBVIOUS
<1> QED BY <1>2, <1>3

LEMMA Distribute ==
  ASSUME NEW a \in Int, NEW b \in Int, NEW c \in Int
  PROVE  (a + b) * c = a * c + b * c
OBVIOUS

\* There is one remainder (TimeOfDay) and one quotient (the day).
LEMMA DivModUnique ==
  ASSUME NEW a \in Int, NEW d \in Nat \ {0}, NEW q \in Int, NEW r \in 0 .. d - 1,
         a = q * d + r
  PROVE  a \div d = q /\ a % d = r
<1>1. /\ a = (a \div d) * d + (a % d)
      /\ a \div d \in Int /\ a % d \in 0 .. d - 1
  BY DivMod
<1> DEFINE x == q * d
           y == (a \div d) * d
<1>2. x \in Int /\ y \in Int BY <1>1
<1>3. ~ (q < a \div d)
  <2> SUFFICES ASSUME q < a \div d PROVE FALSE OBVIOUS
  <2>1. x + d <= y BY <1>1, Multiples
  <2> HIDE DEF x, y
  <2> QED BY <1>1, <1>2, <2>1 DEF x, y
<1>4. ~ (a \div d < q)
  <2> SUFFICES ASSUME a \div d < q PROVE FALSE OBVIOUS
  <2>1. y + d <= x BY <1>1, Multiples
  <2> HIDE DEF x, y
  <2> QED BY <1>1, <1>2, <2>1 DEF x, y
<1> QED BY <1>1, <1>3, <1>4

-----------------------------------------------------------------------------
(***************************************************************************)
(* The next point.                                                         *)
(***************************************************************************)

\* The next point lies ahead, whatever the length of a phase
\* (recalculate_next_watering_point).
LEMMA NextPointIsAhead ==
  ASSUME NEW time \in Int, NEW offset \in Int, NEW start \in Nat
  PROVE  /\ NextPoint(time, offset, start) \in Int
         /\ NextPoint(time, offset, start) > time
<1> DEFINE local == Local(time, offset)
           midnight == Day(time, offset) * DayLength
           candidate == midnight + start
           late == local - candidate
           turns == late \div PhaseLength
<1>1. local \in Int /\ local = time + offset /\ candidate \in Int /\ late \in Int
  BY DivMod DEF Local, Day
<1>2. turns \in Int /\ late % PhaseLength \in 0 .. PhaseLength - 1
      /\ late = turns * PhaseLength + (late % PhaseLength)
  BY <1>1, DivMod
<1>3. CASE local < candidate
  BY <1>1, <1>3 DEF NextPoint
<1>4. CASE ~ (local < candidate)
  <2>1. NextPoint(time, offset, start) = candidate + (turns + 1) * PhaseLength - offset
    BY <1>4 DEF NextPoint
  <2>2. (turns + 1) * PhaseLength = turns * PhaseLength + PhaseLength
    BY <1>2
  <2> DEFINE whole == turns * PhaseLength
  <2>3. whole \in Int BY <1>2
  <2> HIDE DEF whole, candidate, local
  <2>4. NextPoint(time, offset, start) = candidate + whole + PhaseLength - offset
    BY <2>1, <2>2, <2>3, <1>1 DEF whole
  <2>5. late = whole + (late % PhaseLength) BY <1>2 DEF whole
  <2>6. late = local - candidate BY DEF late
  <2>7. late % PhaseLength \in 0 .. PhaseLength - 1 BY <1>2
  <2> HIDE DEF late, turns
  <2> DEFINE rest == late % PhaseLength
  <2> HIDE DEF rest
  <2>8. late = whole + rest /\ rest \in 0 .. PhaseLength - 1 BY <2>5, <2>7 DEF rest
  <2> DEFINE n == NextPoint(time, offset, start)
  <2> HIDE DEF n
  <2>9. n = candidate + whole + PhaseLength - offset BY <2>4 DEF n
  <2>10. n \in Int /\ n > time BY <1>1, <2>3, <2>6, <2>8, <2>9
  <2> QED BY <2>10 DEF n
<1> QED BY <1>3, <1>4

-----------------------------------------------------------------------------
(***************************************************************************)
(* The schedule.                                                           *)
(***************************************************************************)

\* Scheduled of the clock, for any setting and first moment.
OnSchedule(t, offset, start, first) ==
  LET time == TimeOfDay(t, offset)
      days == Day(t, offset) - Day(first, offset) IN
  \/ /\ start < DayLength
     /\ (time - start) % PhaseLength = 0
     /\ time >= start \/ (days > 0 /\ time < PhaseLength)
  \/ /\ start >= DayLength
     /\ time = start % DayLength
     /\ days > 0 /\ days % (start \div DayLength) = 0

\* A moment is made of its day and its time of day.
LEMMA DayOf ==
  ASSUME NEW t \in Int, NEW offset \in Int
  PROVE  /\ Day(t, offset) \in Int /\ TimeOfDay(t, offset) \in 0 .. DayLength - 1
         /\ Day(t, offset) * DayLength \in Int
         /\ t + offset = Day(t, offset) * DayLength + TimeOfDay(t, offset)
<1>1. t + offset \in Int OBVIOUS
<1>2. /\ Day(t, offset) \in Int /\ TimeOfDay(t, offset) \in 0 .. DayLength - 1
      /\ t + offset = Day(t, offset) * DayLength + TimeOfDay(t, offset)
  BY <1>1, DivMod DEF Day, TimeOfDay, Local
<1> QED BY <1>2

LEMMA DayIs ==
  ASSUME NEW t \in Int, NEW offset \in Int, NEW d \in Int,
         NEW r \in 0 .. DayLength - 1, t + offset = d * DayLength + r
  PROVE  Day(t, offset) = d /\ TimeOfDay(t, offset) = r
<1>1. t + offset \in Int OBVIOUS
<1> QED BY <1>1, DivModUnique DEF Day, TimeOfDay, Local

\* A later moment is not of an earlier day.
LEMMA DaysPass ==
  ASSUME NEW t \in Int, NEW u \in Int, NEW offset \in Int, t <= u
  PROVE  Day(t, offset) <= Day(u, offset)
<1> DEFINE d == Day(t, offset)
           e == Day(u, offset)
           x == d * DayLength
           y == e * DayLength
<1>1. /\ d \in Int /\ TimeOfDay(t, offset) \in 0 .. DayLength - 1
      /\ x \in Int /\ t + offset = x + TimeOfDay(t, offset)
  BY DayOf
<1>2. /\ e \in Int /\ TimeOfDay(u, offset) \in 0 .. DayLength - 1
      /\ y \in Int /\ u + offset = y + TimeOfDay(u, offset)
  BY DayOf
<1>3. e < d => y + DayLength <= x BY <1>1, <1>2, Multiples
<1> HIDE DEF d, e, x, y
<1> QED BY <1>1, <1>2, <1>3 DEF d, e

\* Numbers with one remainder are at least a divisor apart,
LEMMA Congruent ==
  ASSUME NEW p \in Nat \ {0}, NEW a \in Int, NEW b \in Int, NEW c \in Int,
         (a - c) % p = 0, (b - c) % p = 0, a < b
  PROVE  a + p <= b
<1> DEFINE i == (a - c) \div p
           j == (b - c) \div p
           x == i * p
           y == j * p
<1>1. a - c \in Int /\ b - c \in Int OBVIOUS
<1>2. i \in Int /\ a - c = x + 0 BY <1>1, DivMod
<1>3. j \in Int /\ b - c = y + 0 BY <1>1, DivMod
<1>4. x \in Int /\ y \in Int BY <1>2, <1>3
<1>5. j < i => y + p <= x BY <1>2, <1>3, Multiples
<1>6. i < j => x + p <= y BY <1>2, <1>3, Multiples
<1>7. i = j => x = y OBVIOUS
<1> HIDE DEF i, j, x, y
<1> QED BY <1>2, <1>3, <1>4, <1>5, <1>6, <1>7

\* and a multiple of the divisor more or less does not change it.
LEMMA Shifted ==
  ASSUME NEW p \in Nat \ {0}, NEW a \in Int, NEW b \in Int,
         a % p = 0, b % p = 0
  PROVE  (a + b) % p = 0 /\ (a - b) % p = 0
<1> DEFINE i == a \div p
           j == b \div p
<1>1. i \in Int /\ j \in Int /\ a = i * p /\ b = j * p BY DivMod
<1>2. a + b \in Int /\ a - b \in Int /\ i + j \in Int /\ i - j \in Int BY <1>1
<1>3. a + b = (i + j) * p + 0 /\ a - b = (i - j) * p + 0
  <2> HIDE DEF i, j
  <2> QED BY <1>1
<1>4. 0 \in 0 .. p - 1 OBVIOUS
<1> HIDE DEF i, j
<1> QED BY <1>2, <1>3, <1>4, DivModUnique

\* A start time of a later day: the point is that many days ahead, and between
\* there is nothing.
LEMMA NextDays ==
  ASSUME NEW time \in Int, NEW offset \in Int, NEW start \in Nat,
         NEW first \in Int, start >= DayLength, first <= time,
         time = first \/ OnSchedule(time, offset, start, first)
  PROVE  LET n == NextPoint(time, offset, start) IN
         /\ OnSchedule(n, offset, start, first)
         /\ \A t \in Int : time < t /\ t < n => ~ OnSchedule(t, offset, start, first)
<1> DEFINE n == NextPoint(time, offset, start)
           d == Day(time, offset)
           f == Day(first, offset)
           x == TimeOfDay(time, offset)
           mid == d * DayLength
           q == start \div DayLength
           r == start % DayLength
<1>1. /\ d \in Int /\ x \in 0 .. DayLength - 1 /\ mid \in Int
      /\ time + offset = mid + x
  BY DayOf
<1>2. f \in Int /\ f <= d BY DayOf, DaysPass
<1>3. q \in Int /\ r \in 0 .. DayLength - 1 /\ start = q * DayLength + r
  BY DivMod
<1>4. q \in Nat \ {0}
  <2>1. q < 1 => q * DayLength + DayLength <= 1 * DayLength BY <1>3, Multiples
  <2> DEFINE y == q * DayLength
  <2>2. y \in Int /\ start = y + r BY <1>3
  <2>3. q < 1 => y + DayLength <= DayLength BY <2>1
  <2> HIDE DEF y, q, r
  <2> QED BY <1>3, <2>2, <2>3
<1>5. n = mid + start - offset
  <2>1. Local(time, offset) < mid + start
    <3> HIDE DEF mid
    <3> QED BY <1>1 DEF Local
  <2> QED BY <2>1, <1>1 DEF NextPoint
<1>6. n \in Int /\ Day(n, offset) = d + q /\ TimeOfDay(n, offset) = r
  <2>1. n \in Int BY <1>1, <1>5
  <2>2. (d + q) * DayLength = mid + q * DayLength
    <3>1. d \in Int /\ q \in Int /\ DayLength \in Int BY <1>1, <1>3
    <3> HIDE DEF d, q
    <3> QED BY <3>1, Distribute
  <2>3. n + offset = (d + q) * DayLength + r
    <3> DEFINE y == q * DayLength
    <3>1. y \in Int BY <1>3
    <3>2. start = y + r BY <1>3
    <3>3. (d + q) * DayLength = mid + y BY <2>2
    <3> HIDE DEF n, mid, y, r
    <3>4. n + offset = mid + y + r BY <1>1, <1>3, <1>5, <3>1, <3>2
    <3> QED BY <3>3, <3>4
  <2>4. d + q \in Int BY <1>1, <1>3
  <2> HIDE DEF n, d, q, r
  <2> QED BY <1>3, <2>1, <2>3, <2>4, DayIs
<1>7. (d - f) % q = 0
  <2>1. CASE time = first
    <3>1. d - f = 0 /\ 0 = 0 * q + 0 /\ 0 \in 0 .. q - 1 BY <1>1, <1>4, <2>1
    <3> HIDE DEF d, f, q
    <3> QED BY <1>4, <3>1, DivModUnique
  <2>2. CASE OnSchedule(time, offset, start, first)
    BY <2>2 DEF OnSchedule
  <2> QED BY <2>1, <2>2
<1>8. OnSchedule(n, offset, start, first)
  <2>1. (d + q - f) % q = 0
    <3>1. q % q = 0
      <4>1. q = 1 * q + 0 /\ 0 \in 0 .. q - 1 BY <1>4
      <4> HIDE DEF q
      <4> QED BY <1>4, <4>1, DivModUnique
    <3>2. d - f \in Int /\ d + q - f = (d - f) + q
      <4> HIDE DEF d, f, q
      <4> QED BY <1>1, <1>2, <1>4
    <3> HIDE DEF d, f, q
    <3> QED BY <1>4, <1>7, <3>1, <3>2, Shifted
  <2>2. d + q - f > 0
    <3> HIDE DEF d, f, q
    <3> QED BY <1>1, <1>2, <1>4
  <2> DEFINE days == Day(n, offset) - Day(first, offset)
  <2>3. days = d + q - f /\ TimeOfDay(n, offset) = r
    <3>1. Day(n, offset) = d + q /\ TimeOfDay(n, offset) = r BY <1>6
    <3>2. d \in Int /\ q \in Int /\ f \in Int BY <1>1, <1>2, <1>3
    <3> HIDE DEF n, d, q, r
    <3> QED BY <3>1, <3>2
  <2>4. days > 0 /\ days % q = 0
    <3> HIDE DEF days, d, f, q
    <3> QED BY <2>1, <2>2, <2>3
  <2> HIDE DEF n
  <2> QED BY <2>3, <2>4 DEF OnSchedule
<1>9. ASSUME NEW t \in Int, time < t, t < n, OnSchedule(t, offset, start, first)
      PROVE  FALSE
  <2> DEFINE e == Day(t, offset)
             z == e * DayLength
  <2>1. e \in Int /\ z \in Int /\ t + offset = z + TimeOfDay(t, offset) BY DayOf
  <2>2. /\ TimeOfDay(t, offset) = r /\ e - f > 0 /\ (e - f) % q = 0
    BY <1>9 DEF OnSchedule
  <2>3. d <= e /\ e <= d + q BY <1>6, <1>9, DaysPass
  <2>4. CASE e = d
    <3>1. OnSchedule(time, offset, start, first) BY <1>1, <2>2, <2>4
    <3>2. x = r BY <3>1 DEF OnSchedule
    <3>3. t + offset = time + offset BY <1>1, <2>1, <2>2, <2>4, <3>2
    <3> HIDE DEF n
    <3> QED BY <1>9, <3>3
  <2>5. CASE d < e
    <3>1. d + q <= e
      <4> HIDE DEF d, e, f, q
      <4> QED BY <1>1, <1>2, <1>4, <1>7, <2>1, <2>2, <2>5, Congruent
    <3>2. e = d + q
      <4> HIDE DEF d, e, q
      <4> QED BY <1>1, <1>4, <2>1, <2>3, <3>1
    <3>3. n + offset = Day(n, offset) * DayLength + TimeOfDay(n, offset)
      BY <1>6, DayOf
    <3>4. n + offset = t + offset BY <1>6, <2>1, <2>2, <3>2, <3>3
    <3> HIDE DEF n
    <3> QED BY <1>6, <1>9, <3>4
  <2> HIDE DEF d, e
  <2> QED BY <1>1, <2>1, <2>3, <2>4, <2>5
<1> QED BY <1>8, <1>9

\* A start time within the day: the point is the next phase, or the start time
\* if that is still ahead.
LEMMA NextPhase ==
  ASSUME DayLength % PhaseLength = 0,
         NEW time \in Int, NEW offset \in Int, NEW start \in Nat,
         NEW first \in Int, start < DayLength, first <= time,
         time = first \/ OnSchedule(time, offset, start, first)
  PROVE  LET n == NextPoint(time, offset, start) IN
         /\ OnSchedule(n, offset, start, first)
         /\ \A t \in Int : time < t /\ t < n => ~ OnSchedule(t, offset, start, first)
<1> DEFINE n == NextPoint(time, offset, start)
           d == Day(time, offset)
           f == Day(first, offset)
           x == TimeOfDay(time, offset)
           mid == d * DayLength
<1>1. /\ d \in Int /\ x \in 0 .. DayLength - 1 /\ mid \in Int
      /\ time + offset = mid + x
  BY DayOf
<1>2. f \in Int /\ f <= d BY DayOf, DaysPass
<1>3. (d + 1) * DayLength = mid + DayLength BY <1>1
<1>4. n \in Int BY NextPointIsAhead
<1>5. (start - start) % PhaseLength = 0
  <2>1. start - start = 0 /\ 0 = 0 * PhaseLength + 0 /\ 0 \in 0 .. PhaseLength - 1
    OBVIOUS
  <2> QED BY <2>1, DivModUnique
<1>6. CASE x < start
  <2>1. n = mid + start - offset
    <3>1. Local(time, offset) < mid + start
      <4> HIDE DEF mid, x
      <4> QED BY <1>1, <1>6 DEF Local
    <3> QED BY <3>1, <1>1 DEF NextPoint
  <2>2. n + offset = mid + start
    <3> HIDE DEF n, mid
    <3> QED BY <1>1, <1>4, <2>1
  <2>3. Day(n, offset) = d /\ TimeOfDay(n, offset) = start
    <3>1. start \in 0 .. DayLength - 1 OBVIOUS
    <3>2. n + offset = d * DayLength + start BY <2>2
    <3>3. d \in Int BY <1>1
    <3> HIDE DEF n, d, mid, x
    <3> QED BY <1>4, <3>1, <3>2, <3>3, DayIs
  <2>4. OnSchedule(n, offset, start, first)
    BY <1>5, <2>3 DEF OnSchedule
  <2>5. ASSUME NEW t \in Int, time < t, t < n, OnSchedule(t, offset, start, first)
        PROVE  FALSE
    <3> DEFINE e == Day(t, offset)
               y == TimeOfDay(t, offset)
               z == e * DayLength
    <3>1. /\ e \in Int /\ y \in 0 .. DayLength - 1 /\ z \in Int
          /\ t + offset = z + y
      BY DayOf
    <3>2. e = d
      <4>1. d <= e /\ e <= d BY <1>4, <2>3, <2>5, DaysPass
      <4> HIDE DEF d, e
      <4> QED BY <1>1, <3>1, <4>1
    <3>3. x < y /\ y < start
      <4>1. t + offset = mid + y BY <3>1, <3>2
      <4> HIDE DEF mid, x, y, n
      <4> QED BY <1>1, <1>4, <2>2, <2>5, <3>1, <4>1
    <3>4. (y - start) % PhaseLength = 0 /\ d - f > 0 /\ y < PhaseLength
      <4>1. \/ y >= start
            \/ e - f > 0 /\ y < PhaseLength
        BY <2>5 DEF OnSchedule
      <4>2. (y - start) % PhaseLength = 0 BY <2>5 DEF OnSchedule
      <4> HIDE DEF y, e, d, f
      <4> QED BY <3>1, <3>2, <3>3, <4>1, <4>2
    <3>5. time # first BY <1>1, <3>4
    <3>6. (x - start) % PhaseLength = 0
      BY <3>5 DEF OnSchedule
    <3>7. x + PhaseLength <= y
      <4>1. x \in Int /\ y \in Int /\ start \in Int BY <1>1, <3>1
      <4>2. (y - start) % PhaseLength = 0 BY <3>4
      <4>3. x < y BY <3>3
      <4> HIDE DEF x, y
      <4> QED BY <3>6, <4>1, <4>2, <4>3, Congruent
    <3> HIDE DEF x, y
    <3> QED BY <1>1, <3>1, <3>4, <3>7
  <2> QED BY <2>4, <2>5
<1>7. CASE ~ (x < start)
  <2> DEFINE late == x - start
             k == late \div PhaseLength
             rest == late % PhaseLength
             next == x - rest + PhaseLength
  <2>1. late \in Int
    <3> HIDE DEF x
    <3> QED BY <1>1
  <2>2. /\ k \in Int /\ rest \in 0 .. PhaseLength - 1
        /\ late = k * PhaseLength + rest
    <3> HIDE DEF late
    <3> QED BY <2>1, DivMod
  <2>3. (k + 1) * PhaseLength = k * PhaseLength + PhaseLength /\ k * PhaseLength \in Int
    BY <2>2
  <2>4. next \in Int /\ next - start = (k + 1) * PhaseLength + 0
    <3> DEFINE w == k * PhaseLength
    <3>1. w \in Int /\ late = w + rest /\ (k + 1) * PhaseLength = w + PhaseLength
      BY <2>2, <2>3
    <3>2. late = x - start OBVIOUS
    <3>3. x \in Int /\ rest \in Int BY <1>1, <2>2
    <3>4. next = x - rest + PhaseLength OBVIOUS
    <3> DEFINE v == (k + 1) * PhaseLength
    <3>5. v = w + PhaseLength BY <3>1
    <3> HIDE DEF w, v, rest, late, x, next
    <3>6. next \in Int /\ next - start = v + 0 BY <3>1, <3>2, <3>3, <3>4, <3>5
    <3> QED BY <3>6 DEF v
  <2>5. (next - start) % PhaseLength = 0
    <3>1. next - start \in Int /\ 0 \in 0 .. PhaseLength - 1 /\ k + 1 \in Int
      BY <2>2, <2>4
    <3> HIDE DEF next, k
    <3> QED BY <2>4, <3>1, DivModUnique
  <2>6. n + offset = mid + next
    <3>1. Local(time, offset) = mid + x BY <1>1 DEF Local
    <3>2. ~ (Local(time, offset) < mid + start)
      <4> HIDE DEF mid, x
      <4> QED BY <1>1, <1>7, <3>1
    <3>3. Local(time, offset) - (mid + start) = late
      <4> HIDE DEF mid, x
      <4> QED BY <1>1, <3>1
    <3>4. n = mid + start + (k + 1) * PhaseLength - offset
      BY <3>2, <3>3 DEF NextPoint
    <3> DEFINE w == (k + 1) * PhaseLength
    <3>5. n = mid + start + w - offset /\ next - start = w + 0 /\ w \in Int
      BY <2>2, <2>4, <3>4
    <3> HIDE DEF n, mid, w, next
    <3> QED BY <1>1, <2>4, <3>5
  <2>7. x < next /\ next <= x + PhaseLength
    <3>1. x \in Int /\ rest \in Int /\ 0 <= rest /\ rest < PhaseLength BY <1>1, <2>2
    <3> HIDE DEF x, rest
    <3> QED BY <3>1
  <2> HIDE DEF next
  <2>8. ASSUME next < DayLength
        PROVE  OnSchedule(n, offset, start, first)
    <3>1. Day(n, offset) = d /\ TimeOfDay(n, offset) = next
      <4>1. next \in 0 .. DayLength - 1
        <5> HIDE DEF x
        <5> QED BY <1>1, <2>4, <2>7, <2>8
      <4>2. n + offset = d * DayLength + next BY <2>6
      <4>3. d \in Int BY <1>1
      <4> HIDE DEF n, d, mid, x
      <4> QED BY <1>4, <4>1, <4>2, <4>3, DayIs
    <3>2. next >= start
      <4> HIDE DEF x
      <4> QED BY <1>1, <1>7, <2>4, <2>7
    <3>3. (TimeOfDay(n, offset) - start) % PhaseLength = 0 /\ TimeOfDay(n, offset) >= start
      BY <2>5, <3>1, <3>2
    <3> HIDE DEF n
    <3> QED BY <3>3 DEF OnSchedule
  <2>9. ASSUME ~ (next < DayLength)
        PROVE  OnSchedule(n, offset, start, first)
    <3> DEFINE y == next - DayLength
    <3>1. y \in Nat /\ y < PhaseLength /\ y < DayLength
      <4>1. PhaseLength <= DayLength
        <5>1. /\ DayLength = (DayLength \div PhaseLength) * PhaseLength + 0
              /\ DayLength \div PhaseLength \in Int
          BY DivMod
        <5> DEFINE g == DayLength \div PhaseLength
        <5>2. g < 1 => g * PhaseLength + PhaseLength <= 1 * PhaseLength
          BY <5>1, Multiples
        <5> DEFINE w == g * PhaseLength
        <5>3. DayLength = w /\ (g < 1 => w + PhaseLength <= PhaseLength) BY <5>1, <5>2
        <5>4. ~ (g < 1)
          <6> HIDE DEF w, g
          <6> QED BY <5>3
        <5>5. g = 1 \/ 1 < g
          <6> HIDE DEF g
          <6> QED BY <5>1, <5>4 DEF g
        <5>6. 1 < g => 1 * PhaseLength + PhaseLength <= w BY <5>1, Multiples
        <5> HIDE DEF w
        <5>7. CASE g = 1
          <6>1. DayLength = 1 * PhaseLength BY <5>1, <5>7
          <6> QED BY <6>1
        <5>8. CASE 1 < g BY <5>3, <5>6, <5>8
        <5> QED BY <5>5, <5>7, <5>8
      <4> HIDE DEF x
      <4> QED BY <1>1, <2>4, <2>7, <2>9, <4>1
    <3>2. n + offset = (d + 1) * DayLength + y
      <4>1. n + offset = mid + DayLength + y
        <5> HIDE DEF n, mid
        <5> QED BY <1>1, <1>4, <2>4, <2>6
      <4> QED BY <1>3, <4>1
    <3>3. Day(n, offset) = d + 1 /\ TimeOfDay(n, offset) = y
      <4>1. d + 1 \in Int /\ y \in 0 .. DayLength - 1
        <5> HIDE DEF d, y
        <5> QED BY <1>1, <3>1
      <4> DEFINE e == d + 1
      <4>2. e \in Int /\ n + offset = e * DayLength + y BY <3>2, <4>1
      <4>3. Day(n, offset) = e /\ TimeOfDay(n, offset) = y
        <5> HIDE DEF n, e, y
        <5> QED BY <1>4, <4>1, <4>2, DayIs
      <4> QED BY <4>3
    <3>4. (y - start) % PhaseLength = 0
      <4>1. next - start \in Int /\ y - start = (next - start) - DayLength BY <2>4
      <4> HIDE DEF y
      <4> QED BY <2>5, <4>1, Shifted
    <3>5. d + 1 - f > 0
      <4> HIDE DEF d, f
      <4> QED BY <1>1, <1>2
    <3>6. /\ (TimeOfDay(n, offset) - start) % PhaseLength = 0
          /\ TimeOfDay(n, offset) < PhaseLength
          /\ Day(n, offset) - Day(first, offset) > 0
      <4> HIDE DEF n, d, f, y
      <4>1. Day(n, offset) - Day(first, offset) > 0
        <5>1. Day(n, offset) = d + 1 BY <3>3
        <5>2. Day(n, offset) - f > 0 BY <1>1, <1>2, <3>5, <5>1
        <5> QED BY <5>2 DEF f
      <4> QED BY <3>1, <3>3, <3>4, <4>1
    <3> HIDE DEF n
    <3> QED BY <3>6 DEF OnSchedule
  <2>10. ASSUME NEW t \in Int, time < t, t < n, OnSchedule(t, offset, start, first)
         PROVE  FALSE
    <3> DEFINE e == Day(t, offset)
               y == TimeOfDay(t, offset)
               z == e * DayLength
    <3>1. /\ e \in Int /\ y \in 0 .. DayLength - 1 /\ z \in Int
          /\ t + offset = z + y
      BY DayOf
    <3>2. (y - start) % PhaseLength = 0 BY <2>10 DEF OnSchedule
    <3>3. (y + DayLength - start) % PhaseLength = 0
      <4>1. y - start \in Int /\ y + DayLength - start = (y - start) + DayLength
        <5> HIDE DEF y
        <5> QED BY <3>1
      <4> HIDE DEF y
      <4> QED BY <3>2, <4>1, Shifted
    <3>4. d <= e BY <2>10, DaysPass
    <3>5. CASE e = d
      <4>1. t + offset = mid + y BY <3>1, <3>5
      <4>2. x < y /\ y < next
        <5> HIDE DEF x, y, mid, n
        <5> QED BY <1>1, <1>4, <2>4, <2>6, <2>10, <3>1, <4>1
      <4>3. y + PhaseLength <= next
        <5>1. y \in Int /\ next \in Int /\ start \in Int BY <2>4, <3>1
        <5>2. y < next BY <4>2
        <5> HIDE DEF y
        <5> QED BY <2>5, <3>2, <5>1, <5>2, Congruent
      <4> HIDE DEF x, y
      <4> QED BY <1>1, <2>4, <2>7, <3>1, <4>2, <4>3
    <3>6. CASE d < e
      <4>1. mid + DayLength <= z BY <1>1, <3>1, <3>6, Multiples
      <4>2. y + DayLength < next
        <5> HIDE DEF y, z, mid, n
        <5> QED BY <1>1, <1>4, <2>4, <2>6, <2>10, <3>1, <4>1
      <4>3. y + DayLength + PhaseLength <= next
        <5> DEFINE w == y + DayLength
        <5>1. w \in Int /\ next \in Int /\ start \in Int BY <2>4, <3>1
        <5>2. w < next /\ (w - start) % PhaseLength = 0
          <6> HIDE DEF y
          <6> QED BY <3>1, <3>3, <4>2
        <5>3. w + PhaseLength <= next
          <6> HIDE DEF w
          <6> QED BY <2>5, <5>1, <5>2, Congruent
        <5> QED BY <5>3
      <4> HIDE DEF x, y
      <4> QED BY <1>1, <2>4, <2>7, <3>1, <4>3
    <3> HIDE DEF d, e
    <3> QED BY <1>1, <3>1, <3>4, <3>5, <3>6
  <2> QED BY <2>8, <2>9, <2>10
<1> QED BY <1>6, <1>7

\* From the first moment or a point of the schedule, the next point is the next
\* of the schedule.
LEMMA NextOnSchedule ==
  ASSUME DayLength % PhaseLength = 0,
         NEW time \in Int, NEW offset \in Int, NEW start \in Nat,
         NEW first \in Int, first <= time,
         time = first \/ OnSchedule(time, offset, start, first)
  PROVE  LET n == NextPoint(time, offset, start) IN
         /\ OnSchedule(n, offset, start, first)
         /\ \A t \in Int : time < t /\ t < n => ~ OnSchedule(t, offset, start, first)
<1>1. start < DayLength \/ start >= DayLength OBVIOUS
<1> QED BY <1>1, NextPhase, NextDays

-----------------------------------------------------------------------------
(***************************************************************************)
(* What holds of any phase length.                                         *)
(***************************************************************************)
ClockTypes ==
  /\ now \in Nat /\ since \in Nat /\ restarts \in Nat
  /\ UTC_OFFSET_MIN \in Int /\ phase_start_schedule \in Nat
  /\ synced \in BOOLEAN /\ at \in {"idle", "recalculate"}
  /\ next_watering_point \in Int /\ written \in Int
  /\ rounds \in Seq([point : Int, phase : Int])

\* The next point has not been passed, and before it lie the points that have
\* come due, in order; there are none before the clock is set.
PointsInOrder ==
  at = "idle" =>
    /\ since <= now /\ since < next_watering_point
    /\ synced => now <= next_watering_point
    /\ ~ synced => rounds = <<>>
    /\ \A k \in DOMAIN rounds :
         since < rounds[k].point /\ rounds[k].point < next_watering_point
    /\ \A j, k \in DOMAIN rounds : j < k => rounds[j].point < rounds[k].point

ClockInv == ClockTypes /\ PointsInOrder /\ RoundsKnowTheirDay

LEMMA WeekdayType ==
  ASSUME NEW t \in Int, NEW offset \in Int
  PROVE  Weekday(t, offset) \in Int
<1>1. t + offset \in Int OBVIOUS
<1>2. (t + offset) \div DayLength \in Int BY <1>1, DivMod
<1> DEFINE d == (t + offset) \div DayLength
<1>3. d + 4 \in Int BY <1>2
<1> HIDE DEF d
<1>4. (d + 4) % WeekLength \in Int BY <1>3, DivMod
<1> QED BY <1>4 DEF Weekday, Day, Local, d

\* Where the rounds are forgotten and the next point is recalculated, all points
\* are ahead (finish_set_time, set_next_phase_start_time, restart).
LEMMA FreshPoint ==
  ASSUME now' \in Nat, UTC_OFFSET_MIN' \in Int,
         phase_start_schedule' \in Nat,
         recalculate_next_watering_point, since' = now', rounds' = <<>>
  PROVE  /\ next_watering_point' \in Int
         /\ PointsInOrder' /\ RoundsKnowTheirDay'
<1>1. /\ next_watering_point' \in Int /\ next_watering_point' > now'
  BY NextPointIsAhead DEF recalculate_next_watering_point
<1>2. DOMAIN rounds' = {} OBVIOUS
<1> QED BY <1>1, <1>2 DEF PointsInOrder, RoundsKnowTheirDay

LEMMA InitClockInv == Init => ClockInv
<1> SUFFICES ASSUME Init PROVE ClockInv OBVIOUS
<1>1. /\ next_watering_point \in Int /\ next_watering_point > 0
  BY NextPointIsAhead DEF Init
<1>2. ClockTypes
  <2>1. rounds \in Seq([point : Int, phase : Int]) BY DEF Init
  <2>2. written \in Int BY DEF Init, NoTime
  <2>3. /\ now \in Nat /\ since \in Nat /\ restarts \in Nat
        /\ UTC_OFFSET_MIN \in Int /\ phase_start_schedule \in Nat
    BY DEF Init
  <2>4. synced \in BOOLEAN /\ at \in {"idle", "recalculate"} BY DEF Init
  <2> QED BY <1>1, <2>1, <2>2, <2>3, <2>4 DEF ClockTypes
<1>3. DOMAIN rounds = {} BY DEF Init
<1>4. PointsInOrder BY <1>1, <1>3 DEF Init, PointsInOrder
<1>5. RoundsKnowTheirDay BY <1>3 DEF RoundsKnowTheirDay
<1> QED BY <1>2, <1>4, <1>5 DEF ClockInv

\* The points of the rounds are times.
LEMMA PointTypes ==
  ASSUME NEW s \in Seq([point : Int, phase : Int])
  PROVE  \A k \in DOMAIN s : s[k].point \in Int
<1> TAKE k \in DOMAIN s
<1>1. k \in 1 .. Len(s) BY LenProperties
<1>2. s[k] \in [point : Int, phase : Int] BY <1>1, ElementOfSeq
<1> QED BY <1>2

\* A round is of the day of the point that has come due, and behind it.
LEMMA RoundStep ==
  ASSUME ClockInv, process_watering_schedule
  PROVE  ClockInv'
<1> DEFINE r == [point |-> next_watering_point, phase |-> get_phase_of_cycle]
<1>1. /\ now \in Nat /\ since \in Nat /\ UTC_OFFSET_MIN \in Int
      /\ phase_start_schedule \in Nat
      /\ next_watering_point \in Int
      /\ rounds \in Seq([point : Int, phase : Int])
  BY DEF ClockInv, ClockTypes
<1>2. /\ at = "idle" /\ synced /\ now = next_watering_point
      /\ rounds' = Append(rounds, r) /\ since < next_watering_point
      /\ since <= now
      /\ \A k \in DOMAIN rounds :
           since < rounds[k].point /\ rounds[k].point < next_watering_point
      /\ \A j, k \in DOMAIN rounds : j < k => rounds[j].point < rounds[k].point
  BY <1>1 DEF ClockInv, PointsInOrder, process_watering_schedule, is_watering_due
<1>3. /\ UNCHANGED <<now, since, written, restarts, at, synced, UTC_OFFSET_MIN,
                     phase_start_schedule>>
      /\ next_watering_point' = NextPoint(now, UTC_OFFSET_MIN, phase_start_schedule)
  BY DEF process_watering_schedule, recalculate_next_watering_point, settings, counters
<1>4. next_watering_point' \in Int /\ next_watering_point' > now
  BY <1>1, <1>3, NextPointIsAhead
<1>5. r \in [point : Int, phase : Int] /\ r.phase = Weekday(r.point, UTC_OFFSET_MIN)
      /\ r.point = next_watering_point
  BY <1>1, <1>2, WeekdayType DEF get_phase_of_cycle
<1> HIDE DEF r
<1>6. /\ rounds' \in Seq([point : Int, phase : Int])
      /\ DOMAIN rounds' = 1 .. Len(rounds) + 1 /\ DOMAIN rounds = 1 .. Len(rounds)
      /\ Len(rounds) \in Nat
      /\ \A k \in DOMAIN rounds : rounds'[k] = rounds[k]
      /\ rounds'[Len(rounds) + 1] = r
  BY <1>1, <1>2, <1>5, AppendProperties
<1>7. \A k \in DOMAIN rounds : rounds[k].point \in Int
  BY <1>1, PointTypes
<1>8. ClockTypes' BY <1>3, <1>4, <1>6 DEF ClockInv, ClockTypes
<1>9. PointsInOrder'
  <2>1. \A k \in DOMAIN rounds' : k \in DOMAIN rounds \/ k = Len(rounds) + 1
    BY <1>6
  <2>2. ASSUME NEW k \in DOMAIN rounds'
        PROVE  since < rounds'[k].point /\ rounds'[k].point <= next_watering_point
               /\ (k \in DOMAIN rounds => rounds'[k].point < next_watering_point)
    <3>1. CASE k \in DOMAIN rounds BY <1>1, <1>2, <1>6, <1>7, <3>1
    <3>2. CASE k = Len(rounds) + 1 /\ k \notin DOMAIN rounds
      BY <1>1, <1>2, <1>5, <1>6, <3>2
    <3> QED BY <2>1, <3>1, <3>2
  <2>3. ASSUME NEW j \in DOMAIN rounds', NEW k \in DOMAIN rounds', j < k
        PROVE  rounds'[j].point < rounds'[k].point
    <3>1. j \in DOMAIN rounds BY <1>6, <2>3
    <3>2. CASE k \in DOMAIN rounds BY <1>2, <1>6, <2>3, <3>1, <3>2
    <3>3. CASE k = Len(rounds) + 1
      BY <1>1, <1>2, <1>5, <1>6, <3>1, <3>3
    <3> QED BY <2>1, <3>2, <3>3
  <2>4. \A k \in DOMAIN rounds' : rounds'[k].point \in Int
    BY <1>6, PointTypes
  <2>5. \A k \in DOMAIN rounds' : rounds'[k].point < next_watering_point'
    BY <1>1, <1>2, <1>4, <2>2, <2>4
  <2>6. /\ since <= now /\ since < next_watering_point'
        /\ now <= next_watering_point'
    BY <1>1, <1>2, <1>4
  <2> QED BY <1>2, <1>3, <2>2, <2>3, <2>5, <2>6 DEF PointsInOrder
<1>10. RoundsKnowTheirDay'
  <2>1. ASSUME NEW k \in DOMAIN rounds'
        PROVE  rounds'[k].phase = Weekday(rounds'[k].point, UTC_OFFSET_MIN)
    <3>1. CASE k \in DOMAIN rounds
      BY <1>2, <1>6, <3>1 DEF ClockInv, RoundsKnowTheirDay
    <3>2. CASE k = Len(rounds) + 1 BY <1>5, <1>6, <3>2
    <3> QED BY <1>6, <3>1, <3>2
  <2> QED BY <1>3, <2>1 DEF RoundsKnowTheirDay, Weekday, Day, Local
<1> QED BY <1>8, <1>9, <1>10 DEF ClockInv

LEMMA ClockInvStep == ClockInv /\ [Next]_vars => ClockInv'
<1> SUFFICES ASSUME ClockInv, [Next]_vars PROVE ClockInv' OBVIOUS
<1> USE DEF ClockInv
<1>0. /\ now \in Nat /\ UTC_OFFSET_MIN \in Int /\ next_watering_point \in Int
      /\ phase_start_schedule \in Nat
  BY DEF ClockTypes
<1>1. CASE tick
  <2>1. ClockTypes' BY <1>1 DEF tick, ClockTypes, settings, history, counters
  <2>2. PointsInOrder'
    BY <1>0, <1>1 DEF tick, PointsInOrder, ClockTypes, is_watering_due, settings, history
  <2>3. RoundsKnowTheirDay'
    BY <1>1 DEF tick, RoundsKnowTheirDay, Weekday, Day, Local, settings, history
  <2> QED BY <2>1, <2>2, <2>3
<1>2. ASSUME NEW time \in 0 .. MaxTime, NEW offset \in OffsetRange \cup {DayLength},
             set_time(time, offset)
      PROVE  ClockInv'
  <2>1. time \in Nat /\ offset \in Int BY OffsetAssumption
  <2>2. CASE at' = "recalculate"
    <3>1. ClockTypes' BY <1>2, <2>1, <2>2 DEF set_time, ClockTypes, history
    <3> QED BY <1>2, <2>2, <3>1
            DEF set_time, PointsInOrder, RoundsKnowTheirDay, history
  <2>3. CASE UNCHANGED vars
    BY <2>3 DEF vars, settings, history, counters, ClockTypes, PointsInOrder,
                RoundsKnowTheirDay, Weekday, Day, Local
  <2> QED BY <1>2, <2>2, <2>3 DEF set_time, vars, settings, history, counters
<1>3. CASE finish_set_time
  <2>1. /\ next_watering_point' \in Int
        /\ PointsInOrder' /\ RoundsKnowTheirDay'
    BY <1>0, <1>3, FreshPoint DEF finish_set_time
  <2>2. ClockTypes'
    BY <1>3, <2>1 DEF finish_set_time, ClockTypes, counters
  <2> QED BY <2>1, <2>2
<1>4. ASSUME NEW start \in 0 .. MaxStart, set_next_phase_start_time(start)
      PROVE  ClockInv'
  <2>1. /\ next_watering_point' \in Int
        /\ PointsInOrder' /\ RoundsKnowTheirDay'
    BY <1>0, <1>4, FreshPoint DEF set_next_phase_start_time
  <2>2. ClockTypes'
    BY <1>4, <2>1 DEF set_next_phase_start_time, ClockTypes
  <2> QED BY <2>1, <2>2
<1>5. CASE process_watering_schedule BY <1>5, RoundStep
<1>6. CASE restart
  <2>1. now' \in Nat BY <1>0, <1>6 DEF restart
  <2>2. /\ next_watering_point' \in Int
        /\ PointsInOrder' /\ RoundsKnowTheirDay'
    BY <1>6, <2>1, FreshPoint DEF restart
  <2>3. ClockTypes'
    <3>1. /\ since' \in Nat /\ restarts' \in Nat /\ UTC_OFFSET_MIN' \in Int
          /\ phase_start_schedule' \in Nat
      BY <1>6, <2>1 DEF restart, ClockTypes
    <3>2. synced' \in BOOLEAN /\ at' \in {"idle", "recalculate"}
      BY <1>6 DEF restart
    <3>3. written' \in Int /\ rounds' \in Seq([point : Int, phase : Int])
      BY <1>6 DEF restart, ClockTypes
    <3> QED BY <2>1, <2>2, <3>1, <3>2, <3>3 DEF ClockTypes
  <2> QED BY <2>2, <2>3
<1>7. CASE UNCHANGED vars
  BY <1>7 DEF vars, settings, history, counters, ClockTypes, PointsInOrder,
              RoundsKnowTheirDay, Weekday, Day, Local
<1> QED BY <1>1, <1>2, <1>3, <1>4, <1>5, <1>6, <1>7 DEF Next

LEMMA ClockInvariance == Spec => []ClockInv
<1> QED BY InitClockInv, ClockInvStep, PTL DEF Spec

\* A round is of the local weekday of its point, for any length of day, week and
\* phase, and however the clock is set meanwhile (get_phase_of_cycle).
THEOREM RoundsAreOfTheirDay == Spec => []RoundsKnowTheirDay
<1>1. ClockInv => RoundsKnowTheirDay BY DEF ClockInv
<1> QED BY <1>1, ClockInvariance, PTL
-----------------------------------------------------------------------------
(***************************************************************************)
(* The rounds, when a day is a whole number of phases (one minute, as the  *)
(* program is built, or the day it is meant to have).                      *)
(***************************************************************************)
OfSchedule(t) == OnSchedule(t, UTC_OFFSET_MIN, phase_start_schedule, since)

\* The next point is the next of the schedule, what has come due are points of
\* it, and of those that lie before the next point every one.
PointsFollowSchedule ==
  at = "idle" =>
    /\ OfSchedule(next_watering_point)
    /\ \A t \in Int : now < t /\ t < next_watering_point => ~ OfSchedule(t)
    /\ \A k \in DOMAIN rounds : OfSchedule(rounds[k].point)
    /\ synced => \A t \in Int :
         since < t /\ t < next_watering_point /\ OfSchedule(t)
         => \E k \in DOMAIN rounds : rounds[k].point = t

\* Where everything is forgotten and recalculated, the next point is the first
\* of the schedule.
LEMMA FreshSchedule ==
  ASSUME DayLength % PhaseLength = 0,
         now' \in Nat, UTC_OFFSET_MIN' \in Int, phase_start_schedule' \in Nat,
         recalculate_next_watering_point, since' = now', rounds' = <<>>
  PROVE  PointsFollowSchedule'
<1> DEFINE on(t) == OnSchedule(t, UTC_OFFSET_MIN', phase_start_schedule', since')
<1>1. /\ on(next_watering_point')
      /\ \A t \in Int : now' < t /\ t < next_watering_point' => ~ on(t)
  <2>1. since' \in Int /\ since' <= now' OBVIOUS
  <2> QED BY <2>1, NextOnSchedule DEF recalculate_next_watering_point
<1>2. DOMAIN rounds' = {} OBVIOUS
<1>3. /\ OfSchedule(next_watering_point)' <=> on(next_watering_point')
      /\ \A t \in Int : OfSchedule(t)' <=> on(t)
  BY DEF OfSchedule, OnSchedule, TimeOfDay, Day, Local
<1> QED BY <1>1, <1>2, <1>3 DEF PointsFollowSchedule

LEMMA InitSchedule ==
  ASSUME DayLength % PhaseLength = 0, Init
  PROVE  PointsFollowSchedule
<1>1. /\ OfSchedule(next_watering_point)
      /\ \A t \in Int : now < t /\ t < next_watering_point => ~ OfSchedule(t)
  BY NextOnSchedule DEF Init, OfSchedule
<1>2. DOMAIN rounds = {} /\ ~ synced BY DEF Init
<1> QED BY <1>1, <1>2 DEF PointsFollowSchedule

\* The point that comes due is added to the rounds, and up to the new one there
\* is no other (process_watering_schedule).
LEMMA RoundOnSchedule ==
  ASSUME DayLength % PhaseLength = 0, ClockInv, PointsFollowSchedule,
         process_watering_schedule
  PROVE  PointsFollowSchedule'
<1> DEFINE on(t) == OnSchedule(t, UTC_OFFSET_MIN, phase_start_schedule, since)
           r == [point |-> next_watering_point, phase |-> get_phase_of_cycle]
<1>1. /\ now \in Nat /\ since \in Nat /\ UTC_OFFSET_MIN \in Int
      /\ phase_start_schedule \in Nat
      /\ next_watering_point \in Int
      /\ rounds \in Seq([point : Int, phase : Int])
  BY DEF ClockInv, ClockTypes
<1>2. /\ at = "idle" /\ synced /\ now = next_watering_point /\ since <= now
      /\ rounds' = Append(rounds, r)
  BY <1>1 DEF ClockInv, PointsInOrder, process_watering_schedule, is_watering_due
<1>3. /\ UNCHANGED <<now, since, at, synced, UTC_OFFSET_MIN, phase_start_schedule>>
      /\ next_watering_point' = NextPoint(now, UTC_OFFSET_MIN, phase_start_schedule)
  BY DEF process_watering_schedule, recalculate_next_watering_point, settings
<1>4. /\ on(next_watering_point)
      /\ \A k \in DOMAIN rounds : on(rounds[k].point)
      /\ \A t \in Int : since < t /\ t < next_watering_point /\ on(t)
           => \E k \in DOMAIN rounds : rounds[k].point = t
  BY <1>2 DEF PointsFollowSchedule, OfSchedule
<1>5. /\ next_watering_point' \in Int /\ next_watering_point' > now
      /\ on(next_watering_point')
      /\ \A t \in Int : now < t /\ t < next_watering_point' => ~ on(t)
  <2>1. on(now) BY <1>2, <1>4
  <2>2. /\ on(next_watering_point')
        /\ \A t \in Int : now < t /\ t < next_watering_point' => ~ on(t)
    BY <1>1, <1>2, <1>3, <2>1, NextOnSchedule
  <2> QED BY <1>1, <1>3, <2>2, NextPointIsAhead
<1>6. r \in [point : Int, phase : Int] /\ r.point = next_watering_point
  BY <1>1, WeekdayType DEF get_phase_of_cycle
<1> HIDE DEF r
<1>7. /\ DOMAIN rounds' = 1 .. Len(rounds) + 1 /\ DOMAIN rounds = 1 .. Len(rounds)
      /\ Len(rounds) \in Nat
      /\ \A k \in DOMAIN rounds : rounds'[k] = rounds[k]
      /\ rounds'[Len(rounds) + 1] = r
  BY <1>1, <1>2, <1>6, AppendProperties
<1> HIDE DEF on
<1>8. ASSUME NEW k \in DOMAIN rounds' PROVE on(rounds'[k].point)
  <2>1. CASE k \in DOMAIN rounds BY <1>4, <1>7, <2>1
  <2>2. CASE k = Len(rounds) + 1 BY <1>4, <1>6, <1>7, <2>2
  <2> QED BY <1>7, <2>1, <2>2
<1>9. ASSUME NEW t \in Int, since < t, t < next_watering_point', on(t)
      PROVE  \E k \in DOMAIN rounds' : rounds'[k].point = t
  <2>1. CASE t < next_watering_point
    <3>1. PICK k \in DOMAIN rounds : rounds[k].point = t BY <1>4, <1>9, <2>1
    <3>2. k \in DOMAIN rounds' /\ rounds'[k].point = t BY <1>7, <3>1
    <3> QED BY <3>2
  <2>2. CASE t = next_watering_point
    <3>1. Len(rounds) + 1 \in DOMAIN rounds' BY <1>7
    <3> QED BY <1>6, <1>7, <2>2, <3>1
  <2>3. CASE next_watering_point < t BY <1>2, <1>5, <1>9, <2>3
  <2> QED BY <1>1, <2>1, <2>2, <2>3
<1>10. /\ OfSchedule(next_watering_point)' <=> on(next_watering_point')
       /\ \A t \in Int : OfSchedule(t)' <=> on(t)
       /\ \A k : OfSchedule(rounds[k].point)' <=> on(rounds'[k].point)
  BY <1>3 DEF on, OfSchedule, OnSchedule, TimeOfDay, Day, Local
<1> QED BY <1>3, <1>5, <1>8, <1>9, <1>10 DEF PointsFollowSchedule

LEMMA ScheduleStep ==
  ASSUME DayLength % PhaseLength = 0, ClockInv, PointsFollowSchedule, [Next]_vars
  PROVE  PointsFollowSchedule'
<1>0. /\ now \in Nat /\ UTC_OFFSET_MIN \in Int /\ next_watering_point \in Int
      /\ phase_start_schedule \in Nat
  BY DEF ClockInv, ClockTypes
<1> USE DEF OfSchedule, OnSchedule, TimeOfDay, Day, Local
<1>1. CASE tick
  <2>1. now' = now + 1 /\ UNCHANGED <<settings, next_watering_point, at, history>>
    BY <1>1 DEF tick
  <2>2. \A t \in Int : now' < t => now < t BY <1>0, <2>1
  <2> QED BY <2>1, <2>2 DEF PointsFollowSchedule, settings, history
<1>2. ASSUME NEW time \in 0 .. MaxTime, NEW offset \in OffsetRange \cup {DayLength},
             set_time(time, offset)
      PROVE  PointsFollowSchedule'
  <2>1. CASE at' = "recalculate" BY <2>1 DEF PointsFollowSchedule
  <2>2. CASE UNCHANGED vars
    BY <2>2 DEF vars, settings, history, PointsFollowSchedule
  <2> QED BY <1>2, <2>1, <2>2 DEF set_time, vars, settings, history, counters
<1>3. CASE finish_set_time
  BY <1>0, <1>3, FreshSchedule DEF finish_set_time
<1>4. ASSUME NEW start \in 0 .. MaxStart, set_next_phase_start_time(start)
      PROVE  PointsFollowSchedule'
  BY <1>0, <1>4, FreshSchedule DEF set_next_phase_start_time
<1>5. CASE process_watering_schedule BY <1>5, RoundOnSchedule
<1>6. CASE restart
  <2>1. now' \in Nat BY <1>0, <1>6 DEF restart
  <2> QED BY <1>6, <2>1, FreshSchedule DEF restart
<1>7. CASE UNCHANGED vars
  BY <1>7 DEF vars, settings, history, PointsFollowSchedule
<1> QED BY <1>1, <1>2, <1>3, <1>4, <1>5, <1>6, <1>7 DEF Next

LEMMA ScheduleInvariance ==
  ASSUME DayLength % PhaseLength = 0
  PROVE  Spec => []PointsFollowSchedule
<1>1. Init => PointsFollowSchedule BY InitSchedule
<1>2. ClockInv /\ PointsFollowSchedule /\ [Next]_vars => PointsFollowSchedule'
  BY ScheduleStep
<1> QED BY <1>1, <1>2, ClockInvariance, PTL DEF Spec

LEMMA ScheduleFromInvariant ==
  ASSUME ClockInv, PointsFollowSchedule
  PROVE  RoundsFollowSchedule
<1> SUFFICES ASSUME at = "idle" PROVE RoundsFollowSchedule
  BY DEF RoundsFollowSchedule
<1> DEFINE points == [k \in DOMAIN rounds |-> rounds[k].point]
           passed == {t \in since + 1 .. now : synced /\ Scheduled(t)}
           done == {points[k] : k \in DOMAIN points}
<1>1. /\ now \in Nat /\ since \in Nat /\ next_watering_point \in Int
      /\ \A k \in DOMAIN rounds : rounds[k].point \in Int
      /\ synced \in BOOLEAN
  BY PointTypes DEF ClockInv, ClockTypes
<1>2. /\ synced => now <= next_watering_point
      /\ ~ synced => rounds = <<>>
      /\ \A k \in DOMAIN rounds :
           since < rounds[k].point /\ rounds[k].point < next_watering_point
      /\ \A j, k \in DOMAIN rounds : j < k => rounds[j].point < rounds[k].point
  BY DEF ClockInv, PointsInOrder
<1>3. /\ \A t \in Int : now < t /\ t < next_watering_point => ~ Scheduled(t)
      /\ \A k \in DOMAIN rounds : Scheduled(rounds[k].point)
      /\ synced => \A t \in Int :
           since < t /\ t < next_watering_point /\ Scheduled(t)
           => \E k \in DOMAIN rounds : rounds[k].point = t
  BY DEF PointsFollowSchedule, OfSchedule, OnSchedule, Scheduled
<1>4. passed \ {now} \subseteq done
  <2> SUFFICES ASSUME NEW t \in passed \ {now} PROVE t \in done OBVIOUS
  <2>1. t \in Int /\ since < t /\ t < now /\ synced /\ Scheduled(t) BY <1>1
  <2>2. PICK k \in DOMAIN rounds : rounds[k].point = t BY <1>1, <1>2, <1>3, <2>1
  <2> QED BY <2>2
<1>5. done \subseteq passed
  <2> SUFFICES ASSUME NEW k \in DOMAIN rounds PROVE rounds[k].point \in passed
    OBVIOUS
  <2>1. synced
    <3>1. DOMAIN <<>> = {} OBVIOUS
    <3> QED BY <1>2, <3>1
  <2>2. since < rounds[k].point /\ rounds[k].point <= now BY <1>1, <1>2, <1>3
  <2> QED BY <1>1, <1>3, <2>1, <2>2
<1>6. \A j, k \in DOMAIN points : j < k => points[j] < points[k] BY <1>2
<1> QED BY <1>4, <1>5, <1>6 DEF RoundsFollowSchedule

\* Since the host has set anything, what has come due are the points of the
\* schedule that have passed, in order and none twice
\* (recalculate_next_watering_point): whenever a day is a whole number of phases,
\* for any offset and any start time, valid or not, over restarts and jumps of
\* the clock.
THEOREM RoundsComeAsScheduled ==
  ASSUME DayLength % PhaseLength = 0
  PROVE  Spec => []RoundsFollowSchedule
<1>1. ClockInv /\ PointsFollowSchedule => RoundsFollowSchedule
  BY ScheduleFromInvariant
<1> QED BY <1>1, ClockInvariance, ScheduleInvariance, PTL
=============================================================================
