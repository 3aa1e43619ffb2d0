--------------------------- MODULE UpcomingProofs ---------------------------
(***************************************************************************)
(* The heartbeat that follows another one, for every length of the day and *)
(* of the hour, all active hours, and all zones whose clocks change by at  *)
(* most an hour of the clock.                                              *)
(***************************************************************************)
EXTENDS Upcoming, TLAPS

-----------------------------------------------------------------------------
(* Division.                                                               *)

LEMMA DivMod ==
    ASSUME NEW a \in Int, NEW n \in Nat \ {0}
    PROVE  /\ a % n \in 0 .. n - 1 /\ a \div n \in Int
           /\ a = n * (a \div n) + (a % n)
OBVIOUS

LEMMA Multiples ==
    ASSUME NEW n \in Nat \ {0}, NEW p \in Int, NEW q \in Int, p < q
    PROVE  /\ n * p + n <= n * q
           /\ n * p \in Int /\ n * q \in Int
OBVIOUS

LEMMA OneQuotient ==
    ASSUME NEW n \in Nat \ {0}, NEW p \in Int, NEW q \in Int,
           NEW r \in 0 .. n - 1, NEW s \in 0 .. n - 1,
           n * p + r = n * q + s
    PROVE  p = q /\ r = s
<1>0. n * p \in Int /\ n * q \in Int
    OBVIOUS
<1>1. ~ (p < q)
    BY <1>0, Multiples
<1>2. ~ (q < p)
    BY <1>0, Multiples
<1> QED
    BY <1>1, <1>2

LEMMA Quotient ==
    ASSUME NEW n \in Nat \ {0}, NEW q \in Int, NEW r \in 0 .. n - 1
    PROVE  (n * q + r) \div n = q /\ (n * q + r) % n = r
<1> DEFINE a == n * q + r
<1>1. a \in Int
    OBVIOUS
<1>2. /\ a % n \in 0 .. n - 1 /\ a \div n \in Int
      /\ a = n * (a \div n) + (a % n)
    BY <1>1, DivMod
<1> QED
    BY <1>2, OneQuotient

LEMMA Floor ==
    ASSUME NEW n \in Nat \ {0}, NEW a \in Int, NEW q \in Int
    PROVE  (a \div n < q) <=> (a < n * q)
OBVIOUS

LEMMA FloorMonotone ==
    ASSUME NEW n \in Nat \ {0}, NEW a \in Int, NEW b \in Int, a <= b
    PROVE  a \div n <= b \div n
OBVIOUS

-----------------------------------------------------------------------------
(* The hours of a day.                                                     *)

LEMMA DayType ==
    /\ MinutesPerHour \in Nat \ {0} /\ HoursPerDay \in Nat \ {0}
    /\ MinutesPerDay \in Nat \ {0}
    /\ MinutesPerDay = MinutesPerHour * HoursPerDay
<1>1. MinutesPerHour \in Nat \ {0} /\ HoursPerDay \in Nat \ {0}
    BY ClockAssumption
<1>2. MinutesPerDay = MinutesPerHour * HoursPerDay
    BY <1>1 DEF MinutesPerDay
<1>3. MinutesPerHour * HoursPerDay \in Nat \ {0}
    BY <1>1
<1> QED
    BY <1>1, <1>2, <1>3

\* An hour of the clock, counted since the epoch.
Block(wall) == wall \div MinutesPerHour

LEMMA BlockType ==
    ASSUME NEW x \in Int
    PROVE  /\ Block(x) \in Int
           /\ MinutesPerHour * Block(x) \in Int
           /\ MinutesPerHour * Block(x) <= x
           /\ x < MinutesPerHour * Block(x) + MinutesPerHour
BY DayType, DivMod DEF Block

LEMMA HourIsBlock ==
    ASSUME NEW x \in Int
    PROVE  HourOf(x) = Block(x) % HoursPerDay /\ HourOf(x) \in Hours
<1> DEFINE M == MinutesPerHour
           H == HoursPerDay
           D == MinutesPerDay
           q == x \div D
           r == x % D
           h == r \div M
           m == r % M
<1>1. q \in Int /\ r \in 0 .. D - 1 /\ x = D * q + r
    BY DayType, DivMod
<1>2. h \in Int /\ m \in 0 .. M - 1 /\ r = M * h + m
    BY <1>1, DayType, DivMod
<1>3. h < H
    BY <1>1, DayType, Floor
<1>4. h >= 0
    BY <1>1, <1>2, DayType, Floor
<1>5. h \in Hours
    BY <1>2, <1>3, <1>4, DayType DEF Hours
<1>6. HourOf(x) = h
    BY DEF HourOf
<1> HIDE DEF q, r, h, m
<1>7. x = M * (H * q + h) + m
  <2>1. x = (M * H) * q + M * h + m
    BY <1>1, <1>2, DayType
  <2>2. (M * H) * q = M * (H * q)
    BY <1>1, DayType
  <2>3. M * (H * q) + M * h = M * (H * q + h)
    BY <1>1, <1>2, DayType
  <2> QED
    BY <1>1, <1>2, <2>1, <2>2, <2>3, DayType
<1>8. H * q + h \in Int
    BY <1>1, <1>2, DayType
<1>9. Block(x) = H * q + h
    BY <1>2, <1>7, <1>8, DayType, Quotient DEF Block
<1>10. (H * q + h) % H = h
    BY <1>1, <1>5, DayType, Quotient DEF Hours
<1> QED
    BY <1>5, <1>6, <1>9, <1>10

LEMMA OneHour ==
    ASSUME NEW x \in Int, NEW y \in Int, Block(x) = Block(y)
    PROVE  HourOf(x) = HourOf(y)
BY HourIsBlock

\* The day of a wall time begins at s, and the next one at s + MinutesPerDay.
LEMMA HoursOfDay ==
    ASSUME NEW w \in Int, NEW s, s = w - (w % MinutesPerDay)
    PROVE  /\ s \in Int /\ s <= w /\ w < s + MinutesPerDay
           /\ \A y \in 0 .. MinutesPerDay - 1 :
                  /\ HourOf(s + y) = y \div MinutesPerHour
                  /\ HourOf(s + MinutesPerDay + y) = y \div MinutesPerHour
<1> DEFINE D == MinutesPerDay
           q == w \div D
<1>1. /\ D \in Nat \ {0} /\ q \in Int /\ w % D \in 0 .. D - 1
      /\ w = D * q + (w % D)
    BY DayType, DivMod
<1>2. s = D * q /\ D * q \in Int
    BY <1>1
<1>3. s \in Int /\ s <= w /\ w < s + D
    BY <1>1, <1>2
<1>4. ASSUME NEW y \in 0 .. D - 1
      PROVE  HourOf(s + y) = y \div MinutesPerHour
  <2>1. (D * q + y) % D = y
    BY <1>1, Quotient
  <2> QED
    BY <1>2, <2>1 DEF HourOf
<1>5. ASSUME NEW y \in 0 .. D - 1
      PROVE  HourOf(s + D + y) = y \div MinutesPerHour
  <2>1. q + 1 \in Int /\ D * (q + 1) = D * q + D
    BY <1>1
  <2>2. (D * (q + 1) + y) % D = y
    BY <1>1, <2>1, Quotient
  <2>3. s + D + y = D * (q + 1) + y
    BY <1>1, <1>2, <2>1
  <2> QED
    BY <2>2, <2>3 DEF HourOf
<1> QED
    BY <1>3, <1>4, <1>5

LEMMA WholeHour ==
    ASSUME NEW k \in Int
    PROVE  Block(MinutesPerHour * k) = k
<1>1. MinutesPerHour * k + 0 = MinutesPerHour * k
    BY DayType
<1> QED
    BY <1>1, DayType, Quotient DEF Block

\* The window start that a candidate is pushed to is later, begins an hour, and
\* no hour on the way there is active.
LEMMA WindowStart ==
    ASSUME NEW start \in Hours, NEW end \in Hours, NEW w \in Int,
           ~ HourInActiveWindow(HourOf(w), start, end),
           NEW W, W = IF start <= end /\ HourOf(w) >= end
                      THEN w - (w % MinutesPerDay)
                               + MinutesPerDay + start * MinutesPerHour
                      ELSE w - (w % MinutesPerDay)
                               + start * MinutesPerHour
    PROVE  /\ W \in Int /\ W > w /\ HourOf(W) = start
           /\ W = MinutesPerHour * Block(W)
           /\ \A x \in w .. W - 1 :
                  ~ HourInActiveWindow(HourOf(x), start, end)
<1> DEFINE M == MinutesPerHour
           D == MinutesPerDay
           s == w - (w % D)
           p == start * M
           h == HourOf(w)
<1>1. /\ M \in Nat \ {0} /\ D \in Nat \ {0} /\ HoursPerDay \in Nat \ {0}
      /\ w \in Int /\ start \in Nat /\ end \in Nat
      /\ start < HoursPerDay
    BY DayType DEF Hours
<1>2. /\ s \in Int /\ s <= w /\ w < s + D
      /\ \A y \in 0 .. D - 1 : /\ HourOf(s + y) = y \div M
                               /\ HourOf(s + D + y) = y \div M
    BY HoursOfDay
<1>a. W = IF start <= end /\ h >= end THEN s + D + p ELSE s + p
    OBVIOUS
<1>b. PICK k \in Int : s = M * k
  <2> DEFINE q == w \div D
             r == w % D
  <2>1. q \in Int /\ w = D * q + r /\ r \in 0 .. D - 1 /\ s = w - r
    BY <1>1, DivMod
  <2> HIDE DEF q, r, s
  <2>2. D * q = M * (HoursPerDay * q)
    BY <1>1, <2>1, DayType
  <2>3. HoursPerDay * q \in Int
    BY <1>1, <2>1
  <2>4. s = D * q
    BY <1>1, <2>1
  <2> QED
    BY <2>2, <2>3, <2>4
<1> HIDE DEF s
<1>3. /\ p = M * start /\ p \in Int /\ 0 <= p
    BY <1>1
<1>4. p < D
  <2>1. M * start + M <= M * HoursPerDay
    BY <1>1, Multiples
  <2> QED
    BY <1>1, <1>3, <2>1, DayType
<1>5. p \div M = start
  <2>1. 0 \in 0 .. M - 1 /\ start \in Int /\ M * start + 0 = p
    BY <1>1, <1>3
  <2> QED
    BY <1>1, <2>1, Quotient
<1>6. h = (w - s) \div M /\ w - s \in 0 .. D - 1
  <2>1. w - s \in 0 .. D - 1 /\ s + (w - s) = w
    BY <1>1, <1>2
  <2> QED
    BY <1>2, <2>1
<1>7. h \in Hours
    BY <1>1, HourIsBlock
<1>8. \A y \in 0 .. D - 1 : y < p <=> y \div M < start
    BY <1>1, <1>3, Floor
<1>9. CASE start <= end /\ h >= end
  <2>1. W = s + D + p
    BY <1>9, <1>a
  <2>2. W \in Int /\ W > w /\ HourOf(W) = start
    BY <1>1, <1>2, <1>3, <1>4, <1>5, <2>1
  <2>3. ASSUME NEW x \in w .. W - 1
        PROVE  ~ HourInActiveWindow(HourOf(x), start, end)
    <3>1. CASE x < s + D
      <4>1. x - s \in 0 .. D - 1 /\ w - s <= x - s /\ s + (x - s) = x
        BY <1>1, <1>2, <2>2, <3>1
      <4>2. HourOf(x) = (x - s) \div M
        BY <1>2, <4>1
      <4>3. HourOf(x) >= h
        BY <1>1, <1>6, <4>1, <4>2, FloorMonotone
      <4>4. HourOf(x) \in Hours
        BY <2>2, HourIsBlock
      <4> QED
        BY <1>1, <1>7, <1>9, <4>3, <4>4 DEF HourInActiveWindow, Hours
    <3>2. CASE x >= s + D
      <4>1. /\ x - s - D \in 0 .. D - 1 /\ x - s - D < p
            /\ s + D + (x - s - D) = x
        BY <1>1, <1>2, <1>3, <1>4, <2>1, <2>2, <3>2
      <4>2. HourOf(x) < start
        BY <1>2, <1>8, <4>1
      <4>3. HourOf(x) \in Hours
        BY <2>2, HourIsBlock
      <4> QED
        BY <1>1, <1>9, <4>2, <4>3 DEF HourInActiveWindow, Hours
    <3>3. x \in Int
      BY <1>1, <2>2
    <3> QED
      BY <1>1, <1>2, <3>1, <3>2, <3>3
  <2>4. W = M * (k + HoursPerDay + start) /\ k + HoursPerDay + start \in Int
    BY <1>1, <1>b, <1>3, <2>1, DayType
  <2>5. W = M * Block(W)
    BY <1>1, <2>4, WholeHour
  <2> QED
    BY <2>2, <2>3, <2>5
<1>10. CASE ~ (start <= end /\ h >= end)
  <2>1. W = s + p
    BY <1>10, <1>a
  <2>2. h < start
    BY <1>1, <1>7, <1>10 DEF HourInActiveWindow, Hours
  <2>3. w - s < p
    BY <1>6, <1>8, <2>2
  <2>4. W \in Int /\ W > w /\ HourOf(W) = start
    BY <1>1, <1>2, <1>3, <1>4, <1>5, <2>1, <2>3
  <2>5. ASSUME NEW x \in w .. W - 1
        PROVE  ~ HourInActiveWindow(HourOf(x), start, end)
    <3>1. /\ x - s \in 0 .. D - 1 /\ w - s <= x - s /\ x - s < p
          /\ s + (x - s) = x
      BY <1>1, <1>2, <1>3, <1>4, <2>1, <2>4
    <3>2. HourOf(x) = (x - s) \div M
      BY <1>2, <3>1
    <3>3. HourOf(x) >= h
      BY <1>1, <1>6, <3>1, <3>2, FloorMonotone
    <3>4. HourOf(x) < start
      BY <1>8, <3>1, <3>2
    <3>5. HourOf(x) \in Hours
      BY <2>4, HourIsBlock
    <3> QED
      BY <1>1, <1>7, <1>10, <2>2, <3>3, <3>4, <3>5
         DEF HourInActiveWindow, Hours
  <2>6. W = M * (k + start) /\ k + start \in Int
    BY <1>1, <1>b, <1>3, <2>1
  <2>7. W = M * Block(W)
    BY <1>1, <2>6, WholeHour
  <2> QED
    BY <2>4, <2>5, <2>7
<1> QED
    BY <1>9, <1>10

-----------------------------------------------------------------------------
(* Between UTC and the wall clock.                                         *)

LEMMA LocalTime ==
    ASSUME NEW z \in Zone, NEW t \in Int
    PROVE  /\ t < z.at  => ToLocal(z, t).wall = t + z.before
           /\ t >= z.at => ToLocal(z, t).wall = t + z.after
           /\ ToLocal(z, t).wall \in Int
           /\ ToLocal(z, t).fold \in {0, 1}
           /\ (ToLocal(z, t).fold = 1) <=>
                  (t >= z.at /\ t + z.after < z.at + z.before)
BY DEF ToLocal, Zone

LEMMA UniversalTime ==
    ASSUME NEW z \in Zone, NEW r, r.wall \in Int, r.fold \in {0, 1}
    PROVE  /\ ToUtc(z, r) \in Int
           /\ ToUtc(z, r) \in {r.wall - z.before, r.wall - z.after}
           /\ (r.wall < z.at + z.before /\ r.wall < z.at + z.after)
                  => ToUtc(z, r) = r.wall - z.before
           /\ (r.wall >= z.at + z.before /\ r.wall >= z.at + z.after)
                  => ToUtc(z, r) = r.wall - z.after
           /\ (r.fold = 0 /\ (r.wall < z.at + z.before \/ r.wall < z.at + z.after))
                  => ToUtc(z, r) = r.wall - z.before
           /\ (r.fold = 1 /\ (r.wall >= z.at + z.before \/ r.wall >= z.at + z.after))
                  => ToUtc(z, r) = r.wall - z.after
BY DEF ToUtc, Zone, Later, Earlier

\* A wall time that the clock shows at some instant is converted to an instant
\* at which it shows it.
LEMMA RoundTrip ==
    ASSUME NEW z \in Zone, NEW r, r.wall \in Int, r.fold \in {0, 1},
           ~ (z.at + z.before <= r.wall /\ r.wall < z.at + z.after)
    PROVE  ToLocal(z, ToUtc(z, r)).wall = r.wall
<1> DEFINE u == ToUtc(z, r)
<1>1. u \in Int /\ z.at \in Int /\ z.before \in Int /\ z.after \in Int
    BY UniversalTime DEF Zone
<1>2. /\ u < z.at => ToLocal(z, u).wall = u + z.before
      /\ u >= z.at => ToLocal(z, u).wall = u + z.after
    BY <1>1, LocalTime
<1>3. CASE r.wall < z.at + z.before /\ r.wall < z.at + z.after
    BY <1>1, <1>2, <1>3, UniversalTime
<1>4. CASE r.wall >= z.at + z.before /\ r.wall >= z.at + z.after
    BY <1>1, <1>2, <1>4, UniversalTime
<1>5. CASE r.wall < z.at + z.before /\ r.wall >= z.at + z.after
    BY <1>1, <1>2, <1>5, UniversalTime
<1> QED
    BY <1>1, <1>3, <1>4, <1>5

\* A later wall time is converted to a later instant, when it keeps the fold of
\* the earlier one or comes after the repeated times.
LEMMA NoStepBack ==
    ASSUME NEW z \in Zone, NEW c \in Int, NEW r, r.wall \in Int,
           r.wall > ToLocal(z, c).wall,
           \/ r.fold = ToLocal(z, c).fold
           \/ r.fold = 0 /\ r.wall >= z.at + z.before
    PROVE  ToUtc(z, r) > c
<1>1. /\ z.at \in Int /\ z.before \in Int /\ z.after \in Int
      /\ r.fold \in {0, 1}
    BY LocalTime DEF Zone
<1>2. ToUtc(z, r) \in {r.wall - z.before, r.wall - z.after}
    BY <1>1, UniversalTime
<1>3. CASE c < z.at
  <2>1. r.wall > c + z.before /\ r.fold = 0
    BY <1>3, <1>1, LocalTime
  <2>2. CASE r.wall < z.at + z.before \/ r.wall < z.at + z.after
    BY <1>1, <1>3, <2>1, <2>2, UniversalTime
  <2>3. CASE r.wall >= z.at + z.before /\ r.wall >= z.at + z.after
    BY <1>1, <1>3, <2>1, <2>3, UniversalTime
  <2> QED
    BY <1>1, <2>2, <2>3
<1>4. CASE c >= z.at
  <2>1. r.wall > c + z.after
    BY <1>4, <1>1, LocalTime
  <2>2. r.wall >= z.at + z.after
    BY <1>1, <1>4, <2>1
  <2>3. CASE r.wall >= z.at + z.before
    BY <1>1, <2>1, <2>2, <2>3, UniversalTime
  <2>4. CASE r.wall < z.at + z.before
    <3>1. ToLocal(z, c).fold = 1
      BY <1>1, <1>4, <2>1, <2>4, LocalTime
    <3>2. r.fold = 1
      BY <1>1, <2>4, <3>1
    <3> QED
      BY <1>1, <2>1, <2>2, <3>2, UniversalTime
  <2> QED
    BY <1>1, <2>3, <2>4
<1> QED
    BY <1>1, <1>3, <1>4

-----------------------------------------------------------------------------
(* The clock changes that the results below are about.                     *)

\* Clocks that go back repeat wall times of one day only.
RepeatsOneDay(z) ==
    z.after < z.before =>
        (z.at + z.after) \div MinutesPerDay
            = (z.at + z.before - 1) \div MinutesPerDay

\* Clocks that go forward skip an hour at most.
SkipsAnHourAtMost(z) == z.after - z.before <= MinutesPerHour

\* The wall times skipped or repeated belong to one hour of the clock.
ChangesWithinAnHour(z) ==
    z.before # z.after =>
        Block(z.at + Earlier(z.before, z.after))
            = Block(z.at + Later(z.before, z.after) - 1)

-----------------------------------------------------------------------------
(* One computation of the next heartbeat.                                  *)

\* A candidate outside the active hours is pushed to a later wall time, at the
\* start of a window, over inactive hours only.  The fold is kept unless the
\* push goes to another day.
LEMMA Push ==
    ASSUME NEW start \in Hours, NEW end \in Hours, NEW z \in Zone, NEW c \in Int,
           NEW local, local = ToLocal(z, c),
           ~ HourInActiveWindow(HourOf(local.wall), start, end),
           NEW r, r = NextWindowStart(local, start, end)
    PROVE  /\ r.wall \in Int /\ r.wall > local.wall /\ HourOf(r.wall) = start
           /\ r.wall = MinutesPerHour * Block(r.wall)
           /\ \A x \in local.wall .. r.wall - 1 :
                  ~ HourInActiveWindow(HourOf(x), start, end)
           /\ \/ r.fold = local.fold
              \/ /\ r.fold = 0
                 /\ r.wall >= local.wall - (local.wall % MinutesPerDay)
                                  + MinutesPerDay
           /\ r.fold \in {0, 1}
<1> DEFINE w == local.wall
           p == w - (w % MinutesPerDay) + start * MinutesPerHour
<1>1. /\ w \in Int /\ local.fold \in {0, 1}
      /\ local = [wall |-> w, fold |-> local.fold]
    BY LocalTime DEF ToLocal
<1>2. /\ AtHour(local, start).wall = p
      /\ AtHour(local, start).fold = local.fold
    BY <1>1 DEF AtHour
<1>3. /\ NextDay(AtHour(local, start)).wall = p + MinutesPerDay
      /\ NextDay(AtHour(local, start)).fold = 0
    BY <1>2 DEF NextDay
<1>4. /\ start \in Nat /\ MinutesPerHour \in Nat /\ MinutesPerDay \in Nat
      /\ start * MinutesPerHour \in Nat /\ w % MinutesPerDay \in Int
  <2>1. /\ start \in Nat /\ MinutesPerHour \in Nat
        /\ MinutesPerDay \in Nat \ {0}
    BY DayType DEF Hours
  <2>2. start * MinutesPerHour \in Nat
    BY <2>1
  <2>3. w % MinutesPerDay \in Int
    BY <1>1, <2>1, DivMod
  <2> QED
    BY <2>1, <2>2, <2>3
<1> HIDE DEF w
<1>5. CASE start <= end /\ HourOf(w) >= end
  <2>1. r.wall = w - (w % MinutesPerDay) + MinutesPerDay
                     + start * MinutesPerHour
        /\ r.fold = 0
    BY <1>1, <1>3, <1>4, <1>5 DEF NextWindowStart, w
  <2>2. r.wall >= w - (w % MinutesPerDay) + MinutesPerDay
    BY <1>1, <1>4, <2>1
  <2> QED
    BY <1>1, <1>5, <2>1, <2>2, WindowStart DEF w
<1>6. CASE ~ (start <= end /\ HourOf(w) >= end)
  <2>1. r.wall = w - (w % MinutesPerDay) + start * MinutesPerHour
        /\ r.fold = local.fold
    BY <1>1, <1>2, <1>6 DEF NextWindowStart, w
  <2> QED
    BY <1>1, <1>6, <2>1, WindowStart DEF w
<1> QED
    BY <1>5, <1>6

\* A push to another day leaves the repeated times of the day behind.
LEMMA PushLeavesTheRepeat ==
    ASSUME NEW z \in Zone, RepeatsOneDay(z), NEW c \in Int,
           NEW w, w = ToLocal(z, c).wall, ToLocal(z, c).fold = 1,
           NEW W \in Int, W >= w - (w % MinutesPerDay) + MinutesPerDay
    PROVE  W >= z.at + z.before
<1> DEFINE D == MinutesPerDay
           q == w \div D
           m == w % D
           lo == z.at + z.after
           hi == z.at + z.before - 1
<1>1. /\ z.at \in Int /\ z.before \in Int /\ z.after \in Int
      /\ w \in Int /\ w >= z.at + z.after /\ w < z.at + z.before
    BY LocalTime DEF Zone
<1>2. D \in Nat \ {0} /\ q \in Int /\ m \in 0 .. D - 1 /\ w = D * q + m
    BY <1>1, DayType, DivMod
<1>0. lo \in Int /\ hi \in Int /\ lo <= w /\ w <= hi
    BY <1>1
<1>3. lo \div D = hi \div D
    BY <1>1 DEF RepeatsOneDay
<1> HIDE DEF lo, hi, D
<1>4. hi \div D = q
  <2>1. lo \div D <= q
    BY <1>0, <1>1, <1>2, FloorMonotone
  <2>2. q <= hi \div D
    BY <1>0, <1>1, <1>2, FloorMonotone
  <2>3. lo \div D \in Int
    BY <1>0, <1>2, DivMod
  <2> QED
    BY <1>2, <1>3, <2>1, <2>2, <2>3
<1> HIDE DEF q, m
<1>7. hi < D * (q + 1)
  <2>1. q + 1 \in Int /\ hi \div D < q + 1
    BY <1>2, <1>4
  <2> QED
    BY <1>0, <1>2, <2>1, Floor
<1>5. D * (q + 1) = D * q + D /\ D * q \in Int
    BY <1>2
<1>6. W >= w - m + D
    BY DEF m, D
<1> QED
    BY <1>1, <1>2, <1>5, <1>6, <1>7 DEF hi

\* Two heartbeats are an interval apart.
LEMMA NextIsLater ==
    ASSUME NEW z \in Zone, RepeatsOneDay(z), NEW after \in Int,
           NEW interval \in Nat, NEW start \in Hours, NEW end \in Hours
    PROVE  ComputeNextHeartbeat(z, after, interval, start, end)
               >= after + interval * MinutesPerHour
<1> DEFINE c == after + interval * MinutesPerHour
           local == ToLocal(z, c)
           r == NextWindowStart(local, start, end)
<1>1. c \in Int
    BY DayType
<1> HIDE DEF c
<1>2. CASE HourInActiveWindow(HourOf(local.wall), start, end)
    BY <1>1, <1>2 DEF ComputeNextHeartbeat, c
<1>3. CASE ~ HourInActiveWindow(HourOf(local.wall), start, end)
  <2>1. /\ r.wall \in Int /\ r.wall > local.wall
        /\ \/ r.fold = local.fold
           \/ /\ r.fold = 0
              /\ r.wall >= local.wall - (local.wall % MinutesPerDay)
                               + MinutesPerDay
        /\ r.fold \in {0, 1} /\ local.fold \in {0, 1}
    BY <1>1, <1>3, Push, LocalTime
  <2> HIDE DEF r
  <2>2. r.fold = local.fold \/ (r.fold = 0 /\ r.wall >= z.at + z.before)
    BY <1>1, <2>1, PushLeavesTheRepeat
  <2>3. ToUtc(z, r) > c
    BY <1>1, <2>1, <2>2, NoStepBack
  <2>4. ToUtc(z, r) \in Int
    BY <2>1, UniversalTime
  <2>5. ComputeNextHeartbeat(z, after, interval, start, end) = ToUtc(z, r)
    BY <1>3 DEF ComputeNextHeartbeat, c, r
  <2> QED
    BY <1>1, <2>3, <2>4, <2>5 DEF c
<1> QED
    BY <1>2, <1>3

LEMMA NextType ==
    ASSUME NEW z \in Zone, NEW after \in Int, NEW interval \in Nat,
           NEW start \in Hours, NEW end \in Hours
    PROVE  ComputeNextHeartbeat(z, after, interval, start, end) \in Int
<1> DEFINE c == after + interval * MinutesPerHour
           local == ToLocal(z, c)
           r == NextWindowStart(local, start, end)
<1>1. c \in Int
    BY DayType
<1> HIDE DEF c
<1>2. CASE HourInActiveWindow(HourOf(local.wall), start, end)
    BY <1>1, <1>2 DEF ComputeNextHeartbeat, c
<1>3. CASE ~ HourInActiveWindow(HourOf(local.wall), start, end)
  <2>1. r.wall \in Int /\ r.fold \in {0, 1}
    BY <1>1, <1>3, Push
  <2> HIDE DEF r
  <2>2. ToUtc(z, r) \in Int
    BY <2>1, UniversalTime
  <2> QED
    BY <1>3, <2>2 DEF ComputeNextHeartbeat, c, r
<1> QED
    BY <1>2, <1>3

\* The hour that the clocks skip.
LEMMA SkippedHour ==
    ASSUME NEW z \in Zone, NEW x \in Int,
           z.at + z.before <= x, x < z.at + z.after
    PROVE  HourOf(x) \in SkippedHours(z)
<1>1. /\ z.at \in Int /\ z.before \in Int /\ z.after \in Int
      /\ z.before < z.after
    BY DEF Zone
<1>2. x \in (z.at + z.before) .. (z.at + z.after - 1)
    BY <1>1
<1> QED
    BY <1>1, <1>2 DEF SkippedHours

\* The hour after the start of a window is active when another hour is.
LEMMA SecondHour ==
    ASSUME NEW start \in Hours, NEW end \in Hours, NEW h \in Hours, h # start,
           HourInActiveWindow(h, start, end)
    PROVE  HourInActiveWindow((start + 1) % HoursPerDay, start, end)
<1>1. HoursPerDay \in Nat \ {0}
    BY DayType
<1>2. CASE start + 1 < HoursPerDay
  <2>1. start + 1 \in 0 .. HoursPerDay - 1 /\ HoursPerDay * 0 + (start + 1) = start + 1
    BY <1>1, <1>2 DEF Hours
  <2>2. (start + 1) % HoursPerDay = start + 1
    BY <1>1, <2>1, Quotient
  <2> QED
    BY <1>1, <2>2 DEF HourInActiveWindow, Hours
<1>3. CASE start + 1 = HoursPerDay
  <2>1. 0 \in 0 .. HoursPerDay - 1 /\ HoursPerDay * 1 + 0 = start + 1
    BY <1>1, <1>3 DEF Hours
  <2>2. (start + 1) % HoursPerDay = 0
    BY <1>1, <2>1, Quotient
  <2> QED
    BY <1>1, <1>3, <2>2 DEF HourInActiveWindow, Hours
<1> QED
    BY <1>1, <1>2, <1>3 DEF Hours

LEMMA NextHour ==
    ASSUME NEW b \in Int, NEW start \in Hours, b % HoursPerDay = start
    PROVE  (b + 1) % HoursPerDay = (start + 1) % HoursPerDay
<1> DEFINE H == HoursPerDay
           q == b \div H
<1>1. /\ H \in Nat \ {0} /\ q \in Int /\ b = H * q + start
      /\ H * q \in Int /\ start \in 0 .. H - 1
    BY DayType, DivMod DEF Hours
<1> HIDE DEF H, q
<1>2. CASE start + 1 < H
  <2>1. start + 1 \in 0 .. H - 1 /\ H * q + (start + 1) = b + 1
    BY <1>1, <1>2
  <2>2. (H * q + (start + 1)) % H = start + 1
    BY <1>1, <2>1, Quotient
  <2>3. (start + 1) % H = start + 1
    BY <1>1, <2>1
  <2> QED
    BY <2>1, <2>2, <2>3 DEF H
<1>3. CASE start + 1 = H
  <2>1. /\ H * (q + 1) = H * q + H /\ q + 1 \in Int
        /\ 0 \in 0 .. H - 1
    BY <1>1, <1>3
  <2>2. H * (q + 1) + 0 = b + 1 /\ H * 1 + 0 = start + 1
    BY <1>1, <1>3, <2>1
  <2>3. (H * (q + 1) + 0) % H = 0
    BY <1>1, <2>1, Quotient
  <2>4. (H * 1 + 0) % H = 0
    BY <1>1, <2>1, Quotient
  <2> QED
    BY <2>2, <2>3, <2>4 DEF H
<1> QED
    BY <1>1, <1>2, <1>3

\* The next heartbeat falls in the active hours.
LEMMA NextIsActive ==
    ASSUME NEW z \in Zone, SkipsAnHourAtMost(z), NEW after \in Int,
           NEW interval \in Nat, NEW start \in Hours, NEW end \in Hours,
           NEW h \in Hours \ SkippedHours(z), HourInActiveWindow(h, start, end)
    PROVE  HourInActiveWindow(
               HourOf(ToLocal(z, ComputeNextHeartbeat(z, after, interval,
                                                      start, end)).wall),
               start, end)
<1> DEFINE c == after + interval * MinutesPerHour
           local == ToLocal(z, c)
           r == NextWindowStart(local, start, end)
           M == MinutesPerHour
<1>1. /\ c \in Int /\ M \in Nat \ {0}
      /\ z.at \in Int /\ z.before \in Int /\ z.after \in Int
    BY DayType DEF Zone
<1> HIDE DEF c
<1>2. CASE HourInActiveWindow(HourOf(local.wall), start, end)
    BY <1>1, <1>2 DEF ComputeNextHeartbeat, c
<1>3. CASE ~ HourInActiveWindow(HourOf(local.wall), start, end)
  <2>1. /\ r.wall \in Int /\ r.fold \in {0, 1} /\ HourOf(r.wall) = start
        /\ r.wall = M * Block(r.wall)
    BY <1>1, <1>3, Push
  <2>2. r.fold = 1 => z.after < z.before
    <3>1. r.fold = 1 => local.fold = 1
      BY <1>1, <1>3, Push
    <3> QED
      BY <1>1, <3>1, LocalTime
  <2>3. ComputeNextHeartbeat(z, after, interval, start, end) = ToUtc(z, r)
    BY <1>3 DEF ComputeNextHeartbeat, c, r
  <2> HIDE DEF r
  <2> DEFINE wall == ToLocal(z, ToUtc(z, r)).wall
             b == Block(r.wall)
  <2>4. HourInActiveWindow(start, start, end)
    BY DEF HourInActiveWindow, Hours
  <2>5. CASE ~ (z.at + z.before <= r.wall /\ r.wall < z.at + z.after)
    BY <2>1, <2>3, <2>4, <2>5, RoundTrip
  <2>6. CASE z.at + z.before <= r.wall /\ r.wall < z.at + z.after
    <3>1. r.fold = 0
      BY <1>1, <2>1, <2>2, <2>6
    <3>2. ToUtc(z, r) = r.wall - z.before
      BY <2>1, <2>6, <3>1, UniversalTime
    <3>3. wall = r.wall + (z.after - z.before)
      BY <1>1, <2>1, <2>6, <3>2, LocalTime
    <3>4. /\ b \in Int /\ b % HoursPerDay = start
          /\ M * b \in Int /\ r.wall = M * b
      BY <1>1, <2>1, HourIsBlock, BlockType
    <3>5. z.after - z.before \in 1 .. M
      BY <1>1, <2>1, <2>6 DEF SkipsAnHourAtMost
    <3> HIDE DEF b, wall
    <3>6. CASE z.after - z.before < M
      <4>1. z.after - z.before \in 0 .. M - 1
        BY <1>1, <3>5, <3>6
      <4>2. Block(wall) = b
        BY <1>1, <3>3, <3>4, <4>1, Quotient DEF Block
      <4>3. wall \in Int
        BY <1>1, <2>1, <3>3
      <4>4. HourOf(wall) = start
        BY <3>4, <4>2, <4>3, HourIsBlock
      <4> QED
        BY <2>3, <2>4, <4>4 DEF wall
    <3>7. CASE z.after - z.before = M
      <4>1. b + 1 \in Int /\ wall = M * (b + 1)
        BY <1>1, <3>3, <3>4, <3>7
      <4>2. Block(wall) = b + 1
        BY <4>1, WholeHour
      <4>3. wall \in Int
        BY <1>1, <2>1, <3>3
      <4>4. HourOf(wall) = (b + 1) % HoursPerDay
        BY <4>2, <4>3, HourIsBlock
      <4>5. (b + 1) % HoursPerDay = (start + 1) % HoursPerDay
        BY <3>4, NextHour
      <4>6. h # start
        BY <2>1, <2>6, SkippedHour
      <4>7. HourInActiveWindow((start + 1) % HoursPerDay, start, end)
        BY <4>6, SecondHour
      <4> QED
        BY <2>3, <4>4, <4>5, <4>7 DEF wall
    <3> QED
      BY <1>1, <3>5, <3>6, <3>7
  <2> QED
    BY <2>5, <2>6
<1> QED
    BY <1>2, <1>3

\* Wall times between two of an hour belong to it.
LEMMA SameHour ==
    ASSUME NEW lo \in Int, NEW hi \in Int, Block(lo) = Block(hi),
           NEW x \in Int, lo <= x, x <= hi
    PROVE  Block(x) = Block(lo)
<1>1. /\ Block(lo) \in Int /\ Block(x) \in Int /\ Block(hi) \in Int
      /\ Block(lo) <= Block(x) /\ Block(x) <= Block(hi)
    BY DayType, BlockType, FloorMonotone DEF Block
<1> QED
    BY <1>1

\* A window start among the times that a change skips or repeats is the first
\* of them.
LEMMA HourStart ==
    ASSUME NEW z \in Zone, ChangesWithinAnHour(z), NEW W \in Int,
           W = MinutesPerHour * Block(W), NEW x \in Int,
           z.at + Earlier(z.before, z.after) <= x,
           z.at + Earlier(z.before, z.after) <= W,
           x < z.at + Later(z.before, z.after),
           W < z.at + Later(z.before, z.after)
    PROVE  W <= x /\ Block(x) = Block(W)
<1> DEFINE lo == z.at + Earlier(z.before, z.after)
           hi == z.at + Later(z.before, z.after) - 1
<1>1. lo \in Int /\ hi \in Int /\ lo <= x /\ x <= hi /\ lo <= W /\ W <= hi
    BY DEF Zone, Earlier, Later
<1>2. Block(lo) = Block(hi)
    BY <1>1 DEF ChangesWithinAnHour, Zone, Earlier, Later
<1> HIDE DEF lo, hi
<1>3. Block(x) = Block(lo) /\ Block(W) = Block(lo)
    BY <1>1, <1>2, SameHour
<1>4. MinutesPerHour * Block(x) <= x
    BY BlockType
<1> QED
    BY <1>3, <1>4

\* Between the end of the interval and the next heartbeat no minute is active.
LEMMA NextIsFirst ==
    ASSUME NEW z \in Zone, ChangesWithinAnHour(z), NEW after \in Int,
           NEW interval \in Nat, NEW start \in Hours, NEW end \in Hours,
           NEW t \in Int, after + interval * MinutesPerHour <= t,
           t < ComputeNextHeartbeat(z, after, interval, start, end)
    PROVE  ~ HourInActiveWindow(HourOf(ToLocal(z, t).wall), start, end)
<1> DEFINE c == after + interval * MinutesPerHour
           local == ToLocal(z, c)
           r == NextWindowStart(local, start, end)
           W == r.wall
           x == ToLocal(z, t).wall
           Idle(y) == ~ HourInActiveWindow(HourOf(y), start, end)
<1>1. /\ c \in Int /\ c <= t
      /\ z.at \in Int /\ z.before \in Int /\ z.after \in Int
    BY DayType DEF Zone
<1>2. ~ HourInActiveWindow(HourOf(local.wall), start, end)
    BY <1>1 DEF ComputeNextHeartbeat
<1>3. /\ t < ToUtc(z, r)
    BY <1>2 DEF ComputeNextHeartbeat
<1> HIDE DEF c
<1>4. /\ W \in Int /\ W > local.wall /\ W = MinutesPerHour * Block(W)
      /\ \A y \in local.wall .. W - 1 : Idle(y)
      /\ r.fold \in {0, 1}
      /\ r.fold = local.fold \/ r.fold = 0
    BY <1>1, <1>2, Push
<1> HIDE DEF r
<1>5. /\ local.wall \in Int /\ local.fold \in {0, 1} /\ x \in Int
      /\ c < z.at => local.wall = c + z.before
      /\ c >= z.at => local.wall = c + z.after
      /\ t < z.at => x = t + z.before
      /\ t >= z.at => x = t + z.after
      /\ (local.fold = 1) <=> (c >= z.at /\ local.wall < z.at + z.before)
    BY <1>1, LocalTime
<1>6. ToUtc(z, r) \in Int
    BY <1>4, UniversalTime
<1> HIDE DEF local, x, W
<1>7. CASE local.wall <= x /\ x < W
  <2>1. x \in local.wall .. W - 1
    BY <1>4, <1>5, <1>7
  <2>2. Idle(x)
    BY <1>4, <2>1
  <2> QED
    BY <2>2 DEF x
<1>8. CASE x < local.wall
  \* The minutes repeated after the candidate's: they are of its hour.
  <2>1. z.after < z.before
    BY <1>1, <1>5, <1>8
  <2>2. /\ z.at + z.after <= x /\ local.wall < z.at + z.before
        /\ z.at + z.after <= local.wall /\ x < z.at + z.before
    BY <1>1, <1>5, <1>8
  <2>3. Block(z.at + z.after) = Block(z.at + z.before - 1)
    BY <1>1, <2>1 DEF ChangesWithinAnHour, Earlier, Later
  <2>4. Block(x) = Block(local.wall)
    BY <1>1, <1>5, <2>2, <2>3, SameHour
  <2>5. HourOf(x) = HourOf(local.wall)
    BY <1>5, <2>4, OneHour
  <2> QED
    BY <1>2, <2>5 DEF local, x
<1>9. ~ (x >= W)
  <2> SUFFICES ASSUME x >= W
               PROVE  FALSE
    OBVIOUS
  <2>1. CASE z.before < z.after
    <3>1. CASE W < z.at + z.before \/ W >= z.at + z.after
      BY <1>1, <1>3, <1>4, <1>5, <1>6, <2>1, <3>1, UniversalTime DEF W
    <3>2. CASE z.at + z.before <= W /\ W < z.at + z.after
      <4>1. r.fold = 0
        BY <1>1, <1>4, <1>5, <2>1, <3>2
      <4>2. ToUtc(z, r) = W - z.before
        BY <1>4, <3>2, <4>1, UniversalTime DEF W
      <4>3. W <= z.at + z.before
        BY <1>1, <1>4, <2>1, <3>2, HourStart DEF Earlier, Later
      <4> QED
        BY <1>1, <1>3, <1>4, <1>5, <1>6, <2>1, <3>2, <4>2, <4>3
    <3> QED
      BY <1>1, <1>4, <3>1, <3>2
  <2>2. CASE z.before = z.after
    BY <1>1, <1>3, <1>4, <1>5, <1>6, <2>2, UniversalTime DEF W
  <2>3. CASE z.after < z.before
    <3>1. CASE W < z.at + z.after
      BY <1>1, <1>3, <1>4, <1>5, <1>6, <2>3, <3>1, UniversalTime DEF W
    <3>2. CASE W >= z.at + z.before
      BY <1>1, <1>3, <1>4, <1>5, <1>6, <2>3, <3>2, UniversalTime DEF W
    <3>3. CASE z.at + z.after <= W /\ W < z.at + z.before
      <4>1. local.wall < z.at + z.after
        BY <1>1, <1>4, <1>5, <2>3, <3>3, HourStart DEF Earlier, Later
      <4>2. c < z.at /\ r.fold = 0
        BY <1>1, <1>4, <1>5, <2>3, <4>1
      <4>3. ToUtc(z, r) = W - z.before
        BY <1>4, <3>3, <4>2, UniversalTime DEF W
      <4> QED
        BY <1>1, <1>3, <1>4, <1>5, <1>6, <3>3, <4>3
    <3> QED
      BY <1>1, <1>4, <3>1, <3>2, <3>3
  <2> QED
    BY <1>1, <2>1, <2>2, <2>3
<1> QED
  <2>1. x < local.wall \/ (local.wall <= x /\ x < W)
    BY <1>4, <1>5, <1>9
  <2> QED
    BY <1>7, <1>8, <2>1 DEF x, local

-----------------------------------------------------------------------------
(* The chain.                                                              *)

\* Each time follows from the one before it.
Chained == \A i \in Computed : upcoming[i] = HeartbeatAfter(upcoming[i - 1])

Inv == TypeOK /\ Chained

LEMMA ScheduleType ==
    ASSUME schedule \in Schedule
    PROVE  /\ schedule.zone \in Zone /\ schedule.interval \in Nat
           /\ schedule.start \in Hours /\ schedule.end \in Hours
BY ChainAssumption DEF Schedule

LEMMA InvInit == Init => Inv
<1> SUFFICES ASSUME Init
             PROVE  Inv
    OBVIOUS
<1>1. PICK t \in Instants : upcoming = <<t>>
    BY DEF Init
<1>2. t \in Int /\ Length \in Nat \ {0}
    BY ChainAssumption
<1>3. upcoming \in Seq(Int) /\ Len(upcoming) = 1
    BY <1>1, <1>2
<1>4. TypeOK
    BY <1>2, <1>3 DEF TypeOK, Init
<1>5. Computed = {}
    BY <1>3 DEF Computed
<1> QED
    BY <1>4, <1>5 DEF Inv, Chained

LEMMA InvStep == Inv /\ [Next]_vars => Inv'
<1> SUFFICES ASSUME Inv, [Next]_vars
             PROVE  Inv'
    OBVIOUS
<1>1. CASE Extend
  <2> DEFINE n == Len(upcoming)
             v == HeartbeatAfter(Last(upcoming))
  <2>1. /\ upcoming \in Seq(Int) /\ n \in Nat /\ 1 <= n /\ n < Length
        /\ Length \in Nat /\ schedule \in Schedule
    BY <1>1, ChainAssumption DEF Inv, TypeOK, Extend
  <2>2. Last(upcoming) = upcoming[n] /\ upcoming[n] \in Int
    BY <2>1 DEF Last
  <2>3. v \in Int
    BY <2>1, <2>2, ScheduleType, NextType DEF HeartbeatAfter
  <2>4. upcoming' = Append(upcoming, v) /\ schedule' = schedule
    BY <1>1 DEF Extend
  <2>5. \A after : HeartbeatAfter(after)' = HeartbeatAfter(after)
    BY <2>4 DEF HeartbeatAfter
  <2> HIDE DEF v
  <2>6. /\ upcoming' \in Seq(Int) /\ Len(upcoming') = n + 1
        /\ upcoming'[n + 1] = v
        /\ \A i \in 1 .. n : upcoming'[i] = upcoming[i]
    BY <2>1, <2>3, <2>4
  <2>7. TypeOK'
    BY <2>1, <2>4, <2>6 DEF TypeOK
  <2>8. ASSUME NEW i \in 2 .. n + 1
        PROVE  upcoming'[i] = HeartbeatAfter(upcoming'[i - 1])
    <3>1. CASE i = n + 1
      BY <2>1, <2>2, <2>6, <3>1 DEF v
    <3>2. CASE i \in 2 .. n
      <4>1. upcoming[i] = HeartbeatAfter(upcoming[i - 1])
        BY <3>2 DEF Inv, Chained, Computed
      <4>2. i - 1 \in 1 .. n /\ i \in 1 .. n
        BY <2>1, <3>2
      <4> QED
        BY <2>6, <4>1, <4>2
    <3> QED
      BY <2>1, <3>1, <3>2
  <2>9. Chained'
    BY <2>4, <2>6, <2>8 DEF Chained, Computed, HeartbeatAfter
  <2> QED
    BY <2>7, <2>9 DEF Inv
<1>2. CASE UNCHANGED vars
    BY <1>2 DEF vars, Inv, TypeOK, Chained, Computed, HeartbeatAfter
<1> QED
    BY <1>1, <1>2 DEF Next

LEMMA Link ==
    ASSUME Inv, NEW i \in Computed
    PROVE  /\ i - 1 \in 1 .. Len(upcoming) /\ upcoming[i - 1] \in Int
           /\ upcoming[i] \in Int
           /\ upcoming[i] = ComputeNextHeartbeat(schedule.zone,
                                upcoming[i - 1], schedule.interval,
                                schedule.start, schedule.end)
<1>1. /\ upcoming \in Seq(Int) /\ Len(upcoming) \in Nat
      /\ i \in 2 .. Len(upcoming)
    BY DEF Inv, TypeOK, Computed
<1>2. i \in 1 .. Len(upcoming) /\ i - 1 \in 1 .. Len(upcoming)
    BY <1>1
<1>3. upcoming[i] = HeartbeatAfter(upcoming[i - 1])
    BY DEF Inv, Chained
<1> QED
    BY <1>1, <1>2, <1>3 DEF HeartbeatAfter

\* The schedule and the list keep their types, and the list grows to Length
\* times at most (compute_next_heartbeat and the loop of dashboard_page).
THEOREM UpcomingKeepsItsType == Spec => []TypeOK
<1> QED
    BY InvInit, InvStep, PTL DEF Spec, Inv

\* Two heartbeats are an interval apart at least, unless the clocks go back
\* across a midnight: local + timedelta(days=1) forgets which of two equal wall
\* times was meant (compute_next_heartbeat).
THEOREM HeartbeatsAreAnIntervalApart ==
    Spec => [](RepeatsOneDay(schedule.zone) => NeverEarly)
<1>1. Inv => (RepeatsOneDay(schedule.zone) => NeverEarly)
  <2> SUFFICES ASSUME Inv, RepeatsOneDay(schedule.zone), NEW i \in Computed
               PROVE  upcoming[i] >= Earliest(i - 1)
    BY DEF NeverEarly
  <2> QED
    BY Link, ScheduleType, NextIsLater DEF Earliest, Inv, TypeOK
<1> QED
    BY <1>1, InvInit, InvStep, PTL DEF Spec

\* A heartbeat falls in the active hours of its user, unless the clocks skip
\* more than an hour: the window start can be skipped, and what the wall clock
\* shows in its place is later by the length of the jump (compute_next_heartbeat).
THEOREM HeartbeatsFallInTheWindow ==
    Spec => [](SkipsAnHourAtMost(schedule.zone) => LandsInWindow)
<1>1. Inv => (SkipsAnHourAtMost(schedule.zone) => LandsInWindow)
  <2> SUFFICES ASSUME Inv, SkipsAnHourAtMost(schedule.zone),
                      WindowOpensDaily, NEW i \in Computed
               PROVE  InWindow(upcoming[i])
    BY DEF LandsInWindow
  <2>1. PICK h \in Hours \ SkippedHours(schedule.zone) :
            HourInActiveWindow(h, schedule.start, schedule.end)
    BY DEF WindowOpensDaily
  <2> QED
    BY <2>1, Link, ScheduleType, NextIsActive DEF InWindow, Inv, TypeOK
<1> QED
    BY <1>1, InvInit, InvStep, PTL DEF Spec

\* A heartbeat is not put off: no minute between the end of the interval and the
\* heartbeat is active, unless a change of the clocks splits an hour and makes
\* part of it pass before the start of the window, or twice
\* (compute_next_heartbeat).
THEOREM HeartbeatsAreNotPutOff ==
    Spec => [](ChangesWithinAnHour(schedule.zone) => NoActiveMinuteSkipped)
<1>1. Inv => (ChangesWithinAnHour(schedule.zone) => NoActiveMinuteSkipped)
  <2> SUFFICES ASSUME Inv, ChangesWithinAnHour(schedule.zone),
                      NEW i \in Computed,
                      NEW t \in Earliest(i - 1) .. (upcoming[i] - 1)
               PROVE  ~ InWindow(t)
    BY DEF NoActiveMinuteSkipped
  <2>1. /\ t \in Int /\ t < upcoming[i]
        /\ upcoming[i - 1] + schedule.interval * MinutesPerHour <= t
    BY Link, ScheduleType, DayType DEF Earliest, Inv, TypeOK
  <2> QED
    BY <2>1, Link, ScheduleType, NextIsFirst DEF InWindow, Inv, TypeOK
<1> QED
    BY <1>1, InvInit, InvStep, PTL DEF Spec
=============================================================================
