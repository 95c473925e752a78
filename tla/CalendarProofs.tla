--------------------------- MODULE CalendarProofs ---------------------------
(***************************************************************************)
(* What is proved of recurring events, the calendar's pages and push       *)
(* notifications, for any rules, events, requests and devices.             *)
(*                                                                         *)
(* Where the iterator stands is a day of the rule, and Advance takes it to *)
(* the rule's next day (Standing, Follows): by arithmetic for the day, the *)
(* week and the year, by the order of the days for BYDAY, by the lengths   *)
(* of months for the month.  So the walk of Expand passes all the rule's   *)
(* days in their order, the n-th round is over the n-th of them (Rank),    *)
(* and what it appends is what the rule means (ExpandMeans).  The walk and *)
(* the skip of months are functions that call themselves: that there is    *)
(* such a function follows from the bound there is to its calls.           *)
(*                                                                         *)
(* A page shows of a series what Expand comes up with, less what was       *)
(* cancelled, by the types of the rows alone (ViewsRight).                 *)
(*                                                                         *)
(* Of push notifications: how many sends the records account for           *)
(* (OnceInv), and what a send has yet to do for whom it owes (SendInv).    *)
(***************************************************************************)
EXTENDS Calendar, PushScheduler, TLAPS, FiniteSetTheorems

-----------------------------------------------------------------------------
(* Least elements, induction and division.                                 *)

LEMMA SmallestInterval ==
    ASSUME NEW T, T \subseteq Nat, T # {}
    PROVE  \E m \in T : \A x \in T : m <= x
<1>1. PICK n \in T : TRUE
    OBVIOUS
<1> DEFINE U == {m \in T : m <= n}
           family == {0..m : m \in U}
<1>2. IsFiniteSet(0..n) /\ n \in Nat
    BY FS_Interval
<1>3. family \subseteq SUBSET (0..n) /\ family # {}
    BY <1>1, <1>2
<1>4. IsWellFoundedOn(StrictSubsetOrdering(0..n), SUBSET (0..n))
    BY <1>2, FS_StrictSubsetOrderingWellFounded, FS_FiniteSubsetsOfFinite
<1>5. \E s \in family : \A r \in family : <<r, s>> \notin StrictSubsetOrdering(0..n)
    BY <1>3, <1>4, WFMin, Zenon
<1>6. PICK s \in family : \A r \in family : <<r, s>> \notin StrictSubsetOrdering(0..n)
    BY <1>5
<1>7. PICK m \in U : s = 0..m
    BY <1>6
<1>8. ASSUME NEW x \in T, x < m PROVE FALSE
    <2>1. m \in Nat /\ m \in T /\ m <= n /\ x \in Nat /\ n \in Nat
        BY <1>2, <1>7
    <2>2. x \in U /\ m \in Nat /\ x \in Nat
        BY <1>8, <2>1
    <2>3. 0..x \in family
        BY <2>2
    <2>4. 0..x \subseteq 0..m /\ 0..x # 0..m /\ 0..x \subseteq 0..n /\ 0..m \subseteq 0..n
        <3>1. m \notin 0..x /\ m \in 0..m /\ m <= n
            BY <1>7, <1>8, <2>2
        <3>2. 0..x \subseteq 0..m /\ 0..m \subseteq 0..n
            BY <1>2, <1>8, <2>2, <3>1
        <3> QED BY <3>1, <3>2
    <2>5. <<0..x, s>> \in StrictSubsetOrdering(0..n)
        BY <1>7, <2>4 DEF StrictSubsetOrdering
    <2> QED BY <1>6, <2>3, <2>5
<1> QED BY <1>7, <1>8

LEMMA Least ==
    ASSUME NEW T, T \subseteq Nat, T # {}
    PROVE  \E m \in T : \A x \in T : m <= x
BY SmallestInterval

LEMMA Induction ==
    ASSUME NEW S, 0 \in S, \A n \in Nat : n \in S => n + 1 \in S
    PROVE  \A n \in Nat : n \in S
<1> DEFINE T == {n \in Nat : n \notin S}
<1>1. SUFFICES ASSUME T # {} PROVE FALSE
    OBVIOUS
<1>2. PICK m \in T : \A x \in T : m <= x
    BY <1>1, SmallestInterval
<1>3. m # 0 /\ m - 1 \in Nat /\ m - 1 \notin T
    BY <1>2
<1> QED
    BY <1>2, <1>3

LEMMA Division ==
    ASSUME NEW a \in Int, NEW b \in Nat, b > 0
    PROVE  /\ a \div b \in Int /\ a % b \in 0..(b - 1)
           /\ a = b * (a \div b) + (a % b)
OBVIOUS

LEMMA Quotient ==
    ASSUME NEW b \in Nat, b > 0, NEW q \in Int, NEW r \in 0..(b - 1)
    PROVE  (b * q + r) \div b = q /\ (b * q + r) % b = r
OBVIOUS


LEMMA ModStep ==
    ASSUME NEW a \in Int, NEW b \in Nat, b > 0
    PROVE  (a + b) % b = a % b
<1>1. PICK q \in Int, r \in 0..(b - 1) : a = b * q + r
    BY Division
<1>2. a + b = b * (q + 1) + r /\ q + 1 \in Int
    BY <1>1
<1> QED
    BY <1>1, <1>2, Quotient

LEMMA TwoQuotients ==
    ASSUME NEW b \in Nat, b > 0, NEW p \in Int, NEW q \in Int, p < q
    PROVE  b * p + b <= b * q
OBVIOUS

LEMMA ModBetween ==
    ASSUME NEW a \in Int, NEW b \in Nat, b > 0, a % b = 0, NEW c \in 1..(b - 1)
    PROVE  (a + c) % b # 0
<1>1. PICK q \in Int : a = b * q
    <2>1. a = b * (a \div b) + 0 /\ a \div b \in Int
        BY Division
    <2> QED BY <2>1
<1> QED
    BY <1>1, Quotient

-----------------------------------------------------------------------------
(* The civil calendar: a month ends where the next begins, so each day     *)
(* lies in one month.                                                      *)

LEMMA MonthParts ==
    ASSUME NEW k \in Nat
    PROVE  /\ k \div 12 \in Nat /\ k % 12 \in 0..11 /\ k = 12 * (k \div 12) + (k % 12)
           /\ (k % 12) # 11 => (k + 1) \div 12 = k \div 12 /\ (k + 1) % 12 = (k % 12) + 1
           /\ k % 12 = 11 => (k + 1) \div 12 = (k \div 12) + 1 /\ (k + 1) % 12 = 0
<1>1. PICK q, m : q = k \div 12 /\ m = k % 12
    OBVIOUS
<1>2. q \in Nat /\ m \in 0..11 /\ k = 12 * q + m
    BY <1>1
<1>3. m # 11 => (k + 1) \div 12 = q /\ (k + 1) % 12 = m + 1
    BY <1>2
<1>4. m = 11 => (k + 1) \div 12 = q + 1 /\ (k + 1) % 12 = 0
    BY <1>2
<1> QED
    BY <1>1, <1>2, <1>3, <1>4

LEMMA LeapDaysStep ==
    ASSUME NEW y \in Nat, y > 0
    PROVE  LeapDays(y) = LeapDays(y - 1) + (IF IsLeap(y) THEN 1 ELSE 0)
<1>1. y \div 4 = ((y - 1) \div 4) + (IF y % 4 = 0 THEN 1 ELSE 0)
    OBVIOUS
<1>2. y \div 100 = ((y - 1) \div 100) + (IF y % 100 = 0 THEN 1 ELSE 0)
    OBVIOUS
<1>3. y \div 400 = ((y - 1) \div 400) + (IF y % 400 = 0 THEN 1 ELSE 0)
    OBVIOUS
<1>4. (y % 400 = 0 => y % 100 = 0) /\ (y % 100 = 0 => y % 4 = 0)
    OBVIOUS
<1>5. /\ y \div 4 \in Int /\ (y - 1) \div 4 \in Int /\ y \div 100 \in Int
      /\ (y - 1) \div 100 \in Int /\ y \div 400 \in Int /\ (y - 1) \div 400 \in Int
    OBVIOUS
<1> QED
    BY <1>1, <1>2, <1>3, <1>4, <1>5 DEF LeapDays, IsLeap

LEMMA LeapDaysInt == ASSUME NEW y \in Nat PROVE LeapDays(y) \in Int
BY DEF LeapDays

LEMMA MonthLengthBounds == ASSUME NEW k \in Nat PROVE MonthLength(k) \in 28..31
<1> PICK m \in 0..11 : m = k % 12
    BY MonthParts
<1> QED BY DEF MonthLength

LEMMA MonthStartIs ==
    ASSUME NEW k \in Nat, NEW q \in Nat, NEW m \in 0..11, q = k \div 12, m = k % 12,
           NEW y \in Nat, y = FirstYear + q
    PROVE  MonthStart(k) = 365 * q + LeapDays(y - 1) - LeapDays(FirstYear - 1)
                             + BeforeMonth[m + 1] + (IF m > 1 /\ IsLeap(y) THEN 1 ELSE 0)
BY DEF MonthStart

LEMMA MonthStartInt == ASSUME NEW k \in Nat PROVE MonthStart(k) \in Int
<1>1. PICK q \in Nat, m \in 0..11 : q = k \div 12 /\ m = k % 12
    BY MonthParts
<1>2. PICK y \in Nat : y = FirstYear + q /\ y > 0
    BY <1>1 DEF FirstYear
<1>3. PICK a \in Int, b \in Int : a = LeapDays(y - 1) /\ b = LeapDays(FirstYear - 1)
    BY <1>2, LeapDaysInt DEF FirstYear
<1>4. BeforeMonth[m + 1] \in Int
    BY DEF BeforeMonth
<1> QED
    BY <1>1, <1>2, <1>3, <1>4, MonthStartIs

LEMMA NextMonthStarts ==
    ASSUME NEW k \in Nat
    PROVE  MonthStart(k + 1) = MonthStart(k) + MonthLength(k)
<1>1. PICK q \in Nat, m \in 0..11 : q = k \div 12 /\ m = k % 12
    BY MonthParts
<1>2. PICK y \in Nat : y = FirstYear + q /\ y > 0
    BY <1>1 DEF FirstYear
<1>3. PICK a \in Int, b \in Int, c \in Int :
        a = LeapDays(y - 1) /\ b = LeapDays(FirstYear - 1) /\ c = LeapDays(y)
    BY <1>2, LeapDaysInt DEF FirstYear
<1>4. c = a + (IF IsLeap(y) THEN 1 ELSE 0)
    BY <1>2, <1>3, LeapDaysStep
<1>5. MonthStart(k) = 365 * q + a - b + BeforeMonth[m + 1]
                        + (IF m > 1 /\ IsLeap(y) THEN 1 ELSE 0)
    BY <1>1, <1>2, <1>3, MonthStartIs
<1>6. MonthLength(k) = IF m = 1 THEN (IF IsLeap(y) THEN 29 ELSE 28)
                       ELSE IF m \in {3, 5, 8, 10} THEN 30 ELSE 31
    BY <1>1, <1>2 DEF MonthLength
<1>7. CASE m = 11
    <2>1. (k + 1) \div 12 = q + 1 /\ (k + 1) % 12 = 0
        BY <1>1, <1>7, MonthParts
    <2>2. MonthStart(k + 1) = 365 * (q + 1) + c - b + BeforeMonth[1]
        <3>1. PICK z \in Nat : z = FirstYear + (q + 1) /\ z - 1 = y
            BY <1>2 DEF FirstYear
        <3>2. k + 1 \in Nat /\ q + 1 \in Nat /\ 0 \in 0..11
            OBVIOUS
        <3>3. MonthStart(k + 1) = 365 * (q + 1) + LeapDays(z - 1) - LeapDays(FirstYear - 1)
                + BeforeMonth[0 + 1] + (IF 0 > 1 /\ IsLeap(z) THEN 1 ELSE 0)
            BY ONLY <2>1, <3>1, <3>2, MonthStartIs
        <3> QED
            BY <3>1, <3>3, <1>3 DEF BeforeMonth
    <2> QED
        BY <1>4, <1>5, <1>6, <1>7, <2>2 DEF BeforeMonth
<1>8. CASE m # 11
    <2>1. (k + 1) \div 12 = q /\ (k + 1) % 12 = m + 1
        BY <1>1, <1>8, MonthParts
    <2>2. MonthStart(k + 1) = 365 * q + a - b + BeforeMonth[m + 2]
                               + (IF m + 1 > 1 /\ IsLeap(y) THEN 1 ELSE 0)
        <3>1. (m + 1) + 1 = m + 2
            OBVIOUS
        <3> QED
            BY <2>1, <3>1, <1>2, <1>3 DEF MonthStart
    <2>3. \A i \in 0..10 : /\ BeforeMonth[i + 1] \in Int /\ BeforeMonth[i + 2] \in Int
                           /\ BeforeMonth[i + 2] - BeforeMonth[i + 1] =
                                IF i = 1 THEN 28 ELSE IF i \in {3, 5, 8, 10} THEN 30 ELSE 31
        BY DEF BeforeMonth
    <2>4. m \in 0..10
        BY <1>8
    <2>5. PICK u \in Int, v \in Int : /\ u = BeforeMonth[m + 1] /\ v = BeforeMonth[m + 2]
                /\ v - u = IF m = 1 THEN 28 ELSE IF m \in {3, 5, 8, 10} THEN 30 ELSE 31
        BY <2>3, <2>4
    <2> QED
        BY <1>5, <1>6, <2>2, <2>4, <2>5
<1> QED
    BY <1>7, <1>8

LEMMA FirstMonth == MonthStart(0) = 0
<1>1. 0 \div 12 = 0 /\ 0 % 12 = 0
    OBVIOUS
<1>2. LeapDays(FirstYear - 1) \in Int
    BY LeapDaysInt DEF FirstYear
<1> QED
    BY <1>1, <1>2 DEF MonthStart, BeforeMonth, FirstYear

LEMMA MonthStartBounds ==
    ASSUME NEW k \in Nat
    PROVE  28 * k <= MonthStart(k) /\ MonthStart(k) <= 31 * k
<1> DEFINE S == {n \in Nat : 28 * n <= MonthStart(n) /\ MonthStart(n) <= 31 * n}
<1>1. 0 \in S
    BY FirstMonth
<1>2. ASSUME NEW n \in Nat, n \in S PROVE n + 1 \in S
    BY <1>2, NextMonthStarts, MonthLengthBounds, MonthStartInt
<1> HIDE DEF S
<1>3. \A n \in Nat : n \in S
    BY <1>1, <1>2, Induction
<1> QED
    BY <1>3 DEF S

LEMMA MonthStartNat == ASSUME NEW k \in Nat PROVE MonthStart(k) \in Nat
BY MonthStartBounds, MonthStartInt

LEMMA MonthsRise ==
    ASSUME NEW j \in Nat, NEW k \in Nat, j < k
    PROVE  MonthStart(j) + MonthLength(j) <= MonthStart(k)
<1> DEFINE S == {n \in Nat : MonthStart(j + 1) <= MonthStart(j + 1 + n)}
<1>1. 0 \in S
    BY MonthStartInt
<1>2. ASSUME NEW n \in Nat, n \in S PROVE n + 1 \in S
    <2>1. MonthStart(j + 1 + n + 1) = MonthStart(j + 1 + n) + MonthLength(j + 1 + n)
        BY NextMonthStarts
    <2>2. MonthLength(j + 1 + n) \in 28..31
        BY MonthLengthBounds
    <2>3. /\ MonthStart(j + 1) \in Int /\ MonthStart(j + 1 + n) \in Int
          /\ j + 1 + (n + 1) = j + 1 + n + 1
        BY MonthStartInt
    <2> QED
        BY <1>2, <2>1, <2>2, <2>3
<1> HIDE DEF S
<1>3. \A n \in Nat : n \in S
    BY <1>1, <1>2, Induction
<1>4. k - j - 1 \in S /\ j + 1 + (k - j - 1) = k
    BY <1>3
<1> QED
    BY <1>4, NextMonthStarts DEF S

LEMMA InAMonth ==
    ASSUME NEW day \in Nat
    PROVE  \E k \in Nat : MonthStart(k) <= day /\ day < MonthStart(k + 1)
<1> DEFINE T == {k \in Nat : day < MonthStart(k)}
<1>1. day + 1 \in T
    <2>1. 28 * (day + 1) <= MonthStart(day + 1) /\ MonthStart(day + 1) \in Int
        BY MonthStartBounds, MonthStartInt
    <2> QED BY <2>1
<1>2. PICK m \in T : \A x \in T : m <= x
    <2>1. T \subseteq Nat /\ T # {}
        BY <1>1
    <2> HIDE DEF T
    <2> QED BY <2>1, Least
<1>3. m # 0
    BY <1>2, FirstMonth
<1>4. m - 1 \in Nat /\ m - 1 \notin T /\ (m - 1) + 1 = m
    BY <1>2, <1>3
<1> QED
    BY <1>2, <1>4, MonthStartInt

LEMMA MonthOfIs ==
    ASSUME NEW day \in Nat, NEW k \in Nat, MonthStart(k) <= day, day < MonthStart(k + 1)
    PROVE  MonthOf(day) = k
<1> DEFINE range == (day \div 31)..(day \div 28)
<1>1. k \in range
    <2>1. 28 * k <= day /\ day < 31 * (k + 1)
        BY MonthStartBounds, MonthStartInt
    <2> QED BY <2>1
<1>2. ASSUME NEW j \in range, MonthStart(j) <= day, day < MonthStart(j + 1)
      PROVE  j = k
    <2>1. j \in Nat
        BY <1>2
    <2>2. /\ MonthStart(j) \in Int /\ MonthStart(k) \in Int
          /\ MonthStart(j + 1) = MonthStart(j) + MonthLength(j)
          /\ MonthStart(k + 1) = MonthStart(k) + MonthLength(k)
        BY <2>1, MonthStartInt, NextMonthStarts
    <2>3. MonthLength(j) \in 28..31 /\ MonthLength(k) \in 28..31
        BY <2>1, MonthLengthBounds
    <2>4. ~(j < k)
        BY <1>2, <2>1, <2>2, <2>3, MonthsRise
    <2>5. ~(k < j)
        BY <1>2, <2>1, <2>2, <2>3, MonthsRise
    <2> QED BY <2>1, <2>4, <2>5
<1>3. MonthOf(day) = CHOOSE j \in range : MonthStart(j) <= day /\ day < MonthStart(j + 1)
    BY DEF MonthOf
<1> HIDE DEF range
<1> QED
    BY <1>1, <1>2, <1>3

LEMMA MonthOfFits ==
    ASSUME NEW day \in Nat
    PROVE  /\ MonthOf(day) \in Nat
           /\ DayOfMonth(day) \in 1..MonthLength(MonthOf(day))
           /\ day = MonthStart(MonthOf(day)) + DayOfMonth(day) - 1
<1>1. PICK k \in Nat : MonthStart(k) <= day /\ day < MonthStart(k + 1)
    BY InAMonth
<1>2. MonthOf(day) = k
    BY <1>1, MonthOfIs
<1> QED
    BY <1>1, <1>2, NextMonthStarts, MonthLengthBounds, MonthStartInt DEF DayOfMonth

LEMMA DayInMonth ==
    ASSUME NEW k \in Nat, NEW d \in Nat, d \in 1..MonthLength(k)
    PROVE  /\ MonthStart(k) + d - 1 \in Nat
           /\ MonthOf(MonthStart(k) + d - 1) = k
           /\ DayOfMonth(MonthStart(k) + d - 1) = d
<1>1. PICK s \in Nat : s = MonthStart(k) /\ s + d - 1 \in Nat
    BY MonthStartNat
<1>2. MonthOf(s + d - 1) = k
    BY <1>1, MonthOfIs, NextMonthStarts, MonthLengthBounds
<1> QED
    BY <1>1, <1>2 DEF DayOfMonth

-----------------------------------------------------------------------------
(* The iterator                                                            *)

(* The iterator is on a day of the rule, or past the calendar's end.       *)
Standing(rule, first, it) ==
    /\ it \in Iterators /\ it.day \in Nat /\ first <= it.day
    /\ it.day < Horizon =>
         /\ Meets(rule, first, it.day)
         /\ IF ByDay(rule)
            THEN /\ it.index \in 1..Len(rule.byDay)
                 /\ it.current \in Nat /\ it.current % 7 = 0
                 /\ WeekStart(first) <= it.current
                 /\ (it.current - WeekStart(first)) % (7 * rule.interval) = 0
                 /\ it.day = it.current + rule.byDay[it.index]
            ELSE it.current = it.day

(* No day of the rule lies between.                                        *)
NoneBetween(rule, first, low, high) ==
    \A d \in Nat : low <= d /\ d < high /\ d < Horizon => ~Meets(rule, first, d)

(* The day of next is the first of the rule after that of it.             *)
Follows(rule, first, it, next) ==
    /\ Standing(rule, first, next)
    /\ it.day < next.day
    /\ NoneBetween(rule, first, it.day + 1, next.day)

LEMMA RuleTyped ==
    ASSUME NEW rule \in Rules
    PROVE  /\ rule.freq \in {"daily", "weekly", "monthly", "yearly"}
           /\ rule.interval \in Nat /\ rule.interval > 0
           /\ rule.byDay \in Seq(0..6) /\ rule.byMonthDay \in 0..31
           /\ rule.count \in Nat /\ rule.until \in Int
BY DEF Rules

LEMMA OnDayStands ==
    ASSUME NEW rule, NEW first \in Nat, NEW day \in Nat, first <= day, ~ByDay(rule),
           day < Horizon => Meets(rule, first, day)
    PROVE  Standing(rule, first, OnDay(day)) /\ OnDay(day).day = day
BY DEF Standing, OnDay, Iterators

LEMMA Periodic ==
    ASSUME NEW first \in Nat, NEW day \in Nat, NEW step \in Nat, step > 0, first <= day,
           (day - first) % step = 0
    PROVE  /\ (day + step - first) % step = 0
           /\ \A d \in Nat : day < d /\ d < day + step => (d - first) % step # 0
<1>1. PICK a \in Int : a = day - first /\ a % step = 0
    OBVIOUS
<1>2. a + step = day + step - first
    BY <1>1
<1>3. (a + step) % step = 0
    BY <1>1, ModStep
<1>4. ASSUME NEW d \in Nat, day < d, d < day + step PROVE (d - first) % step # 0
    <2>1. PICK c \in 1..(step - 1) : c = d - day
        BY <1>4
    <2>2. a + c = d - first
        BY <1>1, <2>1
    <2>3. (a + c) % step # 0
        BY <1>1, ModBetween
    <2> QED BY <2>2, <2>3
<1> QED BY <1>2, <1>3, <1>4

(* The next day of a rule that recurs every so many days.                  *)
LEMMA EverySoOften ==
    ASSUME NEW rule, NEW first \in Nat, NEW it, ~ByDay(rule), NEW step \in Nat, step > 0,
           \A d \in Nat : Meets(rule, first, d) <=> (d - first) % step = 0,
           Standing(rule, first, it), it.day < Horizon
    PROVE  Follows(rule, first, it, OnDay(it.current + step))
<1>1. PICK day \in Nat : /\ day = it.day /\ it.current = day /\ first <= day
                         /\ (day - first) % step = 0
    BY DEF Standing
<1>2. PICK next \in Nat : next = day + step /\ day < next /\ first <= next
    BY <1>1
<1>3. /\ (next - first) % step = 0
      /\ \A d \in Nat : day < d /\ d < next => (d - first) % step # 0
    <2>1. /\ (day + step - first) % step = 0
          /\ \A d \in Nat : day < d /\ d < day + step => (d - first) % step # 0
        BY <1>1, Periodic
    <2> QED BY <1>2, <2>1
<1>4. Standing(rule, first, OnDay(next)) /\ OnDay(next).day = next
    BY <1>2, <1>3, OnDayStands
<1>5. NoneBetween(rule, first, day + 1, next)
    BY <1>1, <1>3 DEF NoneBetween
<1> QED
    BY <1>1, <1>2, <1>4, <1>5 DEF Follows

LEMMA DailyAdvances ==
    ASSUME NEW rule \in Rules, rule.freq = "daily", NEW first \in Nat, NEW it,
           Standing(rule, first, it), it.day < Horizon
    PROVE  Follows(rule, first, it, Advance(rule, first, it))
<1>1. ~ByDay(rule) /\ \A d \in Nat : Meets(rule, first, d) <=> (d - first) % rule.interval = 0
    BY DEF ByDay, Meets
<1>2. Advance(rule, first, it) = OnDay(it.current + rule.interval)
    BY DEF Advance
<1> QED
    BY <1>1, <1>2, RuleTyped, EverySoOften

LEMMA WeeklyAdvances ==
    ASSUME NEW rule \in Rules, rule.freq = "weekly", ~ByDay(rule), NEW first \in Nat, NEW it,
           Standing(rule, first, it), it.day < Horizon
    PROVE  Follows(rule, first, it, Advance(rule, first, it))
<1>1. \A d \in Nat : Meets(rule, first, d) <=> (d - first) % (7 * rule.interval) = 0
    BY DEF Meets
<1>2. Advance(rule, first, it) = OnDay(it.current + 7 * rule.interval)
    BY DEF Advance
<1>3. 7 * rule.interval \in Nat /\ 7 * rule.interval > 0
    BY RuleTyped
<1> QED
    BY <1>1, <1>2, <1>3, EverySoOften

-----------------------------------------------------------------------------
(* The days of the week, BYDAY                                             *)

(* A day and its week.                                                     *)
LEMMA Weeks ==
    ASSUME NEW day \in Nat
    PROVE  /\ WeekStart(day) \in Nat /\ WeekStart(day) % 7 = 0
           /\ Weekday(day) \in 0..6 /\ day = WeekStart(day) + Weekday(day)
<1>1. PICK q \in Nat, r \in 0..6 : day = 7 * q + r /\ r = day % 7
    <2>1. day \div 7 \in Nat /\ day % 7 \in 0..6 /\ day = 7 * (day \div 7) + (day % 7)
        OBVIOUS
    <2> QED BY <2>1
<1>2. day - r = 7 * q /\ 7 * q \in Nat /\ (7 * q) % 7 = 0
    BY <1>1
<1> QED
    BY <1>1, <1>2 DEF WeekStart, Weekday

LEMMA InAWeek ==
    ASSUME NEW week \in Nat, week % 7 = 0, NEW r \in 0..6
    PROVE  WeekStart(week + r) = week /\ Weekday(week + r) = r
<1>1. PICK q \in Nat : week = 7 * q
    <2>1. week \div 7 \in Nat /\ week = 7 * (week \div 7) + (week % 7)
        OBVIOUS
    <2> QED BY <2>1
<1>2. (7 * q + r) % 7 = r /\ (7 * q + r) - r = 7 * q
    BY Quotient
<1> QED
    BY <1>1, <1>2 DEF WeekStart, Weekday

LEMMA WholeWeeks ==
    ASSUME NEW week \in Nat, week % 7 = 0
    PROVE  \E q \in Nat : week = 7 * q
<1>1. week \div 7 \in Nat /\ week = 7 * (week \div 7) + (week % 7)
    OBVIOUS
<1> QED BY <1>1

(* Days listed in their order.                                             *)
DaysRise(days) == \A i, j \in DOMAIN days : i < j => days[i] < days[j]

(* The weeks of the rule: every so many from the first one.                *)
RuleWeek(rule, first, week) ==
    /\ week \in Nat /\ week % 7 = 0 /\ WeekStart(first) <= week
    /\ (week - WeekStart(first)) % (7 * rule.interval) = 0

LEMMA MeetsByDay ==
    ASSUME NEW rule \in Rules, ByDay(rule), NEW first \in Nat, NEW d \in Nat
    PROVE  Meets(rule, first, d) <=>
             /\ \E i \in 1..Len(rule.byDay) : Weekday(d) = rule.byDay[i]
             /\ (WeekStart(d) - WeekStart(first)) % (7 * rule.interval) = 0
<1>1. rule.byDay \in Seq(0..6)
    BY RuleTyped
<1>2. Weekday(d) \in Range(rule.byDay) <=> \E i \in 1..Len(rule.byDay) : Weekday(d) = rule.byDay[i]
    BY <1>1 DEF Range
<1>3. Meets(rule, first, d) <=> /\ Weekday(d) \in Range(rule.byDay)
                            /\ (WeekStart(d) - WeekStart(first)) % (7 * rule.interval) = 0
    BY DEF Meets, ByDay
<1> QED BY <1>2, <1>3

LEMMA DayOfRuleWeek ==
    ASSUME NEW rule \in Rules, ByDay(rule), NEW first \in Nat, NEW week,
           RuleWeek(rule, first, week), NEW i \in 1..Len(rule.byDay)
    PROVE  /\ rule.byDay[i] \in 0..6 /\ week + rule.byDay[i] \in Nat
           /\ Meets(rule, first, week + rule.byDay[i])
<1>1. rule.byDay[i] \in 0..6
    BY RuleTyped
<1>2. PICK r \in 0..6 : r = rule.byDay[i]
    BY <1>1
<1>3. WeekStart(week + r) = week /\ Weekday(week + r) = r /\ week + r \in Nat
    BY InAWeek, SMTT(30) DEF RuleWeek
<1> QED
    BY <1>2, <1>3, MeetsByDay DEF RuleWeek

(* That day is in no other week.                                           *)
LEMMA SameWeek ==
    ASSUME NEW f \in Nat, NEW n \in Nat, n > 0, NEW week \in Nat, week % 7 = 0,
           (week - f) % n = 0, NEW w \in Nat, w % 7 = 0, (w - f) % n = 0,
           NEW r \in 0..6, week <= w + r, w + r < week + n
    PROVE  w = week
<1>1. week <= w
    <2>1. PICK p \in Nat, q \in Nat : week = 7 * p /\ w = 7 * q
        BY WholeWeeks
    <2> QED BY <2>1
<1>2. SUFFICES ASSUME w # week PROVE FALSE
    OBVIOUS
<1>3. PICK a \in Int, c \in 1..(n - 1) : a = week - f /\ c = w - week
    BY <1>1, <1>2
<1>4. a + c = w - f /\ a % n = 0
    BY <1>3
<1>5. (a + c) % n # 0
    BY <1>4, ModBetween
<1> QED BY <1>4, <1>5

LEMMA MeetsInRuleWeek ==
    ASSUME NEW rule \in Rules, ByDay(rule), NEW first \in Nat, NEW week \in Nat,
           RuleWeek(rule, first, week), NEW d \in Nat, Meets(rule, first, d),
           NEW step \in Nat, step = 7 * rule.interval, week <= d, d < week + step
    PROVE  \E i \in 1..Len(rule.byDay) : d = week + rule.byDay[i]
<1>1. PICK w \in Nat, r \in 0..6 : /\ w = WeekStart(d) /\ r = Weekday(d) /\ d = w + r
                                   /\ w % 7 = 0
    BY Weeks
<1>2. PICK i \in 1..Len(rule.byDay) : r = rule.byDay[i]
    BY <1>1, MeetsByDay
<1>3. PICK f \in Nat : f = WeekStart(first)
    BY Weeks
<1>4. (w - f) % step = 0
    BY <1>1, <1>3, MeetsByDay
<1>5. (week - f) % step = 0 /\ week % 7 = 0
    BY <1>3 DEF RuleWeek
<1>6. step > 0
    BY RuleTyped
<1>7. week <= w + r /\ w + r < week + step /\ w % 7 = 0
    BY <1>1
<1>8. w = week
    BY ONLY <1>4, <1>5, <1>6, <1>7, SameWeek,
            f \in Nat, w \in Nat, r \in 0..6, week \in Nat, step \in Nat
<1> QED BY <1>1, <1>2, <1>8

LEMMA NextRuleWeek ==
    ASSUME NEW rule \in Rules, NEW first \in Nat, NEW week \in Nat, RuleWeek(rule, first, week)
    PROVE  /\ RuleWeek(rule, first, week + 7 * rule.interval)
           /\ week + 7 <= week + 7 * rule.interval
<1>1. PICK f \in Nat, n \in Nat : f = WeekStart(first) /\ n = 7 * rule.interval /\ n >= 7
    <2>1. WeekStart(first) \in Nat
        BY Weeks
    <2>2. 7 * rule.interval \in Nat /\ 7 * rule.interval >= 7
        BY RuleTyped
    <2> QED BY <2>1, <2>2
<1>2. PICK a \in Int : a = week - f /\ a % n = 0 /\ a + n = week + n - f
    BY <1>1 DEF RuleWeek
<1>3. (a + n) % n = 0
    BY <1>1, <1>2, ModStep
<1>4. (week + n) % 7 = 0
    <2>1. PICK q \in Nat : week = 7 * q
        BY WholeWeeks DEF RuleWeek
    <2>2. week + n = 7 * (q + rule.interval) + 0 /\ q + rule.interval \in Int
        BY <2>1, <1>1, RuleTyped
    <2> QED BY <2>2, Quotient
<1>5. week + n \in Nat /\ f <= week + n /\ week + 7 <= week + n /\ (week + n - f) % n = 0
    BY <1>1, <1>2, <1>3 DEF RuleWeek
<1> QED
    BY <1>1, <1>4, <1>5 DEF RuleWeek

LEMMA StandsByDay ==
    ASSUME NEW rule \in Rules, ByDay(rule), NEW first \in Nat, NEW week,
           RuleWeek(rule, first, week), NEW i \in 1..Len(rule.byDay),
           first <= week + rule.byDay[i],
           NEW it, it = [current |-> week, index |-> i, day |-> week + rule.byDay[i]]
    PROVE  Standing(rule, first, it)
<1>1. /\ week + rule.byDay[i] \in Nat /\ Meets(rule, first, week + rule.byDay[i])
    BY DayOfRuleWeek
<1> QED
    BY <1>1 DEF Standing, Iterators, RuleWeek

LEMMA Rising ==
    ASSUME NEW N \in Nat, NEW off \in [1..N -> 0..6],
           \A i, j \in 1..N : i < j => off[i] < off[j],
           NEW i \in 1..N, NEW j \in 1..N
    PROVE  i <= j <=> off[i] <= off[j]
OBVIOUS

(* What FindNextByDay finds: the first day of the rule from the place in   *)
(* the week on that is not before the first day.                           *)
LEMMA FindsNext ==
    ASSUME NEW rule \in Rules, ByDay(rule), DaysRise(rule.byDay), NEW first \in Nat,
           NEW week \in Nat, RuleWeek(rule, first, week), NEW from \in 1..Len(rule.byDay),
           NEW next, next = FindNextByDay(rule, first, week, from)
    PROVE  /\ Standing(rule, first, next)
           /\ week + rule.byDay[from] <= next.day
           /\ \A d \in Nat : first <= d /\ week + rule.byDay[from] <= d /\ d < next.day
                            => ~Meets(rule, first, d)
<1>1. rule.byDay \in Seq(0..6) /\ Len(rule.byDay) \in Nat
    BY RuleTyped
<1>2. PICK N \in Nat : N = Len(rule.byDay)
    BY <1>1
<1>3. PICK off \in [1..N -> 0..6] : off = rule.byDay
    <2>1. rule.byDay \in [1..Len(rule.byDay) -> 0..6]
        BY <1>1
    <2> QED BY <1>2, <2>1
<1>4. \A i, j \in 1..N : i < j => off[i] < off[j]
    BY <1>1, <1>2, <1>3 DEF DaysRise
<1>5. from \in 1..N /\ 1 \in 1..N
    BY <1>2
<1>6. \A i, j \in 1..N : i <= j <=> off[i] <= off[j]
    BY <1>4, Rising
<1>7. PICK a \in 0..6, e \in 0..6 : a = off[from] /\ e = off[1]
    BY <1>5
<1>8. PICK step \in Nat : step = 7 * rule.interval /\ 7 <= step
    <2>1. 7 * rule.interval \in Nat /\ 7 * rule.interval >= 7
        BY RuleTyped
    <2> QED BY <2>1
<1>9. PICK later \in Nat : later = week + step /\ RuleWeek(rule, first, later)
    <2>1. RuleWeek(rule, first, week + step) /\ week + step \in Nat
        BY <1>8, NextRuleWeek
    <2> QED BY <2>1
<1>10. first < week + 7
    <2>1. PICK w \in Nat, r \in 0..6 : w = WeekStart(first) /\ first = w + r
        BY Weeks
    <2>2. w <= week
        BY <2>1 DEF RuleWeek
    <2> QED BY <2>1, <2>2
<1>11. ASSUME NEW d \in Nat, Meets(rule, first, d), NEW w \in Nat,
              RuleWeek(rule, first, w), w <= d, d < w + step
       PROVE  \E i \in 1..N, c \in 0..6 : c = off[i] /\ d = w + c
    <2>1. PICK i \in 1..N : d = w + off[i]
        BY <1>2, <1>3, <1>8, <1>11, MeetsInRuleWeek, SMTT(30)
    <2>2. off[i] \in 0..6
        OBVIOUS
    <2> QED BY <2>1, <2>2
<1>12. rule.byDay[from] = a
    BY <1>3, <1>7
<1> DEFINE here == {i \in from..N : week + off[i] >= first}
<1>13. CASE here # {}
    <2>1. here \subseteq Nat
        OBVIOUS
    <2>2. PICK m \in here : \A i \in here : m <= i
        <3> HIDE DEF here
        <3> QED BY <1>13, <2>1, Least
    <2>3. Min(here) = m
        <3>1. \A x, y \in here : x <= y /\ y <= x => x = y
            BY <2>1
        <3>2. Min(here) = CHOOSE x \in here : \A y \in here : x <= y
            BY DEF Min
        <3> HIDE DEF here
        <3> QED BY <2>2, <3>1, <3>2
    <2>4. m \in 1..N /\ from <= m /\ week + off[m] >= first
        BY <1>5
    <2>5. PICK b \in 0..6 : b = off[m]
        BY <2>4
    <2>6. next = [current |-> week, index |-> m, day |-> week + b] /\ next.day = week + b
        BY <1>2, <1>3, <1>13, <2>3, <2>5 DEF FindNextByDay
    <2>7. Standing(rule, first, next)
        BY <1>2, <1>3, <2>4, <2>5, <2>6, StandsByDay
    <2>8. a <= b
        BY <1>5, <1>6, <1>7, <2>4, <2>5
    <2>9. ASSUME NEW d \in Nat, first <= d, week + a <= d, d < week + b, Meets(rule, first, d)
          PROVE  FALSE
        <3>1. week <= d /\ d < week + step
            BY ONLY <1>8, <2>9, week \in Nat
        <3>2. PICK i \in 1..N, c \in 0..6 : c = off[i] /\ d = week + c
            BY <1>11, <2>9, <3>1
        <3>3. a <= c /\ c < b
            BY <2>9, <3>2
        <3>4. from <= i
            BY <1>5, <1>6, <1>7, <3>2, <3>3
        <3>5. i \in here
            BY <2>9, <3>2, <3>4
        <3>6. m <= i
            BY <2>2, <3>5
        <3>7. b <= c
            BY <1>6, <2>4, <2>5, <3>2, <3>6
        <3> QED BY <3>3, <3>7
    <2>10. week + a <= week + b
        BY <2>8
    <2> QED
        BY <1>12, <2>6, <2>7, <2>9, <2>10
<1>14. CASE here = {}
    <2>1. /\ next = [current |-> later, index |-> 1, day |-> later + e]
          /\ next.day = later + e
        BY <1>2, <1>3, <1>7, <1>8, <1>9, <1>14 DEF FindNextByDay
    <2>2. first <= later + e /\ week + a <= later + e
        <3>1. week + 7 <= later
            BY <1>8, <1>9
        <3> QED BY <1>10, <3>1
    <2>3. Standing(rule, first, next)
        BY <1>2, <1>3, <1>5, <1>7, <1>9, <2>1, <2>2, StandsByDay
    <2>4. ASSUME NEW d \in Nat, first <= d, week + a <= d, d < later + e,
                 Meets(rule, first, d)
          PROVE  FALSE
        <3>1. CASE d < later
            <4>1. week <= d /\ d < week + step
                BY <1>9, <2>4, <3>1
            <4>2. PICK i \in 1..N, c \in 0..6 : c = off[i] /\ d = week + c
                BY <1>11, <2>4, <4>1
            <4>3. a <= c
                BY <2>4, <4>2
            <4>4. from <= i
                BY <1>5, <1>6, <1>7, <4>2, <4>3
            <4>5. i \in here
                BY <2>4, <4>2, <4>4
            <4> QED BY <1>14, <4>5
        <3>2. CASE later <= d
            <4>1. d < later + step
                BY <1>8, <2>4
            <4>2. PICK i \in 1..N, c \in 0..6 : c = off[i] /\ d = later + c
                BY <1>9, <1>11, <2>4, <3>2, <4>1
            <4>3. 1 <= i
                OBVIOUS
            <4>4. e <= c
                BY <1>5, <1>6, <1>7, <4>2, <4>3
            <4> QED BY <2>4, <4>2, <4>4
        <3> QED BY <3>1, <3>2
    <2> QED
        BY <1>12, <2>1, <2>2, <2>3, <2>4
<1> QED
    BY <1>13, <1>14

LEMMA ByDayAdvances ==
    ASSUME NEW rule \in Rules, ByDay(rule), DaysRise(rule.byDay), NEW first \in Nat, NEW it,
           Standing(rule, first, it), it.day < Horizon
    PROVE  Follows(rule, first, it, Advance(rule, first, it))
<1>1. PICK week \in Nat : week = it.current /\ RuleWeek(rule, first, week)
    BY DEF Standing, RuleWeek
<1>2. PICK N \in Nat : N = Len(rule.byDay)
    BY RuleTyped
<1>3. PICK i \in 1..N, b \in 0..6 : /\ i = it.index /\ b = rule.byDay[i]
                                    /\ it.day = week + b
    <2>1. it.index \in 1..N /\ it.day = week + rule.byDay[it.index]
        BY <1>1, <1>2 DEF Standing
    <2>2. rule.byDay[it.index] \in 0..6
        BY <1>2, <2>1, RuleTyped
    <2> QED BY <2>1, <2>2
<1>4. PICK day \in Nat : day = it.day /\ first <= day /\ day = week + b
    BY <1>3 DEF Standing
<1>5. \A j \in 1..N : rule.byDay[j] \in 0..6 /\ (i < j => b < rule.byDay[j])
                                          /\ (j < i => rule.byDay[j] < b)
    BY <1>2, <1>3, RuleTyped DEF DaysRise
<1>6. Advance(rule, first, it) = AdvanceWeeklyByDay(rule, first, it)
    BY DEF Advance, ByDay
<1>7. PICK next : next = Advance(rule, first, it)
    OBVIOUS
<1>8. CASE i < N
    <2>1. PICK c \in 0..6 : c = rule.byDay[i + 1] /\ b < c /\ i + 1 \in 1..N
        BY <1>3, <1>5, <1>8
    <2>2. next = FindNextByDay(rule, first, week, i + 1)
        BY <1>1, <1>2, <1>3, <1>6, <1>7, <1>8 DEF AdvanceWeeklyByDay
    <2>3. /\ Standing(rule, first, next)
          /\ week + c <= next.day
          /\ \A d \in Nat : first <= d /\ week + c <= d /\ d < next.day => ~Meets(rule, first, d)
        BY <1>1, <1>2, <2>1, <2>2, FindsNext
    <2>4. PICK z \in Nat : z = next.day
        BY <2>3 DEF Standing
    <2>5. ASSUME NEW d \in Nat, day + 1 <= d, d < z, Meets(rule, first, d)
          PROVE  FALSE
        <3>1. d < week + c
            BY <1>4, <2>3, <2>4, <2>5
        <3>2. PICK step \in Nat : step = 7 * rule.interval /\ 7 <= step
            <4>1. 7 * rule.interval \in Nat /\ 7 * rule.interval >= 7
                BY RuleTyped
            <4> QED BY <4>1
        <3>3. week <= d /\ d < week + step
            BY <1>4, <2>5, <3>1, <3>2
        <3>4. PICK j \in 1..N : d = week + rule.byDay[j]
            <4>1. \E j \in 1..Len(rule.byDay) : d = week + rule.byDay[j]
                BY <1>1, <2>5, <3>2, <3>3, MeetsInRuleWeek
            <4> QED BY <1>2, <4>1
        <3>5. PICK x \in 0..6 : x = rule.byDay[j] /\ b < x /\ x < c
            <4>1. PICK x \in 0..6 : x = rule.byDay[j] /\ d = week + x
                BY <1>5, <3>4
            <4> QED BY <1>4, <2>5, <3>1, <4>1
        <3>6. i < j
            <4>1. j = i \/ j < i \/ i < j
                OBVIOUS
            <4> QED BY <1>3, <1>5, <3>5, <4>1
        <3>7. j = i + 1 \/ i + 1 < j
            BY <3>6
        <3>8. rule.byDay \in Seq(0..6)
            BY RuleTyped
        <3>9. i + 1 < j => rule.byDay[i + 1] < rule.byDay[j]
            BY <1>2, <2>1, <3>8 DEF DaysRise
        <3> QED BY <2>1, <3>5, <3>7, <3>9
    <2>6. it.day < next.day
        BY <1>4, <2>1, <2>3, <2>4
    <2> QED
        BY <1>4, <1>7, <2>3, <2>4, <2>5, <2>6 DEF Follows, NoneBetween
<1>9. CASE i = N
    <2>1. PICK step \in Nat : step = 7 * rule.interval /\ 7 <= step
        <3>1. 7 * rule.interval \in Nat /\ 7 * rule.interval >= 7
            BY RuleTyped
        <3> QED BY <3>1
    <2>2. PICK later \in Nat : later = week + step /\ RuleWeek(rule, first, later)
        <3>1. RuleWeek(rule, first, week + step) /\ week + step \in Nat
            BY <1>1, <2>1, NextRuleWeek
        <3> QED BY <3>1
    <2>3. PICK e \in 0..6 : e = rule.byDay[1] /\ 1 \in 1..N
        BY <1>3, <1>5
    <2>4. next = FindNextByDay(rule, first, later, 1)
        BY <1>1, <1>2, <1>3, <1>6, <1>7, <1>9, <2>1, <2>2 DEF AdvanceWeeklyByDay
    <2>5. /\ Standing(rule, first, next)
          /\ later + e <= next.day
          /\ \A d \in Nat : first <= d /\ later + e <= d /\ d < next.day => ~Meets(rule, first, d)
        BY <1>2, <2>2, <2>3, <2>4, FindsNext
    <2>6. PICK z \in Nat : z = next.day
        BY <2>5 DEF Standing
    <2>7. ASSUME NEW d \in Nat, Meets(rule, first, d), NEW w \in Nat,
                 RuleWeek(rule, first, w), w <= d, d < w + step
          PROVE  \E j \in 1..N : d = w + rule.byDay[j]
        <3>1. \E j \in 1..Len(rule.byDay) : d = w + rule.byDay[j]
            BY <2>1, <2>7, MeetsInRuleWeek
        <3> QED BY <1>2, <3>1
    <2>8. ASSUME NEW d \in Nat, day + 1 <= d, d < z, Meets(rule, first, d)
          PROVE  FALSE
        <3>1. d < later + e
            BY <1>4, <2>5, <2>6, <2>8
        <3>2. PICK w \in Nat, j \in 1..N : /\ w \in {week, later}
                                         /\ d = w + rule.byDay[j]
            <4>1. CASE d < later
                <5>1. week <= d /\ d < week + step
                    BY <1>4, <2>2, <2>8, <4>1
                <5> QED BY <1>1, <2>8, <2>7, <5>1
            <4>2. CASE later <= d
                <5>1. d < later + step
                    BY <2>1, <3>1
                <5> QED BY <2>2, <2>8, <2>7, <4>2, <5>1
            <4> QED BY <4>1, <4>2
        <3>3. PICK x \in 0..6 : x = rule.byDay[j] /\ d = w + x
            BY <1>5, <3>2
        <3>4. x <= b
            <4>1. j = i \/ j < i
                BY <1>9
            <4> QED BY <1>3, <1>5, <3>3, <4>1
        <3>5. e <= x
            <4>1. j = 1 \/ 1 < j
                OBVIOUS
            <4>2. rule.byDay \in Seq(0..6)
                BY RuleTyped
            <4>3. 1 < j => rule.byDay[1] < rule.byDay[j]
                BY <1>2, <2>3, <4>2 DEF DaysRise
            <4> QED BY <2>3, <3>3, <4>1, <4>3
        <3> QED BY <1>4, <2>8, <3>1, <3>2, <3>3, <3>4, <3>5
    <2>9. day < z
        BY <1>4, <2>1, <2>2, <2>5, <2>6
    <2> QED
        BY <1>4, <1>7, <2>5, <2>6, <2>8, <2>9 DEF Follows, NoneBetween
<1> QED
    BY <1>3, <1>8, <1>9

(* The days of the first week before the first day are left out.           *)
LEMMA ByDayStarts ==
    ASSUME NEW rule \in Rules, ByDay(rule), DaysRise(rule.byDay), NEW first \in Nat,
           NEW it, it = StartOf(rule, first)
    PROVE  Standing(rule, first, it) /\ NoneBetween(rule, first, first, it.day)
<1>1. PICK week \in Nat, r \in 0..6 : week = WeekStart(first) /\ first = week + r /\ week % 7 = 0
    BY Weeks
<1>2. RuleWeek(rule, first, week)
    <2>1. PICK step \in Nat : step = 7 * rule.interval /\ step > 0
        <3>1. 7 * rule.interval \in Nat /\ 7 * rule.interval > 0
            BY RuleTyped
        <3> QED BY <3>1
    <2>2. (week - week) % step = 0
        BY <2>1
    <2> QED BY <1>1, <2>1, <2>2 DEF RuleWeek
<1>3. it = FindNextByDay(rule, first, week, 1)
    BY <1>1 DEF StartOf
<1>4. PICK N \in Nat : N = Len(rule.byDay) /\ 1 \in 1..N
    <2>1. Len(rule.byDay) \in Nat /\ Len(rule.byDay) # 0
        BY RuleTyped DEF ByDay
    <2> QED BY <2>1
<1>5. \A j \in 1..N : rule.byDay[j] \in 0..6 /\ (1 < j => rule.byDay[1] < rule.byDay[j])
    BY <1>4, RuleTyped DEF DaysRise
<1>6. PICK e \in 0..6 : e = rule.byDay[1]
    BY <1>4, <1>5
<1>7. /\ Standing(rule, first, it)
      /\ \A d \in Nat : first <= d /\ week + e <= d /\ d < it.day => ~Meets(rule, first, d)
    BY <1>2, <1>3, <1>4, <1>6, FindsNext
<1>8. PICK z \in Nat : z = it.day
    BY <1>7 DEF Standing
<1>9. ASSUME NEW d \in Nat, first <= d, d < z, Meets(rule, first, d)
      PROVE  FALSE
    <2>1. d < week + e
        BY <1>7, <1>8, <1>9
    <2>2. PICK step \in Nat : step = 7 * rule.interval /\ 7 <= step
        <3>1. 7 * rule.interval \in Nat /\ 7 * rule.interval >= 7
            BY RuleTyped
        <3> QED BY <3>1
    <2>3. week <= d /\ d < week + step
        <3>1. week <= first
            BY <1>1
        <3> QED BY <1>6, <1>9, <2>1, <2>2, <3>1
    <2>4. PICK j \in 1..N : d = week + rule.byDay[j]
        <3>1. \E j \in 1..Len(rule.byDay) : d = week + rule.byDay[j]
            BY <1>2, <1>9, <2>2, <2>3, MeetsInRuleWeek
        <3> QED BY <1>4, <3>1
    <2>5. PICK x \in 0..6 : x = rule.byDay[j] /\ d = week + x
        BY <1>5, <2>4
    <2>6. j = 1 \/ 1 < j
        OBVIOUS
    <2> QED BY <1>5, <1>6, <2>1, <2>5, <2>6
<1> QED
    BY <1>7, <1>8, <1>9 DEF NoneBetween

-----------------------------------------------------------------------------
(* Months                                                                  *)

(* A function that calls itself for greater arguments exists.              *)
Recursive(f, stop, value, next) ==
    f = [x \in Nat |-> IF x \in stop THEN value[x] ELSE f[next[x]]]

LEMMA RecursionUp ==
    ASSUME NEW N \in Nat, NEW stop, NEW value, NEW next \in [Nat -> Nat],
           \A x \in Nat : x < N /\ x \notin stop => next[x] > x,
           \A x \in Nat : x >= N => x \in stop
    PROVE  \E f : Recursive(f, stop, value, next)
<1> DEFINE Right(g, k) == \A x \in Nat :
                x + k >= N => g[x] = IF x \in stop THEN value[x] ELSE g[next[x]]
           S == {k \in Nat : \E g : Right(g, k)}
<1>1. 0 \in S
    <2>1. Right(value, 0)
        OBVIOUS
    <2> QED BY <2>1
<1>2. ASSUME NEW k \in Nat, k \in S PROVE k + 1 \in S
    <2>1. PICK g : Right(g, k)
        BY <1>2
    <2> DEFINE h == [x \in Nat |-> IF x + k >= N THEN g[x]
                                   ELSE IF x \in stop THEN value[x] ELSE g[next[x]]]
    <2>2. ASSUME NEW x \in Nat, x + (k + 1) >= N
          PROVE  h[x] = IF x \in stop THEN value[x] ELSE h[next[x]]
        <3>1. h[x] = IF x + k >= N THEN g[x]
                     ELSE IF x \in stop THEN value[x] ELSE g[next[x]]
            OBVIOUS
        <3>2. CASE x \in stop
            BY <2>1, <3>1, <3>2
        <3>3. CASE x \notin stop
            <4>1. PICK y \in Nat : y = next[x] /\ y > x
                BY <3>3
            <4>2. y + k >= N
                BY <2>2, <4>1
            <4>3. h[y] = g[y]
                BY <4>2
            <4>4. h[x] = g[y]
                BY <2>1, <3>1, <3>3, <4>1
            <4> QED BY <3>3, <4>1, <4>3, <4>4
        <3> QED BY <3>2, <3>3
    <2> HIDE DEF h
    <2>3. Right(h, k + 1)
        BY <2>2
    <2> QED BY <2>3
<1> HIDE DEF S
<1>3. \A k \in Nat : k \in S
    BY <1>1, <1>2, Induction
<1>4. PICK g : Right(g, N)
    BY <1>3 DEF S
<1> DEFINE f == [x \in Nat |-> g[x]]
<1>5. \A x \in Nat : f[x] = IF x \in stop THEN value[x] ELSE f[next[x]]
    BY <1>4
<1>6. f = [x \in Nat |-> f[x]]
    OBVIOUS
<1> HIDE DEF f
<1>7. f = [x \in Nat |-> IF x \in stop THEN value[x] ELSE f[next[x]]]
    BY <1>5, <1>6
<1> QED BY <1>7 DEF Recursive

LEMMA DayParts ==
    ASSUME NEW day \in Nat
    PROVE  \E m \in Nat, s \in Nat, len \in 28..31 : \E d \in 1..len :
             /\ m = MonthOf(day) /\ s = MonthStart(m) /\ len = MonthLength(m)
             /\ d = DayOfMonth(day) /\ day = s + d - 1
<1>1. PICK m \in Nat : m = MonthOf(day)
    BY MonthOfFits
<1>2. PICK s \in Nat : s = MonthStart(m)
    BY MonthStartNat
<1>3. PICK len \in 28..31 : len = MonthLength(m)
    BY MonthLengthBounds
<1>4. PICK d \in 1..len : d = DayOfMonth(day)
    BY <1>1, <1>3, MonthOfFits
<1>5. day = s + d - 1
    BY <1>1, <1>2, <1>4, MonthOfFits
<1> QED BY <1>1, <1>2, <1>3, <1>4, <1>5

LEMMA MonthOrder ==
    ASSUME NEW day \in Nat, NEW k \in Nat
    PROVE  MonthOf(day) < k <=> day < MonthStart(k)
<1>1. PICK m \in Nat, s \in Nat, len \in 28..31 : \E d \in 1..len :
        /\ m = MonthOf(day) /\ s = MonthStart(m) /\ len = MonthLength(m)
        /\ d = DayOfMonth(day) /\ day = s + d - 1
    BY DayParts
<1>2. PICK d \in 1..len : /\ m = MonthOf(day) /\ s = MonthStart(m) /\ len = MonthLength(m)
                          /\ day = s + d - 1
    BY <1>1
<1>3. PICK t \in Nat : t = MonthStart(k)
    BY MonthStartNat
<1>4. ASSUME m < k PROVE day < t
    <2>1. s + len <= t
        BY <1>1, <1>3, <1>4, MonthsRise
    <2> QED BY <1>2, <2>1
<1>5. ASSUME k <= m PROVE t <= day
    <2>1. t <= s
        <3>1. CASE k = m
            BY <1>3, <1>2, <3>1
        <3>2. CASE k < m
            <4>1. PICK n \in 28..31 : n = MonthLength(k) /\ t + n <= s
                BY <1>1, <1>3, <3>2, MonthsRise, MonthLengthBounds
            <4> QED BY <4>1
        <3> QED BY <1>5, <3>1, <3>2
    <2> QED BY <1>2, <2>1
<1> QED BY <1>1, <1>3, <1>4, <1>5

LEMMA HorizonIs ==
    /\ Horizon \in Nat /\ MaxMonths \in Nat
    /\ \A day \in Nat : day < Horizon <=> MonthOf(day) < MaxMonths
<1>1. MaxMonths \in Nat
    BY RecurrenceAssumption
<1> QED
    BY <1>1, MonthStartNat, MonthOrder DEF Horizon

LEMMA DateFits ==
    ASSUME NEW k \in Nat, k < MaxMonths, NEW d \in Nat, d \in 1..MonthLength(k),
           NEW date, date = Date(k, d)
    PROVE  /\ date \in Nat /\ date < Horizon /\ date = MonthStart(k) + d - 1
           /\ MonthOf(date) = k /\ DayOfMonth(date) = d
<1>1. date = MonthStart(k) + d - 1
    BY HorizonIs DEF Date
<1>2. date \in Nat /\ MonthOf(date) = k /\ DayOfMonth(date) = d
    BY <1>1, DayInMonth
<1> QED
    BY <1>1, <1>2, HorizonIs

(* AddDate moves on, whatever the day.                                     *)
LEMMA AddMonthsGrows ==
    ASSUME NEW day \in Nat, NEW n \in Nat, n > 0, NEW next, next = AddMonths(day, n)
    PROVE  next \in Nat /\ (day < Horizon => day < next)
<1>1. PICK m \in Nat, s \in Nat, len \in 28..31 : \E d \in 1..len :
        /\ m = MonthOf(day) /\ s = MonthStart(m) /\ len = MonthLength(m)
        /\ d = DayOfMonth(day) /\ day = s + d - 1
    BY DayParts
<1>2. PICK d \in 1..len : d = DayOfMonth(day) /\ day = s + d - 1
    BY <1>1
<1>3. next = IF m + n >= MaxMonths THEN Horizon ELSE MonthStart(m + n) + d - 1
    BY <1>1, <1>2 DEF AddMonths, Date
<1>4. PICK t \in Nat : t = MonthStart(m + n)
    BY MonthStartNat
<1>5. s < t
    <2>1. m < m + n /\ m + n \in Nat
        OBVIOUS
    <2>2. s + len <= t
        BY <1>1, <1>4, <2>1, MonthsRise
    <2> QED BY <2>2
<1>6. day < t + d - 1 /\ t + d - 1 \in Nat
    BY <1>5, <1>2
<1>7. next = Horizon \/ next = t + d - 1
    BY <1>3, <1>4
<1> QED
    BY <1>6, <1>7, HorizonIs

(* No day B of the month lies between one and the next, n months later.    *)
LEMMA NoneBeforeTheMonth ==
    ASSUME NEW f \in Nat, NEW k \in Nat, NEW J \in Nat, J > 0, NEW B \in Nat,
           (k - f) % J = 0, NEW d \in Nat, MonthOf(d) > k, (MonthOf(d) - f) % J = 0,
           DayOfMonth(d) = B
    PROVE  MonthStart(k + J) + B - 1 <= d
<1>1. PICK m \in Nat, s \in Nat : m = MonthOf(d) /\ s = MonthStart(m) /\ d = s + B - 1 /\ k < m
    BY MonthOfFits, MonthStartNat
<1>2. PICK a \in Int : a = k - f /\ a % J = 0
    BY <1>1
<1>3. k + J <= m
    <2>1. SUFFICES ASSUME m < k + J PROVE FALSE
        BY <1>1
    <2>2. PICK c \in 1..(J - 1) : c = m - k
        BY <1>1, <2>1
    <2>3. a + c = m - f
        BY <1>2, <2>2
    <2>4. (a + c) % J # 0
        BY <1>2, ModBetween
    <2> QED BY <1>1, <2>3, <2>4
<1>4. PICK t \in Nat : t = MonthStart(k + J)
    BY MonthStartNat
<1>5. t <= s
    <2>1. CASE k + J = m
        BY <1>1, <1>4, <2>1
    <2>2. CASE k + J < m
        <3>1. PICK len \in 28..31 : len = MonthLength(k + J)
            BY MonthLengthBounds
        <3>2. t + len <= s
            BY <1>1, <1>4, <2>2, <3>1, MonthsRise
        <3> QED BY <3>1, <3>2
    <2> QED BY <1>3, <2>1, <2>2
<1> QED BY <1>1, <1>4, <1>5

LEMMA MonthsLater ==
    ASSUME NEW k \in Nat, NEW f \in Nat, NEW J \in Nat, J > 0, (k - f) % J = 0
    PROVE  (k + J - f) % J = 0
<1>1. PICK a \in Int : a = k - f
    OBVIOUS
<1>2. a + J = k + J - f /\ (a + J) % J = a % J
    BY <1>1, ModStep
<1> QED BY <1>1, <1>2

-----------------------------------------------------------------------------
(* The skip of AdvanceMonthly over the months without the day              *)

LEMMA AfterAShortMonth ==
    ASSUME NEW k \in Nat, MonthLength(k) < 31
    PROVE  MonthLength(k + 1) = 31
<1>1. PICK m \in 0..11 : m = k % 12 /\ (m # 11 => (k + 1) % 12 = m + 1)
    BY MonthParts
<1>2. m \in {1, 3, 5, 8, 10}
    BY <1>1 DEF MonthLength
<1>3. (k + 1) % 12 = m + 1 /\ m + 1 \in {2, 4, 6, 9, 11}
    BY <1>1, <1>2
<1>4. PICK n : n = (k + 1) % 12 /\ n \in {2, 4, 6, 9, 11}
    BY <1>3
<1> QED
    BY <1>4 DEF MonthLength

LEMMA MonthDayIs ==
    ASSUME NEW rule \in Rules, NEW first \in Nat
    PROVE  MonthDay(rule, first) \in 1..31
<1>1. DayOfMonth(first) \in 1..31
    BY DayParts
<1>2. rule.byMonthDay \in 0..31
    BY RuleTyped
<1> QED
    BY <1>1, <1>2 DEF MonthDay

LEMMA MeetsMonthly ==
    ASSUME NEW rule \in Rules, rule.freq = "monthly", NEW first \in Nat, NEW d \in Nat
    PROVE  Meets(rule, first, d) <=>
             \/ d = first
             \/ /\ MonthOf(first) < MonthOf(d)
                /\ (MonthOf(d) - MonthOf(first)) % rule.interval = 0
                /\ DayOfMonth(d) = MonthDay(rule, first)
<1>1. PICK f \in Nat, m \in Nat : f = MonthOf(first) /\ m = MonthOf(d)
    BY MonthOfFits
<1>2. m - f > 0 <=> f < m
    OBVIOUS
<1>3. Meets(rule, first, d) <=>
             \/ d = first
             \/ /\ m - f > 0
                /\ (m - f) % rule.interval = 0
                /\ DayOfMonth(d) = MonthDay(rule, first)
    BY <1>1 DEF Meets, ByDay
<1> QED BY <1>1, <1>2, <1>3

(* The local function of AdvanceMonthly, for the day B of the month.       *)
SkipsBy(s, B, n) ==
    s = [next \in Nat |->
            IF next >= Horizon THEN Horizon
            ELSE IF B <= MonthLength(MonthOf(next)) THEN Date(MonthOf(next), B)
            ELSE s[AddMonths(next, n)]]

LEMMA SkipExists ==
    ASSUME NEW B \in Nat, NEW n \in Nat, n > 0
    PROVE  \E s : SkipsBy(s, B, n)
<1> DEFINE stop == {x \in Nat : x >= Horizon \/ B <= MonthLength(MonthOf(x))}
           value == [x \in Nat |-> IF x >= Horizon THEN Horizon ELSE Date(MonthOf(x), B)]
           next == [x \in Nat |-> AddMonths(x, n)]
<1>1. next \in [Nat -> Nat]
    BY AddMonthsGrows
<1>2. \A x \in Nat : x < Horizon /\ x \notin stop => next[x] > x
    <2> TAKE x \in Nat
    <2>1. PICK y \in Nat : y = AddMonths(x, n) /\ (x < Horizon => x < y)
        BY AddMonthsGrows
    <2> QED BY <2>1
<1>3. \A x \in Nat : x >= Horizon => x \in stop
    OBVIOUS
<1>4. Horizon \in Nat
    BY HorizonIs
<1>5. \E s : Recursive(s, stop, value, next)
    <2> HIDE DEF stop, value, next
    <2> QED BY <1>1, <1>2, <1>3, <1>4, RecursionUp
<1>6. PICK s : s = [x \in Nat |-> IF x \in stop THEN value[x] ELSE s[next[x]]]
    <2> HIDE DEF stop, value, next
    <2> QED BY <1>5 DEF Recursive
<1>7. ASSUME NEW x \in Nat
      PROVE  s[x] = IF x >= Horizon THEN Horizon
                    ELSE IF B <= MonthLength(MonthOf(x)) THEN Date(MonthOf(x), B)
                    ELSE s[AddMonths(x, n)]
    <2>1. s[x] = IF x \in stop THEN value[x] ELSE s[next[x]]
        <3> HIDE DEF stop, value, next
        <3> QED BY <1>6, Zenon
    <2> QED BY <2>1, Zenon
<1>8. s = [x \in Nat |-> s[x]]
    <2> HIDE DEF stop, value, next
    <2> QED BY <1>6, Zenon
<1>9. s = [x \in Nat |-> IF x >= Horizon THEN Horizon
                         ELSE IF B <= MonthLength(MonthOf(x)) THEN Date(MonthOf(x), B)
                         ELSE s[AddMonths(x, n)]]
    BY <1>7, <1>8, Zenon
<1> QED BY <1>9 DEF SkipsBy

LEMMA SkipIs ==
    ASSUME NEW s, NEW B, NEW n, SkipsBy(s, B, n), NEW x \in Nat
    PROVE  s[x] = IF x >= Horizon THEN Horizon
                  ELSE IF B <= MonthLength(MonthOf(x)) THEN Date(MonthOf(x), B)
                  ELSE s[AddMonths(x, n)]
BY Zenon DEF SkipsBy

(* A day that every month has, or a step of one month: the skip ends. *)
LEMMA SkipEnds ==
    ASSUME NEW rule \in Rules, NEW B \in 1..31, rule.interval = 1 \/ B <= 28,
           NEW day \in Nat
    PROVE  ~Endless(rule, B, day)
<1>1. PICK k \in Nat : k = MonthOf(day)
    BY DayParts
<1>2. PICK n \in Nat : n = rule.interval
    BY RuleTyped
<1>3. SUFFICES \E i \in 1..Cycle : B <= MonthLength(k + i * n)
    <2>1. PICK i \in 1..Cycle : B <= MonthLength(k + i * n)
        BY <1>3
    <2>2. i * n \in Nat
        BY DEF Cycle
    <2>3. MonthLength(k + i * n) \in 28..31
        <3>1. k + i * n \in Nat
            BY <2>2
        <3> QED BY <3>1, MonthLengthBounds
    <2>4. ~(MonthLength(k + i * n) < B)
        BY <2>1, <2>3
    <2> QED BY <1>1, <1>2, <2>4 DEF Endless
<1>4. CASE n = 1
    <2>1. PICK m \in 0..11 : m = k % 12 /\ k = 12 * (k \div 12) + m /\ k \div 12 \in Nat
        BY MonthParts
    <2>2. PICK i \in 1..12 : i = 12 - m
        BY <2>1
    <2>3. (k + i * n) % 12 = 0
        BY <1>4, <2>1, <2>2
    <2>4. MonthLength(k + i * n) = 31
        BY <2>3 DEF MonthLength
    <2>5. i \in 1..Cycle
        BY DEF Cycle
    <2> QED BY <2>4, <2>5
<1>5. CASE B <= 28
    <2>1. k + 1 * n \in Nat /\ 1 \in 1..Cycle
        BY DEF Cycle
    <2>2. MonthLength(k + 1 * n) \in 28..31
        BY <2>1, MonthLengthBounds
    <2> QED BY <1>5, <2>1, <2>2
<1> QED BY <1>2, <1>4, <1>5

LEMMA AdvanceMonthlyIs ==
    ASSUME NEW rule \in Rules, NEW first \in Nat, NEW it,
           ~Endless(rule, MonthDay(rule, first), it.current)
    PROVE  \E s : /\ SkipsBy(s, MonthDay(rule, first), rule.interval)
                  /\ AdvanceMonthly(rule, first, it)
                       = OnDay(s[AddMonths(it.current, rule.interval)])
<1>1. \E s : SkipsBy(s, MonthDay(rule, first), rule.interval)
    <2>1. MonthDay(rule, first) \in Nat /\ rule.interval \in Nat /\ rule.interval > 0
        <3>1. MonthDay(rule, first) \in 1..31
            BY MonthDayIs
        <3>2. rule.interval \in Nat /\ rule.interval > 0
            BY RuleTyped
        <3> QED BY <3>1, <3>2
    <2> QED BY <2>1, SkipExists
<1>2. PICK s : s = CHOOSE f : SkipsBy(f, MonthDay(rule, first), rule.interval)
    OBVIOUS
<1>3. SkipsBy(s, MonthDay(rule, first), rule.interval)
    BY <1>1, <1>2
<1>4. AdvanceMonthly(rule, first, it) = OnDay(s[AddMonths(it.current, rule.interval)])
    <2>1. AdvanceMonthly(rule, first, it)
             = OnDay(IF Endless(rule, MonthDay(rule, first), it.current) THEN Forever
                     ELSE (CHOOSE f : SkipsBy(f, MonthDay(rule, first), rule.interval))
                              [AddMonths(it.current, rule.interval)])
        BY DEF AdvanceMonthly, SkipsBy
    <2>2. AdvanceMonthly(rule, first, it)
             = OnDay((CHOOSE f : SkipsBy(f, MonthDay(rule, first), rule.interval))
                         [AddMonths(it.current, rule.interval)])
        BY <2>1, Zenon
    <2> QED BY <1>2, <2>2, Zenon
<1> QED BY <1>3, <1>4

(* The month by month skip ends on the day B of the first month after k    *)
(* that has it.                                                            *)
Lands(r, k, B) ==
    \E m \in Nat :
        /\ k < m
        /\ \A j \in Nat : k < j /\ j < m => MonthLength(j) < B
        /\ \/ r = Horizon /\ m >= MaxMonths
           \/ m < MaxMonths /\ B <= MonthLength(m) /\ r = Date(m, B)

Passed(x, k, B) ==
    /\ k < MonthOf(x)
    /\ \A j \in Nat : k < j /\ j < MonthOf(x) => MonthLength(j) < B

LEMMA PassesOn ==
    ASSUME NEW x \in Nat, NEW k \in Nat, NEW B \in 1..31, Passed(x, k, B), x < Horizon,
           ~(B <= MonthLength(MonthOf(x))), NEW y, y = AddMonths(x, 1)
    PROVE  y \in Nat /\ x < y /\ Passed(y, k, B)
<1>1. PICK m \in Nat, s \in Nat, len \in 28..31 : \E d \in 1..len :
        /\ m = MonthOf(x) /\ s = MonthStart(m) /\ len = MonthLength(m)
        /\ d = DayOfMonth(x) /\ x = s + d - 1
    BY DayParts
<1>2. PICK d \in 1..len : m = MonthOf(x) /\ len = MonthLength(m) /\ d = DayOfMonth(x)
    BY <1>1
<1>3. y \in Nat /\ x < y
    BY AddMonthsGrows
<1>4. len < B /\ MonthLength(m + 1) = 31
    BY <1>2, AfterAShortMonth
<1>5. MonthOf(y) = m + 1
    <2>1. y = Date(m + 1, d)
        BY <1>2 DEF AddMonths
    <2>2. CASE m + 1 < MaxMonths
        BY <1>4, <2>1, <2>2, DateFits
    <2>3. CASE m + 1 >= MaxMonths
        <3>1. y = Horizon
            BY <2>1, <2>3 DEF Date
        <3>2. m < MaxMonths
            BY <1>2, HorizonIs
        <3>3. m + 1 = MaxMonths
            BY <2>3, <3>2, HorizonIs
        <3>4. MonthOf(MonthStart(m + 1) + 1 - 1) = m + 1
            BY <1>4, DayInMonth
        <3>5. MonthStart(m + 1) + 1 - 1 = MonthStart(m + 1)
            BY MonthStartNat
        <3> QED BY <3>1, <3>3, <3>4, <3>5 DEF Horizon
    <2> QED BY <2>2, <2>3, HorizonIs
<1>6. ASSUME NEW j \in Nat, k < j, j < m + 1 PROVE MonthLength(j) < B
    <2>1. j < m \/ j = m
        BY <1>6
    <2> QED BY <1>2, <1>4, <1>6, <2>1 DEF Passed
<1>7. k < m + 1
    BY <1>2 DEF Passed
<1> QED
    BY <1>3, <1>5, <1>6, <1>7 DEF Passed

LEMMA SkipLands ==
    ASSUME NEW B \in 1..31, NEW s, SkipsBy(s, B, 1), NEW k \in Nat, NEW x \in Nat,
           Passed(x, k, B)
    PROVE  Lands(s[x], k, B)
<1> DEFINE S == {h \in Nat : \A y \in Nat :
                    y + h >= Horizon /\ Passed(y, k, B) => Lands(s[y], k, B)}
<1>1. Horizon \in Nat
    BY HorizonIs
<1>2. ASSUME NEW y \in Nat, y >= Horizon, Passed(y, k, B) PROVE Lands(s[y], k, B)
    <2>1. s[y] = Horizon
        BY <1>2, SkipIs
    <2>2. PICK m \in Nat : m = MonthOf(y) /\ m >= MaxMonths
        BY <1>2, HorizonIs, MonthOfFits
    <2> QED BY <1>2, <2>1, <2>2 DEF Lands, Passed
<1>3. 0 \in S
    BY <1>1, <1>2
<1>4. ASSUME NEW h \in Nat, h \in S PROVE h + 1 \in S
    <2>1. SUFFICES ASSUME NEW y \in Nat, y + (h + 1) >= Horizon, Passed(y, k, B)
                   PROVE  Lands(s[y], k, B)
        OBVIOUS
    <2>2. CASE y >= Horizon
        BY <1>2, <2>1, <2>2
    <2>3. CASE y < Horizon /\ B <= MonthLength(MonthOf(y))
        <3>1. s[y] = Date(MonthOf(y), B)
            BY <1>1, <2>3, SkipIs
        <3>2. PICK m \in Nat : m = MonthOf(y) /\ m < MaxMonths
            BY <2>3, HorizonIs, MonthOfFits
        <3> QED BY <2>1, <2>3, <3>1, <3>2 DEF Lands, Passed
    <2>4. CASE y < Horizon /\ ~(B <= MonthLength(MonthOf(y)))
        <3>1. PICK z : z = AddMonths(y, 1)
            OBVIOUS
        <3>2. s[y] = s[z]
            BY <1>1, <2>4, <3>1, SkipIs
        <3>3. z \in Nat /\ y < z /\ Passed(z, k, B)
            BY <2>1, <2>4, <3>1, PassesOn
        <3>4. z + h >= Horizon
            BY <1>1, <2>1, <3>3
        <3> QED BY <1>4, <3>2, <3>3, <3>4
    <2> QED BY <1>1, <2>2, <2>3, <2>4
<1> HIDE DEF S
<1>5. \A h \in Nat : h \in S
    BY <1>3, <1>4, Induction
<1> QED
    BY <1>1, <1>5 DEF S

LEMMA MonthlyAdvances ==
    ASSUME NEW rule \in Rules, rule.freq = "monthly", NEW first \in Nat, NEW it,
           Standing(rule, first, it), it.day < Horizon,
           \/ rule.interval = 1 /\ DayOfMonth(first) <= MonthDay(rule, first)
           \/ rule.interval = 1 /\ DayOfMonth(first) <= 28
           \/ DayOfMonth(first) <= 28 /\ MonthDay(rule, first) <= 28
    PROVE  Follows(rule, first, it, Advance(rule, first, it))
<1>1. ~ByDay(rule)
    BY DEF ByDay
<1>2. PICK day \in Nat : /\ day = it.day /\ it.current = day /\ first <= day
                         /\ Meets(rule, first, day) /\ day < Horizon
    BY <1>1 DEF Standing
<1>3. PICK B \in 1..31 : B = MonthDay(rule, first)
    BY MonthDayIs
<1>4. PICK n \in Nat : n = rule.interval /\ n > 0
    BY RuleTyped
<1>5. PICK f \in Nat, F \in 1..31 : f = MonthOf(first) /\ F = DayOfMonth(first)
    BY DayParts
<1>6. PICK k \in Nat, s \in Nat, len \in 28..31 : \E d \in 1..len :
        /\ k = MonthOf(day) /\ s = MonthStart(k) /\ len = MonthLength(k)
        /\ d = DayOfMonth(day) /\ day = s + d - 1
    BY DayParts
<1>7. PICK e \in 1..len : /\ k = MonthOf(day) /\ s = MonthStart(k) /\ len = MonthLength(k)
                          /\ e = DayOfMonth(day) /\ day = s + e - 1
    BY <1>6
<1>8. \A d \in Nat : Meets(rule, first, d) <=>
        \/ d = first
        \/ f < MonthOf(d) /\ (MonthOf(d) - f) % n = 0 /\ DayOfMonth(d) = B
    BY <1>3, <1>4, <1>5, MeetsMonthly
<1>9. \/ day = first /\ k = f /\ e = F
      \/ day # first /\ f < k /\ (k - f) % n = 0 /\ e = B
    BY <1>2, <1>5, <1>7, <1>8
<1>10. f <= k /\ (k - f) % n = 0 /\ k < MaxMonths
    <2>1. (f - f) % n = 0
        BY <1>4
    <2> QED BY <1>2, <1>7, <1>9, <2>1, HorizonIs
<1>11. ASSUME NEW d \in Nat, day + 1 <= d, Meets(rule, first, d)
       PROVE  k < MonthOf(d) /\ (MonthOf(d) - f) % n = 0 /\ DayOfMonth(d) = B
    <2>1. d # first
        BY <1>2, <1>11
    <2>2. f < MonthOf(d) /\ (MonthOf(d) - f) % n = 0 /\ DayOfMonth(d) = B
        BY <1>8, <1>11, <2>1
    <2>3. PICK m \in Nat, t \in Nat : m = MonthOf(d) /\ t = MonthStart(m) /\ d = t + B - 1
        BY <2>2, MonthOfFits, MonthStartNat
    <2>4. ~(m < k)
        <3>1. SUFFICES ASSUME m < k PROVE FALSE
            OBVIOUS
        <3>2. d < s
            BY <1>7, <2>3, <3>1, MonthOrder
        <3> QED BY <1>7, <1>11, <3>2
    <2>5. ~(m = k)
        <3>1. SUFFICES ASSUME m = k PROVE FALSE
            OBVIOUS
        <3>2. t = s
            BY <1>7, <2>3, <3>1
        <3>3. e < B
            BY <1>7, <1>11, <2>3, <3>2
        <3> QED BY <1>9, <2>2, <2>3, <3>1, <3>3
    <2> QED BY <2>2, <2>3, <2>4, <2>5
<1>12. PICK skip : /\ SkipsBy(skip, B, n)
                   /\ AdvanceMonthly(rule, first, it) = OnDay(skip[AddMonths(day, n)])
    <2>1. ~Endless(rule, B, day)
        BY <1>3, SkipEnds
    <2>2. it.current = day /\ MonthDay(rule, first) = B /\ rule.interval = n
        BY <1>2, <1>3, <1>4
    <2> QED BY <2>1, <2>2, AdvanceMonthlyIs
<1>13. PICK x \in Nat : x = AddMonths(day, n) /\ day < x /\ x = Date(k + n, e)
    BY <1>2, <1>4, <1>7, AddMonthsGrows DEF AddMonths
<1>14. PICK r : r = skip[x] /\ Advance(rule, first, it) = OnDay(r)
    BY <1>12, <1>13 DEF Advance
<1>15. SUFFICES /\ r \in Nat /\ day < r
                /\ r < Horizon => Meets(rule, first, r)
                /\ \A d \in Nat : day + 1 <= d /\ d < r /\ d < Horizon => ~Meets(rule, first, d)
    <2>1. first <= r
        BY <1>2, <1>15
    <2>2. Standing(rule, first, OnDay(r)) /\ OnDay(r).day = r
        BY <1>1, <1>15, <2>1, OnDayStands
    <2> QED
        BY <1>2, <1>14, <1>15, <2>2 DEF Follows, NoneBetween
<1>16. CASE F <= 28 /\ B <= 28
    <2>1. PICK m \in Nat : m = k + n /\ k < m /\ f < m
        BY <1>4, <1>10
    <2>2. (m - f) % n = 0
        <3>1. n > 0 /\ (k - f) % n = 0
            BY <1>4, <1>10
        <3>2. (k + n - f) % n = 0
            BY ONLY <3>1, MonthsLater, k \in Nat, f \in Nat, n \in Nat
        <3> QED BY <2>1, <3>2
    <2>3. e <= 28
        BY <1>9, <1>16
    <2>4. CASE m >= MaxMonths
        <3>1. x = Horizon
            BY <1>13, <2>1, <2>4 DEF Date
        <3>2. r = Horizon
            BY <1>12, <1>13, <1>14, <3>1, SkipIs
        <3>3. ASSUME NEW d \in Nat, day + 1 <= d, d < Horizon, Meets(rule, first, d)
              PROVE  FALSE
            <4>1. MonthStart(k + n) + B - 1 <= d
                BY <1>4, <1>10, <1>11, <3>3, NoneBeforeTheMonth, SMTT(30)
            <4>2. MonthOf(d) < m
                BY <2>4, <3>3, HorizonIs, MonthOfFits
            <4>3. d < MonthStart(m)
                BY <4>2, MonthOrder
            <4> QED BY <2>1, <4>1, <4>3, MonthStartNat
        <3> QED BY <1>2, <3>2, <3>3, HorizonIs
    <2>5. CASE m < MaxMonths
        <3>1. PICK l \in 28..31 : l = MonthLength(m)
            BY MonthLengthBounds
        <3>2. MonthOf(x) = m /\ x < Horizon
            BY <1>13, <2>1, <2>3, <2>5, <3>1, DateFits
        <3>3. r = Date(m, B)
            BY <1>12, <1>13, <1>14, <1>16, <3>1, <3>2, HorizonIs, SkipIs
        <3>4. /\ r \in Nat /\ r < Horizon /\ r = MonthStart(m) + B - 1
              /\ MonthOf(r) = m /\ DayOfMonth(r) = B
            BY <1>16, <2>5, <3>1, <3>3, DateFits
        <3>5. Meets(rule, first, r)
            BY <1>8, <2>1, <2>2, <3>4
        <3>6. day < r
            <4>1. ~(MonthOf(r) < k + 1)
                BY <2>1, <3>4
            <4>2. MonthOf(day) < k + 1
                BY <1>7
            <4>3. day < MonthStart(k + 1) /\ ~(r < MonthStart(k + 1))
                BY <3>4, <4>1, <4>2, MonthOrder
            <4> QED BY <3>4, <4>3, MonthStartNat
        <3>7. ASSUME NEW d \in Nat, day + 1 <= d, d < r, Meets(rule, first, d)
              PROVE  FALSE
            <4>1. k < MonthOf(d) /\ (MonthOf(d) - f) % n = 0 /\ DayOfMonth(d) = B
                BY <1>11, <3>7
            <4>2. MonthStart(k + n) + B - 1 <= d
                BY <1>4, <1>10, <4>1, NoneBeforeTheMonth, SMTT(30)
            <4> QED BY <2>1, <3>4, <3>7, <4>2, MonthStartNat
        <3> QED BY <3>4, <3>5, <3>6, <3>7
    <2> QED BY <2>1, <2>4, <2>5, HorizonIs
<1>17. CASE n = 1 /\ (F <= B \/ F <= 28)
    <2>1. Passed(x, k, B)
        <3>1. CASE k + 1 >= MaxMonths
            <4>1. x = Horizon /\ k + 1 = MaxMonths
                BY <1>10, <1>13, <1>17, <3>1, HorizonIs DEF Date
            <4>2. MonthLength(k + 1) \in 28..31 /\ MonthStart(k + 1) \in Nat
                BY MonthLengthBounds, MonthStartNat
            <4>3. MonthOf(MonthStart(k + 1) + 1 - 1) = k + 1
                BY <4>2, DayInMonth
            <4>4. MonthOf(x) = k + 1
                BY <4>1, <4>2, <4>3 DEF Horizon
            <4> QED BY <4>4 DEF Passed
        <3>2. CASE k + 1 < MaxMonths
            <4>1. PICK l \in 28..31 : l = MonthLength(k + 1)
                BY MonthLengthBounds
            <4>2. CASE e <= l
                <5>1. MonthOf(x) = k + 1
                    BY <1>13, <1>17, <3>2, <4>1, <4>2, DateFits
                <5> QED BY <5>1 DEF Passed
            <4>3. CASE e > l
                <5>1. l < B
                    BY <1>9, <1>17, <4>3
                <5>2. PICK t \in Nat, l2 \in 28..31 :
                        t = MonthStart(k + 2) /\ l2 = MonthLength(k + 2)
                    BY MonthStartNat, MonthLengthBounds
                <5>3. PICK u \in Nat : u = MonthStart(k + 1) /\ t = u + l
                    <6>1. (k + 1) + 1 = k + 2 /\ k + 1 \in Nat
                        OBVIOUS
                    <6> QED BY <4>1, <5>2, <6>1, NextMonthStarts, MonthStartNat
                <5>4. x = u + e - 1
                    BY <1>13, <1>17, <3>2, <5>3, HorizonIs DEF Date
                <5>5. PICK c \in Nat : c = e - l /\ c \in 1..l2 /\ x = t + c - 1
                    BY <4>3, <5>3, <5>4
                <5>6. MonthOf(x) = k + 2
                    BY <5>2, <5>5, DayInMonth
                <5>7. ASSUME NEW j \in Nat, k < j, j < k + 2 PROVE MonthLength(j) < B
                    <6>1. j = k + 1
                        BY <5>7
                    <6> QED BY <4>1, <5>1, <6>1
                <5>8. k < k + 2
                    OBVIOUS
                <5> QED BY <5>6, <5>7, <5>8 DEF Passed
            <4> QED BY <4>1, <4>2, <4>3
        <3> QED BY <3>1, <3>2, HorizonIs
    <2>2. Lands(r, k, B)
        BY <1>12, <1>14, <1>17, <2>1, SkipLands
    <2>3. PICK m \in Nat :
            /\ k < m
            /\ \A j \in Nat : k < j /\ j < m => MonthLength(j) < B
            /\ \/ r = Horizon /\ m >= MaxMonths
               \/ m < MaxMonths /\ B <= MonthLength(m) /\ r = Date(m, B)
        BY <2>2 DEF Lands
    <2>4. ASSUME NEW d \in Nat, day + 1 <= d, Meets(rule, first, d)
          PROVE  m <= MonthOf(d) /\ DayOfMonth(d) = B
        <3>1. PICK j \in Nat, l \in 28..31 : /\ j = MonthOf(d) /\ l = MonthLength(j)
                                           /\ k < j /\ DayOfMonth(d) = B /\ B <= l
            BY <1>11, <2>4, MonthOfFits, MonthLengthBounds
        <3> QED BY <2>3, <3>1
    <2>5. CASE r = Horizon /\ m >= MaxMonths
        <3>1. ASSUME NEW d \in Nat, day + 1 <= d, d < Horizon, Meets(rule, first, d)
              PROVE  FALSE
            <4>1. MonthOf(d) < MaxMonths /\ MonthOf(d) \in Nat
                BY <3>1, HorizonIs, MonthOfFits
            <4> QED BY <2>4, <2>5, <3>1, <4>1, HorizonIs
        <3> QED BY <1>2, <2>5, <3>1, HorizonIs
    <2>6. CASE m < MaxMonths /\ B <= MonthLength(m) /\ r = Date(m, B)
        <3>1. /\ r \in Nat /\ r < Horizon /\ r = MonthStart(m) + B - 1
              /\ MonthOf(r) = m /\ DayOfMonth(r) = B
            BY <2>6, DateFits
        <3>2. (m - f) % n = 0 /\ f < m
            BY <1>10, <1>17, <2>3
        <3>3. Meets(rule, first, r)
            BY <1>8, <3>1, <3>2
        <3>4. day < r
            <4>1. ~(MonthOf(r) < k + 1) /\ MonthOf(day) < k + 1
                BY <1>7, <2>3, <3>1
            <4>2. day < MonthStart(k + 1) /\ ~(r < MonthStart(k + 1))
                BY <3>1, <4>1, MonthOrder
            <4> QED BY <3>1, <4>2, MonthStartNat
        <3>5. ASSUME NEW d \in Nat, day + 1 <= d, d < r, Meets(rule, first, d)
              PROVE  FALSE
            <4>1. PICK j \in Nat, t \in Nat : j = MonthOf(d) /\ t = MonthStart(j) /\ m <= j
                                           /\ d = t + B - 1
                BY <2>4, <3>5, MonthOfFits, MonthStartNat
            <4>2. PICK u \in Nat : u = MonthStart(m) /\ r = u + B - 1
                BY <3>1, MonthStartNat
            <4>3. u <= t
                <5>1. CASE j = m
                    BY <4>1, <4>2, <5>1
                <5>2. CASE m < j
                    <6>1. ~(d < MonthStart(j))
                        BY <4>1, MonthOrder
                    <6>2. PICK l \in 28..31 : l = MonthLength(m) /\ u + l <= t
                        BY <4>1, <4>2, <5>2, MonthsRise, MonthLengthBounds
                    <6> QED BY <6>2
                <5> QED BY <4>1, <5>1, <5>2
            <4> QED BY <3>5, <4>1, <4>2, <4>3
        <3> QED BY <3>1, <3>3, <3>4, <3>5
    <2> QED BY <2>3, <2>5, <2>6
<1> QED
    BY <1>3, <1>4, <1>5, <1>16, <1>17

-----------------------------------------------------------------------------
(* Years, and all the frequencies                                          *)

LEMMA MeetsYearly ==
    ASSUME NEW rule \in Rules, rule.freq = "yearly", NEW first \in Nat, NEW d \in Nat
    PROVE  Meets(rule, first, d) <=>
             /\ (MonthOf(d) - MonthOf(first)) % (12 * rule.interval) = 0
             /\ DayOfMonth(d) = DayOfMonth(first)
BY DEF Meets, ByDay

(* The same month of a later year has the day, but for 29 February.        *)
LEMMA SameMonth ==
    ASSUME NEW f \in Nat, NEW m \in Nat, (m - f) % 12 = 0, NEW F \in 1..31,
           F <= MonthLength(f), ~(f % 12 = 1 /\ F = 29)
    PROVE  F <= MonthLength(m)
<1>1. PICK q \in Int : m - f = 12 * q
    <2>1. PICK a \in Int : a = m - f /\ a % 12 = 0
        OBVIOUS
    <2>2. a = 12 * (a \div 12) + (a % 12) /\ a \div 12 \in Int
        BY <2>1
    <2> QED BY <2>1, <2>2
<1>2. PICK p \in Nat, c \in 0..11 : f = 12 * p + c /\ c = f % 12
    <2>1. f \div 12 \in Nat /\ f % 12 \in 0..11 /\ f = 12 * (f \div 12) + (f % 12)
        BY MonthParts
    <2> QED BY <2>1
<1>3. m = 12 * (p + q) + c /\ p + q \in Int
    BY <1>1, <1>2
<1>4. m % 12 = c
    BY <1>3, Quotient
<1> QED
    BY <1>2, <1>4 DEF MonthLength

LEMMA YearlyAdvances ==
    ASSUME NEW rule \in Rules, rule.freq = "yearly", NEW first \in Nat, NEW it,
           Standing(rule, first, it), it.day < Horizon,
           ~(MonthOf(first) % 12 = 1 /\ DayOfMonth(first) = 29)
    PROVE  Follows(rule, first, it, Advance(rule, first, it))
<1>1. ~ByDay(rule)
    BY DEF ByDay
<1>2. PICK day \in Nat : /\ day = it.day /\ it.current = day /\ first <= day
                         /\ Meets(rule, first, day) /\ day < Horizon
    BY <1>1 DEF Standing
<1>3. PICK n \in Nat : n = 12 * rule.interval /\ n > 0 /\ n % 12 = 0
    <2>1. PICK i \in Nat : i = rule.interval /\ i > 0
        BY RuleTyped
    <2>2. (12 * i) % 12 = 0
        OBVIOUS
    <2> QED BY <2>1, <2>2
<1>4. PICK f \in Nat, g \in Nat, fl \in 28..31 : \E F \in 1..fl :
        /\ f = MonthOf(first) /\ g = MonthStart(f) /\ fl = MonthLength(f)
        /\ F = DayOfMonth(first) /\ first = g + F - 1
    BY DayParts
<1>5. PICK F \in 1..31 : /\ F = DayOfMonth(first) /\ f = MonthOf(first)
                         /\ F <= MonthLength(f)
    BY <1>4
<1>6. PICK k \in Nat, s \in Nat, len \in 28..31 : \E d \in 1..len :
        /\ k = MonthOf(day) /\ s = MonthStart(k) /\ len = MonthLength(k)
        /\ d = DayOfMonth(day) /\ day = s + d - 1
    BY DayParts
<1>7. PICK e \in 1..len : /\ k = MonthOf(day) /\ s = MonthStart(k) /\ len = MonthLength(k)
                          /\ e = DayOfMonth(day) /\ day = s + e - 1
    BY <1>6
<1>8. \A d \in Nat : Meets(rule, first, d) <=> (MonthOf(d) - f) % n = 0 /\ DayOfMonth(d) = F
    BY <1>3, <1>5, MeetsYearly
<1>9. (k - f) % n = 0 /\ e = F /\ k < MaxMonths
    BY <1>2, <1>7, <1>8, HorizonIs
<1>10. PICK m \in Nat : m = k + n /\ k < m /\ (m - f) % n = 0
    <2>1. (k + n - f) % n = 0
        BY ONLY <1>3, <1>9, MonthsLater, k \in Nat, f \in Nat, n \in Nat
    <2> QED BY <1>3, <2>1
<1>11. F <= MonthLength(m)
    <2>1. (m - f) % 12 = 0
        <3>1. PICK q \in Int : m - f = n * q
            <4>1. PICK a \in Int : a = m - f /\ a % n = 0
                BY <1>10
            <4>2. a = n * (a \div n) + (a % n) /\ a \div n \in Int
                BY <1>3, <4>1, Division
            <4>3. PICK q \in Int : q = a \div n
                BY <4>2
            <4>4. a = n * q + 0
                BY <4>1, <4>2, <4>3
            <4>5. n * q + 0 = n * q
                BY <4>3
            <4> QED BY <4>1, <4>4, <4>5
        <3>2. PICK i \in Nat : n = 12 * i
            BY <1>3, RuleTyped
        <3>3. PICK z \in Int : z = i * q
            OBVIOUS
        <3>4. n * q = 12 * z
            BY <3>2, <3>3
        <3>5. m - f = 12 * z
            BY <3>1, <3>4
        <3>6. (12 * z) % 12 = 0
            BY <3>5
        <3> QED BY <3>5, <3>6
    <2> QED BY <1>5, <2>1, SameMonth
<1>12. PICK x \in Nat : x = AddMonths(day, n) /\ day < x /\ x = Date(m, F)
    BY <1>2, <1>3, <1>7, <1>9, <1>10, AddMonthsGrows DEF AddMonths
<1>13. Advance(rule, first, it) = OnDay(x)
    <2>1. Advance(rule, first, it) = AdvanceYearly(rule, first, it)
        BY DEF Advance
    <2> QED BY <1>2, <1>3, <1>12, <2>1 DEF AdvanceYearly
<1>14. SUFFICES /\ x < Horizon => Meets(rule, first, x)
                /\ \A d \in Nat : day + 1 <= d /\ d < x /\ d < Horizon => ~Meets(rule, first, d)
    <2>1. first <= x
        BY <1>2, <1>12
    <2>2. Standing(rule, first, OnDay(x)) /\ OnDay(x).day = x
        BY <1>1, <1>14, <2>1, OnDayStands
    <2> QED
        BY <1>2, <1>12, <1>13, <1>14, <2>2 DEF Follows, NoneBetween
<1>15. ASSUME x < Horizon PROVE Meets(rule, first, x)
    <2>1. m < MaxMonths
        BY <1>10, <1>12, <1>15, HorizonIs DEF Date
    <2>2. MonthOf(x) = m /\ DayOfMonth(x) = F
        BY <1>11, <1>12, <2>1, DateFits
    <2> QED BY <1>8, <1>10, <2>2
<1>16. ASSUME NEW d \in Nat, day + 1 <= d, d < x, d < Horizon, Meets(rule, first, d)
       PROVE  FALSE
    <2>1. (MonthOf(d) - f) % n = 0 /\ DayOfMonth(d) = F
        BY <1>8, <1>16
    <2>2. PICK j \in Nat, t \in Nat : j = MonthOf(d) /\ t = MonthStart(j) /\ d = t + F - 1
        BY <2>1, MonthOfFits, MonthStartNat
    <2>3. ~(j < k)
        <3>1. SUFFICES ASSUME j < k PROVE FALSE
            OBVIOUS
        <3>2. d < s
            BY <1>7, <2>2, <3>1, MonthOrder
        <3> QED BY <1>7, <1>16, <3>2
    <2>4. j # k
        <3>1. SUFFICES ASSUME j = k PROVE FALSE
            OBVIOUS
        <3>2. t = s
            BY <1>7, <2>2, <3>1
        <3> QED BY <1>7, <1>9, <1>16, <2>2, <3>2
    <2>5. k < MonthOf(d)
        BY <2>2, <2>3, <2>4
    <2>6. MonthStart(k + n) + F - 1 <= d
        BY <1>3, <1>9, <2>1, <2>5, NoneBeforeTheMonth, SMTT(30)
    <2>7. CASE m >= MaxMonths
        <3>1. MonthOf(d) < m
            BY <1>16, <2>2, <2>7, HorizonIs
        <3>2. d < MonthStart(m)
            BY <3>1, MonthOrder
        <3> QED BY <1>10, <2>6, <3>2, MonthStartNat
    <2>8. CASE m < MaxMonths
        <3>1. x = MonthStart(m) + F - 1
            BY <1>11, <1>12, <2>8, DateFits
        <3> QED BY <1>10, <1>16, <2>6, <3>1, MonthStartNat
    <2> QED BY <2>7, <2>8, HorizonIs
<1> QED
    BY <1>15, <1>16

(* From a day of a regular rule the iterator comes to the rule's next day, *)
(* for every frequency and interval: none is left out, none is added, and  *)
(* the loops of advance end (dateIterator.advance).                        *)
THEOREM AdvanceFollows ==
    ASSUME NEW rule \in Rules, NEW start, Day(start) \in Nat, Regular(rule, start),
           NEW it, Standing(rule, Day(start), it), it.day < Horizon
    PROVE  Follows(rule, Day(start), it, Advance(rule, Day(start), it))
<1>1. PICK first \in Nat : first = Day(start)
    OBVIOUS
<1>2. /\ rule.freq = "monthly" =>
            \/ rule.interval = 1 /\ DayOfMonth(first) <= MonthDay(rule, first)
            \/ rule.interval = 1 /\ DayOfMonth(first) <= 28
            \/ DayOfMonth(first) <= 28 /\ MonthDay(rule, first) <= 28
      /\ rule.freq = "yearly" => ~(MonthOf(first) % 12 = 1 /\ DayOfMonth(first) = 29)
      /\ DaysRise(rule.byDay)
    BY <1>1 DEF Regular, DaysRise
<1>3. Standing(rule, first, it)
    BY <1>1
<1>4. Follows(rule, first, it, Advance(rule, first, it))
    <2>1. rule.freq \in {"daily", "weekly", "monthly", "yearly"}
        BY RuleTyped
    <2>2. CASE rule.freq = "daily"
        BY <1>3, <2>2, DailyAdvances
    <2>3. CASE rule.freq = "weekly" /\ ~ByDay(rule)
        BY <1>3, <2>3, WeeklyAdvances
    <2>4. CASE ByDay(rule)
        BY <1>2, <1>3, <2>4, ByDayAdvances
    <2>5. CASE rule.freq = "monthly"
        BY <1>2, <1>3, <2>5, MonthlyAdvances
    <2>6. CASE rule.freq = "yearly"
        BY <1>2, <1>3, <2>6, YearlyAdvances
    <2> QED BY <2>1, <2>2, <2>3, <2>4, <2>5, <2>6
<1> QED BY <1>1, <1>4

(* It begins on the rule's first day.                                      *)
LEMMA StartFollows ==
    ASSUME NEW rule \in Rules, NEW start, Day(start) \in Nat, Regular(rule, start)
    PROVE  /\ Standing(rule, Day(start), StartOf(rule, Day(start)))
           /\ NoneBetween(rule, Day(start), Day(start), StartOf(rule, Day(start)).day)
<1>1. PICK first \in Nat : first = Day(start)
    OBVIOUS
<1>2. CASE ByDay(rule)
    <2>1. DaysRise(rule.byDay)
        BY DEF Regular, DaysRise
    <2> QED BY <1>1, <1>2, <2>1, ByDayStarts
<1>3. CASE ~ByDay(rule)
    <2>1. StartOf(rule, first) = OnDay(first)
        BY <1>3 DEF StartOf
    <2>2. Meets(rule, first, first)
        <3>1. PICK i \in Nat : i = rule.interval /\ i > 0
            BY RuleTyped
        <3>2. (first - first) % i = 0 /\ (first - first) % (7 * i) = 0
            BY <3>1
        <3>3. CASE rule.freq = "yearly"
            <4>1. PICK f \in Nat : f = MonthOf(first)
                BY MonthOfFits
            <4>2. (f - f) % (12 * i) = 0
                BY <3>1
            <4> QED BY <3>1, <3>3, <4>1, <4>2, MeetsYearly
        <3>4. CASE rule.freq = "monthly"
            BY <3>4, MeetsMonthly
        <3>5. CASE rule.freq = "daily"
            BY <3>1, <3>2, <3>5 DEF Meets, ByDay
        <3>6. CASE rule.freq = "weekly"
            BY <1>3, <3>1, <3>2, <3>6 DEF Meets
        <3> QED BY <3>3, <3>4, <3>5, <3>6, RuleTyped
    <2>3. first <= first
        OBVIOUS
    <2>4. Standing(rule, first, OnDay(first)) /\ OnDay(first).day = first
        BY <1>3, <2>2, <2>3, OnDayStands
    <2>5. NoneBetween(rule, first, first, first)
        BY DEF NoneBetween
    <2> QED BY <1>1, <2>1, <2>4, <2>5
<1> QED BY <1>2, <1>3

-----------------------------------------------------------------------------
(* The walk of Expand                                                      *)

(* The walk is the function that takes the rounds.                         *)
Walks(w, rule, start, length, from, to) ==
    w = [n \in Nat |-> Round(rule, start, length, from, to, n, w[n + 1])]

LEMMA RoundIs ==
    ASSUME NEW rule, NEW start, NEW length, NEW from, NEW to, NEW n, NEW rest,
           NEW it \in Iterators, NEW t, t = TimeOf(start, it.day)
    PROVE  Round(rule, start, length, from, to, n, rest)[it] =
             IF it.day = Forever THEN <<Forever>>
             ELSE IF \/ n > MaxIterations
                     \/ rule.until # NoUntil /\ t > rule.until
                     \/ t >= to
                     \/ rule.count # NoLimit /\ n > rule.count THEN <<>>
             ELSE (IF t + length > from THEN <<t>> ELSE <<>>)
                    \o rest[Advance(rule, Day(start), it)]
BY Zenon DEF Round

LEMMA LastRounds ==
    ASSUME NEW rule, NEW start, NEW length, NEW from, NEW to, NEW n \in Nat,
           n > MaxIterations, NEW r1, NEW r2
    PROVE  Round(rule, start, length, from, to, n, r1) = Round(rule, start, length, from, to, n, r2)
BY Zenon DEF Round

LEMMA WalkExists ==
    ASSUME NEW rule, NEW start, NEW length, NEW from, NEW to
    PROVE  \E w : Walks(w, rule, start, length, from, to)
<1> DEFINE L(n, rest) == Round(rule, start, length, from, to, n, rest)
           Right(g, k) == \A n \in Nat : n + k > MaxIterations => g[n] = L(n, g[n + 1])
           S == {k \in Nat : \E g : Right(g, k)}
<1>1. MaxIterations \in Nat
    BY RecurrenceAssumption
<1>2. 0 \in S
    <2> DEFINE g == [n \in Nat |-> L(n, 0)]
    <2>1. ASSUME NEW n \in Nat, n + 0 > MaxIterations PROVE g[n] = L(n, g[n + 1])
        <3>1. n > MaxIterations
            BY <1>1, <2>1
        <3>2. L(n, 0) = L(n, g[n + 1])
            BY <3>1, LastRounds
        <3> QED BY <3>2
    <2> HIDE DEF g
    <2>2. Right(g, 0)
        BY <2>1
    <2> QED BY <2>2
<1>3. ASSUME NEW k \in Nat, k \in S PROVE k + 1 \in S
    <2>1. PICK g : Right(g, k)
        BY <1>3
    <2> DEFINE h == [n \in Nat |-> IF n + k > MaxIterations THEN g[n] ELSE L(n, g[n + 1])]
    <2>2. ASSUME NEW n \in Nat, n + (k + 1) > MaxIterations PROVE h[n] = L(n, h[n + 1])
        <3>1. (n + 1) + k > MaxIterations /\ n + 1 \in Nat
            BY <1>1, <2>2
        <3>2. h[n + 1] = g[n + 1]
            BY <3>1
        <3>3. h[n] = L(n, g[n + 1])
            <4> HIDE DEF L
            <4> QED BY <2>1
        <3> QED BY <3>2, <3>3
    <2> HIDE DEF h
    <2>3. Right(h, k + 1)
        BY <2>2
    <2> QED BY <2>3
<1> HIDE DEF S
<1>4. \A k \in Nat : k \in S
    BY <1>2, <1>3, Induction
<1>5. PICK g : Right(g, MaxIterations + 1)
    BY <1>1, <1>4 DEF S
<1> DEFINE w == [n \in Nat |-> g[n]]
<1>6. \A n \in Nat : w[n] = L(n, w[n + 1])
    <2> TAKE n \in Nat
    <2>1. n + (MaxIterations + 1) > MaxIterations /\ n + 1 \in Nat
        BY <1>1
    <2>2. g[n] = L(n, g[n + 1])
        BY <1>5, <2>1
    <2>3. w[n] = g[n] /\ w[n + 1] = g[n + 1]
        BY <2>1
    <2> QED BY <2>2, <2>3
<1>7. w = [n \in Nat |-> w[n]]
    OBVIOUS
<1> HIDE DEF w, L
<1>8. w = [n \in Nat |-> L(n, w[n + 1])]
    BY <1>6, <1>7
<1> QED BY <1>8 DEF L, Walks

LEMMA WalkIs ==
    ASSUME NEW rule, NEW start, NEW length, NEW from, NEW to
    PROVE  Walks(Walk(rule, start, length, from, to), rule, start, length, from, to)
<1>1. PICK w : w = Walk(rule, start, length, from, to)
    OBVIOUS
<1>2. w = CHOOSE f : Walks(f, rule, start, length, from, to)
    BY <1>1 DEF Walk, Walks
<1> QED BY <1>1, <1>2, WalkExists

LEMMA WalkStep ==
    ASSUME NEW w, NEW rule, NEW start, NEW length, NEW from, NEW to,
           Walks(w, rule, start, length, from, to), NEW n \in Nat
    PROVE  w[n] = Round(rule, start, length, from, to, n, w[n + 1])
BY Zenon DEF Walks

-----------------------------------------------------------------------------
(* Times and ranks.                                                        *)
LEMMA TimesRise ==
    ASSUME NEW start \in Nat, NEW d \in Int, NEW e \in Int
    PROVE  /\ TimeOf(start, d) \in Int /\ (d \in Nat => TimeOf(start, d) \in Nat)
           /\ (d < e <=> TimeOf(start, d) < TimeOf(start, e))
           /\ (d = e <=> TimeOf(start, d) = TimeOf(start, e))
<1>1. PICK P \in Nat : P = PerDay /\ P > 0
    BY RecurrenceAssumption
<1>2. PICK m \in 0..(P - 1) : m = Minute(start)
    BY <1>1 DEF Minute
<1>3. PICK a \in Int, b \in Int : a = d * P /\ b = e * P /\ (d \in Nat => a \in Nat)
    BY <1>1
<1>4. TimeOf(start, d) = a + m /\ TimeOf(start, e) = b + m
    BY <1>1, <1>2, <1>3 DEF TimeOf
<1>5. (d < e => a + P <= b) /\ (e < d => b + P <= a)
    <2>1. P * d = a /\ P * e = b
        BY <1>1, <1>3
    <2> QED BY <1>1, <2>1, TwoQuotients
<1> QED
    BY <1>1, <1>2, <1>3, <1>4, <1>5

LEMMA TimesTyped ==
    ASSUME NEW start \in Nat, NEW d \in Nat
    PROVE  TimeOf(start, d) \in Nat
BY TimesRise

LEMMA LaterTimes ==
    ASSUME NEW start \in Nat, NEW d \in Nat, NEW e \in Nat, d < e
    PROVE  TimeOf(start, d) < TimeOf(start, e)
BY TimesRise

LEMMA SameTimes ==
    ASSUME NEW start \in Nat, NEW d \in Nat, NEW e \in Nat, TimeOf(start, d) = TimeOf(start, e)
    PROVE  d = e
BY TimesRise

LEMMA DayOfTime ==
    ASSUME NEW start \in Nat, NEW d \in Nat, NEW t \in Int
    PROVE  /\ TimeOf(start, d) < t => d <= Day(t)
           /\ t < TimeOf(start, d) => Day(t) <= d
           /\ TimeOf(start, d) < Horizon * PerDay => d < Horizon
           /\ Day(t) \in Int
<1>1. PICK P \in Nat : P = PerDay /\ P > 0
    BY RecurrenceAssumption
<1>2. PICK m \in 0..(P - 1) : m = Minute(start)
    BY <1>1 DEF Minute
<1>3. PICK q \in Int, r \in 0..(P - 1) : q = Day(t) /\ t = P * q + r
    <2>1. t \div P \in Int /\ t % P \in 0..(P - 1) /\ t = P * (t \div P) + (t % P)
        BY <1>1, Division
    <2> QED BY <1>1, <2>1 DEF Day
<1>4. TimeOf(start, d) = P * d + m
    BY <1>1, <1>2 DEF TimeOf
<1>5. PICK a \in Int, b \in Int : a = P * d /\ b = P * q
    BY <1>1
<1>6. (q < d => b + P <= a) /\ (d < q => a + P <= b)
    BY <1>1, <1>5, TwoQuotients
<1>7. a + m < b + r => d <= q
    BY <1>1, <1>6
<1>8. b + r < a + m => q <= d
    BY <1>1, <1>6
<1>9. TimeOf(start, d) < Horizon * PerDay => d < Horizon
    <2>1. PICK h \in Int : h = Horizon
        BY HorizonIs
    <2>2. PICK c \in Int : c = P * h /\ c = h * P
        BY <1>1
    <2>3. h < d => c + P <= a
        BY <1>1, <1>5, <2>2, TwoQuotients
    <2>4. h = d => c = a
        BY <1>5, <2>2
    <2> QED BY <1>1, <1>4, <1>5, <2>1, <2>2, <2>3, <2>4
<1> QED
    BY <1>3, <1>4, <1>5, <1>7, <1>8, <1>9

(* The days of the rule before d.                                          *)
Rank(rule, first, d) == Cardinality({x \in first..(d - 1) : Meets(rule, first, x)})

LEMMA RankBounds ==
    ASSUME NEW rule, NEW first \in Nat, NEW d \in Nat
    PROVE  /\ Rank(rule, first, d) \in Nat /\ Rank(rule, first, d) <= d
           /\ IsFiniteSet({x \in first..(d - 1) : Meets(rule, first, x)})
<1> DEFINE T == {x \in first..(d - 1) : Meets(rule, first, x)}
<1>1. IsFiniteSet(0..(d - 1)) /\ Cardinality(0..(d - 1)) <= d /\ Cardinality(0..(d - 1)) \in Nat
    BY FS_Interval
<1>2. T \in SUBSET (0..(d - 1))
    OBVIOUS
<1> HIDE DEF T
<1>3. IsFiniteSet(T) /\ Cardinality(T) <= Cardinality(0..(d - 1))
    BY <1>1, <1>2, FS_Subset
<1>4. Cardinality(T) \in Nat
    BY <1>3, FS_CardinalityType
<1> QED
    BY <1>1, <1>3, <1>4 DEF Rank, T

LEMMA RankRises ==
    ASSUME NEW rule, NEW first \in Nat, NEW d \in Nat, NEW e \in Nat, d <= e
    PROVE  Rank(rule, first, d) <= Rank(rule, first, e)
<1> DEFINE D == {x \in first..(d - 1) : Meets(rule, first, x)}
           E == {x \in first..(e - 1) : Meets(rule, first, x)}
<1>1. D \in SUBSET E
    OBVIOUS
<1>2. IsFiniteSet(E)
    BY RankBounds
<1> HIDE DEF D, E
<1>3. Cardinality(D) <= Cardinality(E)
    BY <1>1, <1>2, FS_Subset
<1> QED
    BY <1>3 DEF Rank, D, E

(* A day of the rule is counted once it has passed.                        *)
LEMMA RankNext ==
    ASSUME NEW rule, NEW first \in Nat, NEW d \in Nat, NEW e \in Nat, first <= d, d < e,
           Meets(rule, first, d), NoneBetween(rule, first, d + 1, e), e <= Horizon
    PROVE  Rank(rule, first, e) = Rank(rule, first, d) + 1
<1> DEFINE D == {x \in first..(d - 1) : Meets(rule, first, x)}
           E == {x \in first..(e - 1) : Meets(rule, first, x)}
<1>1. ASSUME NEW x \in E, x > d PROVE FALSE
    BY <1>1, HorizonIs DEF NoneBetween
<1>2. E = D \cup {d} /\ d \notin D
    <2>1. E \subseteq D \cup {d}
        <3> SUFFICES ASSUME NEW x \in E PROVE x \in D \cup {d}
            OBVIOUS
        <3>1. ~(x > d)
            BY <1>1
        <3>2. x = d \/ x \in first..(d - 1)
            BY <3>1
        <3> QED BY <3>2
    <2>2. D \cup {d} \subseteq E /\ d \notin D
        OBVIOUS
    <2> HIDE DEF D, E
    <2> QED BY <2>1, <2>2
<1>3. IsFiniteSet(D)
    BY RankBounds
<1> HIDE DEF D, E
<1>4. Cardinality(E) = Cardinality(D) + 1
    BY <1>2, <1>3, FS_AddElement
<1> QED
    BY <1>4 DEF Rank, D, E

LEMMA RankNone ==
    ASSUME NEW rule, NEW first \in Nat, NEW d \in Nat,
           NoneBetween(rule, first, first, d), d <= Horizon
    PROVE  Rank(rule, first, d) = 0
<1>1. ASSUME NEW x \in first..(d - 1), Meets(rule, first, x) PROVE FALSE
    BY <1>1, HorizonIs DEF NoneBetween
<1>2. {x \in first..(d - 1) : Meets(rule, first, x)} = {}
    BY <1>1
<1> QED
    BY <1>2, FS_EmptySet DEF Rank

(* What lets an occurrence through but for the range's beginning.          *)
Allowed(rule, start, to, d) ==
    /\ TimeOf(start, d) < to
    /\ rule.until # NoUntil => TimeOf(start, d) <= rule.until
    /\ rule.count # NoLimit => Rank(rule, Day(start), d) + 1 <= rule.count

(* The times of the days from low on that the walk is to come up with.     *)
Due(rule, start, length, from, to, low) ==
    {TimeOf(start, d) : d \in {d \in Nat : /\ low <= d
                                           /\ Meets(rule, Day(start), d)
                                           /\ Allowed(rule, start, to, d)
                                           /\ TimeOf(start, d) + length > from}}

LEMMA AllowedFalls ==
    ASSUME NEW rule \in Rules, NEW start \in Nat, Day(start) \in Nat, NEW to \in Nat,
           NEW d \in Nat, NEW e \in Nat, d <= e, Allowed(rule, start, to, e)
    PROVE  Allowed(rule, start, to, d)
<1>1. PICK a \in Nat, b \in Nat : a = TimeOf(start, d) /\ b = TimeOf(start, e) /\ a <= b
    <2>1. PICK a \in Nat : a = TimeOf(start, d)
        BY TimesTyped
    <2>2. PICK b \in Nat : b = TimeOf(start, e)
        BY TimesTyped
    <2>3. d = e \/ d < e
        OBVIOUS
    <2>4. d < e => a < b
        BY <2>1, <2>2, LaterTimes
    <2> QED BY <2>1, <2>2, <2>3, <2>4
<1>2. PICK p \in Nat, q \in Nat : /\ p = Rank(rule, Day(start), d)
                                  /\ q = Rank(rule, Day(start), e) /\ p <= q
    <2>1. Rank(rule, Day(start), d) \in Nat /\ Rank(rule, Day(start), e) \in Nat
        BY RankBounds
    <2>2. Rank(rule, Day(start), d) <= Rank(rule, Day(start), e)
        BY RankRises
    <2> QED BY <2>1, <2>2
<1>3. PICK count \in Nat, until \in Int : count = rule.count /\ until = rule.until
    BY RuleTyped
<1> QED
    BY <1>1, <1>2, <1>3 DEF Allowed

(* The walk is right from an iterator on.                                  *)
Right(rule, start, length, from, to, s, low) ==
    /\ s \in Seq(Nat)
    /\ Range(s) = Due(rule, start, length, from, to, low)
    /\ IsInjective(s)

LEMMA DueLater ==
    ASSUME NEW rule, NEW start \in Nat, NEW length, NEW from, NEW to,
           NEW low \in Nat, NEW d \in Nat, d < low
    PROVE  TimeOf(start, d) \notin Due(rule, start, length, from, to, low)
<1>1. ASSUME NEW e \in Nat, low <= e, TimeOf(start, d) = TimeOf(start, e) PROVE FALSE
    <2>1. d < e /\ d # e
        BY <1>1
    <2>2. d = e
        BY <1>1, SameTimes
    <2> QED BY <2>1, <2>2
<1> QED BY <1>1 DEF Due

LEMMA RangeEmpty == Range(<<>>) = {} /\ IsInjective(<<>>) /\ <<>> \in Seq(Nat)
BY DEF Range, IsInjective

LEMMA RangeCons ==
    ASSUME NEW t \in Nat, NEW s \in Seq(Nat), IsInjective(s), t \notin Range(s)
    PROVE  /\ <<t>> \o s \in Seq(Nat)
           /\ Range(<<t>> \o s) = {t} \cup Range(s)
           /\ IsInjective(<<t>> \o s)
<1>1. PICK N \in Nat : N = Len(s) /\ DOMAIN s = 1..N
    OBVIOUS
<1>2. /\ <<t>> \o s \in Seq(Nat) /\ Len(<<t>> \o s) = N + 1
      /\ (<<t>> \o s)[1] = t /\ \A i \in 1..N : (<<t>> \o s)[i + 1] = s[i]
    BY <1>1
<1>3. PICK c \in Seq(Nat) : c = <<t>> \o s /\ Len(c) = N + 1 /\ DOMAIN c = 1..(N + 1)
    <2>1. DOMAIN (<<t>> \o s) = 1..(N + 1)
        BY <1>2
    <2> QED BY <1>2, <2>1
<1>4. c[1] = t /\ \A i \in 1..N : c[i + 1] = s[i]
    BY <1>3, <1>2
<1>5. \A i \in 1..(N + 1) : i = 1 \/ (i - 1 \in 1..N /\ c[i] = s[i - 1])
    <2> SUFFICES ASSUME NEW i \in 1..(N + 1), i # 1 PROVE i - 1 \in 1..N /\ c[i] = s[i - 1]
        OBVIOUS
    <2>1. PICK j \in 1..N : j = i - 1 /\ i = j + 1
        OBVIOUS
    <2> QED BY <1>4, <2>1
<1>6. Range(c) = {t} \cup Range(s)
    <2>1. ASSUME NEW x \in Range(c) PROVE x \in {t} \cup Range(s)
        BY <1>1, <1>3, <1>4, <1>5 DEF Range
    <2>2. ASSUME NEW x \in Range(s) PROVE x \in Range(c)
        <3>1. PICK i \in 1..N : x = s[i]
            BY <1>1 DEF Range
        <3>2. i + 1 \in DOMAIN c /\ c[i + 1] = x
            BY <1>3, <1>4, <3>1
        <3> QED BY <3>2 DEF Range
    <2>3. 1 \in DOMAIN c
        BY <1>3
    <2>4. t \in Range(c)
        BY <1>4, <2>3 DEF Range
    <2> QED BY <2>1, <2>2, <2>4
<1>7. \A i \in 1..N : s[i] # t
    BY <1>1 DEF Range
<1>8. ASSUME NEW i \in 1..(N + 1), NEW j \in 1..(N + 1), c[i] = c[j] PROVE i = j
    <2>1. CASE i = 1
        BY <1>4, <1>5, <1>7, <1>8, <2>1
    <2>2. CASE j = 1
        BY <1>4, <1>5, <1>7, <1>8, <2>2
    <2>3. CASE i # 1 /\ j # 1
        <3>1. PICK k \in 1..N : k = i - 1 /\ c[i] = s[k]
            BY <1>5, <2>3
        <3>2. PICK l \in 1..N : l = j - 1 /\ c[j] = s[l]
            BY <1>5, <2>3
        <3>3. s[k] = s[l]
            BY <1>8, <3>1, <3>2
        <3>4. k = l
            BY <1>1, <3>3 DEF IsInjective
        <3> QED BY <3>1, <3>2, <3>4
    <2> QED BY <2>1, <2>2, <2>3
<1> QED
    BY <1>3, <1>6, <1>8 DEF IsInjective

(* The parameters for which the walk is right: a rule that keeps to its    *)
(* meaning, a range within the calendar and within next's safety limit.    *)
Fits(rule, start, length, from, to) ==
    /\ rule \in Rules /\ start \in Nat /\ length \in Nat /\ from \in Nat /\ to \in Nat
    /\ Regular(rule, start)
    /\ to <= Horizon * PerDay
    /\ Day(to) < MaxIterations

LEMMA DayNat ==
    ASSUME NEW t \in Nat
    PROVE  Day(t) \in Nat
<1>1. PICK P \in Nat : P = PerDay /\ P > 0
    BY RecurrenceAssumption
<1>2. t \div P \in Nat
    BY <1>1
<1> QED BY <1>1, <1>2 DEF Day

LEMMA PastTheEnd ==
    ASSUME NEW rule, NEW start, NEW length, NEW from, NEW to,
           Fits(rule, start, length, from, to), NEW d \in Nat, TimeOf(start, d) < to
    PROVE  d < Horizon /\ d < MaxIterations
<1>1. start \in Nat /\ to \in Nat /\ to <= Horizon * PerDay /\ Day(to) < MaxIterations
    BY DEF Fits
<1>2. Horizon * PerDay \in Int /\ MaxIterations \in Nat
    BY HorizonIs, RecurrenceAssumption
<1>3. PICK t \in Nat, h \in Int : t = TimeOf(start, d) /\ h = Horizon * PerDay
    BY <1>1, <1>2, TimesTyped
<1>4. t < h
    BY <1>1, <1>3
<1>5. d < Horizon
    BY <1>1, <1>3, <1>4, DayOfTime
<1>6. PICK q \in Nat : q = Day(to) /\ d <= q
    BY <1>1, DayNat, DayOfTime
<1> QED
    BY <1>1, <1>2, <1>5, <1>6

(* A round of the walk is over just when the rule's day is not allowed.    *)
LEMMA OverIs ==
    ASSUME NEW rule, NEW start, NEW length, NEW from, NEW to,
           Fits(rule, start, length, from, to), NEW d \in Nat,
           NEW n \in Nat, d < Horizon => n = 1 + Rank(rule, Day(start), d)
    PROVE  (\/ n > MaxIterations
            \/ rule.until # NoUntil /\ TimeOf(start, d) > rule.until
            \/ TimeOf(start, d) >= to
            \/ rule.count # NoLimit /\ n > rule.count)
           <=> ~Allowed(rule, start, to, d)
<1>1. start \in Nat /\ to \in Nat /\ rule \in Rules /\ Day(start) \in Nat
    BY DayNat DEF Fits
<1>2. PICK t \in Nat : t = TimeOf(start, d)
    BY <1>1, TimesTyped
<1>3. PICK k \in Nat : k = Rank(rule, Day(start), d) /\ k <= d
    BY <1>1, RankBounds
<1>4. PICK count \in Nat, until \in Int : count = rule.count /\ until = rule.until
    BY <1>1, RuleTyped
<1>5. PICK limit \in Nat : limit = MaxIterations
    BY RecurrenceAssumption
<1>6. CASE t >= to
    BY <1>1, <1>2, <1>6 DEF Allowed
<1>7. CASE t < to
    <2>1. d < Horizon /\ d < limit
        BY <1>2, <1>5, <1>7, PastTheEnd
    <2>2. n = 1 + k /\ n <= limit
        BY <1>3, <2>1
    <2> QED BY <1>1, <1>2, <1>3, <1>4, <1>5, <1>7, <2>2 DEF Allowed
<1> QED
    BY <1>1, <1>2, <1>6, <1>7

LEMMA DueStep ==
    ASSUME NEW rule, NEW start, NEW length, NEW from, NEW to,
           Fits(rule, start, length, from, to), NEW d \in Nat, NEW e \in Nat, d < e,
           Meets(rule, Day(start), d), NoneBetween(rule, Day(start), d + 1, e),
           Allowed(rule, start, to, d)
    PROVE  Due(rule, start, length, from, to, d) =
             (IF TimeOf(start, d) + length > from THEN {TimeOf(start, d)} ELSE {})
                \cup Due(rule, start, length, from, to, e)
<1>1. ASSUME NEW x \in Nat, d <= x, Meets(rule, Day(start), x), Allowed(rule, start, to, x)
      PROVE  x = d \/ e <= x
    <2>1. TimeOf(start, x) < to
        BY <1>1 DEF Allowed
    <2>2. x < Horizon
        BY <2>1, PastTheEnd
    <2> QED BY <1>1, <2>2 DEF NoneBetween
<1>2. ASSUME NEW t \in Due(rule, start, length, from, to, d)
      PROVE  \/ TimeOf(start, d) + length > from /\ t = TimeOf(start, d)
             \/ t \in Due(rule, start, length, from, to, e)
    <2>1. PICK x \in Nat : /\ d <= x /\ t = TimeOf(start, x)
                           /\ Meets(rule, Day(start), x) /\ Allowed(rule, start, to, x)
                           /\ TimeOf(start, x) + length > from
        BY <1>2 DEF Due
    <2>2. x = d \/ e <= x
        BY <1>1, <2>1
    <2> QED BY <2>1, <2>2 DEF Due
<1>3. ASSUME NEW t \in Due(rule, start, length, from, to, e)
      PROVE  t \in Due(rule, start, length, from, to, d)
    <2>1. PICK x \in Nat : /\ e <= x /\ t = TimeOf(start, x)
                           /\ Meets(rule, Day(start), x) /\ Allowed(rule, start, to, x)
                           /\ TimeOf(start, x) + length > from
        BY <1>3 DEF Due
    <2>2. d <= x
        BY <2>1
    <2> QED BY <2>1, <2>2 DEF Due
<1>4. ASSUME TimeOf(start, d) + length > from
      PROVE  TimeOf(start, d) \in Due(rule, start, length, from, to, d)
    <2>1. d <= d
        OBVIOUS
    <2> QED BY <1>4, <2>1 DEF Due
<1> QED
    BY <1>2, <1>3, <1>4

LEMMA WalkRight ==
    ASSUME NEW rule, NEW start, NEW length, NEW from, NEW to,
           Fits(rule, start, length, from, to), NEW w, Walks(w, rule, start, length, from, to),
           NEW it, Standing(rule, Day(start), it), NEW n \in Nat,
           it.day < Horizon => n = 1 + Rank(rule, Day(start), it.day)
    PROVE  Right(rule, start, length, from, to, w[n][it], it.day)
<1>1. PICK first \in Nat : first = Day(start)
    BY DayNat DEF Fits
<1>2. /\ start \in Nat /\ to \in Nat /\ rule \in Rules /\ length \in Nat /\ from \in Nat
      /\ Regular(rule, start) /\ to <= Horizon * PerDay /\ Horizon \in Nat /\ Day(start) \in Nat
    BY <1>1, HorizonIs DEF Fits
<1> DEFINE Claim(i, k) == /\ Standing(rule, first, i)
                          /\ (i.day < Horizon => k = 1 + Rank(rule, first, i.day))
                          => Right(rule, start, length, from, to, w[k][i], i.day)
           S == {h \in Nat : \A i \in Iterators, k \in Nat : i.day + h >= Horizon => Claim(i, k)}
<1>3. ASSUME NEW i \in Iterators, NEW k \in Nat, Standing(rule, first, i),
             i.day < Horizon => k = 1 + Rank(rule, first, i.day),
             NEW t \in Nat, t = TimeOf(start, i.day), NEW d \in Nat, d = i.day
      PROVE  w[k][i] = IF ~Allowed(rule, start, to, d) THEN <<>>
                       ELSE (IF t + length > from THEN <<t>> ELSE <<>>)
                                \o w[k + 1][Advance(rule, first, i)]
    <2>1. i.day # Forever
        BY <1>3 DEF Forever
    <2>2. w[k][i] = Round(rule, start, length, from, to, k, w[k + 1])[i]
        BY WalkStep
    <2>3. (\/ k > MaxIterations
           \/ rule.until # NoUntil /\ t > rule.until
           \/ t >= to
           \/ rule.count # NoLimit /\ k > rule.count)
          <=> ~Allowed(rule, start, to, d)
        BY <1>1, <1>3, OverIs
    <2>4. w[k][i] =
             IF i.day = Forever THEN <<Forever>>
             ELSE IF \/ k > MaxIterations
                     \/ rule.until # NoUntil /\ t > rule.until
                     \/ t >= to
                     \/ rule.count # NoLimit /\ k > rule.count THEN <<>>
             ELSE (IF t + length > from THEN <<t>> ELSE <<>>)
                    \o w[k + 1][Advance(rule, Day(start), i)]
        BY <1>3, <2>2, RoundIs
    <2> QED BY <1>1, <2>1, <2>3, <2>4
<1>4. ASSUME NEW i \in Iterators, NEW k \in Nat, Standing(rule, first, i),
             i.day < Horizon => k = 1 + Rank(rule, first, i.day),
             ~Allowed(rule, start, to, i.day)
      PROVE  Right(rule, start, length, from, to, w[k][i], i.day)
    <2>1. PICK d \in Nat, t \in Nat : d = i.day /\ t = TimeOf(start, d)
        BY <1>2, <1>4, TimesTyped DEF Standing
    <2>2. w[k][i] = <<>>
        BY <1>3, <1>4, <2>1
    <2>3. Due(rule, start, length, from, to, d) = {}
        <3>1. ASSUME NEW e \in Nat, d <= e, Allowed(rule, start, to, e) PROVE FALSE
            BY <1>2, <1>4, <2>1, <3>1, AllowedFalls
        <3> QED BY <3>1 DEF Due
    <2> QED BY <2>1, <2>2, <2>3, RangeEmpty DEF Right
<1>5. ASSUME NEW i \in Iterators, Standing(rule, first, i), i.day >= Horizon
      PROVE  ~Allowed(rule, start, to, i.day)
    <2>1. PICK d \in Nat, t \in Nat : d = i.day /\ t = TimeOf(start, d)
        BY <1>2, <1>5, TimesTyped DEF Standing
    <2>2. ~(t < to)
        BY <1>2, <1>5, <2>1, PastTheEnd
    <2> QED BY <2>1, <2>2 DEF Allowed
<1>6. 0 \in S
    <2> SUFFICES ASSUME NEW i \in Iterators, NEW k \in Nat, i.day + 0 >= Horizon,
                        Standing(rule, first, i),
                        i.day < Horizon => k = 1 + Rank(rule, first, i.day)
                 PROVE  Right(rule, start, length, from, to, w[k][i], i.day)
        OBVIOUS
    <2>1. i.day >= Horizon
        BY <1>2 DEF Standing
    <2> QED BY <1>4, <1>5, <2>1
<1>7. ASSUME NEW h \in Nat, h \in S PROVE h + 1 \in S
    <2> SUFFICES ASSUME NEW i \in Iterators, NEW k \in Nat, i.day + (h + 1) >= Horizon,
                        Standing(rule, first, i),
                        i.day < Horizon => k = 1 + Rank(rule, first, i.day)
                 PROVE  Right(rule, start, length, from, to, w[k][i], i.day)
        OBVIOUS
    <2>1. CASE ~Allowed(rule, start, to, i.day)
        BY <1>4, <2>1
    <2>2. CASE Allowed(rule, start, to, i.day)
        <3>1. PICK d \in Nat, t \in Nat : d = i.day /\ t = TimeOf(start, d) /\ first <= d
            BY <1>2, TimesTyped DEF Standing
        <3>2. d < Horizon
            BY <1>2, <1>5, <2>2, <3>1
        <3>3. Meets(rule, first, d) /\ k = 1 + Rank(rule, first, d)
            BY <3>1, <3>2 DEF Standing
        <3>4. PICK next : next = Advance(rule, first, i)
            OBVIOUS
        <3>5. Follows(rule, first, i, next)
            BY <1>1, <1>2, <3>1, <3>2, <3>4, AdvanceFollows
        <3>6. PICK e \in Nat : /\ e = next.day /\ d < e /\ next \in Iterators
                               /\ Standing(rule, first, next)
                               /\ NoneBetween(rule, first, d + 1, e)
            BY <3>1, <3>5 DEF Follows, Standing
        <3>7. e < Horizon => k + 1 = 1 + Rank(rule, first, e)
            <4>1. SUFFICES ASSUME e < Horizon PROVE k + 1 = 1 + Rank(rule, first, e)
                OBVIOUS
            <4>2. e <= Horizon
                BY <1>2, <4>1
            <4>3. Rank(rule, first, e) = Rank(rule, first, d) + 1
                BY <3>1, <3>3, <3>6, <4>2, RankNext
            <4>4. Rank(rule, first, d) \in Nat
                BY RankBounds
            <4> QED BY <3>3, <4>3, <4>4
        <3>8. e + h >= Horizon
            BY <1>2, <3>1, <3>6
        <3>9. PICK s : s = w[k + 1][next]
            OBVIOUS
        <3>10. Right(rule, start, length, from, to, s, e)
            BY <1>7, <3>6, <3>7, <3>8, <3>9
        <3>11. w[k][i] = (IF t + length > from THEN <<t>> ELSE <<>>) \o s
            BY <1>3, <2>2, <3>1, <3>4, <3>9
        <3>12. Due(rule, start, length, from, to, d) =
                 (IF t + length > from THEN {t} ELSE {})
                    \cup Due(rule, start, length, from, to, e)
            <4>1. /\ Meets(rule, Day(start), d) /\ NoneBetween(rule, Day(start), d + 1, e)
                  /\ Allowed(rule, start, to, d) /\ d < e
                BY <1>1, <2>2, <3>1, <3>3, <3>6
            <4>2. Due(rule, start, length, from, to, d) =
                    (IF TimeOf(start, d) + length > from THEN {TimeOf(start, d)} ELSE {})
                        \cup Due(rule, start, length, from, to, e)
                BY <4>1, DueStep
            <4> QED BY <3>1, <4>2
        <3>13. t \notin Due(rule, start, length, from, to, e)
            BY <1>2, <3>1, <3>6, DueLater
        <3>14. s \in Seq(Nat) /\ Range(s) = Due(rule, start, length, from, to, e) /\ IsInjective(s)
            BY <3>10 DEF Right
        <3>15. CASE t + length > from
            <4>1. w[k][i] = <<t>> \o s
                BY <3>11, <3>15
            <4>2. /\ <<t>> \o s \in Seq(Nat) /\ Range(<<t>> \o s) = {t} \cup Range(s)
                  /\ IsInjective(<<t>> \o s)
                BY <3>13, <3>14, RangeCons
            <4>3. Range(<<t>> \o s) = Due(rule, start, length, from, to, d)
                BY <3>12, <3>14, <3>15, <4>2
            <4> QED BY <3>1, <4>1, <4>2, <4>3 DEF Right
        <3>16. CASE ~(t + length > from)
            <4>1. w[k][i] = <<>> \o s
                BY <3>11, <3>16
            <4>2. <<>> \o s = s
                BY <3>14
            <4>3. Range(s) = Due(rule, start, length, from, to, d)
                BY <3>12, <3>14, <3>16
            <4> QED BY <3>1, <3>14, <4>1, <4>2, <4>3 DEF Right
        <3> QED BY <3>15, <3>16
    <2> QED BY <2>1, <2>2
<1> HIDE DEF S
<1>8. \A h \in Nat : h \in S
    BY <1>6, <1>7, Induction
<1>9. Horizon \in S
    BY <1>2, <1>8
<1>10. it \in Iterators /\ it.day \in Nat /\ Standing(rule, first, it)
    BY <1>1 DEF Standing
<1>11. it.day + Horizon >= Horizon
    BY <1>2, <1>10
<1> QED
    BY <1>1, <1>9, <1>10, <1>11 DEF S

LEMMA ExpandDue ==
    ASSUME NEW rule, NEW start, NEW length, NEW from, NEW to,
           Fits(rule, start, length, from, to)
    PROVE  Right(rule, start, length, from, to, Expand(rule, start, length, from, to), Day(start))
<1>1. PICK first \in Nat : first = Day(start)
    BY DayNat DEF Fits
<1>2. rule \in Rules /\ Regular(rule, start)
    BY DEF Fits
<1>3. PICK it : it = StartOf(rule, first)
    OBVIOUS
<1>4. Standing(rule, first, it) /\ NoneBetween(rule, first, first, it.day)
    BY <1>1, <1>2, <1>3, StartFollows
<1>5. PICK d \in Nat : d = it.day /\ first <= d
    BY <1>4 DEF Standing
<1>6. d < Horizon => 1 = 1 + Rank(rule, first, d)
    <2>1. SUFFICES ASSUME d < Horizon PROVE 1 = 1 + Rank(rule, first, d)
        OBVIOUS
    <2>2. d <= Horizon
        BY <2>1, HorizonIs
    <2>3. Rank(rule, first, d) = 0
        BY <1>4, <1>5, <2>2, RankNone
    <2> QED BY <2>3
<1>7. PICK w : w = Walk(rule, start, length, from, to) /\ Walks(w, rule, start, length, from, to)
    BY WalkIs
<1>8. PICK s : s = Expand(rule, start, length, from, to) /\ s = w[1][it]
    BY <1>1, <1>3, <1>7 DEF Expand
<1>9. Right(rule, start, length, from, to, s, d)
    BY <1>1, <1>4, <1>5, <1>6, <1>7, <1>8, WalkRight
<1>10. Due(rule, start, length, from, to, d) = Due(rule, start, length, from, to, first)
    <2>1. ASSUME NEW x \in Nat, first <= x, Meets(rule, first, x), Allowed(rule, start, to, x)
          PROVE  d <= x
        <3>1. TimeOf(start, x) < to
            BY <2>1 DEF Allowed
        <3>2. x < Horizon
            BY <3>1, PastTheEnd
        <3> QED BY <1>4, <1>5, <2>1, <3>2 DEF NoneBetween
    <2>2. ASSUME NEW x \in Nat PROVE
            (d <= x /\ Meets(rule, first, x) /\ Allowed(rule, start, to, x)) <=>
            (first <= x /\ Meets(rule, first, x) /\ Allowed(rule, start, to, x))
        BY <1>5, <2>1
    <2>3. ASSUME NEW x \in Nat PROVE
            (d <= x /\ Meets(rule, Day(start), x) /\ Allowed(rule, start, to, x)) <=>
            (first <= x /\ Meets(rule, Day(start), x) /\ Allowed(rule, start, to, x))
        BY <1>1, <2>2
    <2> QED BY <2>3 DEF Due
<1> QED
    BY <1>1, <1>8, <1>9, <1>10 DEF Right

(* The days of a rule up to one of them are as many as their times.        *)
LEMMA RankIs ==
    ASSUME NEW rule, NEW start, NEW length, NEW from, NEW to,
           Fits(rule, start, length, from, to), NEW first \in Nat, first = Day(start),
           NEW times,
           times = {t \in {TimeOf(start, x) :
                             x \in {x \in first..Day(to) : Meets(rule, first, x)}} :
                      t < to /\ (rule.until # NoUntil => t <= rule.until)},
           NEW d \in Nat, first <= d, Meets(rule, first, d), TimeOf(start, d) \in times
    PROVE  Cardinality({u \in times : u <= TimeOf(start, d)}) = Rank(rule, first, d) + 1
<1>1. start \in Nat /\ to \in Nat /\ rule \in Rules /\ Horizon \in Nat
    BY HorizonIs DEF Fits
<1>2. PICK t \in Nat : t = TimeOf(start, d) /\ t \in times
    BY <1>1, TimesTyped
<1>3. PICK until \in Int : until = rule.until
    BY <1>1, RuleTyped
<1>4. t < to /\ (until # NoUntil => t <= until)
    BY <1>2, <1>3
<1>5. d < Horizon
    BY <1>2, <1>4, PastTheEnd
<1>6. PICK last \in Nat : last = Day(to)
    BY <1>1, DayNat
<1>7. PICK e \in Nat : e = d + 1
    OBVIOUS
<1> DEFINE D == {x \in first..(e - 1) : Meets(rule, first, x)}
           U == {u \in times : u <= t}
           f == [x \in D |-> TimeOf(start, x)]
<1>8. IsFiniteSet(D) /\ Cardinality(D) = Rank(rule, first, d) + 1
    <2>1. e <= Horizon /\ d < e
        BY <1>1, <1>5, <1>7
    <2>2. NoneBetween(rule, first, d + 1, e)
        BY <1>7 DEF NoneBetween
    <2>3. Rank(rule, first, e) = Rank(rule, first, d) + 1
        BY <2>1, <2>2, RankNext
    <2>4. IsFiniteSet(D)
        BY RankBounds
    <2>5. Cardinality(D) = Rank(rule, first, e)
        BY Zenon DEF Rank
    <2> QED BY <2>3, <2>4, <2>5
<1>9. ASSUME NEW x \in D PROVE x \in Nat /\ first <= x /\ x <= d /\ Meets(rule, first, x)
    BY <1>7
<1>10. ASSUME NEW x \in D PROVE TimeOf(start, x) \in U
    <2>1. PICK y \in Nat : y = x /\ first <= y /\ y <= d /\ Meets(rule, first, y)
        BY <1>9
    <2>2. PICK v \in Nat : v = TimeOf(start, y)
        BY <1>1, TimesTyped
    <2>3. v <= t
        <3>1. y = d \/ y < d
            BY <2>1
        <3>2. y < d => v < t
            BY <1>1, <1>2, <2>2, LaterTimes
        <3> QED BY <1>2, <2>2, <3>1, <3>2
    <2>4. v < to /\ (until # NoUntil => v <= until)
        BY <1>1, <1>4, <2>3
    <2>5. y <= last
        BY <1>1, <1>6, <2>2, <2>4, DayOfTime
    <2>6. y \in {x_1 \in first..Day(to) : Meets(rule, first, x_1)}
        BY <1>6, <2>1, <2>5
    <2> QED BY <1>3, <2>1, <2>2, <2>3, <2>4, <2>6
<1>11. ASSUME NEW u \in U PROVE \E x \in D : TimeOf(start, x) = u
    <2>1. PICK x \in first..Day(to) : u = TimeOf(start, x) /\ Meets(rule, first, x)
        OBVIOUS
    <2>2. PICK y \in Nat : y = x /\ first <= y
        BY <1>6, <2>1
    <2>3. PICK v \in Nat : v = u /\ v <= t /\ v = TimeOf(start, y)
        BY <1>1, <2>1, <2>2, TimesTyped
    <2>4. ~(d < y)
        <3>1. d < y => t < v
            BY <1>1, <1>2, <2>3, LaterTimes
        <3> QED BY <2>3, <3>1
    <2>5. y \in D
        BY <1>7, <2>1, <2>2, <2>4
    <2> QED BY <2>3, <2>5
<1>12. ASSUME NEW x \in D, NEW y \in D, TimeOf(start, x) = TimeOf(start, y) PROVE x = y
    BY <1>1, <1>9, <1>12, SameTimes
<1> HIDE DEF D, U
<1>13. f \in Surjection(D, U)
    BY <1>10, <1>11 DEF Surjection
<1>14. f \in Injection(D, U)
    BY <1>10, <1>12 DEF Injection, IsInjective
<1> HIDE DEF f
<1>15. Cardinality(U) = Cardinality(D)
    BY <1>8, <1>13, <1>14, FS_Surjection
<1> QED
    BY <1>2, <1>8, <1>15 DEF U

LEMMA MaxOfTwo ==
    ASSUME NEW a \in Int, NEW b \in Int
    PROVE  Max({a, b}) = IF a >= b THEN a ELSE b
<1> DEFINE m == IF a >= b THEN a ELSE b
<1>1. m \in {a, b} /\ \A y \in {a, b} : m >= y
    OBVIOUS
<1>2. \A x, y \in {a, b} : x >= y /\ y >= x => x = y
    OBVIOUS
<1>3. Max({a, b}) = CHOOSE x \in {a, b} : \A y \in {a, b} : x >= y
    BY DEF Max
<1> HIDE DEF m
<1>4. Max({a, b}) = m
    BY <1>1, <1>2, <1>3
<1> QED BY <1>4 DEF m

(* Expand comes up with what a regular rule means in the range, COUNT,     *)
(* UNTIL and the events under way when it begins included: each occurrence *)
(* once, and no other (recurrence.Expand).                                 *)
THEOREM ExpandMeans ==
    ASSUME NEW rule, NEW start, NEW length, NEW from, NEW to,
           Fits(rule, start, length, from, to)
    PROVE  /\ Expand(rule, start, length, from, to) \in Seq(Nat)
           /\ Range(Expand(rule, start, length, from, to)) = Meant(rule, start, from - length, to)
           /\ IsInjective(Expand(rule, start, length, from, to))
<1>1. PICK first \in Nat : first = Day(start)
    BY DayNat DEF Fits
<1>2. /\ start \in Nat /\ to \in Nat /\ rule \in Rules /\ length \in Nat /\ from \in Nat
    BY DEF Fits
<1>3. PICK after \in Int : after = from - length
    BY <1>2
<1>4. PICK last \in Nat : last = Day(to)
    BY <1>2, DayNat
<1>5. PICK early \in Int : early = Day(after)
    BY <1>2, DayOfTime
<1> DEFINE low == IF rule.count = NoLimit THEN Max({first, early}) ELSE first
<1>6. PICK l \in Nat : l = low /\ first <= l /\ (rule.count # NoLimit => l = first)
                       /\ (l = first \/ l = early)
    BY <1>5, MaxOfTwo
<1>7. PICK days : days = {d \in l..last : Meets(rule, first, d)}
    OBVIOUS
<1>8. PICK times : times = {t \in {TimeOf(start, d) : d \in days} :
                              t < to /\ (rule.until # NoUntil => t <= rule.until)}
    OBVIOUS
<1>9. Meant(rule, start, after, to) =
        {t \in times : t > after /\ (\/ rule.count = NoLimit
                                     \/ Cardinality({u \in times : u <= t}) <= rule.count)}
    BY <1>1, <1>4, <1>5, <1>6, <1>7, <1>8 DEF Meant
<1>10. ASSUME rule.count # NoLimit, NEW d \in Nat, first <= d, Meets(rule, first, d),
              TimeOf(start, d) \in times
       PROVE  Cardinality({u \in times : u <= TimeOf(start, d)}) = Rank(rule, first, d) + 1
    <2>1. times = {t \in {TimeOf(start, x) :
                            x \in {x \in first..Day(to) : Meets(rule, first, x)}} :
                      t < to /\ (rule.until # NoUntil => t <= rule.until)}
        BY <1>4, <1>6, <1>7, <1>8, <1>10
    <2> QED BY <1>1, <1>10, <2>1, RankIs
<1>11. ASSUME NEW t \in Due(rule, start, length, from, to, first)
       PROVE  t \in Meant(rule, start, after, to)
    <2>1. PICK d \in Nat : /\ first <= d /\ t = TimeOf(start, d)
                           /\ Meets(rule, Day(start), d) /\ Allowed(rule, start, to, d)
                           /\ TimeOf(start, d) + length > from
        BY <1>11 DEF Due
    <2>2. PICK v \in Nat : v = t /\ v = TimeOf(start, d)
        BY <1>2, <2>1, TimesTyped
    <2>3. v < to /\ v > after
        BY <1>2, <1>3, <2>1, <2>2 DEF Allowed
    <2>4. d <= last /\ early <= d
        BY <1>2, <1>4, <1>5, <2>2, <2>3, DayOfTime
    <2>5. d \in days
        BY <1>1, <1>6, <1>7, <2>1, <2>4
    <2>6. v \in times
        BY <1>8, <2>1, <2>2, <2>3, <2>5 DEF Allowed
    <2>7. rule.count # NoLimit => Cardinality({u \in times : u <= v}) <= rule.count
        BY <1>1, <1>10, <2>1, <2>2, <2>6 DEF Allowed
    <2> QED BY <1>9, <2>2, <2>3, <2>6, <2>7
<1>12. ASSUME NEW t \in Meant(rule, start, after, to)
       PROVE  t \in Due(rule, start, length, from, to, first)
    <2>1. /\ t \in times /\ t > after
          /\ rule.count # NoLimit => Cardinality({u \in times : u <= t}) <= rule.count
        BY <1>9, <1>12
    <2>2. PICK d \in days : t = TimeOf(start, d)
        BY <1>8, <2>1
    <2>3. d \in Nat /\ first <= d /\ Meets(rule, first, d)
        BY <1>6, <1>7
    <2>4. PICK v \in Nat : v = t
        BY <1>2, <2>2, <2>3, TimesTyped
    <2>5. v < to /\ (rule.until # NoUntil => v <= rule.until)
        BY <1>8, <2>1, <2>4
    <2>6. v + length > from
        BY <1>2, <1>3, <2>1, <2>4
    <2>7. rule.count # NoLimit => Rank(rule, first, d) + 1 <= rule.count
        BY <1>10, <2>1, <2>2, <2>3
    <2>8. Allowed(rule, start, to, d)
        BY <1>1, <2>2, <2>4, <2>5, <2>7 DEF Allowed
    <2> QED BY <1>1, <2>2, <2>3, <2>4, <2>6, <2>8 DEF Due
<1>13. Due(rule, start, length, from, to, first) = Meant(rule, start, after, to)
    BY <1>11, <1>12
<1> QED
    BY <1>1, <1>3, <1>13, ExpandDue DEF Right

(* Expand returns for every regular rule and range: only what Regular      *)
(* leaves out, 29 February by the year, keeps next in its loop.            *)
THEOREM ExpandEnds ==
    ASSUME NEW rule, NEW start, NEW length, NEW from, NEW to,
           Fits(rule, start, length, from, to)
    PROVE  ExpandReturns(rule, start, length, from, to)
<1>1. PICK s \in Seq(Nat) : s = Expand(rule, start, length, from, to)
    BY ExpandMeans
<1>2. Forever \notin Range(s)
    BY DEF Range, Forever
<1> QED
    BY <1>1, <1>2 DEF ExpandReturns

(* A round ends the walk where no day follows.                             *)
LEMMA NoDayFollows ==
    ASSUME NEW rule, NEW start, NEW length, NEW from, NEW to, NEW n, NEW rest,
           NEW it \in Iterators, it.day = Forever
    PROVE  Round(rule, start, length, from, to, n, rest)[it] = <<Forever>>
BY Zenon DEF Round

(* Of a series of 29 February by the year no range returns that reaches    *)
(* beyond its start, unless the rule's next year is a leap year: from      *)
(* 1 March advanceYearly comes to no 29th any more (finding of ViewsEnd).  *)
THEOREM LeapDaysHang ==
    ASSUME NEW rule \in Rules, rule.freq = "yearly",
           NEW start \in Nat, DayOfMonth(Day(start)) = 29, MonthOf(Day(start)) % 12 = 1,
           NEW next \in Nat, next = MonthOf(Day(start)) + 12 * rule.interval,
           MonthLength(next) = 28, next + 1 < MaxMonths,
           NEW length \in Nat, NEW from \in Nat, NEW to \in Nat, start < to,
           rule.until = NoUntil \/ start <= rule.until, MaxIterations > 0
    PROVE  ~ExpandReturns(rule, start, length, from, to)
<1>1. PICK first \in Nat : first = Day(start)
    BY DayNat
<1>2. PICK it \in Iterators : it = StartOf(rule, first) /\ it.day = first /\ it.current = first
    <2>1. ~ByDay(rule)
        BY DEF ByDay
    <2>2. StartOf(rule, first) = OnDay(first)
        BY <2>1 DEF StartOf
    <2>3. /\ OnDay(first) \in Iterators
          /\ OnDay(first).day = first /\ OnDay(first).current = first
        BY DEF OnDay, Iterators
    <2> QED BY <2>2, <2>3
<1>3. Advance(rule, first, it) = OnDay(Forever)
    <2>1. PICK day : day = AddMonths(first, 12 * rule.interval)
        OBVIOUS
    <2>2. day = Date(next, 29)
        BY <1>1, <2>1 DEF AddMonths
    <2>3. PICK s \in Nat : s = MonthStart(next) /\ MonthStart(next + 1) = s + 28
        BY MonthStartNat, NextMonthStarts
    <2>4. day = s + 29 - 1
        BY <2>2, <2>3, HorizonIs DEF Date
    <2>5. 1 \in 1..MonthLength(next + 1)
        BY MonthLengthBounds
    <2>6. PICK u \in Nat : u = Date(next + 1, 1)
        BY <2>5, DateFits
    <2>7. u < Horizon /\ u = MonthStart(next + 1) + 1 - 1 /\ DayOfMonth(u) = 1
        BY <2>5, <2>6, DateFits
    <2>8. day = u
        BY <2>3, <2>4, <2>7
    <2>9. AdvanceYearly(rule, first, it) = OnDay(Forever)
        BY <1>1, <1>2, <2>1, <2>7, <2>8 DEF AdvanceYearly
    <2> QED BY <2>9 DEF Advance
<1>4. PICK w : w = Walk(rule, start, length, from, to) /\ Walks(w, rule, start, length, from, to)
    BY WalkIs
<1>5. PICK last \in Iterators : last = OnDay(Forever) /\ last.day = Forever
    <2>1. Forever \in Int
        BY DEF Forever
    <2>2. OnDay(Forever) \in Iterators /\ OnDay(Forever).day = Forever
        BY <2>1 DEF OnDay, Iterators
    <2> QED BY <2>2
<1>6. w[2][last] = <<Forever>>
    <2>1. PICK two \in Nat : two = 2
        OBVIOUS
    <2>2. PICK rest : rest = w[two + 1]
        OBVIOUS
    <2>3. w[two] = Round(rule, start, length, from, to, two, rest)
        BY <1>4, <2>2, WalkStep
    <2>4. Round(rule, start, length, from, to, two, rest)[last] = <<Forever>>
        BY <1>5, NoDayFollows
    <2> QED BY <2>1, <2>3, <2>4
<1>7. PICK t \in Nat : t = TimeOf(start, it.day) /\ t = start
    <2>1. PICK P \in Nat : P = PerDay /\ P > 0
        BY RecurrenceAssumption
    <2>2. start \div P \in Nat /\ start % P \in Nat /\ start = P * (start \div P) + (start % P)
        BY <2>1
    <2>3. PICK q \in Nat : q = start \div P
        BY <2>2
    <2>4. PICK r \in Nat : r = start % P /\ start = q * P + r
        BY <2>2, <2>3
    <2>5. TimeOf(start, it.day) = it.day * P + r
        BY <2>1, <2>4 DEF TimeOf, Minute
    <2>6. it.day = q
        BY <1>1, <1>2, <2>1, <2>3 DEF Day
    <2> QED BY <2>4, <2>5, <2>6
<1>8. w[1][it] = (IF t + length > from THEN <<t>> ELSE <<>>) \o <<Forever>>
    <2>1. PICK one \in Nat : one = 1
        OBVIOUS
    <2>2. PICK rest : rest = w[one + 1]
        OBVIOUS
    <2>3. w[one] = Round(rule, start, length, from, to, one, rest)
        BY <1>4, <2>2, WalkStep
    <2>4. ~(\/ one > MaxIterations
            \/ rule.until # NoUntil /\ t > rule.until
            \/ t >= to
            \/ rule.count # NoLimit /\ one > rule.count)
        <3>1. MaxIterations \in Nat
            BY RecurrenceAssumption
        <3> QED BY <1>7, <2>1, <3>1, RuleTyped DEF NoLimit
    <2>5. it.day # Forever
        BY <1>2 DEF Forever
    <2>6. Round(rule, start, length, from, to, one, rest)[it] =
             (IF t + length > from THEN <<t>> ELSE <<>>) \o rest[Advance(rule, Day(start), it)]
        <3>1. it \in Iterators /\ t = TimeOf(start, it.day)
            BY <1>7
        <3> QED BY ONLY <3>1, <2>4, <2>5, Zenon DEF Round
    <2>7. rest[Advance(rule, Day(start), it)] = <<Forever>>
        BY <1>1, <1>3, <1>5, <1>6, <2>1, <2>2
    <2>8. w[1] = Round(rule, start, length, from, to, one, rest)
        BY <2>1, <2>3
    <2> QED BY <2>6, <2>7, <2>8
<1>9. Forever \in Range(w[1][it])
    <2>1. Forever \in Int
        BY DEF Forever
    <2>2. PICK f \in Int : f = Forever
        BY <2>1
    <2>3. f \in Range(<<t>> \o <<f>>) /\ f \in Range(<<>> \o <<f>>)
        <3>1. (<<t>> \o <<f>>)[2] = f /\ 2 \in DOMAIN (<<t>> \o <<f>>)
            OBVIOUS
        <3>2. (<<>> \o <<f>>)[1] = f /\ 1 \in DOMAIN (<<>> \o <<f>>)
            OBVIOUS
        <3> QED BY <3>1, <3>2, Zenon DEF Range
    <2> QED BY <1>8, <2>2, <2>3
<1> QED
    BY <1>1, <1>2, <1>4, <1>9 DEF ExpandReturns, Expand

-----------------------------------------------------------------------------
(* The calendar's types.                                                   *)

AnyLead == Leads \cup {NoLead}

CalendarRequest(r) ==
    /\ r.op \in {"idle", "remind", "except", "series"}
    /\ r.op = "remind" => r.lead \in AnyLead
    /\ r.op = "except" => r.row \in EventRow /\ (r.id # NoParent => r.lead \in AnyLead)
    /\ r.op = "series" => r.times \in Timings /\ r.lead \in AnyLead

CalendarRequests == DOMAIN request = Handlers /\ \A h \in Handlers : CalendarRequest(request[h])

CalendarInv == CalendarTypeOK /\ CalendarRequests

LEMMA RowTyped ==
    ASSUME NEW times \in Timings
    PROVE  Row(times) \in EventRow
BY CalendarAssumption DEF Row, EventRow, NoParent, NoOriginal

LEMMA ExceptionTyped ==
    ASSUME NEW times, times.start \in Nat, times.length \in Nat,
           NEW parent \in 0..MaxRows, NEW original \in Nat, NEW cancelled \in BOOLEAN
    PROVE  Exception(parent, original, times, cancelled) \in EventRow
BY DEF Exception, Row, EventRow

LEMMA IssuedEventsFit ==
    ASSUME CalendarTypeOK
    PROVE  IssuedEvents \subseteq EventIDs /\ IssuedEvents \subseteq 0..MaxRows
BY CalendarAssumption DEF CalendarTypeOK, IssuedEvents, EventIDs

LEMMA OriginalTyped ==
    ASSUME NEW start \in Nat, NEW day \in Nat
    PROVE  day * PerDay + Minute(start) \in Nat
<1>1. PerDay \in Nat /\ PerDay > 0
    BY RecurrenceAssumption
<1>2. start % PerDay \in Nat
    BY <1>1
<1>3. day * PerDay \in Nat
    BY <1>1
<1> QED
    BY <1>2, <1>3 DEF Minute

LEMMA InsertTyped ==
    ASSUME CalendarTypeOK, NEW row \in EventRow, Insert(row)
    PROVE  CalendarTypeOK'
BY CalendarAssumption DEF CalendarTypeOK, Insert, EventIDs

LEMMA SetTimesTyped ==
    ASSUME CalendarTypeOK, NEW id, NEW times \in Timings, SetTimes(id, times),
           UNCHANGED nextEvent
    PROVE  CalendarTypeOK'
<1>1. CASE event' = event
    BY <1>1 DEF CalendarTypeOK
<1>2. CASE event' # event /\ id \in EventIDs
    <2> DEFINE row == [event[id] EXCEPT !.start = times.start, !.length = times.length,
                                        !.rule = times.rule]
    <2>1. event[id] \in EventRow /\ event' = [event EXCEPT ![id] = row]
        BY <1>2 DEF SetTimes, CalendarTypeOK
    <2>2. row \in EventRow
        BY <2>1, CalendarAssumption DEF EventRow
    <2> HIDE DEF row
    <2> QED
        BY <2>1, <2>2 DEF CalendarTypeOK
<1>3. CASE id \notin EventIDs
    BY <1>3 DEF SetTimes, CalendarTypeOK
<1> QED
    BY <1>1, <1>2, <1>3

LEMMA DeleteRowsTyped ==
    ASSUME CalendarTypeOK, NEW S, DeleteRows(S), UNCHANGED nextEvent
    PROVE  CalendarTypeOK'
BY DEF CalendarTypeOK, DeleteRows

LEMMA PageRequestTyped ==
    ASSUME CalendarRequests, NEW h, NEW r, CalendarRequest(r),
           request' = [request EXCEPT ![h] = r]
    PROVE  CalendarRequests'
BY DEF CalendarRequests

LEMMA RemindTyped ==
    ASSUME CalendarRequests, NEW h, NEW id, NEW lead \in AnyLead, Remind(h, id, lead)
    PROVE  CalendarRequests'
<1>1. PICK r : r = [op |-> "remind", id |-> id, lead |-> lead]
    OBVIOUS
<1>2. CalendarRequest(r) /\ request' = [request EXCEPT ![h] = r]
    BY <1>1 DEF CalendarRequest, Remind, Continue
<1> QED
    BY <1>2, PageRequestTyped

LEMMA PageDoneTyped ==
    ASSUME CalendarRequests, NEW h, Done(h)
    PROVE  CalendarRequests'
BY PageRequestTyped DEF Done, Idle, CalendarRequest

-----------------------------------------------------------------------------
LEMMA ApiTyped ==
    ASSUME CalendarInv,
           \/ \E times \in Timings : ApiEventCreate(times)
           \/ \E id \in IssuedEvents :
                \/ \E times \in Timings : ApiEventUpdate(id, times)
                \/ ApiEventDelete(id)
                \/ \E target \in IssuedEvents : CalendarEventDelete(id, target)
    PROVE  CalendarInv'
<1>1. UNCHANGED request
    BY DEF ApiEventCreate, ApiEventUpdate, ApiEventDelete, CalendarEventDelete
<1>2. CalendarRequests'
    BY <1>1 DEF CalendarInv, CalendarRequests
<1>3. CalendarTypeOK'
    BY InsertTyped, SetTimesTyped, DeleteRowsTyped, RowTyped
    DEF CalendarInv, ApiEventCreate, ApiEventUpdate, ApiEventDelete, CalendarEventDelete
<1> QED
    BY <1>2, <1>3 DEF CalendarInv

LEMMA CreateTyped ==
    ASSUME CalendarInv, NEW h \in Handlers, NEW times \in Timings, NEW lead \in AnyLead,
           CalendarEventCreate(h, times, lead)
    PROVE  CalendarInv'
<1>1. CalendarTypeOK'
    BY InsertTyped, RowTyped DEF CalendarInv, CalendarEventCreate
<1>2. CalendarRequests'
    BY RemindTyped DEF CalendarInv, CalendarEventCreate, CalendarRequests
<1> QED
    BY <1>1, <1>2 DEF CalendarInv

LEMMA UpdateOneTyped ==
    ASSUME CalendarInv, NEW h \in Handlers, NEW id, NEW times \in Timings, NEW lead \in AnyLead,
           UpdateOne(h, id, times, lead)
    PROVE  CalendarInv'
BY SetTimesTyped, RemindTyped DEF CalendarInv, UpdateOne

LEMMA UpdateAllTyped ==
    ASSUME CalendarInv, NEW h \in Handlers, NEW id, NEW parent, NEW times \in Timings,
           NEW lead \in AnyLead, UpdateAll(h, id, parent, times, lead)
    PROVE  CalendarInv'
<1>1. CalendarTypeOK'
    <2>1. CASE UNCHANGED event
        BY <2>1 DEF CalendarInv, CalendarTypeOK, UpdateAll
    <2>2. CASE ~UNCHANGED event
        BY <2>2, DeleteRowsTyped DEF CalendarInv, UpdateAll
    <2> QED
        BY <2>1, <2>2
<1>2. PICK r : r = [op |-> "series", id |-> id, parent |-> parent, times |-> times, lead |-> lead]
    OBVIOUS
<1>3. CalendarRequest(r) /\ request' = [request EXCEPT ![h] = r]
    BY <1>2 DEF CalendarRequest, UpdateAll, Begin
<1> QED
    BY <1>1, <1>3, PageRequestTyped DEF CalendarInv

LEMMA SingleTyped ==
    ASSUME CalendarInv, NEW h \in Handlers, NEW id, NEW parent \in Parents, NEW day \in Days,
           \/ DeleteSingle(h, id, parent, day)
           \/ \E times \in EditedTimes, lead \in AnyLead :
                UpdateSingle(h, id, parent, day, times, lead)
    PROVE  CalendarInv'
<1>1. parent \in 0..MaxRows /\ event[parent] \in EventRow
    BY IssuedEventsFit DEF CalendarInv, CalendarTypeOK, Parents, DeleteSingle, UpdateSingle
<1>2. PICK at \in Nat : at = Original(parent, day)
    BY <1>1, DaysAssumption, OriginalTyped DEF Original, EventRow
<1>3. CalendarTypeOK'
    BY DEF CalendarInv, CalendarTypeOK, DeleteSingle, UpdateSingle, calendarVars
<1>4. CalendarRequests'
    <2>1. CASE DeleteSingle(h, id, parent, day)
        <3> DEFINE times == [start |-> at, length |-> event[parent].length, rule |-> NoRule]
        <3>1. times.start \in Nat /\ times.length \in Nat
            BY <1>1 DEF EventRow
        <3>2. PICK row \in EventRow : row = Exception(parent, at, times, TRUE)
            <4> HIDE DEF times
            <4> QED
                BY <1>1, <3>1, ExceptionTyped
        <3>3. PICK r : r = [op |-> "except", id |-> NoParent, row |-> row]
            OBVIOUS
        <3>4. request' = [request EXCEPT ![h] = r]
            BY <1>2, <2>1, <3>2, <3>3 DEF DeleteSingle, Begin
        <3>5. CalendarRequest(r)
            BY <3>3 DEF CalendarRequest
        <3> QED
            BY <3>4, <3>5, PageRequestTyped DEF CalendarInv
    <2>2. ASSUME NEW times \in EditedTimes, NEW lead \in AnyLead,
                 UpdateSingle(h, id, parent, day, times, lead)
          PROVE  CalendarRequests'
        <3>1. times.start \in Nat /\ times.length \in Nat
            BY CalendarAssumption DEF EditedTimes
        <3>2. PICK row \in EventRow : row = Exception(parent, at, times, FALSE)
            BY <1>1, <3>1, ExceptionTyped
        <3>3. PICK r : r = [op |-> "except", id |-> id, lead |-> lead, row |-> row]
            OBVIOUS
        <3>4. request' = [request EXCEPT ![h] = r]
            BY <1>2, <2>2, <3>2, <3>3 DEF UpdateSingle, Begin
        <3>5. CalendarRequest(r)
            BY <3>3 DEF CalendarRequest
        <3> QED
            BY <3>4, <3>5, PageRequestTyped DEF CalendarInv
    <2> QED
        BY <2>1, <2>2
<1> QED
    BY <1>3, <1>4 DEF CalendarInv

LEMMA SetReminderTyped ==
    ASSUME CalendarInv, NEW h \in Handlers, SetReminderMinutes(h)
    PROVE  CalendarInv'
<1>1. PICK r : r = request[h]
    OBVIOUS
<1>2. r.lead \in AnyLead
    BY <1>1 DEF SetReminderMinutes, At, CalendarInv, CalendarRequests, CalendarRequest
<1>3. CalendarTypeOK'
    <2>1. CASE event[r.id] = NoRow \/ r.id \notin EventIDs
        BY <1>1, <2>1 DEF SetReminderMinutes, CalendarInv, CalendarTypeOK
    <2>2. CASE event[r.id] # NoRow /\ r.id \in EventIDs
        <3> DEFINE row == [event[r.id] EXCEPT !.lead = r.lead]
        <3>1. event[r.id] \in EventRow
            BY <2>2 DEF CalendarInv, CalendarTypeOK
        <3>2. row \in EventRow
            BY <1>2, <3>1 DEF EventRow, AnyLead
        <3>3. event' = [event EXCEPT ![r.id] = row]
            BY <1>1, <2>2 DEF SetReminderMinutes
        <3> HIDE DEF row
        <3> QED
            BY <3>2, <3>3 DEF SetReminderMinutes, CalendarInv, CalendarTypeOK
    <2> QED
        BY <2>1, <2>2
<1>4. CalendarRequests'
    BY PageDoneTyped DEF SetReminderMinutes, CalendarInv
<1> QED
    BY <1>3, <1>4 DEF CalendarInv

LEMMA CreateExceptionTyped ==
    ASSUME CalendarInv, NEW h \in Handlers, CreateException(h)
    PROVE  CalendarInv'
<1>1. CalendarRequest(request[h]) /\ request[h].op = "except"
    BY DEF CreateException, At, CalendarInv, CalendarRequests
<1>2. CalendarTypeOK'
    BY <1>1, InsertTyped DEF CreateException, CalendarInv, CalendarRequest
<1>3. CalendarRequests'
    BY <1>1, RemindTyped, PageDoneTyped DEF CreateException, CalendarInv, CalendarRequest
<1> QED
    BY <1>2, <1>3 DEF CalendarInv

LEMMA UpdateSeriesTyped ==
    ASSUME CalendarInv, NEW h \in Handlers, UpdateSeries(h)
    PROVE  CalendarInv'
<1>1. CalendarRequest(request[h]) /\ request[h].op = "series"
    BY DEF UpdateSeries, At, CalendarInv, CalendarRequests
<1> QED
    BY <1>1, SetTimesTyped, RemindTyped DEF UpdateSeries, CalendarInv, CalendarRequest

LEMMA CalendarStep ==
    ASSUME CalendarInv, [CalendarNext]_<<calendarVars, request>>
    PROVE  CalendarInv'
<1>1. CASE UNCHANGED <<calendarVars, request>>
    BY <1>1 DEF CalendarInv, CalendarTypeOK, CalendarRequests, calendarVars
<1>2. ASSUME NEW h \in Handlers, Abandon(h), UNCHANGED calendarVars
      PROVE  CalendarInv'
    BY <1>2, PageDoneTyped DEF CalendarInv, CalendarTypeOK, calendarVars, Abandon
<1>3. ASSUME NEW h \in Handlers, NEW times \in Timings, NEW lead \in AnyLead,
             \/ CalendarEventCreate(h, times, lead)
             \/ \E id \in IssuedEvents :
                    \/ UpdateOne(h, id, times, lead)
                    \/ \E parent \in Parents : UpdateAll(h, id, parent, times, lead)
      PROVE  CalendarInv'
    BY <1>3, CreateTyped, UpdateOneTyped, UpdateAllTyped
<1>4. ASSUME NEW h \in Handlers, SetReminderMinutes(h) \/ CreateException(h) \/ UpdateSeries(h)
      PROVE  CalendarInv'
    BY <1>4, SetReminderTyped, CreateExceptionTyped, UpdateSeriesTyped
<1> QED
    BY <1>1, <1>2, <1>3, <1>4, ApiTyped, SingleTyped DEF CalendarNext, AnyLead

LEMMA CalendarStarts == CalendarInit => CalendarInv
<1>1. CalendarInit => CalendarTypeOK
    BY CalendarAssumption DEF CalendarInit, CalendarTypeOK
<1>2. CalendarInit => CalendarRequests
    BY DEF CalendarInit, RequestsInit, CalendarRequests, CalendarRequest, Idle
<1> QED
    BY <1>1, <1>2 DEF CalendarInv

(* The rows of events and the requests of the calendar's pages keep their  *)
(* types, for any events, leads, handlers and days.                        *)
THEOREM CalendarTyped == CalendarSpec => []CalendarTypeOK
<1>1. CalendarInit => CalendarInv
    BY CalendarStarts
<1>2. CalendarInv /\ [CalendarNext]_<<calendarVars, request>> => CalendarInv'
    BY CalendarStep
<1>3. CalendarInv => CalendarTypeOK
    BY DEF CalendarInv
<1> QED
    BY <1>1, <1>2, <1>3, PTL DEF CalendarSpec

-----------------------------------------------------------------------------
(* The calendar's pages                                                    *)
LEMMA Greatest ==
    ASSUME NEW N \in Nat, NEW T, T \subseteq 1..N, T # {}
    PROVE  Max(T) \in T
<1> DEFINE U == {N - x : x \in T}
<1>1. U \subseteq Nat /\ U # {}
    <2>1. \A x \in T : N - x \in Nat
        OBVIOUS
    <2>2. U # {}
        OBVIOUS
    <2> QED BY <2>1, <2>2
<1>2. PICK m \in U : \A x \in U : m <= x
    <2> HIDE DEF U
    <2> QED BY <1>1, Least
<1>3. PICK g \in T : m = N - g
    OBVIOUS
<1>4. \A x \in T : g >= x
    <2> SUFFICES ASSUME NEW x \in T PROVE g >= x
        OBVIOUS
    <2>1. N - x \in U
        OBVIOUS
    <2>2. m <= N - x
        BY <1>2, <2>1
    <2> QED BY <1>3, <2>2
<1> QED
    BY <1>4 DEF Max

EntryOf(id, t) == [row |-> ExceptionOf(id, t), at |-> t]

LEMMA ExceptionIs ==
    ASSUME CalendarTypeOK, NEW id \in Events, NEW t
    PROVE  /\ ExceptionOf(id, t) \in Events
           /\ \/ ExceptionOf(id, t) = id
              \/ event[ExceptionOf(id, t)].parent = id
<1> DEFINE found == {e \in Events : event[e].parent = id /\ event[e].original = t}
<1>1. CASE found = {}
    BY <1>1 DEF ExceptionOf
<1>2. CASE found # {}
    <2>1. found \subseteq 1..MaxRows /\ MaxRows \in Nat
        <3>1. nextEvent \in 1..(MaxRows + 1) /\ MaxRows \in Nat
            BY CalendarAssumption DEF CalendarTypeOK
        <3> QED BY <3>1 DEF Events, IssuedEvents
    <2>2. ExceptionOf(id, t) = Max(found)
        BY <1>2 DEF ExceptionOf
    <2>3. \A e \in found : e \in Events /\ event[e].parent = id
        OBVIOUS
    <2> HIDE DEF found
    <2>4. Max(found) \in found
        BY <1>2, <2>1, Greatest
    <2> QED BY <2>2, <2>3, <2>4
<1> QED BY <1>1, <1>2

(* What is shown of a series are the entries of its occurrences: the other *)
(* series' entries are their own rows, or exceptions to them.              *)
LEMMA ShownIs ==
    ASSUME CalendarTypeOK, NEW v \in Views, NEW id \in Series(v[2]),
           NEW starts, starts = Range(Expand(event[id].rule, event[id].start,
                                             event[id].length, v[1], v[2]))
    PROVE  {x \in ExpandEvents(v[1], v[2]) : x.row = id \/ event[x.row].parent = id}
             = {EntryOf(id, t) : t \in {t \in starts : ~event[ExceptionOf(id, t)].cancelled}}
<1> DEFINE Mine(x) == x.row = id \/ event[x.row].parent = id
           shown == {x \in ExpandEvents(v[1], v[2]) : Mine(x)}
           entries == {EntryOf(id, t) : t \in {t \in starts : ~event[ExceptionOf(id, t)].cancelled}}
<1>1. nextEvent \in 1..(MaxRows + 1) /\ MaxRows \in Nat
    BY CalendarAssumption DEF CalendarTypeOK
<1>2. id \in Events /\ event[id].rule # NoRule /\ event[id].parent = NoParent
    BY DEF Series
<1>3. Events \subseteq 1..MaxRows
    BY <1>1 DEF Events, IssuedEvents
<1>4. \A i \in Events : i # NoParent
    BY <1>3 DEF NoParent
<1>5. entries = EntriesOf(id, starts)
    BY DEF EntriesOf, EntryOf
<1>6. ASSUME NEW x \in entries PROVE x \in shown
    <2>1. x \in EntriesOf(id, starts)
        BY <1>5
    <2>2. x \in ExpandEvents(v[1], v[2])
        BY <2>1 DEF ExpandEvents
    <2>3. PICK t : x = EntryOf(id, t)
        OBVIOUS
    <2>4. x.row = ExceptionOf(id, t)
        BY <2>3 DEF EntryOf
    <2>5. Mine(x)
        BY <1>2, <2>4, ExceptionIs
    <2> QED BY <2>2, <2>5
<1>7. ASSUME NEW x \in shown PROVE x \in entries
    <2>1. x \in ExpandEvents(v[1], v[2]) /\ Mine(x)
        OBVIOUS
    <2>2. CASE \E i \in ListByDateRange(v[1], v[2]) : x = [row |-> i, at |-> event[i].start]
        <3>1. PICK i \in ListByDateRange(v[1], v[2]) : x.row = i
            BY <2>2
        <3>2. event[i].rule = NoRule /\ event[i].parent = NoParent
            BY DEF ListByDateRange
        <3> QED BY <1>2, <1>4, <2>1, <3>1, <3>2
    <2>3. CASE \E i \in Series(v[2]) :
                 x \in EntriesOf(i, Range(Expand(event[i].rule, event[i].start,
                                                 event[i].length, v[1], v[2])))
        <3>1. PICK i \in Series(v[2]) :
                 x \in EntriesOf(i, Range(Expand(event[i].rule, event[i].start,
                                                 event[i].length, v[1], v[2])))
            BY <2>3
        <3>2. i \in Events /\ event[i].parent = NoParent
            BY DEF Series
        <3>3. PICK t : x.row = ExceptionOf(i, t)
            BY <3>1 DEF EntriesOf
        <3>4. x.row = i \/ event[x.row].parent = i
            BY <3>2, <3>3, ExceptionIs
        <3>5. i = id
            BY <1>2, <1>4, <2>1, <3>2, <3>4
        <3> QED BY <1>5, <3>1, <3>5
    <2> QED BY <2>1, <2>2, <2>3 DEF ExpandEvents
<1> HIDE DEF shown, entries
<1>8. shown = entries
    BY <1>6, <1>7
<1> QED BY <1>8 DEF shown, entries

LEMMA SeriesFits ==
    ASSUME CalendarTypeOK, NEW v \in Views, NEW id \in Series(v[2]),
           Regular(event[id].rule, event[id].start)
    PROVE  Fits(event[id].rule, event[id].start, event[id].length, v[1], v[2])
<1>1. id \in EventIDs /\ event[id] # NoRow /\ event[id].rule # NoRule
    <2>1. nextEvent \in 1..(MaxRows + 1) /\ MaxRows \in Nat
        BY CalendarAssumption DEF CalendarTypeOK
    <2> QED BY <2>1 DEF Series, Events, IssuedEvents, EventIDs
<1>2. event[id] \in EventRow
    BY <1>1 DEF CalendarTypeOK
<1>3. /\ event[id].start \in Nat /\ event[id].length \in Nat
      /\ event[id].rule \in {t.rule : t \in Timings}
    BY <1>1, <1>2 DEF EventRow
<1>4. event[id].rule \in Rules
    BY <1>1, <1>3, CalendarAssumption
<1> QED
    BY <1>3, <1>4, ViewsAssumption DEF Fits

LEMMA ViewsRight ==
    ASSUME CalendarTypeOK
    PROVE  ViewsFollowRules
<1> SUFFICES ASSUME NEW v \in Views, NEW id \in Series(v[2])
             PROVE  LET e == event[id]
                        meant == Meant(e.rule, e.start, v[1] - e.length, v[2])
                        cancelled == {t \in meant : event[ExceptionOf(id, t)].cancelled}
                        shown == {x \in ExpandEvents(v[1], v[2]) :
                                    x.row = id \/ event[x.row].parent = id}
                    IN  Regular(e.rule, e.start) =>
                        /\ IsInjective(Expand(e.rule, e.start, e.length, v[1], v[2]))
                        /\ {x.at : x \in shown} = meant \ cancelled
                        /\ \A t \in meant \ cancelled : Cardinality({x \in shown : x.at = t}) = 1
    BY Zenon DEF ViewsFollowRules
<1> SUFFICES ASSUME Regular(event[id].rule, event[id].start),
                    NEW meant, meant = Meant(event[id].rule, event[id].start,
                                             v[1] - event[id].length, v[2]),
                    NEW cancelled,
                    cancelled = {t \in meant : event[ExceptionOf(id, t)].cancelled},
                    NEW shown,
                    shown = {x \in ExpandEvents(v[1], v[2]) :
                               x.row = id \/ event[x.row].parent = id}
             PROVE  /\ IsInjective(Expand(event[id].rule, event[id].start, event[id].length,
                                          v[1], v[2]))
                    /\ {x.at : x \in shown} = meant \ cancelled
                    /\ \A t \in meant \ cancelled : Cardinality({x \in shown : x.at = t}) = 1
    BY Zenon
<1>1. PICK s : s = Expand(event[id].rule, event[id].start, event[id].length, v[1], v[2])
    OBVIOUS
<1>2. Range(s) = meant /\ IsInjective(s)
    BY <1>1, SeriesFits, ExpandMeans
<1>3. shown = {EntryOf(id, t) : t \in {t \in Range(s) : ~event[ExceptionOf(id, t)].cancelled}}
    BY <1>1, ShownIs
<1>4. {t \in Range(s) : ~event[ExceptionOf(id, t)].cancelled} = meant \ cancelled
    BY <1>2
<1>5. shown = {EntryOf(id, t) : t \in meant \ cancelled}
    BY <1>3, <1>4
<1>6. \A t : EntryOf(id, t).at = t
    BY DEF EntryOf
<1>7. {x.at : x \in shown} = meant \ cancelled
    BY <1>5, <1>6
<1>8. ASSUME NEW t \in meant \ cancelled
      PROVE  Cardinality({x \in shown : x.at = t}) = 1
    <2>1. {x \in shown : x.at = t} = {EntryOf(id, t)}
        BY <1>5, <1>6
    <2> QED BY <2>1, FS_Singleton
<1> QED
    BY <1>1, <1>2, <1>7, <1>8

(* A page of the calendar shows each occurrence of a regular series in its *)
(* range once, and no other, but for those cancelled, whatever was edited, *)
(* moved, cancelled or deleted before (ExpandEvents, recurrence.Expand).   *)
THEOREM ViewsAreRight == CalendarSpec => []ViewsFollowRules
BY CalendarTyped, ViewsRight, PTL

-----------------------------------------------------------------------------
(***************************************************************************)
(* Push notifications.  A tick sends a reminder that has no record to each *)
(* device once, and no tick begins before the last one has ended: so sends *)
(* to a device are as many as records were lost, and one more if there is  *)
(* a record, or the send in progress has reached the device, or the day    *)
(* that the reminder is of is over, so that nobody asks for it.  A record  *)
(* is older than its day when the cleanup drops it.  What is owed stays    *)
(* owed until its turn comes: what would make the send pass the device     *)
(* over (its row goes, its user opts out) settles the debt.                *)
(***************************************************************************)

(* The send in progress has reached d. *)
Reached(d) == \A p \in tick.to : p[1] # d

SendingIt(n) == tick.at = "send" /\ tick.what = n

(* What counts as sent once *)
Counted(d, n) ==
    IF SendingIt(n) THEN Reached(d) ELSE WasSent(n) \/ n.date < DayOf(now)

Owed(d) == <<d, device[d]>> \in tick.to /\ <<device[d], "chore_due">> \notin disabled

SendInv ==
    tick.at = "send" =>
        /\ ~WasSent(tick.what)
        /\ tick.what.date <= DayOf(now)
        /\ \A p, q \in tick.to : p[1] = q[1] => p = q
        /\ \A d \in tick.owed : Owed(d)

RecordInv == \A r \in sent : r.what.date <= DayOf(r.time)

OnceInv ==
    \A d \in Endpoints, n \in Reminders :
        attempts[d][n] <= repeats[n] + (IF Counted(d, n) THEN 1 ELSE 0)

PushInv == PushTypeOK /\ SendInv /\ RecordInv /\ OnceInv

-----------------------------------------------------------------------------
(* Days, ticks and counters.                                               *)

LEMMA Dates ==
    ASSUME NEW s \in Nat, NEW t \in Nat
    PROVE  /\ DayOf(s) \in Nat
           /\ s <= t => DayOf(s) <= DayOf(t)
           /\ s + Retention < t => DayOf(s) < DayOf(t)
<1>1. PICK p \in Nat : p = DayMinutes /\ p > 0
    BY PushAssumption
<1>2. PICK w \in Nat : w = Retention /\ w >= p
    BY <1>1, PushAssumption
<1>3. PICK a \in Nat, b \in Nat : a = s \div p /\ b = t \div p
    BY <1>1
<1>4. a * p <= s /\ s < a * p + p /\ b * p <= t /\ t < b * p + p
    BY <1>1, <1>3
<1>5. s <= t => a <= b
    <2> SUFFICES ASSUME s <= t PROVE a < b + 1
        BY <1>3
    <2>1. a * p < (b + 1) * p
        BY <1>1, <1>4
    <2> QED
        BY <1>1, <2>1
<1>6. s + w < t => a < b
    <2> SUFFICES ASSUME s + w < t PROVE a < b
        OBVIOUS
    <2>1. (a + 1) * p < (b + 1) * p
        BY <1>1, <1>2, <1>4
    <2> QED
        BY <1>1, <2>1
<1> QED
    BY <1>1, <1>2, <1>3, <1>5, <1>6 DEF DayOf

(* What now and the counters are, one fact each *)
LEMMA PushNow ==
    ASSUME PushTypeOK
    PROVE  now \in Nat /\ now <= MaxNow /\ MaxNow \in Nat
BY PushAssumption DEF PushTypeOK

LEMMA Counters ==
    ASSUME PushTypeOK, NEW d \in Endpoints, NEW n \in Reminders
    PROVE  attempts[d][n] \in Nat /\ repeats[n] \in Nat
BY DEF PushTypeOK

LEMMA OneMore ==
    ASSUME NEW S, NEW f \in [S -> Nat], NEW x
    PROVE  [f EXCEPT ![x] = @ + 1] \in [S -> Nat]
<1> DEFINE g == [f EXCEPT ![x] = @ + 1]
<1>1. \A y \in S : g[y] = IF y = x THEN f[y] + 1 ELSE f[y]
    OBVIOUS
<1>2. \A y \in S : g[y] \in Nat
    BY <1>1
<1>3. DOMAIN g = S /\ g = [y \in S |-> g[y]]
    OBVIOUS
<1> HIDE DEF g
<1>4. g \in [S -> Nat]
    BY <1>2, <1>3
<1> QED
    BY <1>4 DEF g

SendTicks ==
    [at : {"send"}, left : SUBSET Households, what : Reminders,
     to : SUBSET (Endpoints \X Members), owed : SUBSET Endpoints]

LEMMA TickStages ==
    ASSUME PushTypeOK
    PROVE  /\ tick.at = "send" => tick \in SendTicks
           /\ tick.at \in {"rest", "households", "send"}
           /\ tick.at = "households" => tick.left \in SUBSET Households
           /\ NoTick.at = "rest"
           /\ tick.at = "rest" => tick = NoTick
BY DEF PushTypeOK, Ticks, NoTick, SendTicks

LEMMA ATick ==
    ASSUME NEW t
    PROVE  /\ t \in SendTicks => t \in Ticks
           /\ NoTick \in Ticks
           /\ \A S \in SUBSET Households : Visiting(S) \in Ticks /\ Visiting(S).at = "households"
BY DEF SendTicks, Ticks, Visiting

LEMMA RemindersStay == Reminders' = Reminders
BY DEF Reminders, DayOf

-----------------------------------------------------------------------------
LEMMA PushStarts == PushInit => PushInv
<1> SUFFICES ASSUME PushInit PROVE PushInv
    OBVIOUS
<1>1. tick = NoTick /\ tick.at = "rest" /\ tick \in Ticks
    BY ATick DEF PushInit, NoTick
<1>2. PushTypeOK
    <2>1. now \in 0..MaxNow /\ sent \subseteq [what : Reminders, time : 0..MaxNow]
        BY PushAssumption DEF PushInit
    <2>2. device \in [Endpoints -> Members \cup {NoMember}] /\ disabled \subseteq Members \X Types
        BY DEF PushInit
    <2>3. attempts \in [Endpoints -> [Reminders -> Nat]] /\ repeats \in [Reminders -> Nat]
        BY DEF PushInit
    <2>4. phase \in {"off", "on", "stopping"} /\ ticker \in BOOLEAN
        BY DEF PushInit
    <2> QED BY <1>1, <2>1, <2>2, <2>3, <2>4 DEF PushTypeOK
<1>3. SendInv /\ RecordInv
    BY <1>1 DEF SendInv, RecordInv, PushInit
<1>4. \A d \in Endpoints, n \in Reminders : attempts[d][n] = 0 /\ repeats[n] = 0
    BY DEF PushInit
<1>5. OnceInv
    BY <1>4 DEF OnceInv
<1> QED
    BY <1>2, <1>3, <1>5 DEF PushInv

(* Sends are accounted for as long as nothing stops counting. *)
LEMMA StillCounted ==
    ASSUME PushTypeOK, OnceInv, UNCHANGED <<attempts, repeats>>,
           \A d \in Endpoints, n \in Reminders : Counted(d, n) => Counted(d, n)'
    PROVE  OnceInv'
<1> SUFFICES ASSUME NEW d \in Endpoints, NEW n \in Reminders
             PROVE  attempts[d][n] <= repeats[n] + (IF Counted(d, n)' THEN 1 ELSE 0)
    BY RemindersStay DEF OnceInv
<1>1. attempts[d][n] <= repeats[n] + (IF Counted(d, n) THEN 1 ELSE 0)
    BY DEF OnceInv
<1>2. attempts[d][n] \in Nat /\ repeats[n] \in Nat
    BY Counters
<1> QED
    BY <1>1, <1>2

(* A step that changes neither the time nor what is being sent or was sent *)
LEMMA SameCount ==
    ASSUME PushTypeOK, OnceInv, UNCHANGED <<now, sent, attempts, repeats>>,
           tick'.at = "send" <=> tick.at = "send",
           tick.at = "send" => tick'.what = tick.what /\ tick'.to = tick.to
    PROVE  OnceInv'
<1>1. \A d, n : Counted(d, n)' = Counted(d, n)
    BY DEF Counted, SendingIt, Reached, WasSent, DayOf
<1> QED
    BY <1>1, StillCounted

-----------------------------------------------------------------------------
(* Boot, the end, and the time.                                            *)

LEMMA NothingSent ==
    ASSUME PushInv, UNCHANGED <<now, device, disabled, sent, tick, attempts, repeats>>,
           phase' \in {"off", "on", "stopping"}, ticker' \in BOOLEAN
    PROVE  PushInv'
<1>1. PushTypeOK'
    BY RemindersStay DEF PushInv, PushTypeOK, Ticks, Reminders, DayOf
<1>2. SendInv' /\ RecordInv'
    BY DEF PushInv, SendInv, RecordInv, WasSent, DayOf, Owed
<1>3. OnceInv'
    BY SameCount DEF PushInv
<1> QED
    BY <1>1, <1>2, <1>3 DEF PushInv

LEMMA CrashKeeps == ASSUME PushInv, Crash PROVE PushInv'
<1>1. UNCHANGED <<now, device, disabled, sent, attempts>> /\ tick' = NoTick
    BY DEF Crash, settingsVars
<1>2. tick'.at = "rest" /\ tick' \in Ticks
    BY <1>1, ATick DEF NoTick
<1>3. repeats' \in [Reminders -> Nat]
    BY OneMore DEF Crash, PushInv, PushTypeOK
<1>4. PushTypeOK'
    BY <1>1, <1>2, <1>3 DEF Crash, PushInv, PushTypeOK, Ticks, Reminders, DayOf
<1>5. SendInv' /\ RecordInv'
    BY <1>1, <1>2 DEF PushInv, SendInv, RecordInv, DayOf
<1>6. ASSUME NEW d \in Endpoints, NEW n \in Reminders
      PROVE  attempts'[d][n] <= repeats'[n] + (IF Counted(d, n)' THEN 1 ELSE 0)
    <2>1. /\ attempts'[d][n] = attempts[d][n] /\ attempts[d][n] \in Nat /\ repeats[n] \in Nat
        BY <1>1, Counters DEF PushInv
    <2>2. attempts[d][n] <= repeats[n] + (IF Counted(d, n) THEN 1 ELSE 0)
        BY DEF PushInv, OnceInv
    <2>3. CASE SendingIt(n)
        <3>1. repeats'[n] = repeats[n] + 1
            BY <2>3 DEF Crash, PushInv, PushTypeOK, SendingIt
        <3> QED
            BY <2>1, <2>2, <3>1
    <2>4. CASE ~SendingIt(n)
        <3>1. repeats'[n] = repeats[n]
            BY <2>4 DEF Crash, PushInv, PushTypeOK, SendingIt
        <3>2. Counted(d, n)' = Counted(d, n)
            BY <1>1, <1>2, <2>4 DEF Counted, SendingIt, WasSent, DayOf
        <3> QED
            BY <2>1, <2>2, <3>1, <3>2
    <2> QED
        BY <2>3, <2>4
<1>7. OnceInv'
    BY <1>6, RemindersStay DEF OnceInv
<1> QED
    BY <1>4, <1>5, <1>7 DEF PushInv

LEMMA MinutePassesKeeps == ASSUME PushInv, MinutePasses PROVE PushInv'
<1>1. /\ UNCHANGED <<device, disabled, sent, phase, tick, attempts, repeats>>
      /\ now' = now + 1 /\ now < MaxNow /\ ticker' \in BOOLEAN
    BY DEF MinutePasses, settingsVars, history
<1>2. now \in Nat /\ now' \in 0..MaxNow
    BY <1>1, PushNow DEF PushInv
<1>3. PushTypeOK'
    BY <1>1, <1>2, RemindersStay DEF PushInv, PushTypeOK, Ticks, Reminders, DayOf
<1>4. DayOf(now) \in Nat /\ DayOf(now') \in Nat /\ DayOf(now) <= DayOf(now')
    BY <1>1, <1>2, Dates
<1>5. tick.at = "send" => tick.what.date \in Nat
    BY <1>2, Dates, PushNow, TickStages DEF PushInv, SendTicks, Reminders
<1>6. SendInv'
    BY <1>1, <1>4, <1>5 DEF PushInv, SendInv, WasSent, Owed
<1>7. RecordInv'
    BY <1>1 DEF PushInv, RecordInv, DayOf
<1>8. ASSUME NEW d \in Endpoints, NEW n \in Reminders, Counted(d, n)
      PROVE  Counted(d, n)'
    <2>1. n.date \in Nat
        BY DEF Reminders
    <2>2. SendingIt(n)' = SendingIt(n) /\ Reached(d)' = Reached(d) /\ WasSent(n)' = WasSent(n)
        BY <1>1 DEF SendingIt, Reached, WasSent
    <2>3. n.date < DayOf(now) => n.date < DayOf(now')
        BY <1>4, <2>1
    <2> QED
        BY <1>8, <2>2, <2>3 DEF Counted
<1>9. OnceInv'
    BY <1>1, <1>8, StillCounted DEF PushInv
<1> QED
    BY <1>3, <1>6, <1>7, <1>9 DEF PushInv

LEMMA CleanupSentKeeps == ASSUME PushInv, CleanupSent PROVE PushInv'
<1>1. /\ UNCHANGED <<now, device, disabled, phase, ticker, tick, attempts, repeats>>
      /\ sent' = sent \ {r \in sent : r.time < now - Retention}
    BY DEF CleanupSent, settingsVars, history
<1>2. now \in Nat /\ Retention \in Nat
    BY PushNow, PushAssumption DEF PushInv
<1>3. PushTypeOK'
    BY <1>1 DEF PushInv, PushTypeOK, Ticks, Reminders, DayOf
<1>4. \A n : WasSent(n)' => WasSent(n)
    BY <1>1 DEF WasSent
<1>5. SendInv'
    BY <1>1, <1>4 DEF PushInv, SendInv, Owed, DayOf
<1>6. RecordInv'
    BY <1>1 DEF PushInv, RecordInv, DayOf
<1>7. ASSUME NEW n \in Reminders, WasSent(n), ~WasSent(n)'
      PROVE  n.date < DayOf(now)
    <2>1. PICK r \in sent : r.what = n
        BY <1>7 DEF WasSent
    <2>2. r.time < now - Retention
        BY <1>1, <1>7, <2>1 DEF WasSent
    <2>3. r.time \in Nat /\ r.what.date \in Nat
        BY <2>1 DEF PushInv, PushTypeOK, Reminders
    <2>4. r.time + Retention < now
        BY <1>2, <2>2, <2>3
    <2>5. r.what.date <= DayOf(r.time)
        BY DEF PushInv, RecordInv
    <2>6. DayOf(r.time) \in Nat /\ DayOf(now) \in Nat /\ DayOf(r.time) < DayOf(now)
        BY <1>2, <2>3, <2>4, Dates
    <2> QED
        BY <2>1, <2>3, <2>5, <2>6
<1>8. ASSUME NEW d \in Endpoints, NEW n \in Reminders, Counted(d, n)
      PROVE  Counted(d, n)'
    <2>1. SendingIt(n)' = SendingIt(n) /\ Reached(d)' = Reached(d) /\ DayOf(now)' = DayOf(now)
        BY <1>1 DEF SendingIt, Reached, DayOf
    <2> QED
        BY <1>7, <1>8, <2>1 DEF Counted
<1>9. OnceInv'
    BY <1>1, <1>8, StillCounted DEF PushInv
<1> QED
    BY <1>3, <1>5, <1>6, <1>9 DEF PushInv

-----------------------------------------------------------------------------
(* The tick.                                                               *)

(* From household to household, nothing is being sent. *)
LEMMA NoSend ==
    ASSUME PushInv, UNCHANGED <<now, device, disabled, sent, phase, attempts, repeats>>,
           ticker' \in BOOLEAN, tick.at # "send", tick'.at # "send", tick' \in Ticks
    PROVE  PushInv'
<1>1. PushTypeOK'
    BY DEF PushInv, PushTypeOK, Ticks, Reminders, DayOf
<1>2. SendInv' /\ RecordInv'
    BY DEF PushInv, SendInv, RecordInv, DayOf
<1>3. OnceInv'
    BY SameCount DEF PushInv
<1> QED
    BY <1>1, <1>2, <1>3 DEF PushInv

LEMMA TickBeginKeeps == ASSUME PushInv, TickBegin PROVE PushInv'
<1> DEFINE homes == {device[d].household : d \in Subscribed}
<1>1. homes \in SUBSET Households
    BY PushAssumption DEF PushInv, PushTypeOK, Subscribed
<1>2. tick' = tick \/ tick' = Visiting(homes)
    BY DEF TickBegin
<1>3. tick = NoTick /\ tick.at = "rest"
    BY DEF TickBegin, NoTick
<1>4. tick' \in Ticks /\ tick'.at # "send"
    BY <1>1, <1>2, <1>3, ATick
<1> HIDE DEF homes
<1> QED
    BY <1>3, <1>4, NoSend DEF TickBegin, settingsVars, history

LEMMA TickEndKeeps == ASSUME PushInv, TickEnd PROVE PushInv'
<1>1. tick.at # "send" /\ tick' \in Ticks /\ tick'.at # "send"
    BY ATick DEF TickEnd, NoTick
<1> QED
    BY <1>1, NoSend DEF TickEnd, tickRest, settingsVars, history, PushInv, PushTypeOK

Starts(h) ==
    [at |-> "send", left |-> tick.left \ {h}, what |-> ChoreReminder(h),
     to |-> {<<d, device[d]>> : d \in Listed(h)},
     owed |-> {d \in Listed(h) : IsPreferenceEnabled(device[d], "chore_due")}]

LEMMA SendBegins ==
    ASSUME PushInv, NEW h \in Households, tick.at = "households", tick' = Starts(h),
           ~WasSent(ChoreReminder(h)),
           UNCHANGED <<now, device, disabled, sent, phase, ticker, attempts, repeats>>
    PROVE  PushInv'
<1>1. /\ tick'.at = "send" /\ tick'.what = ChoreReminder(h) /\ tick'.left = tick.left \ {h}
      /\ tick'.to = {<<d, device[d]>> : d \in Listed(h)}
      /\ tick'.owed = {d \in Listed(h) : IsPreferenceEnabled(device[d], "chore_due")}
    BY DEF Starts
<1>2. ChoreReminder(h) \in Reminders /\ ChoreReminder(h).date = DayOf(now)
    BY Dates, PushNow DEF PushInv, ChoreReminder, Reminders
<1>3. Starts(h) \in SendTicks
    <2>1. tick.left \in SUBSET Households
        BY TickStages DEF PushInv
    <2>2. Listed(h) \subseteq Endpoints /\ \A d \in Listed(h) : device[d] \in Members
        BY DEF PushInv, PushTypeOK, Listed, Subscribed
    <2> QED
        BY <1>2, <2>1, <2>2 DEF Starts, SendTicks
<1>4. PushTypeOK'
    BY <1>3, ATick DEF PushInv, PushTypeOK, Ticks, Reminders, DayOf
<1>5. SendInv'
    <2>1. \A r \in sent' : r.what # tick'.what
        BY <1>1 DEF WasSent
    <2>2. tick'.what.date <= DayOf(now)'
        BY <1>1, <1>2, Dates, PushNow DEF PushInv, DayOf
    <2>3. \A p, q \in tick'.to : p[1] = q[1] => p = q
        BY <1>1
    <2>4. \A d \in tick'.owed : Owed(d)'
        BY <1>1 DEF Owed, IsPreferenceEnabled
    <2> QED
        BY <1>1, <2>1, <2>2, <2>3, <2>4 DEF SendInv, WasSent
<1>6. RecordInv'
    BY DEF PushInv, RecordInv, DayOf
<1>7. ASSUME NEW d \in Endpoints, NEW n \in Reminders, Counted(d, n)
      PROVE  Counted(d, n)'
    <2>1. ~SendingIt(n) /\ (WasSent(n) \/ n.date < DayOf(now))
        BY <1>7 DEF Counted, SendingIt
    <2>2. n # ChoreReminder(h)
        BY <1>2, <2>1, Dates, PushNow DEF PushInv
    <2>3. ~SendingIt(n)' /\ WasSent(n)' = WasSent(n) /\ DayOf(now)' = DayOf(now)
        BY <1>1, <2>2 DEF SendingIt, WasSent, DayOf
    <2> QED
        BY <2>1, <2>3 DEF Counted
<1>8. OnceInv'
    BY <1>7, StillCounted DEF PushInv
<1> QED
    BY <1>4, <1>5, <1>6, <1>8 DEF PushInv

LEMMA CheckChoreDueKeeps ==
    ASSUME PushInv, NEW h \in Households, CheckChoreDue(h)
    PROVE  PushInv'
<1>1. /\ tick.at = "households" /\ tick.left \in SUBSET Households /\ ticker' \in BOOLEAN
      /\ UNCHANGED <<now, device, disabled, sent, phase, ticker, attempts, repeats>>
    BY TickStages DEF CheckChoreDue, tickRest, settingsVars, history, PushInv, PushTypeOK
<1>2. CASE tick' = Visiting(tick.left \ {h})
    BY <1>1, <1>2, ATick, NoSend
<1>3. CASE tick' # Visiting(tick.left \ {h})
    <2>1. tick' = Starts(h) /\ ~WasSent(ChoreReminder(h))
        BY <1>3 DEF CheckChoreDue, Starts
    <2> QED
        BY <1>1, <2>1, SendBegins
<1> QED
    BY <1>2, <1>3

(* One device less to send to: it was sent to, or passed over, and in      *)
(* either case counts as reached.                                          *)
LEMMA SendToKeeps ==
    ASSUME PushInv, NEW d \in Endpoints, NEW m, NEW outcome, SendTo(d, m, outcome)
    PROVE  PushInv'
<1>1. /\ tick.at = "send" /\ <<d, m>> \in tick.to /\ tick \in SendTicks
      /\ UNCHANGED <<now, disabled, sent, phase, ticker, repeats>>
    BY TickStages DEF SendTo, PushInv
<1>2. PICK owed \in SUBSET tick.owed :
          /\ tick' = [tick EXCEPT !.to = @ \ {<<d, m>>}, !.owed = owed]
          /\ owed = IF outcome = "off" THEN tick.owed ELSE tick.owed \ {d}
    <2>1. CASE outcome = "off"
        BY <1>1, <2>1 DEF SendTo, StillToSend, SendTicks
    <2>2. CASE outcome # "off"
        BY <1>1, <2>2 DEF SendTo, StillToSend, SendTicks
    <2> QED
        BY <2>1, <2>2
<1>3. /\ tick'.at = "send" /\ tick'.what = tick.what /\ tick'.to = tick.to \ {<<d, m>>}
      /\ tick'.owed = owed /\ tick' \in SendTicks
    BY <1>1, <1>2 DEF SendTicks
<1>4. tick.what \in Reminders /\ \A p \in tick.to : p = <<p[1], p[2]>>
    BY <1>1 DEF SendTicks
<1>5. /\ attempts' = attempts \/ attempts' = [attempts EXCEPT ![d][tick.what] = @ + 1]
      /\ device' = device \/ Drop(d)
    BY DEF SendTo
<1>6. \A e \in Endpoints : e # d => device'[e] = device[e]
    BY <1>5 DEF Drop, PushInv, PushTypeOK
<1>7. attempts' \in [Endpoints -> [Reminders -> Nat]]
    <2>1. attempts \in [Endpoints -> [Reminders -> Nat]]
        BY DEF PushInv, PushTypeOK
    <2>2. CASE attempts' = [attempts EXCEPT ![d][tick.what] = @ + 1]
        <3>1. [attempts[d] EXCEPT ![tick.what] = @ + 1] \in [Reminders -> Nat]
            BY <2>1, OneMore
        <3>2. attempts' = [attempts EXCEPT ![d] = [attempts[d] EXCEPT ![tick.what] = @ + 1]]
            BY <2>2
        <3> QED
            BY <2>1, <3>1, <3>2
    <2> QED
        BY <1>5, <2>1, <2>2
<1>8. PushTypeOK'
    <2>1. tick' \in Ticks
        BY <1>3, ATick
    <2>2. device' \in [Endpoints -> Members \cup {NoMember}]
        BY <1>5 DEF Drop, PushInv, PushTypeOK
    <2> QED
        BY <1>1, <1>7, <2>1, <2>2 DEF PushInv, PushTypeOK, Ticks, Reminders, DayOf
<1>9. SendInv'
    <2>1. (\A r \in sent' : r.what # tick'.what) /\ tick'.what.date <= DayOf(now)'
        BY <1>1, <1>3 DEF PushInv, SendInv, WasSent, DayOf
    <2>2. \A p, q \in tick'.to : p[1] = q[1] => p = q
        BY <1>1, <1>3 DEF PushInv, SendInv
    <2>3. ASSUME NEW e \in owed
          PROVE  Owed(e)'
        <3>1. <<e, device[e]>> \in tick.to /\ <<device[e], "chore_due">> \notin disabled
            BY <1>1 DEF PushInv, SendInv, Owed
        <3>2. e # d
            <4>1. ASSUME outcome = "off", e = d PROVE FALSE
                <5>1. device[d] = m
                    BY <1>1, <3>1, <4>1 DEF PushInv, SendInv
                <5> QED
                    BY <3>1, <4>1, <5>1 DEF SendTo, IsPreferenceEnabled
            <4> QED
                BY <1>2, <4>1
        <3>3. e \in Endpoints /\ device'[e] = device[e]
            BY <1>1, <1>6, <3>2 DEF SendTicks
        <3> QED
            BY <1>1, <1>3, <3>1, <3>2, <3>3 DEF Owed
    <2> QED
        BY <1>3, <2>1, <2>2, <2>3 DEF SendInv, WasSent
<1>10. RecordInv'
    BY <1>1 DEF PushInv, RecordInv, DayOf
<1>11. ASSUME NEW e \in Endpoints, NEW n \in Reminders
       PROVE  attempts'[e][n] <= repeats'[n] + (IF Counted(e, n)' THEN 1 ELSE 0)
    <2>1. /\ attempts[e][n] <= repeats[n] + (IF Counted(e, n) THEN 1 ELSE 0)
          /\ attempts[e][n] \in Nat /\ repeats[n] \in Nat /\ repeats'[n] = repeats[n]
        BY <1>1, Counters DEF PushInv, OnceInv
    <2>2. SendingIt(n)' = SendingIt(n)
        BY <1>1, <1>3 DEF SendingIt
    <2>3. CASE e = d /\ n = tick.what
        <3>1. ~Counted(e, n)
            BY <1>1, <2>3 DEF Counted, SendingIt, Reached
        <3>2. Counted(e, n)'
            <4>1. \A p \in tick'.to : p[1] # d
                BY <1>1, <1>3 DEF PushInv, SendInv
            <4> QED
                BY <1>1, <1>3, <2>3, <4>1 DEF Counted, SendingIt, Reached
        <3>3. attempts'[e][n] \in {attempts[e][n], attempts[e][n] + 1}
            BY <1>5, <2>3 DEF PushInv, PushTypeOK
        <3> QED
            BY <2>1, <3>1, <3>2, <3>3
    <2>4. CASE ~(e = d /\ n = tick.what)
        <3>1. attempts'[e][n] = attempts[e][n]
            BY <1>5, <2>4 DEF PushInv, PushTypeOK
        <3>2. Counted(e, n) => Counted(e, n)'
            BY <1>1, <1>3, <2>2 DEF Counted, Reached, WasSent, DayOf
        <3> QED
            BY <2>1, <3>1, <3>2
    <2> QED
        BY <2>3, <2>4
<1>12. OnceInv'
    BY <1>11, RemindersStay DEF OnceInv
<1> QED
    BY <1>8, <1>9, <1>10, <1>12 DEF PushInv

LEMMA RecordSentKeeps == ASSUME PushInv, RecordSent PROVE PushInv'
<1> DEFINE row == [what |-> tick.what, time |-> now]
<1>1. /\ tick.at = "send" /\ tick \in SendTicks /\ tick' = Visiting(tick.left)
      /\ sent' = sent \cup {row}
      /\ UNCHANGED <<now, device, disabled, phase, ticker, attempts, repeats>>
    BY TickStages DEF RecordSent, settingsVars, history, PushInv
<1>2. tick.what \in Reminders /\ tick.left \in SUBSET Households
    BY <1>1 DEF SendTicks
<1>3. tick' \in Ticks /\ tick'.at = "households"
    BY <1>1, <1>2, ATick
<1>4. row \in [what : Reminders, time : 0..MaxNow]
    BY <1>2 DEF PushInv, PushTypeOK
<1>5. PushTypeOK'
    BY <1>1, <1>3, <1>4 DEF PushInv, PushTypeOK, Ticks, Reminders, DayOf
<1>6. SendInv'
    BY <1>3 DEF SendInv
<1>7. RecordInv'
    BY <1>1 DEF PushInv, RecordInv, SendInv, DayOf
<1>8. ASSUME NEW d \in Endpoints, NEW n \in Reminders, Counted(d, n)
      PROVE  Counted(d, n)'
    <2>1. ~SendingIt(n)' /\ (WasSent(n) => WasSent(n)') /\ DayOf(now)' = DayOf(now)
        BY <1>1, <1>3 DEF SendingIt, WasSent, DayOf
    <2>2. CASE SendingIt(n)
        <3>1. row \in sent' /\ row.what = n
            BY <1>1, <2>2 DEF SendingIt
        <3>2. WasSent(n)'
            BY <3>1 DEF WasSent
        <3> QED
            BY <2>1, <3>2 DEF Counted
    <2>3. CASE ~SendingIt(n)
        BY <1>8, <2>1, <2>3 DEF Counted
    <2> QED
        BY <2>2, <2>3
<1>9. OnceInv'
    BY <1>1, <1>8, StillCounted DEF PushInv
<1> QED
    BY <1>5, <1>6, <1>7, <1>9 DEF PushInv

LEMMA RecordSentFailsKeeps == ASSUME PushInv, RecordSentFails PROVE PushInv'
<1>1. /\ tick.at = "send" /\ tick \in SendTicks /\ tick' = Visiting(tick.left)
      /\ repeats' = [repeats EXCEPT ![tick.what] = @ + 1]
      /\ UNCHANGED <<now, device, disabled, sent, phase, ticker, attempts>>
    BY TickStages DEF RecordSentFails, settingsVars, PushInv
<1>2. tick.what \in Reminders /\ tick.left \in SUBSET Households
    BY <1>1 DEF SendTicks
<1>3. tick' \in Ticks /\ tick'.at = "households"
    BY <1>1, <1>2, ATick
<1>4. repeats' \in [Reminders -> Nat]
    BY <1>1, OneMore DEF PushInv, PushTypeOK
<1>5. PushTypeOK'
    BY <1>1, <1>3, <1>4 DEF PushInv, PushTypeOK, Ticks, Reminders, DayOf
<1>6. SendInv' /\ RecordInv'
    BY <1>1, <1>3 DEF SendInv, RecordInv, PushInv, DayOf
<1>7. ASSUME NEW d \in Endpoints, NEW n \in Reminders
      PROVE  attempts'[d][n] <= repeats'[n] + (IF Counted(d, n)' THEN 1 ELSE 0)
    <2>1. /\ attempts[d][n] <= repeats[n] + (IF Counted(d, n) THEN 1 ELSE 0)
          /\ attempts[d][n] \in Nat /\ repeats[n] \in Nat /\ attempts'[d][n] = attempts[d][n]
        BY <1>1, Counters DEF PushInv, OnceInv
    <2>2. CASE SendingIt(n)
        <3>1. repeats'[n] = repeats[n] + 1
            BY <1>1, <1>2, <2>2 DEF PushInv, PushTypeOK, SendingIt
        <3> QED
            BY <2>1, <3>1
    <2>3. CASE ~SendingIt(n)
        <3>1. repeats'[n] = repeats[n]
            BY <1>1, <2>3 DEF PushInv, PushTypeOK, SendingIt
        <3>2. Counted(d, n)' = Counted(d, n)
            BY <1>1, <1>3, <2>3 DEF Counted, SendingIt, WasSent, DayOf
        <3> QED
            BY <2>1, <3>1, <3>2
    <2> QED
        BY <2>2, <2>3
<1>8. OnceInv'
    BY <1>7, RemindersStay DEF OnceInv
<1> QED
    BY <1>5, <1>6, <1>8 DEF PushInv

-----------------------------------------------------------------------------
(* Requests: whatever a device or a user may no longer get is settled.     *)

LEMMA SettleKeeps ==
    ASSUME PushInv, NEW S, tick' = Settle(S) \/ (tick' = tick /\ S = {}),
           UNCHANGED <<now, sent, phase, ticker, attempts, repeats>>,
           device' \in [Endpoints -> Members \cup {NoMember}], disabled' \subseteq Members \X Types,
           \A d \in Endpoints \ S : device[d] # NoMember =>
              /\ device'[d] = device[d]
              /\ <<device[d], "chore_due">> \notin disabled =>
                    <<device[d], "chore_due">> \notin disabled'
    PROVE  PushInv'
<1>1. CASE tick.at # "send"
    <2>1. tick' = tick
        BY <1>1 DEF Settle
    <2>2. PushTypeOK'
        BY <2>1 DEF PushInv, PushTypeOK, Ticks, Reminders, DayOf
    <2>3. SendInv' /\ RecordInv'
        BY <1>1, <2>1 DEF SendInv, RecordInv, PushInv, DayOf
    <2>4. OnceInv'
        BY <1>1, <2>1, SameCount DEF PushInv
    <2> QED
        BY <2>2, <2>3, <2>4 DEF PushInv
<1>2. CASE tick.at = "send"
    <2>1. tick \in SendTicks
        BY <1>2, TickStages DEF PushInv
    <2>2. /\ tick' \in SendTicks /\ tick'.at = "send" /\ tick'.what = tick.what
          /\ tick'.to = tick.to /\ tick'.owed = tick.owed \ S
        BY <1>2, <2>1 DEF Settle, SendTicks
    <2>3. PushTypeOK'
        <3>1. tick' \in Ticks
            BY <2>2, ATick
        <3> QED
            BY <3>1 DEF PushInv, PushTypeOK, Ticks, Reminders, DayOf
    <2>4. ASSUME NEW d \in tick'.owed
          PROVE  Owed(d)'
        <3>1. d \in tick.owed /\ d \notin S /\ Owed(d)
            BY <1>2, <2>2 DEF PushInv, SendInv
        <3>2. d \in Endpoints /\ <<d, device[d]>> \in Endpoints \X Members
            BY <2>1, <3>1 DEF SendTicks, Owed
        <3>3. CASE device[d] # NoMember
            BY <2>2, <3>1, <3>2, <3>3 DEF Owed
        <3>4. CASE device[d] = NoMember
            BY <3>2, <3>4, PushAssumption
        <3> QED
            BY <3>3, <3>4
    <2>5. SendInv'
        BY <1>2, <2>2, <2>4 DEF PushInv, SendInv, WasSent, DayOf
    <2>6. RecordInv'
        BY DEF PushInv, RecordInv, DayOf
    <2>7. OnceInv'
        BY <1>2, <2>2, SameCount DEF PushInv
    <2> QED
        BY <2>3, <2>5, <2>6, <2>7 DEF PushInv
<1> QED
    BY <1>1, <1>2

LEMMA SubscribeKeeps ==
    ASSUME PushInv, NEW m \in Members, NEW d \in Endpoints, Subscribe(m, d)
    PROVE  PushInv'
<1>1. \A e \in Endpoints : device[e] # NoMember => device'[e] = device[e]
    BY DEF Subscribe, Subscribed, PushInv, PushTypeOK
<1>2. device' \in [Endpoints -> Members \cup {NoMember}]
    BY DEF Subscribe, PushInv, PushTypeOK
<1>3. UNCHANGED <<now, sent, phase, ticker, attempts, repeats, disabled, tick>>
    BY DEF Subscribe, steadyRest, history
<1>4. disabled' \subseteq Members \X Types
    BY <1>3 DEF PushInv, PushTypeOK
<1> QED
    BY <1>1, <1>2, <1>3, <1>4, SettleKeeps

LEMMA DropKeeps ==
    ASSUME PushInv, NEW d \in Endpoints, Drop(d), tick' = Settle({d}),
           UNCHANGED <<now, sent, phase, ticker, attempts, repeats, disabled>>
    PROVE  PushInv'
<1>1. \A e \in Endpoints \ {d} : device'[e] = device[e]
    BY DEF Drop, PushInv, PushTypeOK
<1>2. device' \in [Endpoints -> Members \cup {NoMember}]
    BY DEF Drop, PushInv, PushTypeOK
<1>3. disabled' \subseteq Members \X Types
    BY DEF PushInv, PushTypeOK
<1> QED
    BY <1>1, <1>2, <1>3, SettleKeeps

LEMMA SetPreferenceKeeps ==
    ASSUME PushInv, NEW m \in Members, NEW type \in Types, NEW enabled,
           SetPreference(m, type, enabled)
    PROVE  PushInv'
<1> DEFINE S == {d \in Subscribed : device[d] = m}
           T == IF ~enabled /\ type = "chore_due" THEN S ELSE {}
<1>1. UNCHANGED <<now, sent, phase, ticker, attempts, repeats, device>>
    BY DEF SetPreference, steadyRest, history
<1>2. disabled' \subseteq Members \X Types
    BY DEF SetPreference, PushInv, PushTypeOK
<1>3. device' \in [Endpoints -> Members \cup {NoMember}]
    BY <1>1 DEF PushInv, PushTypeOK
<1>4. tick' = Settle(T) \/ (tick' = tick /\ T = {})
    BY DEF SetPreference
<1>5. ASSUME NEW d \in Endpoints \ T, device[d] # NoMember,
             <<device[d], "chore_due">> \notin disabled
      PROVE  <<device[d], "chore_due">> \notin disabled'
    <2>1. disabled' \subseteq disabled \cup (IF enabled THEN {} ELSE {<<m, type>>})
        BY DEF SetPreference
    <2>2. ~enabled /\ type = "chore_due" => device[d] # m
        BY <1>5 DEF Subscribed
    <2> QED
        BY <1>5, <2>1, <2>2
<1> HIDE DEF T
<1> QED
    BY <1>1, <1>2, <1>3, <1>4, <1>5, SettleKeeps

-----------------------------------------------------------------------------
LEMMA PushStep == ASSUME PushInv, [PushNext]_pushVars PROVE PushInv'
<1>1. phase \in {"off", "on", "stopping"} /\ ticker \in BOOLEAN
    BY DEF PushInv, PushTypeOK
<1>2. CASE UNCHANGED pushVars
    BY <1>1, <1>2, NothingSent DEF pushVars
<1>3. CASE Boot
    BY <1>3, NothingSent DEF Boot, settingsVars, history
<1>4. CASE Stop
    BY <1>1, <1>4, NothingSent DEF Stop, settingsVars, history
<1>5. CASE StopReturns
    BY <1>5, NothingSent DEF StopReturns, settingsVars, history
<1>6. CASE Crash \/ MinutePasses \/ CleanupSent
    BY <1>6, CrashKeeps, MinutePassesKeeps, CleanupSentKeeps
<1>7. CASE TickNext
    <2>1. CASE TickBegin \/ TickEnd \/ RecordSent \/ RecordSentFails
        BY <2>1, TickBeginKeeps, TickEndKeeps, RecordSentKeeps, RecordSentFailsKeeps
    <2>2. CASE \E h \in Households : CheckChoreDue(h)
        BY <2>2, CheckChoreDueKeeps
    <2>3. CASE \E d \in Endpoints, m \in Members, outcome \in Outcomes : SendTo(d, m, outcome)
        BY <2>3, SendToKeeps
    <2> QED
        BY <1>7, <2>1, <2>2, <2>3 DEF TickNext
<1>8. CASE RequestNext
    <2>1. ASSUME NEW m \in Members, NEW d \in Endpoints, Subscribe(m, d) PROVE PushInv'
        BY <2>1, SubscribeKeeps
    <2>2. ASSUME NEW m \in Members, NEW d \in Endpoints, SendGroceryNotification(m, d)
          PROVE  PushInv'
        BY <2>2, DropKeeps DEF SendGroceryNotification, steadyRest, history
    <2>3. ASSUME NEW m \in Members, NEW type \in Types, NEW enabled,
                 SetPreference(m, type, enabled)
          PROVE  PushInv'
        BY <2>3, SetPreferenceKeeps
    <2>4. ASSUME NEW d \in Endpoints, Unsubscribe(d) PROVE PushInv'
        BY <2>4, DropKeeps DEF Unsubscribe, steadyRest, history
    <2> QED
        BY <1>8, <2>1, <2>2, <2>3, <2>4 DEF RequestNext
<1> QED
    BY <1>2, <1>3, <1>4, <1>5, <1>6, <1>7, <1>8 DEF PushNext

LEMMA PushInvariant == PushSpec => []PushInv
<1>1. PushInv /\ [PushNext]_pushVars => PushInv'
    BY PushStep
<1> QED
    BY <1>1, PushStarts, PTL DEF PushSpec

(* A device is sent a household's reminder of a day once, and again only   *)
(* for each record of it that a crash or a failing statement cost          *)
(* (RecordSent, WasSent): never for one that was cleaned up, however       *)
(* devices, preferences and households change.                             *)
THEOREM NobodyIsRemindedTwice == PushSpec => []RemindedOnce
<1>1. PushInv => RemindedOnce
    <2> SUFFICES ASSUME PushInv, NEW d \in Endpoints, NEW n \in Reminders
                 PROVE  attempts[d][n] <= 1 + repeats[n]
        BY DEF RemindedOnce
    <2>1. /\ attempts[d][n] <= repeats[n] + (IF Counted(d, n) THEN 1 ELSE 0)
          /\ attempts[d][n] \in Nat /\ repeats[n] \in Nat
        BY Counters DEF PushInv, OnceInv
    <2> QED
        BY <2>1
<1> QED
    BY <1>1, PushInvariant, PTL

(* When a reminder comes to be recorded, no device that was to get it is   *)
(* left out (checkChoreDue), for any households, devices and failures.     *)
THEOREM NoDeviceIsPassedOver == PushSpec => []RemindersReachDevices
<1>1. PushInv => RemindersReachDevices
    BY DEF PushInv, SendInv, Owed, RemindersReachDevices
<1> QED
    BY <1>1, PushInvariant, PTL

(* The tables of push notifications and the scheduler keep their types.    *)
THEOREM PushTyped == PushSpec => []PushTypeOK
<1>1. PushInv => PushTypeOK
    BY DEF PushInv
<1> QED
    BY <1>1, PushInvariant, PTL
=============================================================================
