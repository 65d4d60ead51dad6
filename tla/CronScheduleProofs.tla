------------------------- MODULE CronScheduleProofs -------------------------
(***************************************************************************)
(* Theorems about CronSchedule, for any calendar, tasks and rows.          *)
(*                                                                         *)
(* The calendar comes first: division, the days before a month, dates and  *)
(* adding months to them; from these, that the search for the next run ends*)
(* and what it finds (AdvanceFinds), and that ParseField marks what a field*)
(* names (FieldNames).  CronInv is the invariant of the tables, the pass   *)
(* and the clock all proofs use; DueInv, NamedInv, FlagInv and MinuteInv   *)
(* are what the action properties need besides.                            *)
(***************************************************************************)
EXTENDS CronSchedule, Induction

------------------------------------------------------------------------------
(* Division *)

\* Division with a remainder.
LEMMA DivMod ==
    ASSUME NEW a \in Int, NEW b \in Positive
    PROVE  \E q, r \in Int :
               /\ a \div b = q /\ a % b = r
               /\ 0 =< r /\ r < b /\ a = q * b + r
<1>1. b \in Int /\ b > 0
    BY DEF Positive
<1>2. PICK q \in Int : q = a \div b
    BY <1>1
<1>3. PICK r \in Int : r = a % b
    BY <1>1
<1>4. 0 =< r /\ r < b
    BY <1>1, <1>3
<1>5. r = a - b * q
    BY <1>1, <1>2, <1>3
<1>6. a = q * b + r
    BY <1>1, <1>5
<1> QED
    BY <1>2, <1>3, <1>4, <1>6

LEMMA DivUnique ==
    ASSUME NEW b \in Positive, NEW q \in Int, NEW r \in Int, 0 =< r, r < b
    PROVE  (q * b + r) \div b = q /\ (q * b + r) % b = r
BY DEF Positive

\* A quotient of a number that is not negative is none either.
LEMMA DivNat ==
    ASSUME NEW a \in Nat, NEW b \in Positive
    PROVE  a \div b \in Nat
BY DEF Positive

\* Dividing twice is dividing by the product.
LEMMA DivDiv ==
    ASSUME NEW a \in Int, NEW b \in Positive, NEW c \in Positive
    PROVE  b * c \in Positive /\ (a \div b) \div c = a \div (b * c)
<1>1. PICK q, r \in Int : /\ a \div b = q /\ a % b = r
                         /\ 0 =< r /\ r < b /\ a = q * b + r
    BY DivMod
<1>2. PICK p, s \in Int : /\ q \div c = p /\ q % c = s
                         /\ 0 =< s /\ s < c /\ q = p * c + s
    BY DivMod
<1>3. b \in Int /\ b >= 1 /\ c \in Int /\ c >= 1
    BY DEF Positive
<1>4. b * c \in Int /\ b * c >= 1
    BY <1>3
<1> DEFINE t == s * b + r
<1>5. t \in Int /\ 0 =< t
    BY <1>1, <1>2, <1>3
<1>6. s * b =< (c - 1) * b
    BY <1>2, <1>3
<1>7. (c - 1) * b = b * c - b /\ s * b \in Int
    BY <1>2, <1>3
<1>8. t < b * c
    BY <1>1, <1>3, <1>4, <1>6, <1>7
<1>9. a = p * (b * c) + t
    <2>1. a = (p * c + s) * b + r
        BY <1>1, <1>2
    <2>2. (p * c + s) * b = p * (b * c) + s * b
        BY <1>2, <1>3
    <2> QED
        BY <1>1, <1>2, <1>3, <1>7, <2>1, <2>2
<1>10. b * c \in Positive
    BY <1>4 DEF Positive
<1> HIDE DEF t
<1>11. a \div (b * c) = p
    BY <1>2, <1>5, <1>8, <1>9, <1>10, DivUnique
<1> QED
    BY <1>1, <1>2, <1>10, <1>11

------------------------------------------------------------------------------
(* The days before a month *)

LEMMA CalendarType ==
    /\ TicksPerMinute \in Positive /\ MinutesPerHour \in Positive
    /\ HoursPerDay \in Positive /\ DaysPerWeek \in Positive
    /\ TicksPerDay \in Positive
    /\ Months \in Positive
    /\ \A m \in 1..Months : MonthLength[m] \in Positive
<1>1. /\ TicksPerMinute \in Positive /\ MinutesPerHour \in Positive
      /\ HoursPerDay \in Positive /\ DaysPerWeek \in Positive
    BY CalendarAssumption
<1>2. ASSUME NEW a \in Positive, NEW b \in Positive PROVE a * b \in Positive
    <2>1. a \in Int /\ b \in Int /\ a >= 1 /\ b >= 1
        BY DEF Positive
    <2>2. a * b \in Int /\ a * b >= 1
        BY <2>1
    <2> QED
        BY <2>2 DEF Positive
<1>3. TicksPerDay \in Positive
    BY <1>1, <1>2 DEF TicksPerDay
<1>4. Months \in Positive /\ \A m \in 1..Months : MonthLength[m] \in Positive
    BY CalendarAssumption DEF Months, Positive
<1> QED
    BY <1>1, <1>3, <1>4

\* DaysBefore is the function its recursive definition is meant to define.
LEMMA DaysBeforeDefined ==
    DaysBefore = [m \in 1..(Months + 1) |->
                     IF m = 1 THEN 0 ELSE DaysBefore[m - 1] + MonthLength[m - 1]]
<1> DEFINE D == 1..(Months + 1)
           w == [m \in D |-> Total(1..(m - 1), MonthLength)]
<1>1. Months \in Nat /\ \A m \in 1..Months : MonthLength[m] \in Nat
    BY CalendarType DEF Positive
<1>2. ASSUME NEW m \in D
      PROVE  w[m] = IF m = 1 THEN 0 ELSE w[m - 1] + MonthLength[m - 1]
    <2>1. CASE m = 1
        <3>1. Total(1..(m - 1), MonthLength) = 0
            BY <2>1, TotalZero
        <3> QED
            BY <2>1, <3>1
    <2>2. CASE m # 1
        <3>1. m - 1 \in D /\ m - 1 \in 1..(m - 1) /\ m - 1 \in 1..Months
            BY <1>1, <2>2
        <3>2. (1..(m - 1)) \ {m - 1} = 1..((m - 1) - 1)
            BY <3>1
        <3>3. IsFiniteSet(1..((m - 1) - 1))
            BY <3>1, FS_Interval
        <3>4. \A y \in 1..((m - 1) - 1) : MonthLength[y] \in Nat
            BY <1>1, <3>1
        <3>5. IsFiniteSet(UnitsOf(1..((m - 1) - 1), MonthLength))
            BY <3>3, <3>4, UnitsFinite
        <3>6. Total(1..(m - 1), MonthLength)
                = Total((1..(m - 1)) \ {m - 1}, MonthLength) + MonthLength[m - 1]
            BY <1>1, <3>1, <3>2, <3>5, TotalSplit
        <3>7. Total(1..(m - 1), MonthLength) = Total(1..((m - 1) - 1), MonthLength) + MonthLength[m - 1]
            BY <3>2, <3>6
        <3> QED
            BY <2>2, <3>1, <3>7
    <2> QED
        BY <2>1, <2>2
<1>3. w = [m \in D |-> IF m = 1 THEN 0 ELSE w[m - 1] + MonthLength[m - 1]]
    BY <1>2
<1> HIDE DEF w
<1>4. \E f : f = [m \in D |-> IF m = 1 THEN 0 ELSE f[m - 1] + MonthLength[m - 1]]
    BY <1>3
<1> QED
    BY <1>4 DEF DaysBefore

LEMMA DaysBeforeNext ==
    /\ DaysBefore[1] = 0
    /\ \A m \in 1..Months : DaysBefore[m + 1] = DaysBefore[m] + MonthLength[m]
<1>1. Months \in Nat
    BY CalendarType DEF Positive
<1>2. \A m \in 1..(Months + 1) :
          DaysBefore[m] = IF m = 1 THEN 0 ELSE DaysBefore[m - 1] + MonthLength[m - 1]
    BY DaysBeforeDefined, Zenon
<1> QED
    BY <1>1, <1>2

\* A year's months follow one another.
LEMMA DaysBeforeType ==
    /\ \A m \in 1..(Months + 1) : DaysBefore[m] \in Nat
    /\ \A m \in 1..Months : \A n \in 1..(Months + 1) :
          m < n => DaysBefore[m] + MonthLength[m] =< DaysBefore[n]
    /\ DaysPerYear \in Positive
<1>1. Months \in Nat /\ Months >= 1 /\ \A m \in 1..Months : MonthLength[m] \in Int /\ MonthLength[m] >= 1
    BY CalendarType DEF Positive
<1>2. ASSUME NEW m \in 1..(Months + 1) PROVE DaysBefore[m] \in Nat
    <2> DEFINE Bad == {k \in Nat : k \in 1..(Months + 1) /\ DaysBefore[k] \notin Nat}
    <2>1. SUFFICES ASSUME Bad # {} PROVE FALSE
        BY <1>1
    <2>2. PICK k \in Bad : \A j \in Bad : k =< j
        BY <2>1, LeastNumber
    <2>3. k \in 1..(Months + 1) /\ k # 1 /\ DaysBefore[k] \notin Nat
        BY <2>2, DaysBeforeNext
    <2>4. k - 1 \in 1..Months /\ k - 1 \in Nat
        BY <1>1, <2>3
    <2>5. DaysBefore[k - 1] \in Nat
        <3>1. k - 1 \notin Bad
            <4> HIDE DEF Bad
            <4>1. k \in Nat /\ (k - 1 \in Bad => k =< k - 1)
                BY <2>2, <2>3
            <4> QED
                BY <4>1
        <3> QED
            BY <1>1, <2>4, <3>1
    <2>6. DaysBefore[(k - 1) + 1] = DaysBefore[k - 1] + MonthLength[k - 1]
        BY <2>4, DaysBeforeNext
    <2> QED
        BY <1>1, <2>3, <2>4, <2>5, <2>6
<1>3. ASSUME NEW m \in 1..Months, NEW n \in 1..(Months + 1), m < n
      PROVE  DaysBefore[m] + MonthLength[m] =< DaysBefore[n]
    <2> DEFINE Bad == {k \in Nat : /\ m < k /\ k =< Months + 1
                                   /\ ~(DaysBefore[m] + MonthLength[m] =< DaysBefore[k])}
    <2>1. SUFFICES ASSUME Bad # {} PROVE FALSE
        BY <1>1, <1>3
    <2>2. PICK k \in Bad : \A j \in Bad : k =< j
        BY <2>1, LeastNumber
    <2>3. /\ k \in Nat /\ m < k /\ k =< Months + 1
          /\ ~(DaysBefore[m] + MonthLength[m] =< DaysBefore[k])
        BY <2>2
    <2>4. DaysBefore[m + 1] = DaysBefore[m] + MonthLength[m]
        BY DaysBeforeNext
    <2>5. DaysBefore[m + 1] \in Nat /\ DaysBefore[m] \in Nat
        BY <1>1, <1>2
    <2>6. k # m + 1
        BY <2>3, <2>4, <2>5
    <2>7. m < k - 1 /\ k - 1 \in 1..Months /\ k - 1 \in Nat
        BY <1>1, <2>3, <2>6
    <2>8. DaysBefore[m] + MonthLength[m] =< DaysBefore[k - 1]
        <3>1. k - 1 \notin Bad
            <4> HIDE DEF Bad
            <4>1. k - 1 \in Bad => k =< k - 1
                BY <2>2
            <4> QED
                BY <2>3, <4>1
        <3> QED
            BY <1>1, <2>7, <3>1
    <2>9. DaysBefore[(k - 1) + 1] = DaysBefore[k - 1] + MonthLength[k - 1]
        BY <2>7, DaysBeforeNext
    <2>10. DaysBefore[k - 1] \in Nat /\ DaysBefore[k] \in Nat
        BY <1>1, <1>2, <2>3, <2>7
    <2>11. DaysBefore[k] = DaysBefore[k - 1] + MonthLength[k - 1]
        BY <2>3, <2>9
    <2> HIDE DEF Bad
    <2> QED
        BY <1>1, <2>3, <2>5, <2>7, <2>8, <2>10, <2>11
<1>4. DaysPerYear \in Positive
    <2>1. DaysBefore[1] + MonthLength[1] =< DaysBefore[Months + 1]
        BY <1>1, <1>3
    <2>2. DaysBefore[Months + 1] \in Nat
        BY <1>1, <1>2
    <2> QED
        BY <1>1, <2>1, <2>2, DaysBeforeNext DEF DaysPerYear, Positive
<1> QED
    BY <1>2, <1>3, <1>4

------------------------------------------------------------------------------
(* Dates *)

LEMMA MonthExists ==
    ASSUME NEW r \in Nat, r < DaysPerYear
    PROVE  \E m \in 1..Months : DaysBefore[m] =< r /\ r < DaysBefore[m + 1]
<1> DEFINE After == {k \in Nat : k \in 1..Months /\ r < DaysBefore[k + 1]}
<1>1. Months \in Nat /\ Months >= 1
    BY CalendarType DEF Positive
<1>2. Months \in After
    BY <1>1 DEF DaysPerYear
<1>3. PICK m \in After : \A k \in After : m =< k
    BY <1>2, LeastNumber
<1>4. m \in 1..Months /\ m \in Nat /\ r < DaysBefore[m + 1]
    BY <1>3
<1>5. m - 1 \notin After
    <2> HIDE DEF After
    <2>1. m - 1 \in After => m =< m - 1
        BY <1>3
    <2> QED
        BY <1>4, <2>1
<1>6. CASE m = 1
    BY <1>4, <1>6, DaysBeforeNext
<1>7. CASE m # 1
    <2>1. m - 1 \in 1..Months /\ m - 1 \in Nat
        BY <1>1, <1>4, <1>7
    <2>2. ~(r < DaysBefore[(m - 1) + 1])
        BY <1>5, <2>1
    <2>3. DaysBefore[m] \in Nat /\ (m - 1) + 1 = m
        BY <1>1, <1>4, DaysBeforeType
    <2> QED
        BY <1>4, <2>2, <2>3
<1> QED
    BY <1>6, <1>7

DateType ==
    {d \in [year : Int, month : 1..Months, day : Nat, tick : Nat] :
        1 =< d.day /\ d.day =< MonthLength[d.month] /\ d.tick < TicksPerDay}

\* Every moment has a date, and the date tells the moment.
LEMMA DateTicks ==
    ASSUME NEW t \in Int
    PROVE  Date(t) \in DateType /\ Ticks(Date(t)) = t
<1>1. PICK day, tick \in Int : /\ t \div TicksPerDay = day /\ t % TicksPerDay = tick
                               /\ 0 =< tick /\ tick < TicksPerDay
                               /\ t = day * TicksPerDay + tick
    BY DivMod, CalendarType
<1>2. PICK year, r \in Int : /\ day \div DaysPerYear = year /\ day % DaysPerYear = r
                             /\ 0 =< r /\ r < DaysPerYear
                             /\ day = year * DaysPerYear + r
    BY DivMod, DaysBeforeType
<1>3. r \in Nat
    BY <1>2
<1>4. PICK m : m = CHOOSE k \in 1..Months : DaysBefore[k] =< r /\ r < DaysBefore[k + 1]
    OBVIOUS
<1>5. m \in 1..Months /\ DaysBefore[m] =< r /\ r < DaysBefore[m + 1]
    BY <1>2, <1>3, <1>4, MonthExists
<1>6. Date(t) = [year |-> year, month |-> m, day |-> r - DaysBefore[m] + 1, tick |-> tick]
    BY <1>1, <1>2, <1>4, Zenon DEF Date
<1>7. /\ DaysBefore[m] \in Nat /\ MonthLength[m] \in Nat
      /\ DaysBefore[m + 1] = DaysBefore[m] + MonthLength[m]
    <2>1. m \in 1..(Months + 1)
        BY <1>5, CalendarType DEF Positive
    <2> QED
        BY <1>5, <2>1, DaysBeforeType, DaysBeforeNext, CalendarType DEF Positive
<1>8. TicksPerDay \in Int /\ DaysPerYear \in Int
    BY CalendarType, DaysBeforeType DEF Positive
<1>9. PICK d \in Nat : /\ d = r - DaysBefore[m] + 1
                       /\ 1 =< d /\ d =< MonthLength[m]
    BY <1>3, <1>5, <1>7
<1>10. Date(t) = [year |-> year, month |-> m, day |-> d, tick |-> tick]
    BY <1>6, <1>9, Zenon
<1>11. Date(t) \in DateType
    BY <1>1, <1>5, <1>9, <1>10 DEF DateType
<1>12. Ticks(Date(t)) = (year * DaysPerYear + DaysBefore[m] + d - 1) * TicksPerDay + tick
    BY <1>10 DEF Ticks
<1>13. year * DaysPerYear + DaysBefore[m] + d - 1 = day
    BY <1>2, <1>7, <1>8, <1>9
<1> QED
    BY <1>1, <1>11, <1>12, <1>13

LEMMA TicksType ==
    ASSUME NEW d \in DateType
    PROVE  Ticks(d) \in Int
<1>1. /\ d.year \in Int /\ d.month \in 1..Months /\ d.day \in Int /\ d.tick \in Int
    BY DEF DateType
<1>2. DaysPerYear \in Int /\ TicksPerDay \in Int /\ DaysBefore[d.month] \in Int
    <2>1. d.month \in 1..(Months + 1)
        BY <1>1, CalendarType DEF Positive
    <2> QED
        BY <2>1, CalendarType, DaysBeforeType DEF Positive
<1> QED
    BY <1>1, <1>2 DEF Ticks

\* A date is later if its year and month are, whatever its month's days.
LEMMA LaterDate ==
    ASSUME NEW d \in DateType, NEW e \in DateType,
           e.day = d.day, e.tick = d.tick,
           e.year > d.year \/ (e.year = d.year /\ e.month > d.month)
    PROVE  Ticks(e) > Ticks(d)
<1>1. /\ d.year \in Int /\ d.month \in 1..Months /\ d.day \in Int /\ d.tick \in Int
      /\ e.year \in Int /\ e.month \in 1..Months
    BY DEF DateType
<1>2. PICK y, m, day, tick, z, n :
          /\ y = d.year /\ m = d.month /\ day = d.day /\ tick = d.tick
          /\ z = e.year /\ n = e.month
    OBVIOUS
<1>3. PICK p, s, u, v \in Int : /\ p = DaysPerYear /\ s = TicksPerDay /\ p >= 1 /\ s >= 1
                                /\ u = DaysBefore[m] /\ v = DaysBefore[n]
    <2>1. m \in 1..(Months + 1) /\ n \in 1..(Months + 1)
        BY <1>1, <1>2, CalendarType DEF Positive
    <2> QED
        BY <2>1, CalendarType, DaysBeforeType DEF Positive
<1>4. z * p + v > y * p + u
    <2>1. CASE z > y
        <3>1. v >= 0 /\ u < p
            <4>1. m \in 1..Months /\ n \in 1..(Months + 1) /\ Months + 1 \in 1..(Months + 1)
                  /\ m < Months + 1
                BY <1>1, <1>2, CalendarType DEF Positive
            <4>2. DaysBefore[n] \in Nat /\ DaysBefore[m] + MonthLength[m] =< DaysBefore[Months + 1]
                BY <4>1, DaysBeforeType
            <4>3. MonthLength[m] \in Int /\ MonthLength[m] >= 1
                BY <4>1, CalendarType DEF Positive
            <4>4. v \in Nat /\ u + MonthLength[m] =< p
                BY <1>3, <4>2 DEF DaysPerYear
            <4> QED
                BY <1>3, <4>3, <4>4
        <3>2. z * p >= (y + 1) * p
            BY <1>1, <1>2, <1>3, <2>1
        <3>3. (y + 1) * p = y * p + p
            BY <1>1, <1>2, <1>3
        <3>4. z * p \in Int /\ y * p \in Int
            BY <1>1, <1>2, <1>3
        <3> QED
            BY <1>3, <3>1, <3>2, <3>3, <3>4
    <2>2. CASE z = y /\ n > m
        <3>1. m \in 1..Months /\ n \in 1..(Months + 1)
            BY <1>1, <1>2, CalendarType DEF Positive
        <3>2. u + MonthLength[m] =< v
            BY <1>3, <2>2, <3>1, DaysBeforeType
        <3>3. MonthLength[m] \in Int /\ MonthLength[m] >= 1
            BY <3>1, CalendarType DEF Positive
        <3>4. y * p \in Int
            BY <1>1, <1>2, <1>3
        <3> QED
            BY <1>3, <2>2, <3>2, <3>3, <3>4
    <2> QED
        BY <1>2, <2>1, <2>2
<1>5. PICK a, b \in Int : /\ a = y * p + u + day - 1 /\ b = z * p + v + day - 1 /\ b > a
    <2>1. y * p \in Int /\ z * p \in Int
        BY <1>1, <1>2, <1>3
    <2> QED
        BY <1>1, <1>2, <1>3, <1>4, <2>1
<1>6. b * s > a * s
    BY <1>3, <1>5
<1>7. Ticks(d) = a * s + tick /\ Ticks(e) = b * s + tick
    BY <1>2, <1>3, <1>5, Zenon DEF Ticks
<1>8. a * s \in Int /\ b * s \in Int
    BY <1>3, <1>5
<1> QED
    BY <1>1, <1>2, <1>6, <1>7, <1>8

\* Adding months gives no date or a later one; adding none, the same.
LEMMA AddMonthsLater ==
    ASSUME NEW t \in Int, NEW months \in Nat
    PROVE  /\ AddMonths(t, months) \in Int
           /\ months = 0 => AddMonths(t, months) = t
           /\ months > 0 => (AddMonths(t, months) = Invalid \/ AddMonths(t, months) > t)
<1>1. PICK date \in DateType : date = Date(t) /\ Ticks(date) = t
    BY DateTicks
<1>2. /\ date \in [year : Int, month : 1..Months, day : Nat, tick : Nat]
      /\ date.day >= 1 /\ date.day =< MonthLength[date.month] /\ date.tick < TicksPerDay
    BY DEF DateType
<1>3. PICK sum : sum = months + date.month
    OBVIOUS
<1>4. Months \in Positive /\ Months \in Int /\ Months >= 1
    BY CalendarType DEF Positive
<1>5. sum \in Int /\ sum >= 1 /\ sum >= months
    BY <1>2, <1>3
<1>6. PICK year : year = IF sum > Months THEN date.year + sum \div Months ELSE date.year
    OBVIOUS
<1>7. PICK month : month = IF sum > Months THEN sum % Months ELSE sum
    OBVIOUS
<1>8. PICK e : e = [date EXCEPT !.year = year, !.month = month]
    OBVIOUS
<1>9. AddMonths(t, months) = IF month = 0 THEN Invalid
                            ELSE IF date.day > MonthLength[month] THEN Invalid
                            ELSE Ticks(e)
    BY <1>1, <1>3, <1>6, <1>7, <1>8, Zenon DEF AddMonths
<1>10. PICK q, r \in Int : /\ sum \div Months = q /\ sum % Months = r
                           /\ 0 =< r /\ r < Months /\ sum = q * Months + r
    BY <1>4, <1>5, DivMod
<1>11. sum > Months => q >= 1
    <2>1. SUFFICES ASSUME sum > Months, q =< 0 PROVE FALSE
        BY <1>10
    <2>2. q * Months =< 0
        BY <1>4, <1>10, <2>1
    <2> QED
        BY <1>4, <1>5, <1>10, <2>1, <2>2
<1>12. year \in Int /\ month \in 0..Months
    BY <1>2, <1>4, <1>5, <1>6, <1>7, <1>10
<1>13. e = [year |-> year, month |-> month, day |-> date.day, tick |-> date.tick]
    BY <1>2, <1>8
<1>14. CASE month = 0
    <2>1. months # 0
        BY <1>2, <1>3, <1>4, <1>6, <1>7, <1>14
    <2> QED
        BY <1>9, <1>14, <2>1 DEF Invalid
<1>15. CASE month # 0 /\ date.day > MonthLength[month]
    <2>1. months # 0
        <3>1. SUFFICES ASSUME months = 0 PROVE FALSE
            OBVIOUS
        <3>2. month = date.month
            BY <1>2, <1>3, <1>4, <1>7, <3>1
        <3>3. MonthLength[date.month] \in Int
            BY <1>2, CalendarType DEF Positive
        <3> QED
            BY <1>2, <1>15, <3>2, <3>3
    <2> QED
        BY <1>9, <1>15, <2>1 DEF Invalid
<1>16. CASE month # 0 /\ ~(date.day > MonthLength[month])
    <2>1. month \in 1..Months
        BY <1>12, <1>16
    <2>2. MonthLength[month] \in Int
        BY <2>1, CalendarType DEF Positive
    <2>3. e \in DateType
        BY <1>2, <1>12, <1>13, <1>16, <2>1, <2>2 DEF DateType
    <2>4. AddMonths(t, months) = Ticks(e) /\ Ticks(e) \in Int
        BY <1>9, <1>16, <2>3, TicksType
    <2>5. months = 0 => e = date
        <3>1. months = 0 => year = date.year /\ month = date.month
            BY <1>2, <1>3, <1>4, <1>6, <1>7
        <3> QED
            BY <1>2, <1>13, <3>1
    <2>6. months > 0 => (e.year > date.year \/ (e.year = date.year /\ e.month > date.month))
        <3>1. months > 0 => sum > date.month
            BY <1>2, <1>3
        <3>2. CASE sum > Months
            BY <1>2, <1>6, <1>10, <1>11, <1>13, <3>2
        <3>3. CASE ~(sum > Months)
            BY <1>6, <1>7, <1>13, <3>1, <3>3
        <3> QED
            BY <3>2, <3>3
    <2>7. months > 0 => Ticks(e) > t
        BY <1>1, <1>13, <2>3, <2>6, LaterDate
    <2> QED
        BY <1>1, <2>4, <2>5, <2>7
<1> QED
    BY <1>14, <1>15, <1>16

------------------------------------------------------------------------------
(* The loop that looks for the next run *)

\* A turn of it.
Turn(x, period) ==
    LET moved == AddMonths(x, period.months)
    IN  IF moved = Invalid THEN Invalid ELSE moved + period.ticks

\* The moments it comes to, turn by turn.
IsAfter(after, base, period) ==
    after = [k \in Nat |-> IF k = 0 THEN base ELSE Turn(after[k - 1], period)]

LEMMA TurnType ==
    ASSUME NEW x \in Int, NEW period \in PeriodType
    PROVE  /\ Turn(x, period) \in Int
           /\ (x >= 0 /\ period.months + period.ticks > 0)
                 => (Turn(x, period) = Invalid \/ Turn(x, period) > x)
           /\ (x >= 0 /\ period.months = 0) => Turn(x, period) = x + period.ticks
<1>1. period.months \in Nat /\ period.ticks \in Nat
    BY DEF PeriodType
<1>2. PICK y \in Int :
                      /\ y = AddMonths(x, period.months)
                      /\ period.months = 0 => y = x
                      /\ period.months > 0 => (y = Invalid \/ y > x)
    BY <1>1, AddMonthsLater
<1>3. Turn(x, period) = IF y = Invalid THEN Invalid ELSE y + period.ticks
    BY <1>2, Zenon DEF Turn
<1>4. CASE y = Invalid
    BY <1>1, <1>2, <1>3, <1>4 DEF Invalid
<1>5. CASE y # Invalid
    <2>1. Turn(x, period) = y + period.ticks
        BY <1>3, <1>5
    <2>2. y >= x
        BY <1>1, <1>2, <1>5
    <2> QED
        BY <1>1, <1>2, <1>5, <2>1, <2>2
<1> QED
    BY <1>4, <1>5

LEMMA AfterExists ==
    ASSUME NEW base \in Int, NEW period \in PeriodType
    PROVE  \E after \in [Nat -> Int] : IsAfter(after, base, period)
<1>1. PICK f \in [Int -> Int] : \A x \in Int : f[x] = Turn(x, period)
    <2>1. [x \in Int |-> Turn(x, period)] \in [Int -> Int]
        BY TurnType
    <2> QED
        BY <2>1
<1>2. PICK g \in [Nat -> Int] : g[0] = base /\ \A n \in Nat : g[n + 1] = f[g[n]]
    <2>1. PICK g : Iterates(Int, f, base, g)
        BY Iteration
    <2> QED
        BY <2>1 DEF Iterates
<1>3. ASSUME NEW k \in Nat
      PROVE  g[k] = IF k = 0 THEN base ELSE Turn(g[k - 1], period)
    <2>1. CASE k = 0
        BY <1>2, <2>1
    <2>2. CASE k # 0
        <3>1. PICK n \in Nat : n = k - 1
            BY <2>2
        <3>2. g[n + 1] = f[g[n]] /\ g[n] \in Int /\ n + 1 = k
            BY <1>1, <1>2, <3>1
        <3> QED
            BY <1>1, <2>2, <3>1, <3>2
    <2> QED
        BY <2>1, <2>2
<1>4. g = [k \in Nat |-> IF k = 0 THEN base ELSE Turn(g[k - 1], period)]
    BY <1>2, <1>3
<1> QED
    BY <1>2, <1>4 DEF IsAfter

LEMMA AfterUnique ==
    ASSUME NEW base \in Int, NEW period \in PeriodType,
           NEW f \in [Nat -> Int], IsAfter(f, base, period),
           NEW g, IsAfter(g, base, period)
    PROVE  g = f
<1>1. /\ \A k \in Nat : f[k] = IF k = 0 THEN base ELSE Turn(f[k - 1], period)
      /\ \A k \in Nat : g[k] = IF k = 0 THEN base ELSE Turn(g[k - 1], period)
      /\ g = [k \in Nat |-> IF k = 0 THEN base ELSE Turn(g[k - 1], period)]
    BY Zenon DEF IsAfter
<1> DEFINE Bad == {k \in Nat : f[k] # g[k]}
<1>2. Bad = {}
    <2>1. SUFFICES ASSUME Bad # {} PROVE FALSE
        OBVIOUS
    <2>2. PICK k \in Bad : \A j \in Bad : k =< j
        BY <2>1, LeastNumber
    <2>3. k \in Nat /\ f[k] # g[k] /\ k # 0
        BY <1>1, <2>2
    <2>4. k - 1 \in Nat /\ k - 1 \notin Bad
        <3> HIDE DEF Bad
        <3>1. k - 1 \in Bad => k =< k - 1
            BY <2>2
        <3> QED
            BY <2>3, <3>1
    <2> QED
        BY <1>1, <2>3, <2>4
<1> QED
    BY <1>1, <1>2

(***************************************************************************)
(* The search of processTimeTask for the next run ends, for any period that*)
(* is not empty, and finds what is later than now or a date that does not  *)
(* exist, which only months can lead to.  It takes one turn if that leads  *)
(* past now.                                                               *)
(***************************************************************************)
THEOREM AdvanceFinds ==
    ASSUME NEW base \in Nat, NEW period \in PeriodType,
           period.months + period.ticks > 0, NEW limit \in Nat
    PROVE  \E turns \in Positive, found \in Int :
              /\ Advance(base, period, limit).cycles = turns
              /\ Advance(base, period, limit).next = found
              /\ found = Invalid \/ found > limit
              /\ period.months = 0 => found > limit
              /\ period.months = 0 /\ base + period.ticks > limit => turns = 1
<1>1. PICK after \in [Nat -> Int] : IsAfter(after, base, period)
    BY AfterExists
<1>2. after = CHOOSE g : IsAfter(g, base, period)
    <2>1. IsAfter(CHOOSE g : IsAfter(g, base, period), base, period)
        BY <1>1, Zenon
    <2> QED
        BY <1>1, <2>1, AfterUnique
<1> DEFINE Ends(k) == after[k] = Invalid \/ after[k] > limit
           Candidates == {1} \cup 1..(limit - base + 1)
           First(k) == Ends(k) /\ \A j \in 1..(k - 1) : ~Ends(j)
<1>3. Advance(base, period, limit) =
        [cycles |-> CHOOSE k \in Candidates : First(k),
         next |-> after[CHOOSE k \in Candidates : First(k)]]
    BY <1>2, Zenon DEF Advance, IsAfter, Turn
<1>4. /\ \A k \in Nat : after[k] \in Int
      /\ after[0] = base
      /\ \A k \in Nat \ {0} : after[k] = Turn(after[k - 1], period)
    BY <1>1 DEF IsAfter
<1> HIDE DEF Ends, Candidates
<1>5. ASSUME NEW k \in Nat, \A j \in 1..k : after[j] # Invalid
      PROVE  after[k] >= base + k
    <2> DEFINE Bad == {m \in Nat : m =< k /\ ~(after[m] >= base + m)}
    <2>1. SUFFICES ASSUME Bad # {} PROVE FALSE
        BY <1>4
    <2>2. PICK m \in Bad : \A j \in Bad : m =< j
        BY <2>1, LeastNumber
    <2>3. m \in Nat /\ m =< k /\ ~(after[m] >= base + m) /\ m # 0
        BY <1>4, <2>2
    <2>4. m - 1 \in Nat /\ m - 1 \notin Bad
        <3> HIDE DEF Bad
        <3>1. m - 1 \in Bad => m =< m - 1
            BY <2>2
        <3> QED
            BY <2>3, <3>1
    <2>5. after[m - 1] >= base + (m - 1) /\ after[m - 1] \in Int
        BY <1>4, <2>3, <2>4
    <2>6. after[m - 1] >= 0
        BY <2>4, <2>5
    <2>7. after[m] = Turn(after[m - 1], period) /\ after[m] # Invalid
        BY <1>4, <1>5, <2>3
    <2>8. after[m] > after[m - 1] /\ after[m] \in Int
        BY <1>4, <2>3, <2>5, <2>6, <2>7, TurnType
    <2> HIDE DEF Bad
    <2> QED
        BY <2>3, <2>5, <2>8
<1>6. \E k \in Candidates : k \in Nat \ {0} /\ Ends(k)
    <2>1. CASE \E j \in Candidates : j \in Nat \ {0} /\ after[j] = Invalid
        BY <2>1 DEF Ends
    <2>2. CASE ~\E j \in Candidates : j \in Nat \ {0} /\ after[j] = Invalid
        <3>1. CASE limit < base
            <4>1. 1 \in Candidates /\ 1 \in Nat \ {0} /\ \A j \in 1..1 : j = 1
                BY DEF Candidates
            <4>2. \A j \in 1..1 : after[j] # Invalid
                BY <2>2, <4>1
            <4>3. after[1] >= base + 1 /\ after[1] \in Int
                BY <1>4, <1>5, <4>2
            <4> QED
                BY <3>1, <4>1, <4>3 DEF Ends
        <3>2. CASE ~(limit < base)
            <4>1. PICK n \in Nat : n = limit - base + 1 /\ n >= 1
                BY <3>2
            <4>2. n \in Candidates /\ n \in Nat \ {0} /\ \A j \in 1..n : j \in Candidates /\ j \in Nat \ {0}
                BY <4>1 DEF Candidates
            <4>3. \A j \in 1..n : after[j] # Invalid
                BY <2>2, <4>2
            <4>4. after[n] >= base + n /\ after[n] \in Int
                BY <1>4, <1>5, <4>3
            <4> QED
                BY <4>1, <4>2, <4>4 DEF Ends
        <3> QED
            BY <3>1, <3>2
    <2> QED
        BY <2>1, <2>2
<1>7. \E k \in Candidates : First(k)
    <2> DEFINE T == {k \in Nat : k >= 1 /\ Ends(k)}
    <2>1. PICK n \in Candidates : n \in Nat \ {0} /\ Ends(n)
        BY <1>6
    <2>2. n \in T
        BY <2>1
    <2>3. PICK k \in T : \A j \in T : k =< j
        BY <2>2, LeastNumber
    <2>4. k \in Nat /\ k >= 1 /\ Ends(k) /\ k =< n
        BY <2>2, <2>3
    <2>5. k \in Candidates
        BY <2>1, <2>4 DEF Candidates
    <2>6. ASSUME NEW j \in 1..(k - 1) PROVE ~Ends(j)
        <3>1. j \in Nat /\ j >= 1 /\ j < k
            BY <2>4
        <3>2. j \in T => k =< j
            BY <2>3
        <3>3. Ends(j) => j \in T
            BY <3>1
        <3> HIDE DEF T
        <3> QED
            BY <2>4, <3>1, <3>2, <3>3
    <2> QED
        BY <2>4, <2>5, <2>6
<1>8. PICK turns \in Candidates : turns = (CHOOSE k \in Candidates : First(k)) /\ First(turns)
    <2> HIDE DEF First
    <2> QED
        BY <1>7
<1>9. turns \in Positive
    BY DEF Positive, Candidates
<1>10. /\ Advance(base, period, limit).cycles = turns
       /\ Advance(base, period, limit).next = after[turns]
    <2> HIDE DEF First
    <2> QED
        BY <1>3, <1>8
<1>11. Ends(turns) /\ \A j \in 1..(turns - 1) : ~Ends(j)
    BY <1>8
<1>12. after[turns] \in Int
    BY <1>4, <1>9 DEF Positive
<1>13. after[turns] = Invalid \/ after[turns] > limit
    BY <1>11 DEF Ends
<1>14. ASSUME period.months = 0 PROVE \A k \in Nat : after[k] >= 0
    <2> DEFINE Bad == {m \in Nat : ~(after[m] >= 0)}
    <2>1. SUFFICES ASSUME Bad # {} PROVE FALSE
        OBVIOUS
    <2>2. PICK m \in Bad : \A j \in Bad : m =< j
        BY <2>1, LeastNumber
    <2>3. m \in Nat /\ ~(after[m] >= 0) /\ m # 0
        BY <1>4, <2>2
    <2>4. m - 1 \in Nat /\ m - 1 \notin Bad
        <3> HIDE DEF Bad
        <3>1. m - 1 \in Bad => m =< m - 1
            BY <2>2
        <3> QED
            BY <2>3, <3>1
    <2>5. after[m - 1] >= 0 /\ after[m - 1] \in Int
        BY <1>4, <2>4
    <2>6. after[m] = after[m - 1] + period.ticks
        BY <1>4, <1>14, <2>3, <2>5, TurnType
    <2> HIDE DEF Bad
    <2> QED
        BY <2>3, <2>5, <2>6 DEF PeriodType
<1>15. period.months = 0 => after[turns] > limit
    BY <1>9, <1>12, <1>13, <1>14 DEF Positive, Invalid
<1>16. period.months = 0 /\ base + period.ticks > limit => turns = 1
    <2>1. SUFFICES ASSUME period.months = 0, base + period.ticks > limit, turns # 1
                   PROVE  FALSE
        OBVIOUS
    <2>2. 1 \in 1..(turns - 1)
        BY <1>9, <2>1 DEF Positive
    <2>3. after[1] = base + period.ticks
        BY <1>4, <2>1, TurnType
    <2> QED
        BY <1>11, <2>1, <2>2, <2>3 DEF Ends
<1> HIDE DEF First
<1> QED
    BY <1>9, <1>10, <1>12, <1>13, <1>15, <1>16

------------------------------------------------------------------------------
(* Types and times *)

\* A task the pass has still to go through.
InPass(id) == \E copy \in todo : copy.id = id

\* A pass is over within its tick, and the next is begun in time.
TimesRight ==
    /\ Start =< compare /\ compare =< now
    /\ now - compare =< MaxGap
    /\ todo # {} => now = compare

\* A next run is unset or after the start, and one that is set belongs to a row.
IsNext(n) == n = 0 \/ n > Start

NextsRight ==
    /\ \A id \in Ids : IsNext(next[id])
    /\ \A id \in Ids : table[id] = None => next[id] = 0
    /\ \A copy \in todo : IsNext(copy.next)

\* A pass has one copy of a task, which is its row as long as nothing disturbs the task.
CopiesRight ==
    /\ \A c \in todo, d \in todo : c.id = d.id => c = d
    /\ \A copy \in todo : calm[copy.id] # "no" =>
          copy.row = table[copy.id] /\ copy.next = next[copy.id]

\* The flag and the row of MetaBpcbInfo come and go together, and runs are not ahead of the pass.
RunsRight ==
    \A id \in Ids :
        /\ (handle[id] = None) <=> (bpcb[id] = None)
        /\ handle[id] = TRUE => bpcb[id] # 0
        /\ bpcb[id] # None => bpcb[id] =< compare
        /\ bpcb[id] # None /\ InPass(id) => bpcb[id] < compare

CronInv == TypeOK /\ TimesRight /\ NextsRight /\ CopiesRight /\ RunsRight

LEMMA RowType ==
    ASSUME NEW row \in AllRows
    PROVE  /\ row.type \in {0, 1}
           /\ row.type = 0 => row.period \in PeriodType
           /\ row.type = 1 => row.fields \in [Units -> Seq(ItemType)]
<1>1. row \in ScheduleType \/ row \in IntervalType
    BY CronAssumption DEF AllRows
<1>2. CASE row \in ScheduleType
    BY <1>2 DEF ScheduleType
<1>3. CASE row \in IntervalType
    BY <1>3 DEF IntervalType
<1> QED
    BY <1>1, <1>2, <1>3

LEMMA BoundsType ==
    /\ MaxGap \in Nat /\ Start \in Nat /\ End \in Nat /\ MaxEdits \in Nat
    /\ TicksPerMinute \in Nat /\ TicksPerMinute >= 1 /\ Start > TicksPerMinute
    /\ ZoneShift \in Int /\ ZoneShift =< Start
    /\ None \notin BOOLEAN /\ None \notin Nat
BY CronAssumption, CalendarType DEF Positive

\* What the search for the next run finds for a task of a pass.
LEMMA FoundType ==
    ASSUME TypeOK, TimesRight, NextsRight, NEW copy \in todo,
           copy.row.type = 0, ~NoPeriod(copy.row)
    PROVE  \E turns \in Positive, n \in Int :
              /\ Found(copy).cycles = turns /\ Found(copy).next = n
              /\ n = Invalid \/ n > compare
              /\ copy.row.period.months = 0 => n > compare
              /\ copy.row.period.months = 0 /\ copy.next # 0
                 /\ copy.next - ZoneShift + copy.row.period.ticks > compare => turns = 1
<1>1. /\ copy \in Copy /\ copy.row \in AllRows /\ copy.next \in Nat /\ compare \in Nat
      /\ IsNext(copy.next)
    BY DEF TypeOK, Copy, NextsRight
<1>2. PICK period \in PeriodType : period = copy.row.period
    BY <1>1, RowType
<1>3. PICK base \in Nat : base = IF copy.next = 0 THEN compare ELSE copy.next - ZoneShift
    BY <1>1, BoundsType DEF IsNext
<1>4. period.months + period.ticks > 0
    BY <1>2 DEF NoPeriod, PeriodType
<1>5. Found(copy) = Advance(base, period, compare)
    BY <1>2, <1>3, Zenon DEF Found
<1>6. PICK turns \in Positive, n \in Int :
              /\ Found(copy).cycles = turns /\ Found(copy).next = n
              /\ n = Invalid \/ n > compare
              /\ period.months = 0 => n > compare
              /\ period.months = 0 /\ base + period.ticks > compare => turns = 1
    BY <1>1, <1>4, <1>5, AdvanceFinds
<1>7. copy.next # 0 => base = copy.next - ZoneShift
    BY <1>3
<1> QED
    BY <1>2, <1>6, <1>7

\* Only what is after the pass is written as the next run, and only of a row that is there.
LEMMA NextAfterType ==
    ASSUME TypeOK, TimesRight, NextsRight, NEW copy \in todo,
           copy.row.type = 0, ~NoPeriod(copy.row)
    PROVE  \E n \in Nat :
              /\ NextAfter(copy) = [next EXCEPT ![copy.id] = n]
              /\ n = next[copy.id] \/ (n > compare /\ table[copy.id] # None)
              /\ copy.row.period.months = 0 /\ table[copy.id] # None => n > compare
<1>1. PICK turns \in Positive, n \in Int :
              /\ Found(copy).cycles = turns /\ Found(copy).next = n
              /\ n = Invalid \/ n > compare
              /\ copy.row.period.months = 0 => n > compare
    BY FoundType
<1>2. compare \in Nat /\ next \in [Ids -> Nat] /\ copy.id \in Ids
    BY DEF TypeOK, Copy
<1>3. n > compare => n \in Nat /\ n # Invalid
    BY <1>2 DEF Invalid
<1>4. CASE n # Invalid /\ table[copy.id] # None
    <2>1. NextAfter(copy) = [next EXCEPT ![copy.id] = n]
        BY <1>1, <1>4, Zenon DEF NextAfter
    <2> QED
        BY <1>1, <1>3, <1>4, <2>1
<1>5. CASE ~(n # Invalid /\ table[copy.id] # None)
    <2>1. NextAfter(copy) = next
        BY <1>1, <1>5, Zenon DEF NextAfter
    <2>2. next = [next EXCEPT ![copy.id] = next[copy.id]] /\ next[copy.id] \in Nat
        BY <1>2
    <2> QED
        BY <1>1, <1>3, <1>5, <2>1, <2>2
<1> QED
    BY <1>4, <1>5

------------------------------------------------------------------------------
(* One task of a pass *)

One(copy) == Skip(copy) \/ Postpone(copy) \/ Launch(copy)

LEMMA HandlesType ==
    ASSUME TypeOK, NEW id \in Ids
    PROVE  /\ \E h \in BOOLEAN : /\ Handles(id) = [handle EXCEPT ![id] = h]
                                 /\ handle[id] # None => h = handle[id]
                                 /\ handle[id] = None => h = FALSE
           /\ RunsRight => \E b \in Nat : /\ Bpcbs(id) = [bpcb EXCEPT ![id] = b]
                                          /\ handle[id] # None => b = bpcb[id]
                                          /\ handle[id] = None => b = 0
<1>1. handle[id] \in BOOLEAN \cup {None} /\ bpcb[id] \in Nat \cup {None}
    BY DEF TypeOK
<1>2. CASE handle[id] = None
    <2>1. Handles(id) = [handle EXCEPT ![id] = FALSE]
        BY <1>2, Zenon DEF Handles
    <2>2. Bpcbs(id) = [bpcb EXCEPT ![id] = 0]
        BY <1>2, Zenon DEF Bpcbs
    <2> QED
        BY <1>2, <2>1, <2>2
<1>3. CASE handle[id] # None
    <2>1. Handles(id) = [handle EXCEPT ![id] = handle[id]]
        BY <1>3, Zenon DEF Handles
    <2>2. Bpcbs(id) = [bpcb EXCEPT ![id] = bpcb[id]]
        BY <1>3, Zenon DEF Bpcbs
    <2>3. RunsRight => bpcb[id] \in Nat
        BY <1>1, <1>3 DEF RunsRight
    <2> QED
        BY <1>1, <1>3, <2>1, <2>2, <2>3
<1> QED
    BY <1>2, <1>3

\* A turn of the pass takes one task off it and changes nothing of the others.
LEMMA OneKeeps ==
    ASSUME TypeOK, NEW copy \in todo, One(copy)
    PROVE  /\ todo' = todo \ {copy} /\ copy.id \in Ids
           /\ now' = now /\ table' = table /\ compare' = compare
           /\ layout' = layout /\ edits' = edits
           /\ calm' = calm \/ (calm[copy.id] # "no" /\ calm' = [calm EXCEPT ![copy.id] = "failed"])
<1>1. copy.id \in Ids /\ calm \in [Ids -> {"no", "soon", "yes", "failed"}]
    BY DEF TypeOK, Copy
<1>2. todo' = todo \ {copy}
    BY DEF One, Skip, Postpone, Launch, Done
<1>3. /\ now' = now /\ table' = table /\ compare' = compare
      /\ layout' = layout /\ edits' = edits
    BY DEF One, Skip, Postpone, Launch
<1>4. calm' = calm \/ Disturb({copy.id})
    BY DEF One, Skip, Postpone, Launch, Trouble
<1>5. ASSUME Disturb({copy.id}) PROVE calm' = calm \/ (calm[copy.id] # "no" /\ calm' = [calm EXCEPT ![copy.id] = "failed"])
    <2>1. calm' = [calm EXCEPT ![copy.id] = IF calm[copy.id] # "no" THEN "failed" ELSE @]
        BY <1>1, <1>5 DEF Disturb
    <2> QED
        BY <1>1, <2>1
<1> QED
    BY <1>1, <1>2, <1>3, <1>4, <1>5

LEMMA OneNext ==
    ASSUME TypeOK, TimesRight, NextsRight, NEW copy \in todo, One(copy)
    PROVE  \E n \in Nat : /\ next' = [next EXCEPT ![copy.id] = n]
                          /\ n = next[copy.id] \/ (n > compare /\ table[copy.id] # None)
<1>1. copy.id \in Ids /\ next \in [Ids -> Nat]
    BY DEF TypeOK, Copy
<1>2. next' = next \/ (copy.row.type = 0 /\ ~NoPeriod(copy.row) /\ next' = NextAfter(copy))
    BY DEF One, Skip, Postpone, Launch, Reschedule
<1>3. CASE next' = next
    <2>1. next = [next EXCEPT ![copy.id] = next[copy.id]] /\ next[copy.id] \in Nat
        BY <1>1
    <2> QED
        BY <1>3, <2>1
<1>4. CASE copy.row.type = 0 /\ ~NoPeriod(copy.row) /\ next' = NextAfter(copy)
    BY <1>4, NextAfterType
<1> QED
    BY <1>2, <1>3, <1>4

LEMMA OneRun ==
    ASSUME TypeOK, TimesRight, RunsRight, NEW copy \in todo, One(copy)
    PROVE  \E h \in BOOLEAN, b \in Nat :
              /\ handle' = [handle EXCEPT ![copy.id] = h]
              /\ bpcb' = [bpcb EXCEPT ![copy.id] = b]
              /\ h = TRUE => b # 0
              /\ \/ Launch(copy) /\ h = TRUE /\ b = compare
                 \/ b = 0 /\ bpcb[copy.id] = None
                 \/ b = bpcb[copy.id]
<1>1. /\ copy.id \in Ids /\ handle \in [Ids -> BOOLEAN \cup {None}]
      /\ bpcb \in [Ids -> Nat \cup {None}] /\ compare \in Nat
    BY DEF TypeOK, Copy
<1>2. /\ (handle[copy.id] = None) <=> (bpcb[copy.id] = None)
      /\ handle[copy.id] = TRUE => bpcb[copy.id] # 0
    BY <1>1 DEF RunsRight
<1>3. compare # 0
    BY <1>1, BoundsType DEF TimesRight
<1>4. PICK b \in Nat : /\ Bpcbs(copy.id) = [bpcb EXCEPT ![copy.id] = b]
                       /\ handle[copy.id] # None => b = bpcb[copy.id]
                       /\ handle[copy.id] = None => b = 0
    BY <1>1, HandlesType
<1>5. PICK h \in BOOLEAN : /\ Handles(copy.id) = [handle EXCEPT ![copy.id] = h]
                           /\ handle[copy.id] # None => h = handle[copy.id]
                           /\ handle[copy.id] = None => h = FALSE
    BY <1>1, HandlesType
<1>6. \/ handle' = [handle EXCEPT ![copy.id] = FALSE] /\ bpcb' = Bpcbs(copy.id)
      \/ handle' = Handles(copy.id) /\ bpcb' = Bpcbs(copy.id)
      \/ /\ Launch(copy)
         /\ handle' = [handle EXCEPT ![copy.id] = TRUE] /\ bpcb' = [bpcb EXCEPT ![copy.id] = compare]
    BY Zenon DEF One, Skip, Postpone, Launch
<1>7. (b = 0 /\ bpcb[copy.id] = None) \/ b = bpcb[copy.id]
    BY <1>2, <1>4
<1>8. CASE handle' = [handle EXCEPT ![copy.id] = FALSE] /\ bpcb' = Bpcbs(copy.id)
    BY <1>4, <1>7, <1>8
<1>9. CASE handle' = Handles(copy.id) /\ bpcb' = Bpcbs(copy.id)
    <2>1. h = TRUE => b # 0
        BY <1>2, <1>4, <1>5
    <2> QED
        BY <1>4, <1>5, <1>7, <1>9, <2>1
<1>10. CASE /\ Launch(copy)
            /\ handle' = [handle EXCEPT ![copy.id] = TRUE]
            /\ bpcb' = [bpcb EXCEPT ![copy.id] = compare]
    BY <1>1, <1>3, <1>10
<1> QED
    BY <1>6, <1>8, <1>9, <1>10

LEMMA OneInv ==
    ASSUME CronInv, NEW copy \in todo, One(copy)
    PROVE  CronInv'
<1> USE DEF CronInv
<1>1. /\ todo' = todo \ {copy} /\ copy.id \in Ids
      /\ now' = now /\ table' = table /\ compare' = compare
      /\ layout' = layout /\ edits' = edits
      /\ calm' = calm \/ (calm[copy.id] # "no" /\ calm' = [calm EXCEPT ![copy.id] = "failed"])
    BY OneKeeps
<1>2. PICK n \in Nat : /\ next' = [next EXCEPT ![copy.id] = n]
                       /\ n = next[copy.id] \/ (n > compare /\ table[copy.id] # None)
    BY OneNext
<1>3. PICK h \in BOOLEAN, b \in Nat :
              /\ handle' = [handle EXCEPT ![copy.id] = h]
              /\ bpcb' = [bpcb EXCEPT ![copy.id] = b]
              /\ h = TRUE => b # 0
              /\ \/ Launch(copy) /\ h = TRUE /\ b = compare
                 \/ b = 0 /\ bpcb[copy.id] = None
                 \/ b = bpcb[copy.id]
    BY OneRun
<1>4. TypeOK'
    BY <1>1, <1>2, <1>3 DEF TypeOK
<1>5. TimesRight'
    BY <1>1 DEF TimesRight
<1>6. NextsRight'
    <2>1. Start \in Nat /\ compare \in Nat /\ Start =< compare /\ next \in [Ids -> Nat]
        BY BoundsType DEF TypeOK, TimesRight
    <2>2. IsNext(n)
        BY <1>1, <1>2, <2>1 DEF NextsRight, IsNext
    <2>3. table[copy.id] = None => n = 0
        BY <1>1, <1>2 DEF NextsRight
    <2> QED
        BY <1>1, <1>2, <2>1, <2>2, <2>3 DEF NextsRight
<1>7. CopiesRight'
    <2>1. todo \in SUBSET Copy /\ calm \in [Ids -> {"no", "soon", "yes", "failed"}] /\ next \in [Ids -> Nat]
        BY DEF TypeOK
    <2>2. ASSUME NEW c \in todo', calm'[c.id] # "no"
          PROVE  c.row = table'[c.id] /\ c.next = next'[c.id]
        <3>1. c \in todo /\ c.id \in Ids /\ c.id # copy.id
            BY <1>1, <2>1 DEF CopiesRight, Copy
        <3>2. calm[c.id] # "no"
            BY <1>1, <2>1, <2>2, <3>1
        <3> QED
            BY <1>1, <1>2, <2>1, <3>1, <3>2 DEF CopiesRight
    <2>3. \A c \in todo', d \in todo' : c.id = d.id => c = d
        BY <1>1 DEF CopiesRight
    <2> QED
        BY <2>2, <2>3 DEF CopiesRight
<1>8. RunsRight'
    <2>1. /\ handle \in [Ids -> BOOLEAN \cup {None}] /\ bpcb \in [Ids -> Nat \cup {None}]
          /\ compare \in Nat
        BY DEF TypeOK
    <2>2. \A id \in Ids : InPass(id)' => InPass(id) /\ id # copy.id
        BY <1>1 DEF InPass, CopiesRight
    <2>3. /\ None \notin BOOLEAN /\ None \notin Nat
        BY BoundsType
    <2>4. h # None /\ b # None
        BY <2>3
    <2>5. b =< compare
        BY <1>1, <1>3, <2>1, <2>4 DEF RunsRight
    <2>6. ASSUME NEW id \in Ids, id # copy.id
          PROVE  handle'[id] = handle[id] /\ bpcb'[id] = bpcb[id]
        BY <1>3, <2>1, <2>6
    <2>7. handle'[copy.id] = h /\ bpcb'[copy.id] = b
        BY <1>1, <1>3, <2>1
    <2> SUFFICES ASSUME NEW id \in Ids
                 PROVE  /\ (handle'[id] = None) <=> (bpcb'[id] = None)
                        /\ handle'[id] = TRUE => bpcb'[id] # 0
                        /\ bpcb'[id] # None => bpcb'[id] =< compare'
                        /\ bpcb'[id] # None /\ InPass(id)' => bpcb'[id] < compare'
        BY DEF RunsRight
    <2>8. CASE id = copy.id
        BY <1>1, <1>3, <2>2, <2>4, <2>5, <2>7, <2>8
    <2>9. CASE id # copy.id
        BY <1>1, <2>2, <2>6, <2>9 DEF RunsRight
    <2> QED
        BY <2>8, <2>9
<1> QED
    BY <1>4, <1>5, <1>6, <1>7, <1>8

LEMMA GiveUpInv ==
    ASSUME CronInv, NEW copy \in todo, GiveUp(copy)
    PROVE  CronInv'
<1> USE DEF CronInv
<1>1. /\ todo' = {} /\ copy.id \in Ids
      /\ now' = now /\ table' = table /\ compare' = compare /\ next' = next
      /\ layout' = layout /\ edits' = edits
      /\ handle' = Handles(copy.id) /\ bpcb' = Bpcbs(copy.id)
      /\ calm' = [id \in Ids |-> IF id \in Ids /\ calm[id] # "no" THEN "failed" ELSE calm[id]]
    BY DEF GiveUp, TypeOK, Copy, Disturb
<1>2. PICK b \in Nat : /\ bpcb' = [bpcb EXCEPT ![copy.id] = b]
                       /\ handle[copy.id] # None => b = bpcb[copy.id]
                       /\ handle[copy.id] = None => b = 0
    BY <1>1, HandlesType
<1>3. PICK h \in BOOLEAN : /\ handle' = [handle EXCEPT ![copy.id] = h]
                           /\ handle[copy.id] # None => h = handle[copy.id]
                           /\ handle[copy.id] = None => h = FALSE
    BY <1>1, HandlesType
<1>4. TypeOK'
    BY <1>1, <1>2, <1>3 DEF TypeOK
<1>5. TimesRight' /\ NextsRight' /\ CopiesRight'
    BY <1>1 DEF TimesRight, NextsRight, CopiesRight
<1>6. RunsRight'
    <2>1. /\ handle \in [Ids -> BOOLEAN \cup {None}] /\ bpcb \in [Ids -> Nat \cup {None}]
          /\ compare \in Nat
        BY DEF TypeOK
    <2>2. /\ None \notin BOOLEAN /\ None \notin Nat
        BY BoundsType
    <2>3. h # None /\ b # None
        BY <2>2
    <2>4. h = TRUE => b # 0
        BY <1>1, <1>2, <1>3 DEF RunsRight
    <2>5. b =< compare
        BY <1>1, <1>2, <2>1, <2>3 DEF RunsRight
    <2>6. ASSUME NEW id \in Ids, id # copy.id
          PROVE  handle'[id] = handle[id] /\ bpcb'[id] = bpcb[id]
        BY <1>2, <1>3, <2>1, <2>6
    <2>7. handle'[copy.id] = h /\ bpcb'[copy.id] = b
        BY <1>1, <1>2, <1>3, <2>1
    <2> SUFFICES ASSUME NEW id \in Ids
                 PROVE  /\ (handle'[id] = None) <=> (bpcb'[id] = None)
                        /\ handle'[id] = TRUE => bpcb'[id] # 0
                        /\ bpcb'[id] # None => bpcb'[id] =< compare'
        BY <1>1 DEF RunsRight, InPass
    <2>8. CASE id = copy.id
        BY <1>1, <2>3, <2>4, <2>5, <2>7, <2>8
    <2>9. CASE id # copy.id
        BY <1>1, <2>6, <2>9 DEF RunsRight
    <2> QED
        BY <2>8, <2>9
<1> QED
    BY <1>4, <1>5, <1>6

LEMMA WriteInv ==
    ASSUME CronInv, NEW id \in Ids, Write(id)
    PROVE  CronInv'
<1> USE DEF CronInv
<1>1. /\ now' = now /\ handle' = handle /\ bpcb' = bpcb /\ compare' = compare
      /\ todo' = todo /\ layout' = layout /\ edits' = edits + 1
    BY DEF Write
<1>2. PICK row \in RowsOf[id] \ {table[id]} :
          /\ table' = [table EXCEPT ![id] = row]
          /\ \/ next' = next
             \/ /\ row.type = 0
                /\ \E first \in FirstRuns : next' = [next EXCEPT ![id] = now + first]
    BY Zenon DEF Write
<1>3. /\ now \in Nat /\ Start \in Nat /\ Start =< compare /\ compare \in Nat /\ compare =< now
      /\ next \in [Ids -> Nat] /\ table \in [Ids -> AllRows \cup {None}]
    BY BoundsType DEF TypeOK, TimesRight
<1>4. PICK n \in Nat : next' = [next EXCEPT ![id] = n] /\ (n = next[id] \/ n > now)
    <2>1. CASE next' = next
        <3>1. next = [next EXCEPT ![id] = next[id]] /\ next[id] \in Nat
            BY <1>3
        <3> QED
            BY <2>1, <3>1
    <2>2. CASE \E first \in FirstRuns : next' = [next EXCEPT ![id] = now + first]
        <3>1. \A first \in FirstRuns : now + first \in Nat /\ now + first > now
            BY <1>3, CronAssumption DEF Positive
        <3> QED
            BY <2>2, <3>1
    <2> QED
        BY <1>2, <2>1, <2>2
<1>5. row \in AllRows /\ row # None
    BY CronAssumption DEF AllRows
<1>6. PICK c \in {"no", "soon"} :
          /\ calm' = [calm EXCEPT ![id] = c]
          /\ c = "soon" => /\ \A copy \in todo : copy.id # id
                           /\ table[id] = None /\ bpcb[id] = None
    BY DEF Write
<1>7. TypeOK'
    BY <1>1, <1>2, <1>3, <1>4, <1>5, <1>6 DEF TypeOK
<1>8. TimesRight'
    BY <1>1 DEF TimesRight
<1>9. NextsRight'
    <2>1. IsNext(n)
        BY <1>3, <1>4 DEF NextsRight, IsNext
    <2> QED
        BY <1>1, <1>2, <1>3, <1>4, <1>5, <2>1 DEF NextsRight
<1>10. CopiesRight'
    <2>1. todo \in SUBSET Copy /\ calm \in [Ids -> {"no", "soon", "yes", "failed"}]
        BY DEF TypeOK
    <2>2. ASSUME NEW copy \in todo, calm'[copy.id] # "no"
          PROVE  copy.row = table'[copy.id] /\ copy.next = next'[copy.id]
        <3>1. copy.id \in Ids /\ copy.id # id
            <4>1. copy.id \in Ids
                BY <2>1 DEF Copy
            <4>2. copy.id = id => calm'[id] = c /\ c = "soon"
                BY <1>6, <2>1, <2>2
            <4> QED
                BY <1>6, <4>1, <4>2
        <3>2. calm[copy.id] # "no"
            BY <1>6, <2>1, <2>2, <3>1
        <3> QED
            BY <1>2, <1>3, <1>4, <3>1, <3>2 DEF CopiesRight
    <2> QED
        BY <1>1, <2>2 DEF CopiesRight
<1>11. RunsRight'
    BY <1>1 DEF RunsRight, InPass
<1> QED
    BY <1>7, <1>8, <1>9, <1>10, <1>11

LEMMA RemoveInv ==
    ASSUME CronInv, NEW id \in Ids, Remove(id)
    PROVE  CronInv'
<1> USE DEF CronInv
<1>1. /\ now' = now /\ handle' = handle /\ bpcb' = bpcb /\ compare' = compare
      /\ todo' = todo /\ layout' = layout /\ edits' = edits + 1
      /\ table' = [table EXCEPT ![id] = None]
      /\ next' = [next EXCEPT ![id] = 0]
      /\ calm' = [calm EXCEPT ![id] = "no"]
    BY DEF Remove
<1>2. /\ next \in [Ids -> Nat] /\ table \in [Ids -> AllRows \cup {None}]
      /\ todo \in SUBSET Copy /\ calm \in [Ids -> {"no", "soon", "yes", "failed"}]
    BY DEF TypeOK
<1>3. TypeOK'
    BY <1>1 DEF TypeOK
<1>4. TimesRight'
    BY <1>1 DEF TimesRight
<1>5. NextsRight'
    BY <1>1, <1>2 DEF NextsRight, IsNext
<1>6. CopiesRight'
    <2>1. ASSUME NEW copy \in todo, calm'[copy.id] # "no"
          PROVE  copy.row = table'[copy.id] /\ copy.next = next'[copy.id]
        <3>1. copy.id \in Ids
            BY <1>2 DEF Copy
        <3>2. copy.id # id /\ calm[copy.id] # "no"
            BY <1>1, <1>2, <2>1, <3>1
        <3> QED
            BY <1>1, <1>2, <3>1, <3>2 DEF CopiesRight
    <2> QED
        BY <1>1, <2>1 DEF CopiesRight
<1>7. RunsRight'
    BY <1>1 DEF RunsRight, InPass
<1> QED
    BY <1>3, <1>4, <1>5, <1>6, <1>7

LEMMA TickInv ==
    ASSUME CronInv, Tick
    PROVE  CronInv'
<1> USE DEF CronInv
<1>1. /\ now' = now + 1 /\ todo = {} /\ now - compare < MaxGap
      /\ UNCHANGED <<table, next, handle, bpcb, compare, todo, layout, edits>>
      /\ Settle \/ calm' = calm
    BY DEF Tick
<1>2. /\ now \in Nat /\ compare \in Nat /\ MaxGap \in Nat
      /\ calm \in [Ids -> {"no", "soon", "yes", "failed"}]
    BY BoundsType DEF TypeOK
<1>3. calm' \in [Ids -> {"no", "soon", "yes", "failed"}]
    BY <1>1, <1>2 DEF Settle
<1>4. TypeOK'
    BY <1>1, <1>2, <1>3 DEF TypeOK
<1>5. TimesRight'
    BY <1>1, <1>2, BoundsType DEF TimesRight
<1>6. NextsRight'
    BY <1>1 DEF NextsRight
<1>7. CopiesRight'
    BY <1>1 DEF CopiesRight
<1>8. RunsRight'
    BY <1>1 DEF RunsRight, InPass
<1> QED
    BY <1>4, <1>5, <1>6, <1>7, <1>8

LEMMA BeginPassInv ==
    ASSUME CronInv, BeginPass
    PROVE  CronInv'
<1> USE DEF CronInv
<1> DEFINE listed == {id \in Ids : table[id] # None}
           old == {id \in Ids \ listed : bpcb[id] # None}
<1>1. /\ now' = now /\ table' = table /\ next' = next /\ layout' = layout
      /\ edits' = edits /\ calm' = calm
      /\ todo = {} /\ now # compare /\ compare' = now
    BY DEF BeginPass
<1>2. /\ todo' = {[id |-> id, row |-> table[id], next |-> next[id]] : id \in listed}
      /\ handle' = [id \in Ids |-> IF id \in old THEN None ELSE handle[id]]
      /\ bpcb' = [id \in Ids |-> IF id \in old THEN None ELSE bpcb[id]]
    BY Zenon DEF BeginPass
<1>3. /\ now \in Nat /\ Start \in Nat /\ Start =< compare /\ compare \in Nat /\ compare =< now
      /\ next \in [Ids -> Nat] /\ table \in [Ids -> AllRows \cup {None}]
      /\ handle \in [Ids -> BOOLEAN \cup {None}] /\ bpcb \in [Ids -> Nat \cup {None}]
    BY BoundsType DEF TypeOK, TimesRight
<1>4. ASSUME NEW copy \in todo'
      PROVE  /\ copy.id \in Ids /\ table[copy.id] # None
             /\ copy = [id |-> copy.id, row |-> table[copy.id], next |-> next[copy.id]]
             /\ copy.row = table[copy.id] /\ copy.next = next[copy.id]
    BY <1>2
<1>5. todo' \in SUBSET Copy
    BY <1>3, <1>4 DEF Copy
<1> HIDE DEF listed, old
<1>6. TypeOK'
    BY <1>1, <1>2, <1>3, <1>5 DEF TypeOK
<1>7. TimesRight'
    BY <1>1, <1>3, BoundsType DEF TimesRight
<1>8. NextsRight'
    BY <1>1, <1>4 DEF NextsRight
<1>9. CopiesRight'
    <2>1. \A c \in todo', d \in todo' : c.id = d.id => c = d
        <3>1. SUFFICES ASSUME NEW c \in todo', NEW d \in todo', c.id = d.id
                       PROVE  c = d
            OBVIOUS
        <3>2. c = [id |-> c.id, row |-> table[c.id], next |-> next[c.id]]
            BY <1>4
        <3>3. d = [id |-> d.id, row |-> table[d.id], next |-> next[d.id]]
            BY <1>4
        <3> QED
            BY <3>1, <3>2, <3>3
    <2> QED
        BY <1>1, <1>4, <2>1 DEF CopiesRight
<1>10. RunsRight'
    <2> SUFFICES \A id \in Ids :
                    /\ (handle'[id] = None) <=> (bpcb'[id] = None)
                    /\ handle'[id] = TRUE => bpcb'[id] # 0
                    /\ bpcb'[id] # None => bpcb'[id] < compare'
        <3>1. \A id \in Ids : bpcb'[id] # None => bpcb'[id] \in Nat
            BY <1>6 DEF TypeOK
        <3> QED
            BY <1>1, <1>3, <3>1 DEF RunsRight
    <2> TAKE id \in Ids
    <2>1. CASE id \in old
        <3>1. handle'[id] = None /\ bpcb'[id] = None
            BY <1>2, <2>1
        <3> QED
            BY <3>1, BoundsType
    <2>2. CASE id \notin old
        <3>1. handle'[id] = handle[id] /\ bpcb'[id] = bpcb[id]
            BY <1>2, <2>2
        <3>2. bpcb[id] \in Nat \cup {None}
            BY <1>3
        <3> QED
            BY <1>1, <1>3, <3>1, <3>2 DEF RunsRight
    <2> QED
        BY <2>1, <2>2
<1> QED
    BY <1>6, <1>7, <1>8, <1>9, <1>10

LEMMA CronInit == Init => CronInv
<1> SUFFICES ASSUME Init PROVE CronInv
    OBVIOUS
<1>1. TypeOK
    BY BoundsType DEF Init, TypeOK
<1>2. TimesRight /\ NextsRight /\ CopiesRight
    BY BoundsType DEF Init, TimesRight, NextsRight, CopiesRight, IsNext
<1>3. RunsRight
    BY BoundsType DEF Init, RunsRight
<1> QED
    BY <1>1, <1>2, <1>3 DEF CronInv

LEMMA CronNext == CronInv /\ [Next]_vars => CronInv'
<1> SUFFICES ASSUME CronInv, [Next]_vars PROVE CronInv'
    OBVIOUS
<1>1. CASE \E id \in Ids : Write(id) \/ Remove(id)
    BY <1>1, WriteInv, RemoveInv
<1>2. CASE Tick
    BY <1>2, TickInv
<1>3. CASE Pass
    BY <1>3, BeginPassInv, OneInv, GiveUpInv DEF Pass, One
<1>4. CASE UNCHANGED vars
    BY <1>4 DEF vars, CronInv, TypeOK, TimesRight, NextsRight, CopiesRight, RunsRight, InPass
<1> QED
    BY <1>1, <1>2, <1>3, <1>4 DEF Next

LEMMA CronCorrect == Spec => []CronInv
BY CronInit, CronNext, PTL DEF Spec

(***************************************************************************)
(* The clock, the tables and the copies of a pass keep their types: what   *)
(* the search for the next run finds is a time, or it has thrown and       *)
(* nothing is written (processTimeTask, UpdateCronNextExeTime).            *)
(***************************************************************************)
THEOREM TypeCorrect == Spec => []TypeOK
<1>1. CronInv => TypeOK
    BY DEF CronInv
<1> QED
    BY <1>1, CronCorrect, PTL

------------------------------------------------------------------------------
(* Intervals *)

\* A task of a pass that nothing disturbs is the one in the table.
LEMMA CopyFresh ==
    ASSUME CronInv, NEW copy \in todo, calm[copy.id] # "no"
    PROVE  /\ copy.id \in Ids /\ copy.row \in AllRows /\ copy.next \in Nat
           /\ copy.row = table[copy.id] /\ copy.next = next[copy.id]
BY DEF CronInv, CopiesRight, TypeOK, Copy

\* Nothing fails for a task that stays calm.
LEMMA CalmUntroubled ==
    ASSUME NEW id \in Ids, Undisturbed(id)
    PROVE  /\ ~Disturb({id}) /\ calm[id] # "no" /\ calm'[id] # "no"
           /\ \A copy \in todo, ok \in BOOLEAN : copy.id = id /\ Trouble(copy, ok) => ok
BY DEF Disturb, Undisturbed, Calm, Trouble

\* A task that is done with is due later.
LEMMA DoneAhead ==
    ASSUME CronInv, NEW copy \in todo, One(copy), Undisturbed(copy.id), Regular(copy.id)
    PROVE  next'[copy.id] > compare
<1>1. /\ copy.id \in Ids /\ copy.row \in AllRows /\ copy.next \in Nat
      /\ copy.row = table[copy.id] /\ copy.next = next[copy.id]
    BY CopyFresh DEF Undisturbed, Calm
<1>2. /\ copy.row.type = 0 /\ copy.row.valid /\ copy.row.known
      /\ copy.row.period.months = 0 /\ copy.row.period.ticks > 0
      /\ table[copy.id] # None
    BY <1>1 DEF Regular, Active
<1>3. ~NoPeriod(copy.row)
    BY <1>2 DEF NoPeriod
<1>4. CASE Skip(copy)
    <2>1. ~(copy.next =< compare) /\ next' = next
        BY <1>2, <1>4, Zenon DEF Skip, Due
    <2>2. compare \in Nat
        BY DEF CronInv, TypeOK
    <2> QED
        BY <1>1, <2>1, <2>2
<1>5. CASE Postpone(copy) \/ Launch(copy)
    <2>1. next' = NextAfter(copy)
        <3>1. \E written \in BOOLEAN, ok \in BOOLEAN :
                  /\ Reschedule(copy, written) /\ Trouble(copy, ok)
                  /\ ok => written
            BY <1>2, <1>3, <1>5 DEF Postpone, Launch
        <3> QED
            BY <1>1, <3>1, CalmUntroubled DEF Reschedule
    <2>2. PICK n \in Nat : NextAfter(copy) = [next EXCEPT ![copy.id] = n] /\ n > compare
        BY <1>2, <1>3, NextAfterType DEF CronInv
    <2>3. next \in [Ids -> Nat]
        BY DEF CronInv, TypeOK
    <2> QED
        BY <1>1, <2>1, <2>2, <2>3
<1> QED
    BY <1>4, <1>5 DEF One

\* Giving up a pass disturbs all tasks.
LEMMA GiveUpDisturbs ==
    ASSUME NEW copy \in todo, GiveUp(copy), NEW id \in Ids
    PROVE  calm'[id] = IF calm[id] # "no" THEN "failed" ELSE "no"
BY DEF GiveUp, Disturb

LEMMA NextAheadStep ==
    ASSUME CronInv, [Next]_vars, NEW copy \in todo \ todo',
           Regular(copy.id), Undisturbed(copy.id)
    PROVE  next'[copy.id] > compare
<1>1. copy.id \in Ids
    BY DEF CronInv, TypeOK, Copy
<1>2. CASE \E id \in Ids : Write(id) \/ Remove(id)
    BY <1>2 DEF Write, Remove
<1>3. CASE Tick
    BY <1>3 DEF Tick
<1>4. CASE BeginPass
    BY <1>4 DEF BeginPass
<1>5. ASSUME NEW c \in todo, One(c) PROVE next'[copy.id] > compare
    <2>1. todo' = todo \ {c}
        BY <1>5, OneKeeps DEF CronInv
    <2>2. copy = c
        BY <2>1
    <2> QED
        BY <1>1, <1>5, <2>2, DoneAhead
<1>6. ASSUME NEW c \in todo, GiveUp(c) PROVE FALSE
    BY <1>1, <1>6, GiveUpDisturbs DEF Undisturbed, Calm
<1>7. CASE UNCHANGED vars
    BY <1>7 DEF vars
<1> QED
    BY <1>2, <1>3, <1>4, <1>5, <1>6, <1>7 DEF Next, Pass, One

(***************************************************************************)
(* When a pass is done with a task of a fixed period that nothing disturbs,*)
(* the next run is later than the pass, whatever the period, the time zone *)
(* and the delay (processTimeTask).                                        *)
(***************************************************************************)
THEOREM NextRunsAhead == Spec => NextAhead
<1>1. CronInv /\ [Next]_vars =>
          [\A copy \in todo \ todo' :
              Regular(copy.id) /\ Undisturbed(copy.id) => next'[copy.id] > compare]_vars
    BY NextAheadStep
<1> QED
    BY <1>1, CronCorrect, PTL DEF Spec, NextAhead

\* The next run of a task that nothing disturbs is unset, ahead, or due for less than a gap
\* and about to be looked at.
DueSoon(id) ==
    \/ next[id] = 0
    \/ next[id] > compare
    \/ InPass(id) /\ next[id] > compare - MaxGap

DueInv == \A id \in Ids : Calm(id) /\ Regular(id) => DueSoon(id)

LEMMA DueInit == Init => DueInv
BY DEF Init, DueInv, Calm

LEMMA OtherPasses ==
    ASSUME CronInv, NEW copy \in todo, One(copy), NEW id \in Ids, id # copy.id
    PROVE  /\ InPass(id)' <=> InPass(id)
           /\ next'[id] = next[id] /\ calm'[id] = calm[id]
           /\ handle'[id] = handle[id] /\ bpcb'[id] = bpcb[id]
<1> USE DEF CronInv
<1>1. /\ todo' = todo \ {copy} /\ copy.id \in Ids
      /\ calm' = calm \/ (calm[copy.id] # "no" /\ calm' = [calm EXCEPT ![copy.id] = "failed"])
    BY OneKeeps
<1>2. /\ next \in [Ids -> Nat] /\ calm \in [Ids -> {"no", "soon", "yes", "failed"}]
      /\ handle \in [Ids -> BOOLEAN \cup {None}] /\ bpcb \in [Ids -> Nat \cup {None}]
    BY DEF TypeOK
<1>3. PICK n \in Nat : next' = [next EXCEPT ![copy.id] = n]
    BY OneNext
<1>4. PICK h \in BOOLEAN, b \in Nat :
              /\ handle' = [handle EXCEPT ![copy.id] = h]
              /\ bpcb' = [bpcb EXCEPT ![copy.id] = b]
    BY OneRun
<1>5. InPass(id)' <=> InPass(id)
    BY <1>1 DEF InPass
<1>6. calm'[id] = calm[id]
    BY <1>1, <1>2
<1>7. next'[id] = next[id]
    BY <1>2, <1>3
<1>8. handle'[id] = handle[id] /\ bpcb'[id] = bpcb[id]
    BY <1>2, <1>4
<1> QED
    BY <1>5, <1>6, <1>7, <1>8

LEMMA DueNext == CronInv /\ DueInv /\ [Next]_vars => DueInv'
<1> SUFFICES ASSUME CronInv, DueInv, [Next]_vars,
                    NEW id \in Ids, Calm(id)', Regular(id)'
             PROVE  DueSoon(id)'
    BY DEF DueInv, Calm
<1>1. /\ next \in [Ids -> Nat] /\ table \in [Ids -> AllRows \cup {None}]
      /\ now \in Nat /\ compare \in Nat /\ compare =< now /\ now - compare =< MaxGap
      /\ MaxGap \in Nat /\ calm \in [Ids -> {"no", "soon", "yes", "failed"}]
    BY BoundsType DEF CronInv, TypeOK, TimesRight
<1>2. ASSUME NEW j \in Ids, Write(j) PROVE DueSoon(id)'
    <2>1. /\ compare' = compare /\ todo' = todo
        BY <1>2 DEF Write
    <2>2. CASE j = id
        <3>1. table[id] = None
            BY <1>1, <1>2, <2>2 DEF Write, Calm
        <3>2. next[id] = 0
            BY <3>1 DEF CronInv, NextsRight
        <3>3. next' = next \/ \E first \in FirstRuns : next' = [next EXCEPT ![id] = now + first]
            BY <1>2, <2>2 DEF Write
        <3>4. \A first \in FirstRuns : now + first > compare
            BY <1>1, CronAssumption DEF Positive
        <3>5. next'[id] = 0 \/ next'[id] > compare
            BY <1>1, <3>2, <3>3, <3>4
        <3> QED
            BY <2>1, <3>5 DEF DueSoon
    <2>3. CASE j # id
        <3>1. table'[id] = table[id] /\ next'[id] = next[id] /\ calm'[id] = calm[id]
            BY <1>1, <1>2, <2>3 DEF Write
        <3> QED
            BY <2>1, <3>1 DEF DueInv, DueSoon, Calm, Regular, Active, InPass
    <2> QED
        BY <2>2, <2>3
<1>3. ASSUME NEW j \in Ids, Remove(j) PROVE DueSoon(id)'
    <2>1. compare' = compare /\ todo' = todo /\ j # id
        BY <1>1, <1>3 DEF Remove, Calm
    <2>2. table'[id] = table[id] /\ next'[id] = next[id] /\ calm'[id] = calm[id]
        BY <1>1, <1>3, <2>1 DEF Remove
    <2> QED
        BY <2>1, <2>2 DEF DueInv, DueSoon, Calm, Regular, Active, InPass
<1>4. CASE Tick
    <2>1. compare' = compare /\ todo' = todo /\ table' = table /\ next' = next /\ Calm(id)
        BY <1>1, <1>4 DEF Tick, Settle, Calm
    <2> QED
        BY <2>1 DEF DueInv, DueSoon, Calm, Regular, Active, InPass
<1>5. CASE BeginPass
    <2>1. compare' = now /\ todo = {} /\ table' = table /\ next' = next /\ calm' = calm
        BY <1>5 DEF BeginPass
    <2>2. todo' = {[id |-> i, row |-> table[i], next |-> next[i]] : i \in {k \in Ids : table[k] # None}}
        BY <1>5 DEF BeginPass
    <2>3. table[id] # None /\ Regular(id)
        BY <2>1 DEF Regular, Active
    <2>4. InPass(id)'
        <3>1. [id |-> id, row |-> table[id], next |-> next[id]] \in todo'
            BY <2>2, <2>3
        <3> QED
            BY <3>1 DEF InPass
    <2>5. next[id] = 0 \/ next[id] > compare
        BY <2>1, <2>3 DEF DueInv, DueSoon, Calm, InPass
    <2>6. next[id] = 0 \/ next[id] > now - MaxGap
        BY <1>1, <2>5
    <2> QED
        BY <2>1, <2>4, <2>6 DEF DueSoon
<1>6. ASSUME NEW copy \in todo, One(copy) PROVE DueSoon(id)'
    <2>1. /\ copy.id \in Ids /\ compare' = compare /\ table' = table
          /\ calm' = calm \/ (calm[copy.id] # "no" /\ calm' = [calm EXCEPT ![copy.id] = "failed"])
        BY <1>6, OneKeeps DEF CronInv
    <2>2. Calm(id) /\ Regular(id)
        BY <1>1, <2>1 DEF Calm, Regular, Active
    <2>3. CASE copy.id = id
        BY <1>6, <2>1, <2>2, <2>3, DoneAhead DEF DueSoon, Undisturbed
    <2>4. CASE copy.id # id
        BY <1>6, <2>1, <2>2, <2>4, OtherPasses DEF DueInv, DueSoon
    <2> QED
        BY <2>3, <2>4
<1>7. ASSUME NEW copy \in todo, GiveUp(copy) PROVE FALSE
    BY <1>7, GiveUpDisturbs DEF Calm
<1>8. CASE UNCHANGED vars
    BY <1>8 DEF vars, DueInv, DueSoon, Calm, Regular, Active, InPass
<1> QED
    BY <1>2, <1>3, <1>4, <1>5, <1>6, <1>7, <1>8 DEF Next, Pass, One

LEMMA DueCorrect == Spec => []DueInv
BY DueInit, DueNext, CronCorrect, PTL DEF Spec

\* What becomes of the task of a turn.
LEMMA DueRun ==
    ASSUME CronInv, DueInv, NEW copy \in todo, One(copy), NEW id \in Ids, id = copy.id,
           MaxGap =< TicksPerMinute, ZoneShift = 0,
           Regular(id), Undisturbed(id), table[id].period.ticks > MaxGap
    PROVE  Launched(id) <=> (next[id] # 0 /\ next'[id] # next[id])
<1> USE DEF CronInv
<1>1. /\ next \in [Ids -> Nat] /\ bpcb \in [Ids -> Nat \cup {None}] /\ compare \in Nat
      /\ compare # 0 /\ compare > TicksPerMinute
      /\ MaxGap \in Nat /\ TicksPerMinute \in Nat
    BY BoundsType DEF TypeOK, TimesRight
<1>2. calm[id] # "no" /\ Calm(id)
    BY CalmUntroubled DEF Undisturbed
<1>3. copy.row = table[id] /\ copy.next = next[id] /\ copy.row \in AllRows
    BY <1>2, CopyFresh
<1>4. /\ copy.row.type = 0 /\ copy.row.valid
      /\ copy.row.period.months = 0 /\ copy.row.period.ticks > MaxGap
      /\ copy.row.period.ticks \in Nat
    BY <1>3, RowType DEF Regular, Active, PeriodType
<1>5. ~NoPeriod(copy.row)
    BY <1>1, <1>4 DEF NoPeriod
<1>6. PICK n \in Nat : next[id] = n /\ copy.next = n
    BY <1>1, <1>3
<1>7. PICK h \in BOOLEAN, b \in Nat :
              /\ bpcb' = [bpcb EXCEPT ![id] = b]
              /\ \/ Launch(copy) /\ h = TRUE /\ b = compare
                 \/ b = 0 /\ bpcb[id] = None
                 \/ b = bpcb[id]
    BY OneRun
<1>8. bpcb'[id] = b
    BY <1>1, <1>7
<1>9. CASE Skip(copy)
    <2>1. next'[id] = next[id]
        BY <1>9 DEF Skip
    <2>2. bpcb' = Bpcbs(id)
        BY <1>9 DEF Skip
    <2>3. bpcb'[id] = 0 \/ bpcb'[id] = bpcb[id]
        BY <1>1, <2>2 DEF Bpcbs
    <2> QED
        BY <2>1, <2>3 DEF Launched
<1>10. CASE Postpone(copy)
    <2>1. bpcb' = Bpcbs(id)
        BY <1>10 DEF Postpone
    <2>2. bpcb'[id] = 0 \/ bpcb'[id] = bpcb[id]
        BY <1>1, <2>1 DEF Bpcbs
    <2>3. ~Timely(copy) /\ copy.next =< compare
        <3>1. Due(copy)
            BY <1>10 DEF Postpone
        <3>2. copy.next =< compare
            BY <1>4, <3>1 DEF Due
        <3> QED
            BY <1>5, <1>10, <3>2 DEF Postpone
    <2>4. n # 0 => FALSE
        <3>1. SUFFICES ASSUME n # 0 PROVE FALSE
            OBVIOUS
        <3>2. n > compare - MaxGap
            BY <1>1, <1>2, <1>6, <2>3, <3>1 DEF DueInv, DueSoon
        <3>3. compare - copy.next =< TicksPerMinute
            BY <1>1, <1>6, <3>2
        <3>4. copy.next - ZoneShift + copy.row.period.ticks > compare
            BY <1>1, <1>4, <1>6, <3>2
        <3>5. Found(copy).cycles = 1
            BY <1>4, <1>5, <1>6, <3>1, <3>4, FoundType
        <3> QED
            BY <2>3, <3>3, <3>5 DEF Timely
    <2> QED
        BY <1>6, <2>2, <2>4 DEF Launched
<1>11. CASE Launch(copy)
    <2>1. Due(copy) /\ Timely(copy)
        BY <1>4, <1>11 DEF Launch
    <2>2. copy.next =< compare
        BY <1>4, <2>1 DEF Due
    <2>3. compare - copy.next =< TicksPerMinute
        BY <2>1 DEF Timely
    <2>4. n # 0
        BY <1>1, <1>6, <2>3
    <2>5. next'[id] > compare
        BY DoneAhead
    <2>6. n # next'[id]
        BY <1>1, <1>6, <2>2, <2>5
    <2>7. bpcb' = [bpcb EXCEPT ![id] = compare]
        <3>1. PICK written \in BOOLEAN, launched \in BOOLEAN :
                  /\ bpcb' = IF launched THEN [bpcb EXCEPT ![id] = compare] ELSE Bpcbs(id)
                  /\ Trouble(copy, written /\ launched)
            BY <1>11, Zenon DEF Launch
        <3>2. launched
            BY <3>1, CalmUntroubled
        <3> QED
            BY <3>1, <3>2
    <2>8. bpcb'[id] = compare
        BY <1>1, <2>7
    <2>9. bpcb[id] # compare
        BY <1>1, BoundsType DEF RunsRight, InPass
    <2>10. compare \notin {None, 0}
        BY <1>1, BoundsType
    <2> QED
        BY <1>6, <2>4, <2>6, <2>8, <2>9, <2>10 DEF Launched
<1> QED
    BY <1>9, <1>10, <1>11 DEF One

LEMMA DueRunsStep ==
    ASSUME CronInv, DueInv, [Next]_vars, NEW id \in Ids,
           MaxGap =< TicksPerMinute, ZoneShift = 0,
           Regular(id), Undisturbed(id), table[id].period.ticks > MaxGap
    PROVE  Launched(id) <=> (next[id] # 0 /\ next'[id] # next[id])
<1>1. /\ next \in [Ids -> Nat] /\ bpcb \in [Ids -> Nat \cup {None}]
      /\ calm \in [Ids -> {"no", "soon", "yes", "failed"}]
    BY DEF CronInv, TypeOK
<1>2. calm[id] # "no" /\ calm'[id] # "no" /\ table[id] # None
    BY CalmUntroubled DEF Regular, Active
<1>3. ASSUME NEW j \in Ids, Write(j) \/ Remove(j)
      PROVE  bpcb' = bpcb /\ next'[id] = next[id]
    <2>1. bpcb' = bpcb
        BY <1>3 DEF Write, Remove
    <2>2. CASE j = id
        <3>1. CASE Remove(id)
            BY <1>1, <1>2, <3>1 DEF Remove
        <3>2. CASE Write(id)
            BY <1>1, <1>2, <3>2 DEF Write
        <3> QED
            BY <1>3, <2>2, <3>1, <3>2
    <2>3. CASE j # id
        BY <1>1, <1>3, <2>1, <2>3 DEF Write, Remove
    <2> QED
        BY <2>2, <2>3
<1>4. CASE Tick
    BY <1>4 DEF Tick, Launched
<1>5. CASE BeginPass
    <2>1. next' = next /\ (bpcb'[id] = None \/ bpcb'[id] = bpcb[id])
        BY <1>5 DEF BeginPass
    <2> QED
        BY <2>1 DEF Launched
<1>6. ASSUME NEW copy \in todo, One(copy)
      PROVE  Launched(id) <=> (next[id] # 0 /\ next'[id] # next[id])
    <2>1. CASE id = copy.id
        BY <1>6, <2>1, DueRun
    <2>2. CASE id # copy.id
        BY <1>6, <2>2, OtherPasses DEF Launched
    <2> QED
        BY <2>1, <2>2
<1>7. ASSUME NEW copy \in todo, GiveUp(copy) PROVE FALSE
    BY <1>7, GiveUpDisturbs DEF Undisturbed, Calm
<1>8. CASE UNCHANGED vars
    BY <1>8 DEF vars, Launched
<1> QED
    BY <1>3, <1>4, <1>5, <1>6, <1>7, <1>8 DEF Next, Pass, One, Launched

(***************************************************************************)
(* When passes are more frequent than runs and than minutes, every due time*)
(* gets exactly one launch, and nothing else is one (processTimeTask).     *)
(***************************************************************************)
THEOREM DueTimesRunOnce == Spec => DueRunsOnce
<1>1. CronInv /\ DueInv /\ [Next]_vars =>
          [\A id \in Ids :
              /\ MaxGap =< TicksPerMinute /\ ZoneShift = 0
              /\ Regular(id) /\ Undisturbed(id) /\ table[id].period.ticks > MaxGap
              => (Launched(id) <=> next[id] # 0 /\ next'[id] # next[id])]_vars
    BY DueRunsStep
<1> QED
    BY <1>1, CronCorrect, DueCorrect, PTL DEF Spec, DueRunsOnce

------------------------------------------------------------------------------
(* Fields *)

\* The remainder of what is not far off.
LEMMA SmallRemainder ==
    ASSUME NEW a \in Int, NEW b \in Positive
    PROVE  /\ 0 =< a /\ a < b => a % b = a
           /\ b =< a /\ a < b + b => a % b = a - b
           /\ 0 - b =< a /\ a < 0 => a % b = a + b
<1>1. b \in Int /\ b > 0
    BY DEF Positive
<1>2. ASSUME 0 =< a, a < b PROVE a % b = a
    <2>1. (0 * b + a) % b = a
        BY <1>1, <1>2, DivUnique
    <2> QED
        BY <1>1, <2>1
<1>3. ASSUME b =< a, a < b + b PROVE a % b = a - b
    <2>1. PICK r \in Int : r = a - b /\ 0 =< r /\ r < b
        BY <1>1, <1>3
    <2>2. (1 * b + r) % b = r
        BY <1>1, <2>1, DivUnique
    <2>3. 1 * b + r = a
        BY <1>1, <2>1
    <2> QED
        BY <2>1, <2>2, <2>3
<1>4. ASSUME 0 - b =< a, a < 0 PROVE a % b = a + b
    <2>1. PICK r \in Int : r = a + b /\ 0 =< r /\ r < b
        BY <1>1, <1>4
    <2>2. ((-1) * b + r) % b = r
        BY <1>1, <2>1, DivUnique
    <2>3. (-1) * b + r = a
        BY <1>1, <2>1
    <2> QED
        BY <2>1, <2>2, <2>3
<1> QED
    BY <1>2, <1>3, <1>4

LEMMA Wrap ==
    ASSUME NEW b \in Positive, NEW a \in Nat, a < b, NEW k \in Nat, k < b
    PROVE  \E r \in Nat : (a + k) % b = r /\ (r = a + k \/ r = a + k - b) /\ r < b
<1>1. b \in Int /\ b > 0
    BY DEF Positive
<1>2. PICK s \in Int : s = a + k /\ 0 =< s /\ s < b + b
    BY <1>1
<1>3. CASE s < b
    <2>1. s % b = s
        BY <1>2, <1>3, SmallRemainder
    <2> QED
        BY <1>2, <1>3, <2>1
<1>4. CASE ~(s < b)
    <2>1. s % b = s - b
        BY <1>1, <1>2, <1>4, SmallRemainder
    <2> QED
        BY <1>1, <1>2, <1>4, <2>1
<1> QED
    BY <1>3, <1>4

\* A year has a longest month.
LEMMA LongestMonthType == LongestMonth \in Nat
<1> DEFINE Bounds == {d \in Nat : \A m \in 1..Months : MonthLength[m] =< d}
           Lengths == {MonthLength[m] : m \in 1..Months}
<1>1. Months \in Nat /\ Months >= 1 /\ \A m \in 1..Months : MonthLength[m] \in Nat /\ MonthLength[m] >= 1
    BY CalendarType DEF Positive
<1>2. DaysPerYear \in Bounds
    <2>1. DaysPerYear \in Nat
        BY DaysBeforeType DEF Positive
    <2>2. ASSUME NEW m \in 1..Months PROVE MonthLength[m] =< DaysPerYear
        <3>1. m \in 1..(Months + 1) /\ Months + 1 \in 1..(Months + 1) /\ m < Months + 1
            BY <1>1
        <3>2. DaysBefore[m] \in Nat /\ DaysBefore[m] + MonthLength[m] =< DaysBefore[Months + 1]
            BY <3>1, DaysBeforeType
        <3>3. MonthLength[m] \in Nat /\ DaysBefore[Months + 1] \in Nat
            BY <1>1, <3>1, DaysBeforeType
        <3> QED
            BY <3>2, <3>3 DEF DaysPerYear
    <2> QED
        BY <2>1, <2>2
<1>3. PICK d \in Bounds : \A k \in Bounds : d =< k
    BY <1>2, LeastNumber
<1>4. d \in Nat /\ \A m \in 1..Months : MonthLength[m] =< d
    BY <1>3
<1>5. d \in Lengths
    <2>1. SUFFICES ASSUME d \notin Lengths PROVE FALSE
        OBVIOUS
    <2>2. \A m \in 1..Months : MonthLength[m] # d
        BY <2>1
    <2>3. \A m \in 1..Months : MonthLength[m] =< d - 1
        BY <1>1, <1>4, <2>2
    <2>4. d - 1 \in Nat
        BY <1>1, <1>4, <2>3
    <2>5. d - 1 \in Bounds
        BY <2>3, <2>4
    <2> HIDE DEF Bounds
    <2> QED
        BY <1>3, <1>4, <2>5
<1>6. LongestMonth = CHOOSE e \in Lengths : \A m \in 1..Months : MonthLength[m] =< e
    BY DEF LongestMonth
<1>7. LongestMonth \in Lengths
    <2> HIDE DEF Lengths
    <2> QED
        BY <1>4, <1>5, <1>6
<1> QED
    BY <1>1, <1>7

LEMMA ModuloType ==
    ASSUME NEW u \in Units
    PROVE  Modulo[u] \in Positive /\ Modulo[u] =< FailSafe
<1>1. Modulo[u] \in Positive
    BY CalendarType, LongestMonthType DEF Units, Modulo, Positive
<1> QED
    BY <1>1, FieldAssumption

\* How far the loop of ParseField goes when the item ends in the field.
LEMMA WalkEnds ==
    ASSUME NEW mod \in Positive, mod =< FailSafe, NEW item \in ItemType,
           item.lo < mod, item.hi < mod
    PROVE  Walk(mod, item) = (item.hi - item.lo) % mod
<1>1. PICK lo, hi \in Nat : lo = item.lo /\ hi = item.hi /\ lo < mod /\ hi < mod
    BY DEF ItemType
<1>2. mod \in Int /\ mod > 0 /\ mod =< 1024
    BY DEF Positive, FailSafe
<1>3. PICK n \in Nat : n = (hi - lo) % mod /\ n = (IF hi >= lo THEN hi - lo ELSE hi - lo + mod)
    BY <1>1, <1>2, SmallRemainder
<1>4. n < mod
    BY <1>1, <1>2, <1>3
<1>5. ASSUME NEW k \in Nat, k < mod
      PROVE  \E r \in Nat : (lo + k) % mod = r /\ (r = lo + k \/ r = lo + k - mod) /\ r < mod
    BY <1>1, <1>5, Wrap
<1>6. (lo + n) % mod = hi
    <2>1. PICK r \in Nat : (lo + n) % mod = r /\ (r = lo + n \/ r = lo + n - mod) /\ r < mod
        BY <1>4, <1>5
    <2> QED
        BY <1>1, <1>2, <1>3, <2>1
<1>7. ASSUME NEW k \in Nat, k < n PROVE (lo + k) % mod # hi
    <2>1. k < mod
        BY <1>2, <1>4, <1>7
    <2>2. PICK r \in Nat : (lo + k) % mod = r /\ (r = lo + k \/ r = lo + k - mod) /\ r < mod
        BY <1>5, <2>1
    <2> QED
        BY <1>1, <1>2, <1>3, <1>4, <1>7, <2>2
<1> DEFINE Last(j) == /\ (lo + j) % mod = hi \/ j = FailSafe - 1
                      /\ \A k \in 0..(j - 1) : (lo + k) % mod # hi
<1>8. Walk(mod, item) = CHOOSE j \in 0..(FailSafe - 1) : Last(j)
    BY <1>1, Zenon DEF Walk
<1>9. n \in 0..(FailSafe - 1) /\ Last(n)
    BY <1>2, <1>4, <1>6, <1>7 DEF FailSafe
<1>10. ASSUME NEW j \in 0..(FailSafe - 1), Last(j) PROVE j = n
    <2>1. j \in Nat /\ j =< FailSafe - 1 /\ FailSafe = 1024
        BY DEF FailSafe
    <2>2. CASE j < n
        <3>1. j = FailSafe - 1
            BY <1>7, <1>10, <2>1, <2>2
        <3> QED
            BY <1>2, <1>4, <2>1, <2>2, <3>1
    <2>3. CASE j > n
        <3>1. n \in 0..(j - 1)
            BY <2>1, <2>3
        <3> QED
            BY <1>6, <1>10, <3>1
    <2> QED
        BY <2>1, <2>2, <2>3
<1> HIDE DEF Last
<1>11. Walk(mod, item) = n
    BY <1>8, <1>9, <1>10
<1> QED
    BY <1>1, <1>3, <1>11

\* An item that ends in the field marks what it names.
LEMMA ItemNames ==
    ASSUME NEW mod \in Positive, mod =< FailSafe, NEW item \in ItemType,
           item.lo < mod, item.hi < mod, item.step > 0
    PROVE  /\ ParseItem(mod, item) \subseteq 0..(mod - 1)
           /\ \A v \in 0..(mod - 1) : v \in ParseItem(mod, item) <=> InItem(mod, item, v)
<1>1. PICK lo, hi, step \in Nat : /\ lo = item.lo /\ hi = item.hi /\ step = item.step
                                  /\ lo < mod /\ hi < mod /\ step > 0
    BY DEF ItemType
<1>2. mod \in Int /\ mod > 0
    BY DEF Positive
<1>3. PICK n \in Nat : n = (hi - lo) % mod /\ n < mod
    BY <1>1, <1>2
<1>4. Walk(mod, item) = n
    BY <1>1, <1>3, WalkEnds
<1>5. ASSUME NEW k \in Nat, k < mod
      PROVE  \E r \in Nat : (lo + k) % mod = r /\ (r = lo + k \/ r = lo + k - mod) /\ r < mod
    BY <1>1, <1>5, Wrap
<1>6. ASSUME NEW v \in 0..(mod - 1)
      PROVE  (v - lo) % mod = IF v >= lo THEN v - lo ELSE v - lo + mod
    BY <1>1, <1>2, SmallRemainder
<1>7. ParseItem(mod, item) = {(lo + j) % mod : j \in {k \in 0..n : k % step = 0}}
    BY <1>1, <1>4 DEF ParseItem
<1>8. ParseItem(mod, item) \subseteq 0..(mod - 1)
    <2>1. \A j \in 0..n : (lo + j) % mod \in 0..(mod - 1)
        BY <1>1, <1>2, <1>3, <1>5
    <2> QED
        BY <1>7, <2>1
<1>9. ASSUME NEW v \in 0..(mod - 1)
      PROVE  InItem(mod, item, v) <=> ((v - lo) % mod =< n /\ ((v - lo) % mod) % step = 0)
    BY <1>1, <1>3 DEF InItem
<1>10. ASSUME NEW v \in 0..(mod - 1), v \in ParseItem(mod, item)
       PROVE  InItem(mod, item, v)
    <2>1. PICK j \in 0..n : j % step = 0 /\ v = (lo + j) % mod
        BY <1>7, <1>10
    <2>2. j \in Nat /\ j < mod /\ j =< n
        BY <1>2, <1>3
    <2>3. (v = lo + j \/ v = lo + j - mod) /\ v < mod
        BY <1>5, <2>1, <2>2
    <2>4. (v - lo) % mod = j
        <3>1. PICK s \in Int : s = (v - lo) % mod /\ s = IF v >= lo THEN v - lo ELSE v - lo + mod
            BY <1>1, <1>2, <1>6
        <3> QED
            BY <1>1, <1>2, <2>2, <2>3, <3>1
    <2> QED
        BY <1>9, <2>1, <2>2, <2>4
<1>11. ASSUME NEW v \in 0..(mod - 1), InItem(mod, item, v)
       PROVE  v \in ParseItem(mod, item)
    <2>1. PICK j \in Nat : /\ j = (v - lo) % mod
                           /\ j = (IF v >= lo THEN v - lo ELSE v - lo + mod)
        BY <1>1, <1>2, <1>6
    <2>2. j =< n /\ j % step = 0
        BY <1>9, <1>11, <2>1
    <2>3. j < mod
        BY <1>2, <1>3, <2>2
    <2>4. (lo + j) % mod = v
        <3>1. PICK r \in Nat : (lo + j) % mod = r /\ (r = lo + j \/ r = lo + j - mod) /\ r < mod
            BY <1>5, <2>3
        <3> QED
            BY <1>1, <1>2, <2>1, <2>3, <3>1
    <2> QED
        BY <1>3, <1>7, <2>2, <2>4
<1> QED
    BY <1>8, <1>10, <1>11

(***************************************************************************)
(* ParseField marks exactly what a well-formed field names: single numbers,*)
(* ranges, ranges that go round, steps and lists of them.                  *)
(***************************************************************************)
THEOREM FieldNames ==
    ASSUME NEW u \in Units, NEW items \in Seq(ItemType), WellFormed(Modulo[u], items)
    PROVE  ParseField(Modulo[u], items) = Named(Modulo[u], items)
<1>1. PICK mod \in Positive : mod = Modulo[u] /\ mod =< FailSafe
    BY ModuloType
<1>2. \A i \in 1..Len(items) :
          /\ items[i] \in ItemType
          /\ items[i].lo < mod /\ items[i].hi < mod /\ items[i].step > 0
    BY <1>1 DEF WellFormed
<1>3. \A i \in 1..Len(items) :
          /\ ParseItem(mod, items[i]) \subseteq 0..(mod - 1)
          /\ \A v \in 0..(mod - 1) : v \in ParseItem(mod, items[i]) <=> InItem(mod, items[i], v)
    BY <1>1, <1>2, ItemNames
<1>4. {k \in 1..Len(items) : \A j \in 1..(k - 1) : items[j].hi < mod} = 1..Len(items)
    <2>1. Len(items) \in Nat
        OBVIOUS
    <2>2. \A k \in 1..Len(items) : \A j \in 1..(k - 1) : j \in 1..Len(items)
        BY <2>1
    <2> QED
        BY <1>2, <2>2
<1>5. ParseField(mod, items) = UNION {ParseItem(mod, items[i]) : i \in 1..Len(items)}
    BY <1>4 DEF ParseField
<1>6. ASSUME NEW v \in ParseField(mod, items) PROVE v \in Named(mod, items)
    <2>1. PICK i \in 1..Len(items) : v \in ParseItem(mod, items[i])
        BY <1>5
    <2>2. v \in 0..(mod - 1) /\ InItem(mod, items[i], v)
        BY <1>3, <2>1
    <2> QED
        BY <2>2 DEF Named
<1>7. ASSUME NEW v \in Named(mod, items) PROVE v \in ParseField(mod, items)
    <2>1. v \in 0..(mod - 1)
        BY DEF Named
    <2>2. PICK i \in 1..Len(items) : InItem(mod, items[i], v)
        BY DEF Named
    <2>3. v \in ParseItem(mod, items[i])
        BY <1>3, <2>1, <2>2
    <2> QED
        BY <1>5, <2>3
<1> QED
    BY <1>1, <1>6, <1>7

------------------------------------------------------------------------------
(* Minutes and hours *)

LEMMA MinuteType ==
    ASSUME NEW t \in Nat
    PROVE  \E m, r \in Nat : /\ Minute(t) = m /\ r < TicksPerMinute
                             /\ t = m * TicksPerMinute + r
<1>1. TicksPerMinute \in Positive
    BY CalendarType
<1>2. PICK q, r \in Int : /\ t \div TicksPerMinute = q /\ t % TicksPerMinute = r
                          /\ 0 =< r /\ r < TicksPerMinute /\ t = q * TicksPerMinute + r
    BY <1>1, DivMod
<1>3. q \in Nat
    BY <1>1, <1>2, DivNat
<1> QED
    BY <1>2, <1>3 DEF Minute

\* The first moment of a minute is in it.
LEMMA MinuteBegins ==
    ASSUME NEW m \in Nat, NEW r \in Nat, r < TicksPerMinute
    PROVE  m * TicksPerMinute + r \in Nat /\ Minute(m * TicksPerMinute + r) = m
<1>1. TicksPerMinute \in Positive /\ TicksPerMinute \in Nat
    BY CalendarType DEF Positive
<1>2. (m * TicksPerMinute + r) \div TicksPerMinute = m
    BY <1>1, DivUnique
<1>3. m * TicksPerMinute + r \in Nat
    BY <1>1
<1> QED
    BY <1>2, <1>3 DEF Minute

\* Minutes do not run back, and one is as long as it is.
LEMMA MinuteOrder ==
    ASSUME NEW s \in Nat, NEW t \in Nat, s =< t
    PROVE  /\ Minute(s) \in Nat /\ Minute(t) \in Nat
           /\ Minute(s) =< Minute(t)
           /\ t - s =< TicksPerMinute => Minute(t) =< Minute(s) + 1
<1>1. PICK p \in Nat : p = TicksPerMinute /\ p >= 1
    BY CalendarType DEF Positive
<1>2. PICK m, r \in Nat : Minute(s) = m /\ r < p /\ s = m * p + r
    BY <1>1, MinuteType
<1>3. PICK n, q \in Nat : Minute(t) = n /\ q < p /\ t = n * p + q
    BY <1>1, MinuteType
<1>4. m * p \in Nat /\ n * p \in Nat
    BY <1>1
<1>5. m =< n
    <2>1. SUFFICES ASSUME n =< m - 1 PROVE FALSE
        OBVIOUS
    <2>2. n * p =< (m - 1) * p /\ (m - 1) * p = m * p - p
        BY <1>1, <2>1
    <2> QED
        BY <1>1, <1>2, <1>3, <1>4, <2>2
<1>6. t - s =< p => n =< m + 1
    <2>1. SUFFICES ASSUME t - s =< p, n >= m + 2 PROVE FALSE
        OBVIOUS
    <2>2. n * p >= (m + 2) * p /\ (m + 2) * p = m * p + 2 * p
        BY <1>1, <2>1
    <2> QED
        BY <1>1, <1>2, <1>3, <1>4, <2>1, <2>2
<1> QED
    BY <1>1, <1>2, <1>3, <1>5, <1>6

\* When the minute ends, whatever was less than a minute ago was in it.
LEMMA MinuteLasts ==
    ASSUME NEW s \in Nat, NEW t \in Nat, s =< t, t - s < TicksPerMinute,
           Minute(t + 1) # Minute(t)
    PROVE  Minute(s) = Minute(t)
<1>1. PICK p \in Nat : p = TicksPerMinute /\ p >= 1
    BY CalendarType DEF Positive
<1>2. PICK n, q \in Nat : Minute(t) = n /\ q < p /\ t = n * p + q
    BY <1>1, MinuteType
<1>3. PICK a \in Nat : a = n * p
    BY <1>1
<1>4. q = p - 1
    <2>1. SUFFICES ASSUME q + 1 < p PROVE FALSE
        BY <1>1, <1>2
    <2>2. Minute(n * p + (q + 1)) = n
        BY <1>1, <2>1, MinuteBegins
    <2>3. n * p + (q + 1) = t + 1
        BY <1>2, <1>3
    <2> QED
        BY <1>2, <2>2, <2>3
<1>5. s >= a
    BY <1>1, <1>2, <1>3, <1>4
<1>6. PICK r \in Nat : s = a + r /\ r < p
    BY <1>1, <1>2, <1>3, <1>4, <1>5
<1> QED
    BY <1>1, <1>2, <1>3, <1>6, MinuteBegins

\* The fields of a moment but its minute depend on its hour.
LEMMA SameHour ==
    ASSUME NEW s \in Nat, NEW t \in Nat,
           Minute(s) \div MinutesPerHour = Minute(t) \div MinutesPerHour
    PROVE  \A u \in Units \ {"minute"} : At(s)[u] = At(t)[u]
<1>1. /\ TicksPerMinute \in Positive /\ MinutesPerHour \in Positive /\ HoursPerDay \in Positive
    BY CalendarType
<1>2. ASSUME NEW x \in Nat
      PROVE  (Minute(x) \div MinutesPerHour) \div HoursPerDay = x \div TicksPerDay
    <2>1. x \in Int
        OBVIOUS
    <2>2. /\ TicksPerMinute * MinutesPerHour \in Positive
          /\ (x \div TicksPerMinute) \div MinutesPerHour = x \div (TicksPerMinute * MinutesPerHour)
        BY <1>1, <2>1, DivDiv
    <2>3. (x \div (TicksPerMinute * MinutesPerHour)) \div HoursPerDay
              = x \div ((TicksPerMinute * MinutesPerHour) * HoursPerDay)
        BY <1>1, <2>1, <2>2, DivDiv
    <2> QED
        BY <2>2, <2>3, Zenon DEF Minute, TicksPerDay
<1>3. s \div TicksPerDay = t \div TicksPerDay
    <2>1. (Minute(s) \div MinutesPerHour) \div HoursPerDay = s \div TicksPerDay
        BY <1>2
    <2>2. (Minute(t) \div MinutesPerHour) \div HoursPerDay = t \div TicksPerDay
        BY <1>2
    <2> QED
        BY <2>1, <2>2, Zenon
<1>4. PICK day : s \div TicksPerDay = day /\ t \div TicksPerDay = day
    BY <1>3
<1>5. PICK r : r = day % DaysPerYear
    OBVIOUS
<1>6. PICK m : m = CHOOSE k \in 1..Months : DaysBefore[k] =< r /\ r < DaysBefore[k + 1]
    OBVIOUS
<1>7. /\ Date(s) = [year |-> day \div DaysPerYear, month |-> m,
                    day |-> r - DaysBefore[m] + 1, tick |-> s % TicksPerDay]
      /\ Date(t) = [year |-> day \div DaysPerYear, month |-> m,
                    day |-> r - DaysBefore[m] + 1, tick |-> t % TicksPerDay]
    BY <1>4, <1>5, <1>6, Zenon DEF Date
<1>8. Date(s).day = Date(t).day /\ Date(s).month = Date(t).month
    BY <1>7
<1>9. At(s)["day"] = At(t)["day"] /\ At(s)["month"] = At(t)["month"]
    BY <1>8 DEF At, Units
<1>10. PICK h : Minute(s) \div MinutesPerHour = h /\ Minute(t) \div MinutesPerHour = h
    OBVIOUS
<1>11. At(s)["hour"] = h % HoursPerDay /\ At(t)["hour"] = h % HoursPerDay
    BY <1>10 DEF At, Units
<1>12. At(s)["week"] = day % DaysPerWeek /\ At(t)["week"] = day % DaysPerWeek
    BY <1>4 DEF At, Units
<1> QED
    BY <1>9, <1>11, <1>12 DEF Units

\* What the fields of a row but the minute's, and the minute's, are meant to say of a moment.
HourNamed(row, t) == \A u \in Units \ {"minute"} : At(t)[u] \in Named(Modulo[u], row.fields[u])
MinuteNamed(row, t) == At(t)["minute"] \in Named(Modulo["minute"], row.fields["minute"])

LEMMA NamesSplit ==
    ASSUME NEW row, NEW t
    PROVE  Names(row, t) <=> (HourNamed(row, t) /\ MinuteNamed(row, t))
BY DEF Names, HourNamed, MinuteNamed, Units

LEMMA MinuteAt ==
    ASSUME NEW t
    PROVE  At(t)["minute"] = Minute(t) % MinutesPerHour /\ Modulo["minute"] = MinutesPerHour
BY DEF At, Modulo, Units

LEMMA SameMinute ==
    ASSUME NEW row, NEW s \in Nat, NEW t \in Nat, Minute(s) = Minute(t)
    PROVE  /\ HourNamed(row, s) <=> HourNamed(row, t)
           /\ MinuteNamed(row, s) <=> MinuteNamed(row, t)
<1>1. HourNamed(row, s) <=> HourNamed(row, t)
    BY SameHour DEF HourNamed
<1>2. At(s)["minute"] = At(t)["minute"]
    BY MinuteAt
<1> QED
    BY <1>1, <1>2 DEF MinuteNamed

\* Between two named minutes of spaced fields is one that resets the flag.
LEMMA ResetBetween ==
    ASSUME NEW row, NEW b \in Nat, NEW c \in Nat, Minute(b) < Minute(c),
           Names(row, b), Names(row, c), Spaced(row)
    PROVE  \E t \in Nat : /\ Minute(b) < Minute(t) /\ Minute(t) < Minute(c)
                          /\ HourNamed(row, t) /\ ~MinuteNamed(row, t)
<1>1. PICK p \in Nat : p = MinutesPerHour /\ p >= 1 /\ MinutesPerHour \in Positive
    BY CalendarType DEF Positive
<1>2. PICK m, n \in Nat : m = Minute(b) /\ n = Minute(c) /\ m < n
    BY MinuteOrder
<1>3. PICK S : S = Named(Modulo["minute"], row.fields["minute"])
    OBVIOUS
<1>4. \A k \in S : (k + 1) % p \notin S
    BY <1>1, <1>3, MinuteAt DEF Spaced
<1>5. HourNamed(row, b) /\ HourNamed(row, c) /\ m % p \in S /\ n % p \in S
    BY <1>1, <1>2, <1>3, NamesSplit, MinuteAt DEF MinuteNamed
<1>6. PICK h, i \in Int : /\ m \div p = h /\ m % p = i
                          /\ 0 =< i /\ i < p /\ m = h * p + i
    BY <1>1, DivMod
<1>7. PICK g, j \in Int : /\ n \div p = g /\ n % p = j
                          /\ 0 =< j /\ j < p /\ n = g * p + j
    BY <1>1, DivMod
<1>8. i \in S /\ j \in S
    BY <1>5, <1>6, <1>7
<1>9. ASSUME NEW k \in Nat
      PROVE  \E t \in Nat : /\ Minute(t) = k
                            /\ k \div p = h => (HourNamed(row, t) <=> HourNamed(row, b))
                            /\ k \div p = g => (HourNamed(row, t) <=> HourNamed(row, c))
                            /\ MinuteNamed(row, t) <=> k % p \in S
    <2>1. PICK t \in Nat : Minute(t) = k
        <3>1. 0 \in Nat /\ 0 < TicksPerMinute
            BY BoundsType
        <3> QED
            BY <3>1, MinuteBegins
    <2>2. MinuteNamed(row, t) <=> k % p \in S
        BY <1>1, <1>3, <2>1, MinuteAt DEF MinuteNamed
    <2>3. k \div p = h => (HourNamed(row, t) <=> HourNamed(row, b))
        BY <1>1, <1>2, <1>6, <2>1, SameHour DEF HourNamed
    <2>4. k \div p = g => (HourNamed(row, t) <=> HourNamed(row, c))
        BY <1>1, <1>2, <1>7, <2>1, SameHour DEF HourNamed
    <2> QED
        BY <2>1, <2>2, <2>3, <2>4
<1>10. CASE j # 0
    <2>1. PICK k \in Nat : k = n - 1 /\ k = g * p + (j - 1)
        BY <1>1, <1>2, <1>7, <1>10
    <2>2. k \div p = g /\ k % p = j - 1
        BY <1>1, <1>7, <1>10, <2>1, DivUnique
    <2>3. j - 1 \notin S
        <3>1. 0 * p + j = j /\ (0 * p + j) % p = j
            BY <1>1, <1>7, DivUnique
        <3>2. (j - 1) + 1 = j
            BY <1>7
        <3> QED
            BY <1>4, <1>8, <3>1, <3>2
    <2>4. k # m
        BY <1>6, <1>8, <2>2, <2>3
    <2>5. PICK t \in Nat : Minute(t) = k /\ HourNamed(row, t) /\ ~MinuteNamed(row, t)
        BY <1>5, <1>9, <2>2, <2>3
    <2>6. m < k /\ k < n
        BY <1>2, <2>1, <2>4
    <2> QED
        BY <1>2, <2>5, <2>6
<1>11. CASE j = 0
    <2>1. i + 1 < p
        <3>1. SUFFICES ASSUME i + 1 = p PROVE FALSE
            BY <1>1, <1>6
        <3>2. 1 * p + 0 = p /\ (1 * p + 0) % p = 0
            BY <1>1, DivUnique
        <3> QED
            BY <1>4, <1>8, <1>11, <3>1, <3>2
    <2>2. PICK k \in Nat : k = m + 1 /\ k = h * p + (i + 1)
        BY <1>1, <1>2, <1>6
    <2>3. k \div p = h /\ k % p = i + 1
        BY <1>1, <1>6, <2>1, <2>2, DivUnique
    <2>4. i + 1 \notin S
        <3>1. 0 * p + (i + 1) = i + 1 /\ (0 * p + (i + 1)) % p = i + 1
            BY <1>1, <1>6, <2>1, DivUnique
        <3> QED
            BY <1>4, <1>8, <3>1
    <2>5. k # n
        BY <1>8, <1>7, <2>3, <2>4
    <2>6. PICK t \in Nat : Minute(t) = k /\ HourNamed(row, t) /\ ~MinuteNamed(row, t)
        BY <1>5, <1>9, <2>3, <2>4
    <2>7. m < k /\ k < n
        BY <1>2, <2>2, <2>5
    <2> QED
        BY <1>2, <2>6, <2>7
<1> QED
    BY <1>10, <1>11

------------------------------------------------------------------------------
(* Schedules *)

\* In sane fields, the code's marks are what the row is meant to say.
LEMMA FieldsMean ==
    ASSUME TypeOK, NEW row \in AllRows, row.type = 1, Sane(row), NEW u \in Units, NEW v
    PROVE  Fields(row, u, v) <=> v \in Named(Modulo[u], row.fields[u])
<1>1. row.fields \in [Units -> Seq(ItemType)]
    BY RowType
<1>2. \A w \in Units : ParseField(Modulo[w], row.fields[w]) = Named(Modulo[w], row.fields[w])
    BY <1>1, FieldNames DEF Sane
<1>3. Marks[row] = [w \in Units |-> ParseField(Modulo[w], row.fields[w])]
    BY DEF Marks
<1>4. \A w \in Units : Marks[row][w] = Named(Modulo[w], row.fields[w])
    BY <1>2, <1>3
<1>5. "month" \in Units /\ "clear" \notin Units /\ "set" \notin Units
    BY DEF Units
<1>6. layout = "clear" \/ (layout = "set" /\ Months \in Marks[row]["month"])
    BY <1>4, <1>5 DEF Sane
<1>7. layout \notin Units
    BY <1>5, <1>6
<1>8. CASE u = "month" /\ v = Months
    <2>1. Fields(row, u, v) <=> (Months \in Marks[row]["month"] \/ layout = "set")
        BY <1>7, <1>8, Zenon DEF Fields
    <2>2. layout = "set" => Months \in Marks[row]["month"]
        BY <1>6
    <2> QED
        BY <1>4, <1>5, <1>8, <2>1, <2>2
<1>9. CASE ~(u = "month" /\ v = Months)
    <2>1. Fields(row, u, v) <=> v \in Marks[row][u]
        BY <1>7, <1>9, Zenon DEF Fields
    <2> QED
        BY <1>4, <2>1
<1> QED
    BY <1>8, <1>9

LEMMA MatchesMean ==
    ASSUME TypeOK, NEW row \in AllRows, row.type = 1, Sane(row)
    PROVE  /\ HourMatches(row) <=> HourNamed(row, compare)
           /\ MinuteMatches(row) <=> MinuteNamed(row, compare)
<1>1. \A u \in Units : \A v : Fields(row, u, v) <=> v \in Named(Modulo[u], row.fields[u])
    BY FieldsMean
<1>2. "minute" \in Units
    BY DEF Units
<1> QED
    BY <1>1, <1>2 DEF HourMatches, MinuteMatches, HourNamed, MinuteNamed

\* A task of fields whose row has not been edited.
Watched(id) == calm[id] # "no" /\ Active(id, 1) /\ Sane(table[id])

Ran(id) == bpcb[id] # None /\ bpcb[id] # 0

\* Its row stays, and what failed is not forgotten.
Kept(id) ==
    /\ table'[id] = table[id] /\ calm'[id] # "no"
    /\ Calm(id)' => Calm(id)

\* It was so before, or has just been written with nothing left of an earlier one.
LEMMA WatchedBefore ==
    ASSUME CronInv, [Next]_vars, NEW id \in Ids, Watched(id)'
    PROVE  \/ Watched(id) /\ Kept(id)
           \/ /\ handle'[id] = None /\ bpcb'[id] = None /\ calm'[id] = "soon"
<1>1. /\ table \in [Ids -> AllRows \cup {None}]
      /\ calm \in [Ids -> {"no", "soon", "yes", "failed"}]
    BY DEF CronInv, TypeOK
<1>2. calm'[id] # "no" /\ Active(id, 1)' /\ Sane(table[id])'
    BY DEF Watched
<1>3. layout' = layout
    <2>1. ASSUME NEW copy \in todo, One(copy) PROVE layout' = layout
        BY <2>1, OneKeeps DEF CronInv
    <2> QED
        BY <2>1 DEF Next, Pass, One, Write, Remove, Tick, BeginPass, GiveUp, vars
<1>4. ASSUME table'[id] = table[id], calm[id] # "no", calm[id] = "failed" => calm'[id] = "failed"
      PROVE  Watched(id) /\ Kept(id)
    BY <1>1, <1>2, <1>3, <1>4 DEF Watched, Active, Sane, Kept, Calm
<1>5. ASSUME NEW j \in Ids, Write(j)
      PROVE  \/ table'[id] = table[id] /\ calm'[id] = calm[id]
             \/ /\ handle'[id] = None /\ bpcb'[id] = None /\ calm'[id] = "soon"
    <2>1. CASE j = id
        BY <1>1, <1>2, <1>5, <2>1 DEF Write
    <2>2. CASE j # id
        BY <1>1, <1>2, <1>5, <2>2 DEF Write
    <2> QED
        BY <2>1, <2>2
<1>6. ASSUME NEW j \in Ids, Remove(j)
      PROVE  table'[id] = table[id] /\ calm'[id] = calm[id]
    BY <1>1, <1>2, <1>6 DEF Remove
<1>7. CASE Tick
    <2>1. table' = table /\ calm[id] # "no" /\ (calm[id] = "failed" => calm'[id] = "failed")
        BY <1>2, <1>7 DEF Tick, Settle
    <2> QED
        BY <1>4, <2>1
<1>8. CASE BeginPass
    <2>1. table' = table /\ calm' = calm
        BY <1>8 DEF BeginPass
    <2> QED
        BY <1>2, <1>4, <2>1
<1>9. ASSUME NEW copy \in todo, One(copy)
      PROVE  /\ table'[id] = table[id] /\ calm[id] # "no"
             /\ calm[id] = "failed" => calm'[id] = "failed"
    <2>1. /\ table' = table
          /\ \/ calm' = calm
             \/ calm[copy.id] # "no" /\ calm' = [calm EXCEPT ![copy.id] = "failed"]
        BY <1>9, OneKeeps DEF CronInv
    <2> QED
        BY <1>1, <1>2, <2>1
<1>10. ASSUME NEW copy \in todo, GiveUp(copy)
       PROVE  table'[id] = table[id] /\ calm[id] # "no" /\ calm'[id] = "failed"
    BY <1>2, <1>10, GiveUpDisturbs DEF GiveUp
<1>11. CASE UNCHANGED vars
    <2>1. table' = table /\ calm' = calm
        BY <1>11 DEF vars
    <2> QED
        BY <1>2, <1>4, <2>1
<1>12. CASE \E j \in Ids : Write(j) \/ Remove(j)
    BY <1>2, <1>4, <1>5, <1>6, <1>12
<1>13. CASE \E copy \in todo : One(copy) \/ GiveUp(copy)
    BY <1>4, <1>9, <1>10, <1>13
<1> QED
    BY <1>7, <1>8, <1>11, <1>12, <1>13 DEF Next, Pass, One

\* What a turn of the pass does to it.
Skipped(id) ==
    /\ Names(table[id], compare) => handle[id] = TRUE
    /\ handle'[id] = TRUE <=>
          handle[id] = TRUE /\ ~(HourNamed(table[id], compare) /\ ~MinuteNamed(table[id], compare))
    /\ bpcb'[id] = IF bpcb[id] = None THEN 0 ELSE bpcb[id]

Started(id) ==
    /\ Names(table[id], compare)
    /\ handle[id] # TRUE
    /\ handle'[id] = TRUE
    /\ bpcb'[id] = compare

\* What a launch that fails and a pass that is given up do to it.
Missed(id) ==
    /\ calm'[id] = "failed"
    /\ handle'[id] = TRUE <=> handle[id] = TRUE
    /\ bpcb'[id] = bpcb[id] \/ bpcb'[id] = 0

LEMMA WatchedTurn ==
    ASSUME CronInv, NEW copy \in todo, One(copy), NEW id \in Ids, id = copy.id, Watched(id)
    PROVE  \/ calm'[id] = calm[id] /\ (Skipped(id) \/ Started(id))
           \/ Missed(id)
<1> USE DEF CronInv
<1>1. /\ handle \in [Ids -> BOOLEAN \cup {None}] /\ bpcb \in [Ids -> Nat \cup {None}]
      /\ None \notin BOOLEAN
    BY BoundsType DEF TypeOK
<1>2. calm[id] # "no" /\ Sane(table[id])
    BY DEF Watched
<1>3. copy.row = table[id] /\ copy.row \in AllRows
    BY <1>2, CopyFresh
<1>4. copy.row.type = 1 /\ copy.row.valid
    BY <1>3 DEF Watched, Active
<1>5. /\ HourMatches(copy.row) <=> HourNamed(table[id], compare)
      /\ MinuteMatches(copy.row) <=> MinuteNamed(table[id], compare)
    BY <1>2, <1>3, <1>4, MatchesMean
<1>6. Names(table[id], compare) <=> (HourMatches(copy.row) /\ MinuteMatches(copy.row))
    BY <1>5, NamesSplit
<1>7. Due(copy) <=> (Names(table[id], compare) /\ handle[id] # TRUE)
    <2>1. copy.row.type # 0
        BY <1>4
    <2> QED
        BY <1>4, <1>6, <2>1, Zenon DEF Due
<1>8. CASE Skip(copy)
    <2>1. /\ ~Due(copy) /\ bpcb' = Bpcbs(id)
          /\ handle' = IF copy.row.valid /\ Resets(copy) THEN [handle EXCEPT ![id] = FALSE]
                                                         ELSE Handles(id)
        BY <1>8, Zenon DEF Skip
    <2>2. Resets(copy) <=> (HourNamed(table[id], compare) /\ ~MinuteNamed(table[id], compare))
        <3>1. copy.row.type # 0
            BY <1>4
        <3> QED
            BY <1>5, <3>1, Zenon DEF Resets
    <2>3. (handle[id] = None) <=> (bpcb[id] = None)
        BY DEF RunsRight
    <2>4. bpcb'[id] = IF bpcb[id] = None THEN 0 ELSE bpcb[id]
        BY <1>1, <2>1, <2>3 DEF Bpcbs
    <2>5. CASE Resets(copy)
        <3>1. handle'[id] = FALSE
            BY <1>1, <1>4, <2>1, <2>5
        <3> QED
            BY <1>7, <1>8, <2>1, <2>2, <2>4, <2>5, <3>1 DEF Skipped, Skip
    <2>6. CASE ~Resets(copy)
        <3>1. PICK h \in BOOLEAN : /\ Handles(id) = [handle EXCEPT ![id] = h]
                                   /\ handle[id] # None => h = handle[id]
                                   /\ handle[id] = None => h = FALSE
            BY HandlesType
        <3>2. handle'[id] = h
            BY <1>1, <2>1, <2>6, <3>1
        <3>3. handle'[id] = TRUE <=> handle[id] = TRUE
            BY <1>1, <3>1, <3>2
        <3> QED
            BY <1>7, <1>8, <2>1, <2>2, <2>4, <2>6, <3>3 DEF Skipped, Skip
    <2> QED
        BY <2>5, <2>6
<1>9. CASE Postpone(copy)
    BY <1>4, <1>9 DEF Postpone
<1>10. CASE Launch(copy)
    <2>1. Due(copy)
        BY <1>10 DEF Launch
    <2>2. PICK written \in BOOLEAN, launched \in BOOLEAN :
              /\ copy.row.type # 0 => written
              /\ handle' = IF launched THEN [handle EXCEPT ![id] = TRUE] ELSE Handles(id)
              /\ bpcb' = IF launched THEN [bpcb EXCEPT ![id] = compare] ELSE Bpcbs(id)
              /\ Trouble(copy, written /\ launched)
        BY <1>10, Zenon DEF Launch
    <2>3. CASE launched
        <3>1. handle'[id] = TRUE /\ bpcb'[id] = compare
            BY <1>1, <2>2, <2>3
        <3>2. calm' = calm
            BY <1>4, <2>2, <2>3 DEF Trouble
        <3> QED
            BY <1>7, <2>1, <3>1, <3>2 DEF Started
    <2>4. CASE ~launched
        <3>1. calm'[id] = "failed"
            BY <1>2, <2>2, <2>4 DEF Trouble, Disturb
        <3>2. handle'[id] = TRUE <=> handle[id] = TRUE
            BY <1>1, <2>2, <2>4, Zenon DEF Handles
        <3>3. bpcb'[id] = bpcb[id] \/ bpcb'[id] = 0
            BY <1>1, <2>2, <2>4 DEF Bpcbs
        <3> QED
            BY <3>1, <3>2, <3>3 DEF Missed
    <2> QED
        BY <2>3, <2>4
<1> QED
    BY <1>8, <1>9, <1>10 DEF One

\* Its flag and last run stay as they are, or a pass begins, or its turn comes, or that fails.
Same(id) ==
    /\ handle'[id] = handle[id] /\ bpcb'[id] = bpcb[id] /\ compare' = compare
    /\ InPass(id)' <=> InPass(id)
    /\ (now' = now /\ calm'[id] = calm[id]) \/ Tick

Begun(id) ==
    /\ handle'[id] = handle[id] /\ bpcb'[id] = bpcb[id] /\ compare' = now
    /\ InPass(id)' /\ ~InPass(id)

Turned(id) ==
    /\ compare' = compare /\ now' = now
    /\ InPass(id) /\ ~InPass(id)' /\ calm'[id] = calm[id]
    /\ Skipped(id) \/ Started(id)

Failing(id) == compare' = compare /\ now' = now /\ Missed(id)

LEMMA WatchedStep ==
    ASSUME CronInv, [Next]_vars, NEW id \in Ids, Watched(id), Kept(id)
    PROVE  Same(id) \/ Begun(id) \/ Turned(id) \/ Failing(id)
<1>1. /\ table \in [Ids -> AllRows \cup {None}] /\ calm \in [Ids -> {"no", "soon", "yes", "failed"}]
      /\ handle \in [Ids -> BOOLEAN \cup {None}] /\ bpcb \in [Ids -> Nat \cup {None}]
    BY DEF CronInv, TypeOK
<1>2. table[id] # None /\ calm[id] # "no"
    BY DEF Watched, Active
<1>3. ASSUME NEW j \in Ids, Write(j) \/ Remove(j) PROVE Same(id)
    <2>1. j # id
        BY <1>1, <1>2, <1>3 DEF Write, Remove, Kept
    <2>2. /\ handle' = handle /\ bpcb' = bpcb /\ compare' = compare /\ now' = now
          /\ todo' = todo
        BY <1>3 DEF Write, Remove
    <2>3. calm'[id] = calm[id]
        BY <1>1, <1>3, <2>1 DEF Write, Remove
    <2> QED
        BY <2>2, <2>3 DEF Same, InPass
<1>4. CASE Tick
    <2>1. handle' = handle /\ bpcb' = bpcb /\ compare' = compare /\ todo' = todo
        BY <1>4 DEF Tick
    <2> QED
        BY <1>4, <2>1 DEF Same, InPass
<1>5. CASE BeginPass
    <2>1. todo = {} /\ compare' = now
        BY <1>5 DEF BeginPass
    <2>2. handle'[id] = handle[id] /\ bpcb'[id] = bpcb[id]
        BY <1>2, <1>5 DEF BeginPass
    <2>3. InPass(id)'
        <3>1. todo' = {[id |-> i, row |-> table[i], next |-> next[i]] :
                          i \in {k \in Ids : table[k] # None}}
            BY <1>5 DEF BeginPass
        <3>2. [id |-> id, row |-> table[id], next |-> next[id]] \in todo'
            BY <1>2, <3>1
        <3> QED
            BY <3>2 DEF InPass
    <2> QED
        BY <2>1, <2>2, <2>3 DEF Begun, InPass
<1>6. ASSUME NEW copy \in todo, One(copy) PROVE Same(id) \/ Turned(id) \/ Failing(id)
    <2>1. compare' = compare /\ now' = now /\ todo' = todo \ {copy}
        BY <1>6, OneKeeps DEF CronInv
    <2>2. CASE id = copy.id
        <3>1. (calm'[id] = calm[id] /\ (Skipped(id) \/ Started(id))) \/ Missed(id)
            BY <1>6, <2>2, WatchedTurn
        <3>2. InPass(id) /\ ~InPass(id)'
            BY <2>1, <2>2 DEF InPass, CronInv, CopiesRight
        <3> QED
            BY <2>1, <3>1, <3>2 DEF Turned, Failing
    <2>3. CASE id # copy.id
        BY <1>6, <2>1, <2>3, OtherPasses DEF Same
    <2> QED
        BY <2>2, <2>3
<1>7. ASSUME NEW copy \in todo, GiveUp(copy) PROVE Failing(id)
    <2>1. /\ compare' = compare /\ now' = now
          /\ handle' = Handles(copy.id) /\ bpcb' = Bpcbs(copy.id)
        BY <1>7 DEF GiveUp
    <2>2. calm'[id] = "failed"
        BY <1>2, <1>7, GiveUpDisturbs
    <2>3. handle'[id] = TRUE <=> handle[id] = TRUE
        BY <1>1, <2>1, BoundsType DEF Handles
    <2>4. bpcb'[id] = bpcb[id] \/ bpcb'[id] = 0
        BY <1>1, <2>1 DEF Bpcbs
    <2> QED
        BY <2>1, <2>2, <2>3, <2>4 DEF Failing, Missed
<1>8. CASE UNCHANGED vars
    BY <1>8 DEF vars, Same, InPass
<1> QED
    BY <1>3, <1>4, <1>5, <1>6, <1>7, <1>8 DEF Next, Pass, One

\* The last run was in a named minute, and the flag is set until that minute is over.
RunNamed(id) ==
    /\ Names(table[id], bpcb[id])
    /\ handle[id] = TRUE \/ Minute(bpcb[id]) < Minute(compare)

NamedInv == \A id \in Ids : Watched(id) /\ Ran(id) => RunNamed(id)

LEMMA NamedInit == Init => NamedInv
BY DEF Init, NamedInv, Watched

LEMMA NamedNext == CronInv /\ CronInv' /\ NamedInv /\ [Next]_vars => NamedInv'
<1> SUFFICES ASSUME CronInv, CronInv', NamedInv, [Next]_vars,
                    NEW id \in Ids, Watched(id)', Ran(id)'
             PROVE  RunNamed(id)'
    BY DEF NamedInv
<1>1. /\ bpcb \in [Ids -> Nat \cup {None}] /\ now \in Nat /\ compare \in Nat /\ compare =< now
      /\ compare' \in Nat
    BY DEF CronInv, TypeOK, TimesRight
<1>2. Watched(id) /\ Kept(id) /\ table'[id] = table[id]
    BY WatchedBefore DEF Ran, Kept
<1>3. ASSUME Ran(id)
      PROVE  /\ Names(table[id], bpcb[id]) /\ bpcb[id] \in Nat /\ bpcb[id] =< compare
             /\ handle[id] = TRUE \/ Minute(bpcb[id]) < Minute(compare)
    BY <1>1, <1>2, <1>3 DEF NamedInv, RunNamed, Ran, CronInv, RunsRight
<1>4. CASE Same(id) \/ Begun(id)
    <2>1. handle'[id] = handle[id] /\ bpcb'[id] = bpcb[id] /\ compare' \in {compare, now}
        BY <1>4 DEF Same, Begun
    <2>2. Ran(id)
        BY <2>1 DEF Ran
    <2>3. PICK b \in Nat : b = bpcb[id] /\ b =< compare
        BY <1>3, <2>2
    <2>4. /\ Minute(b) \in Nat /\ Minute(compare) \in Nat /\ Minute(now) \in Nat
          /\ Minute(compare) =< Minute(now)
        BY <1>1, <2>3, MinuteOrder
    <2>5. handle[id] = TRUE \/ Minute(b) < Minute(compare')
        <3>1. handle[id] = TRUE \/ Minute(b) < Minute(compare)
            BY <1>3, <2>2, <2>3
        <3>2. Minute(compare') = Minute(compare) \/ Minute(compare') = Minute(now)
            BY <2>1
        <3>3. Minute(b) < Minute(compare) => Minute(b) < Minute(now)
            BY <2>4
        <3> QED
            BY <3>1, <3>2, <3>3
    <2> QED
        BY <1>2, <1>3, <2>1, <2>2, <2>3, <2>5 DEF RunNamed
<1>5. CASE Turned(id) /\ Started(id)
    BY <1>2, <1>5 DEF RunNamed, Turned, Started
<1>6. CASE Turned(id) /\ Skipped(id)
    <2>1. compare' = compare
        BY <1>6 DEF Turned
    <2>2. Ran(id) /\ bpcb'[id] = bpcb[id]
        BY <1>6 DEF Skipped, Ran
    <2>3. PICK b \in Nat : b = bpcb[id] /\ b =< compare
        BY <1>3, <2>2
    <2>4. Minute(b) \in Nat /\ Minute(compare) \in Nat /\ Minute(b) =< Minute(compare)
        BY <1>1, <2>3, MinuteOrder
    <2>5. ASSUME handle[id] = TRUE, ~(handle'[id] = TRUE) PROVE Minute(b) # Minute(compare)
        <3>1. ~MinuteNamed(table[id], compare)
            BY <1>6, <2>5 DEF Skipped
        <3>2. MinuteNamed(table[id], b)
            BY <1>3, <2>2, <2>3, NamesSplit
        <3> QED
            BY <1>1, <2>3, <3>1, <3>2, SameMinute
    <2>6. handle'[id] = TRUE \/ Minute(b) < Minute(compare)
        <3>1. handle[id] = TRUE \/ Minute(b) < Minute(compare)
            BY <1>3, <2>2, <2>3
        <3>2. Minute(b) # Minute(compare) => Minute(b) < Minute(compare)
            BY <2>4
        <3> QED
            BY <2>5, <3>1, <3>2
    <2> QED
        BY <1>2, <1>3, <2>1, <2>2, <2>3, <2>6 DEF RunNamed
<1>7. CASE Failing(id)
    <2>1. Ran(id) /\ bpcb'[id] = bpcb[id] /\ compare' = compare
        BY <1>7 DEF Failing, Missed, Ran
    <2>2. handle'[id] = TRUE <=> handle[id] = TRUE
        BY <1>7 DEF Failing, Missed
    <2> QED
        BY <1>2, <1>3, <2>1, <2>2 DEF RunNamed
<1> QED
    BY <1>2, <1>4, <1>5, <1>6, <1>7, WatchedStep DEF Turned

LEMMA NamedCorrect == Spec => []NamedInv
BY NamedInit, NamedNext, CronCorrect, PTL DEF Spec

LEMMA RunsAsNamedStep ==
    ASSUME CronInv, NamedInv, [Next]_vars, NEW id \in Ids, Launched(id),
           calm[id] # "no", Active(id, 1), Sane(table[id])
    PROVE  Names(table[id], now) /\ ~RanThisMinute(id)
<1>1. Watched(id)
    BY DEF Watched
<1>2. /\ bpcb \in [Ids -> Nat \cup {None}] /\ compare \in Nat
      /\ handle \in [Ids -> BOOLEAN \cup {None}]
    BY DEF CronInv, TypeOK
<1>3. PICK copy \in todo : One(copy)
    <2>1. ASSUME NEW copy \in todo, GiveUp(copy) PROVE FALSE
        <3>1. bpcb' = Bpcbs(copy.id)
            BY <2>1 DEF GiveUp
        <3>2. bpcb'[id] = 0 \/ bpcb'[id] = bpcb[id]
            BY <1>2, <3>1 DEF Bpcbs
        <3> QED
            BY <3>2 DEF Launched
    <2>2. CASE BeginPass
        <3>1. bpcb'[id] = None \/ bpcb'[id] = bpcb[id]
            BY <2>2 DEF BeginPass
        <3> QED
            BY <3>1 DEF Launched
    <2>3. bpcb' # bpcb
        BY DEF Launched
    <2> QED
        BY <2>1, <2>2, <2>3 DEF Next, Pass, One, Write, Remove, Tick, vars
<1>4. id = copy.id
    BY <1>3, OtherPasses DEF Launched
<1>5. compare = now
    BY DEF CronInv, TimesRight
<1>6. copy.row = table[id] /\ copy.row \in AllRows /\ copy.row.type = 1
    BY <1>1, <1>4, CopyFresh DEF Active
<1>7. Launch(copy)
    <2>1. ASSUME bpcb' = Bpcbs(id) PROVE FALSE
        <3>1. bpcb'[id] = 0 \/ bpcb'[id] = bpcb[id]
            BY <1>2, <2>1 DEF Bpcbs
        <3> QED
            BY <3>1 DEF Launched
    <2> QED
        BY <1>3, <1>4, <2>1 DEF One, Skip, Postpone
<1>8. HourMatches(copy.row) /\ MinuteMatches(copy.row) /\ handle[id] # TRUE
    <2>1. Due(copy) /\ copy.row.type # 0
        BY <1>6, <1>7 DEF Launch
    <2> QED
        BY <1>4, <2>1, Zenon DEF Due
<1>9. Names(table[id], now)
    BY <1>5, <1>6, <1>8, MatchesMean, NamesSplit DEF CronInv
<1>10. ~RanThisMinute(id)
    <2>1. SUFFICES ASSUME RanThisMinute(id) PROVE FALSE
        OBVIOUS
    <2>2. Ran(id) /\ Minute(bpcb[id]) = Minute(compare)
        BY <1>5, <2>1 DEF RanThisMinute, Ran
    <2>3. Minute(bpcb[id]) < Minute(compare)
        BY <1>1, <1>8, <2>2 DEF NamedInv, RunNamed
    <2>4. Minute(compare) \in Nat
        BY <1>2, MinuteOrder
    <2> QED
        BY <2>2, <2>3, <2>4
<1> QED
    BY <1>9, <1>10

(***************************************************************************)
(* As long as its row is the one that was first written, a task runs in the*)
(* minutes its fields name only, and once in each, even if launches failed *)
(* or passes were given up before, for any calendar, fields and number of  *)
(* tasks (ParseField, _isExecuted).                                        *)
(***************************************************************************)
THEOREM RunsOnlyAsNamed == Spec => RunsAsNamed
<1>1. CronInv /\ NamedInv /\ [Next]_vars =>
          [\A id \in Ids :
              /\ Launched(id)
              /\ calm[id] # "no" /\ Active(id, 1) /\ Sane(table[id])
              => Names(table[id], now) /\ ~RanThisMinute(id)]_vars
    BY RunsAsNamedStep
<1> QED
    BY <1>1, CronCorrect, NamedCorrect, PTL DEF Spec, RunsAsNamed

\* A moment of a minute that had a pass since the last run.
Between(id, t) ==
    /\ Minute(bpcb[id]) < Minute(t)
    /\ Minute(t) < Minute(compare) \/ (Minute(t) = Minute(compare) /\ ~InPass(id))

\* While the flag is set, no minute since the last run was one that resets it.
KeepsFlag(id) ==
    \A t \in Nat : Between(id, t) /\ HourNamed(table[id], t) => MinuteNamed(table[id], t)

FlagInv == \A id \in Ids : Watched(id) /\ Calm(id) /\ handle[id] = TRUE => KeepsFlag(id)

LEMMA FlagInit == Init => FlagInv
BY DEF Init, FlagInv, Watched

LEMMA FlagNext ==
    MaxGap =< TicksPerMinute /\ CronInv /\ CronInv' /\ FlagInv /\ [Next]_vars => FlagInv'
<1> SUFFICES ASSUME MaxGap =< TicksPerMinute, CronInv, CronInv', FlagInv, [Next]_vars,
                    NEW id \in Ids, Watched(id)', Calm(id)', handle'[id] = TRUE
             PROVE  KeepsFlag(id)'
    BY DEF FlagInv
<1>1. /\ bpcb \in [Ids -> Nat \cup {None}] /\ now \in Nat /\ compare \in Nat /\ compare =< now
      /\ now - compare =< TicksPerMinute /\ None \notin BOOLEAN
    BY BoundsType DEF CronInv, TypeOK, TimesRight
<1>2. Watched(id) /\ Kept(id) /\ Calm(id) /\ table'[id] = table[id]
    BY <1>1, WatchedBefore DEF Kept
<1>3. handle[id] = TRUE => KeepsFlag(id)
    BY <1>2 DEF FlagInv
<1> SUFFICES ASSUME NEW t \in Nat, Between(id, t)', HourNamed(table[id], t)
             PROVE  MinuteNamed(table[id], t)
    BY <1>2 DEF KeepsFlag
<1>4. Minute(t) \in Nat /\ Minute(compare) \in Nat /\ Minute(now) \in Nat
      /\ Minute(now) =< Minute(compare) + 1
    BY <1>1, MinuteOrder
<1>5. CASE Same(id)
    <2>1. handle[id] = TRUE /\ Between(id, t)
        BY <1>5 DEF Same, Between
    <2> QED
        BY <1>3, <2>1 DEF KeepsFlag
<1>6. CASE Begun(id)
    <2>1. handle[id] = TRUE /\ Minute(bpcb[id]) < Minute(t) /\ Minute(t) < Minute(now)
        BY <1>6 DEF Begun, Between
    <2>2. Minute(t) < Minute(compare) \/ Minute(t) = Minute(compare)
        BY <1>4, <2>1
    <2>3. Between(id, t)
        BY <1>6, <2>1, <2>2 DEF Begun, Between
    <2> QED
        BY <1>3, <2>1, <2>3 DEF KeepsFlag
<1>7. CASE Turned(id) /\ Skipped(id)
    <2>1. handle[id] = TRUE /\ (HourNamed(table[id], compare) => MinuteNamed(table[id], compare))
        BY <1>7 DEF Skipped
    <2>2. bpcb[id] # None
        BY <1>1, <2>1 DEF CronInv, RunsRight
    <2>3. bpcb'[id] = bpcb[id] /\ compare' = compare
        BY <1>7, <2>2 DEF Skipped, Turned
    <2>4. CASE Minute(t) = Minute(compare)
        BY <1>1, <2>1, <2>4, SameMinute
    <2>5. CASE Minute(t) # Minute(compare)
        <3>1. Between(id, t)
            BY <2>3, <2>5 DEF Between
        <3> QED
            BY <1>3, <2>1, <3>1 DEF KeepsFlag
    <2> QED
        BY <2>4, <2>5
<1>8. CASE Turned(id) /\ Started(id)
    <2>1. Minute(compare) < Minute(t) /\ (Minute(t) < Minute(compare) \/ Minute(t) = Minute(compare))
        BY <1>8 DEF Turned, Started, Between
    <2> QED
        BY <1>4, <2>1
<1> QED
    BY <1>2, <1>5, <1>6, <1>7, <1>8, WatchedStep DEF Turned, Failing, Missed, Calm

\* When it has been a task's turn in a named minute, the task has run in it.
MinuteRun(id) ==
    /\ calm[id] = "yes" /\ ~InPass(id) /\ Minute(compare) = Minute(now)
    /\ Spaced(table[id]) /\ Names(table[id], compare)
    => Ran(id) /\ Minute(bpcb[id]) = Minute(compare)

MinuteInv == \A id \in Ids : Watched(id) => MinuteRun(id)

LEMMA MinuteInit == Init => MinuteInv
BY DEF Init, MinuteInv, Watched

LEMMA MinuteNext ==
    CronInv /\ CronInv' /\ NamedInv /\ FlagInv /\ MinuteInv /\ [Next]_vars => MinuteInv'
<1> SUFFICES ASSUME CronInv, CronInv', NamedInv, FlagInv, MinuteInv, [Next]_vars,
                    NEW id \in Ids, Watched(id)',
                    calm'[id] = "yes", ~InPass(id)', Minute(compare') = Minute(now'),
                    Spaced(table'[id]), Names(table'[id], compare')
             PROVE  Ran(id)' /\ Minute(bpcb'[id]) = Minute(compare')
    BY DEF MinuteInv, MinuteRun
<1>1. /\ bpcb \in [Ids -> Nat \cup {None}] /\ now \in Nat /\ compare \in Nat /\ compare =< now
      /\ None \notin BOOLEAN /\ None \notin Nat /\ compare # 0
    BY BoundsType DEF CronInv, TypeOK, TimesRight
<1>2. Watched(id) /\ Kept(id) /\ Calm(id) /\ table'[id] = table[id]
    BY WatchedBefore DEF Kept, Calm
<1>3. /\ Minute(compare) \in Nat /\ Minute(now) \in Nat /\ Minute(compare) =< Minute(now)
      /\ Minute(now + 1) \in Nat /\ Minute(now) =< Minute(now + 1)
    BY <1>1, MinuteOrder
<1>4. CASE Same(id)
    <2>1. /\ bpcb'[id] = bpcb[id] /\ compare' = compare /\ ~InPass(id)
        BY <1>4 DEF Same
    <2>2. calm[id] = "yes" /\ Minute(compare) = Minute(now)
        <3>1. CASE now' = now /\ calm'[id] = calm[id]
            BY <2>1, <3>1
        <3>2. CASE Tick
            <4>1. now' = now + 1 /\ (IF Minute(now') # Minute(now) THEN Settle ELSE calm' = calm)
                BY <3>2, Zenon DEF Tick
            <4>2. Minute(compare) = Minute(now)
                BY <1>3, <2>1, <4>1
            <4>3. Minute(now') = Minute(now)
                BY <2>1, <4>2
            <4>4. calm' = calm
                BY <4>1, <4>3
            <4> QED
                BY <4>2, <4>4
        <3> QED
            BY <1>4, <3>1, <3>2 DEF Same
    <2> QED
        BY <1>2, <2>1, <2>2 DEF MinuteInv, MinuteRun, Ran
<1>5. CASE Begun(id)
    BY <1>5 DEF Begun
<1>6. CASE Turned(id) /\ Started(id)
    <2>1. bpcb'[id] = compare /\ compare' = compare
        BY <1>6 DEF Turned, Started
    <2> QED
        BY <1>1, <2>1 DEF Ran
<1>7. CASE Turned(id) /\ Skipped(id)
    <2>1. compare' = compare /\ InPass(id) /\ handle[id] = TRUE
        BY <1>2, <1>7 DEF Turned, Skipped
    <2>2. bpcb[id] # None /\ bpcb[id] # 0 /\ bpcb[id] =< compare
        BY <1>1, <2>1 DEF CronInv, RunsRight
    <2>3. bpcb'[id] = bpcb[id] /\ Ran(id)
        BY <1>7, <2>2 DEF Skipped, Ran
    <2>4. PICK b \in Nat : b = bpcb[id] /\ b =< compare
        BY <1>1, <2>2
    <2>5. Names(table[id], b) /\ Names(table[id], compare) /\ Spaced(table[id])
        BY <1>2, <2>1, <2>3, <2>4 DEF NamedInv, RunNamed
    <2>6. Minute(b) \in Nat /\ Minute(b) =< Minute(compare)
        BY <1>1, <2>4, MinuteOrder
    <2>7. Minute(b) = Minute(compare)
        <3>1. SUFFICES ASSUME Minute(b) < Minute(compare) PROVE FALSE
            BY <1>3, <2>6
        <3>2. PICK t \in Nat : /\ Minute(b) < Minute(t) /\ Minute(t) < Minute(compare)
                               /\ HourNamed(table[id], t) /\ ~MinuteNamed(table[id], t)
            BY <1>1, <2>4, <2>5, <3>1, ResetBetween
        <3>3. Between(id, t)
            BY <2>4, <3>2 DEF Between
        <3> QED
            BY <1>2, <2>1, <3>2, <3>3 DEF FlagInv, KeepsFlag
    <2> QED
        BY <2>1, <2>3, <2>4, <2>7 DEF Ran
<1> QED
    BY <1>2, <1>4, <1>5, <1>6, <1>7, WatchedStep DEF Turned, Failing, Missed

LEMMA NamedMinutesStep ==
    ASSUME CronInv, MinuteInv, [Next]_vars, MinuteEnds, MaxGap =< TicksPerMinute,
           NEW id \in Ids, calm[id] = "yes", Active(id, 1),
           Sane(table[id]), Spaced(table[id]), Names(table[id], now)
    PROVE  RanThisMinute(id)
<1>1. /\ now \in Nat /\ compare \in Nat /\ compare =< now /\ MaxGap \in Nat
      /\ TicksPerMinute \in Nat
    BY BoundsType DEF CronInv, TypeOK, TimesRight
<1>2. Tick
    <2>1. ASSUME NEW copy \in todo, One(copy) PROVE now' = now
        BY <2>1, OneKeeps DEF CronInv
    <2> QED
        BY <2>1 DEF MinuteEnds, Next, Pass, One, Write, Remove, BeginPass, GiveUp, vars
<1>3. todo = {} /\ now' = now + 1 /\ now - compare < MaxGap
    BY <1>2 DEF Tick
<1>4. Minute(compare) = Minute(now)
    <2>1. now - compare < TicksPerMinute
        BY <1>1, <1>3
    <2> QED
        BY <1>1, <1>3, <2>1, MinuteLasts DEF MinuteEnds
<1>5. Names(table[id], compare)
    BY <1>1, <1>4, SameMinute, NamesSplit
<1>6. ~InPass(id) /\ Watched(id)
    BY <1>3 DEF InPass, Watched
<1> QED
    BY <1>4, <1>5, <1>6 DEF MinuteInv, MinuteRun, Ran, RanThisMinute

(***************************************************************************)
(* When there is a pass in every minute, a task that nothing disturbs is   *)
(* launched in every minute its fields name, provided they name no two in  *)
(* succession: between two such minutes there is always one that resets the*)
(* flag, over hours, days and months that are not named as well            *)
(* (processTimeTask).                                                      *)
(***************************************************************************)
THEOREM EveryNamedMinute == Spec => NamedMinutesRun
<1>1. CASE MaxGap =< TicksPerMinute
    <2>1. Spec => []FlagInv
        BY <1>1, FlagInit, FlagNext, CronCorrect, PTL DEF Spec
    <2>2. Spec => []MinuteInv
        BY <2>1, MinuteInit, MinuteNext, CronCorrect, NamedCorrect, PTL DEF Spec
    <2>3. CronInv /\ MinuteInv /\ [Next]_vars =>
              [MinuteEnds /\ MaxGap =< TicksPerMinute =>
                  \A id \in Ids :
                      /\ calm[id] = "yes" /\ Active(id, 1)
                      /\ Sane(table[id]) /\ Spaced(table[id])
                      /\ Names(table[id], now)
                      => RanThisMinute(id)]_vars
        BY NamedMinutesStep
    <2> QED
        BY <2>2, <2>3, CronCorrect, PTL DEF Spec, NamedMinutesRun
<1>2. CASE ~(MaxGap =< TicksPerMinute)
    <2>1. [Next]_vars =>
              [MinuteEnds /\ MaxGap =< TicksPerMinute =>
                  \A id \in Ids :
                      /\ calm[id] = "yes" /\ Active(id, 1)
                      /\ Sane(table[id]) /\ Spaced(table[id])
                      /\ Names(table[id], now)
                      => RanThisMinute(id)]_vars
        BY <1>2
    <2> QED
        BY <2>1, PTL DEF Spec, NamedMinutesRun
<1> QED
    BY <1>1, <1>2
==============================================================================
