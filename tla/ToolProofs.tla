----------------------------- MODULE ToolProofs -----------------------------
(***************************************************************************)
(* Proofs about the desk's tools other than the benchmark, for every call: *)
(* that the two calendars have the same trading days in every year, that a *)
(* compiled schedule is one the native engine can walk, that the two daily *)
(* lanes give a job the same legs, that a higher call barrier never lowers *)
(* a coupon, that the rows of a portfolio add up to its forecasts, that    *)
(* the pages of a sorted query follow each other, that a group's cells are *)
(* the sums of the rows it opens to, and that the put's adjoint is its     *)
(* central difference.                                                     *)
(***************************************************************************)
EXTENDS RiskDesk, SumProofs, SequenceTheorems

(***************************************************************************)
(* The desk's answers.                                                     *)
(***************************************************************************)
LEMMA DeskSteps == [Next]_vars => UNCHANGED deskVars \/ Answered \/ Tool
BY DEF Next, BenchTool, Forget, vars, deskVars, benchVars

\* Every call is of one of the tools, and says so.
LEMMA ToolIs ==
  Tool =>
    \/ \E book \in Books, draw \in Draws, locvol \in BOOLEAN, ratio \in Ratios :
         /\ PricingTool(book, locvol, ratio, draw)
         /\ call'.tool = "pricing_and_sensitivity"
    \/ \E book \in Books, draw \in Draws, locvol \in BOOLEAN :
         /\ AggregateTool(book, locvol, draw)
         /\ call'.tool = "aggregate_portfolio"
    \/ \E book \in Books, draw \in Draws :
         RunRiskSingle(book, draw) /\ call'.tool = "single"
    \/ \E sheet \in DailySheets : DailyTool(sheet) /\ call'.tool = "daily"
    \/ \E y \in Years : ScheduleTool(y) /\ call'.tool = "schedule"
    \/ \E sheet \in Termsheets, draws \in BoundedSeq(Variants, 2) :
         EtlTool(sheet, draws) /\ call'.tool = "etl"
    \/ \E q \in Queries, table \in Tables :
         OlapQuery(q, table) /\ call'.tool = "olap_query"
<1>1. ASSUME NEW book, NEW locvol, NEW ratio, NEW draw,
             PricingTool(book, locvol, ratio, draw)
      PROVE  call'.tool = "pricing_and_sensitivity"
  BY <1>1 DEF PricingTool, Reply
<1>2. ASSUME NEW book, NEW locvol, NEW draw, AggregateTool(book, locvol, draw)
      PROVE  call'.tool = "aggregate_portfolio"
  BY <1>2 DEF AggregateTool, Reply
<1>3. ASSUME NEW book, NEW draw, RunRiskSingle(book, draw)
      PROVE  call'.tool = "single"
  BY <1>3 DEF RunRiskSingle, Reply
<1>4. ASSUME NEW sheet, DailyTool(sheet) PROVE call'.tool = "daily"
  BY <1>4 DEF DailyTool, Reply
<1>5. ASSUME NEW y, ScheduleTool(y) PROVE call'.tool = "schedule"
  BY <1>5 DEF ScheduleTool, Reply
<1>6. ASSUME NEW sheet, NEW draws, EtlTool(sheet, draws)
      PROVE  call'.tool = "etl"
  BY <1>6 DEF EtlTool, Reply
<1>7. ASSUME NEW q, NEW table, OlapQuery(q, table)
      PROVE  call'.tool = "olap_query"
  BY <1>7 DEF OlapQuery, Reply
<1>8. QED
  BY <1>1, <1>2, <1>3, <1>4, <1>5, <1>6, <1>7 DEF Tool

LEMMA SeqIs ==
  ASSUME NEW S, NEW s \in Seq(S)
  PROVE  /\ Len(s) \in Nat /\ DOMAIN s = 1 .. Len(s) /\ DOMAIN s \subseteq Nat
         /\ s \in [DOMAIN s -> S]
         /\ s # <<>> => 1 \in DOMAIN s /\ DOMAIN s # {} /\ Len(s) >= 1
<1>1. /\ Len(s) \in Nat /\ DOMAIN s = 1 .. Len(s)
      /\ s \in [DOMAIN s -> S]
  OBVIOUS
<1>2. s # <<>> => Len(s) # 0
  BY EmptySeq
<1>3. DOMAIN s \subseteq Nat
  BY <1>1
<1>4. s # <<>> => 1 \in DOMAIN s /\ Len(s) >= 1
  BY <1>1, <1>2
<1>5. QED
  BY <1>1, <1>3, <1>4

(***************************************************************************)
(* The two calendars.  Days before the first of March of a year, and so    *)
(* before any day.                                                         *)
(***************************************************************************)
Marches(y) == 365 * y + y \div 4 - y \div 100 + y \div 400
Leap(y) == IF IsLeap(y) THEN 1 ELSE 0

LEMMA EraParts ==
  ASSUME NEW y \in Nat
  PROVE  LET era == y \div 400
             yoe == y - era * 400
         IN /\ era \in Nat /\ yoe \in 0 .. 399
            /\ yoe \div 4 = y \div 4 - 100 * era
            /\ yoe \div 100 = y \div 100 - 4 * era
<1> DEFINE era == y \div 400
           yoe == y - era * 400
<1>1. era \in Nat /\ yoe \in 0 .. 399 /\ y = 400 * era + yoe
  OBVIOUS
<1> HIDE DEF era, yoe
<1>2. y \div 4 = 100 * era + yoe \div 4
  BY <1>1
<1>3. y \div 100 = 4 * era + yoe \div 100
  BY <1>1
<1>4. QED
  BY <1>1, <1>2, <1>3 DEF era, yoe

LEMMA LeapDay ==
  ASSUME NEW y \in Nat \ {0}
  PROVE  Marches(y) = Marches(y - 1) + 365 + Leap(y)
<1>1. y \div 4 = (y - 1) \div 4 + (IF y % 4 = 0 THEN 1 ELSE 0)
  OBVIOUS
<1>2. y \div 100 = (y - 1) \div 100 + (IF y % 100 = 0 THEN 1 ELSE 0)
  OBVIOUS
<1>3. y \div 400 = (y - 1) \div 400 + (IF y % 400 = 0 THEN 1 ELSE 0)
  OBVIOUS
<1>4. y % 400 = 0 => y % 100 = 0
  OBVIOUS
<1>5. y % 100 = 0 => y % 4 = 0
  OBVIOUS
<1>6. /\ (y - 1) \div 4 \in Int /\ (y - 1) \div 100 \in Int /\ (y - 1) \div 400 \in Int
  OBVIOUS
<1>7. QED
  BY <1>1, <1>2, <1>3, <1>4, <1>5, <1>6 DEF Marches, Leap, IsLeap

\* The arithmetic of eras is the library's date, for every month.
LEMMA SerialIsDate ==
  ASSUME NEW y \in Int, y >= 1, NEW m \in Int, 1 <= m, m <= 12, NEW d \in Int
  PROVE  /\ SerialFromYmd(y, m, d) = Date(y, m, d)
         /\ Date(y, m, d) \in Int
<1> DEFINE Y == IF m <= 2 THEN y - 1 ELSE y
           era == Y \div 400
           yoe == Y - era * 400
           mp == IF m > 2 THEN m - 3 ELSE m + 9
           first == (153 * mp + 2) \div 5
<1>1. Y \in Nat /\ mp \in 0 .. 11
  BY SMT
<1>2. /\ era \in Nat /\ yoe \in 0 .. 399
      /\ yoe \div 4 = Y \div 4 - 100 * era
      /\ yoe \div 100 = Y \div 100 - 4 * era
  <2> HIDE DEF Y
  <2>1. QED
    BY <1>1, EraParts, SMT
<1>3. first \in Int
  BY <1>1, SMT
<1>4. SerialFromYmd(y, m, d)
        = era * 146097
            + (yoe * 365 + yoe \div 4 - yoe \div 100 + (first + d - 1))
            - 719468 + 25569
  BY SMT DEF SerialFromYmd
<1>5. yoe = Y - 400 * era
  BY <1>1, SMT
<1>6. Y \div 4 \in Int /\ Y \div 100 \in Int
  BY <1>1, SMT
<1>7. SerialFromYmd(y, m, d) = Marches(Y) + first + d - 693900
  <2>1. era = Y \div 400
    BY SMT
  <2> HIDE DEF Y, era, yoe, first
  <2>2. QED
    BY <1>1, <1>2, <1>3, <1>4, <1>5, <1>6, <2>1, SMT DEF Marches
<1>8. Date(y, m, d) = Marches(y - 1) + DaysBefore[m]
                        + (IF m > 2 THEN Leap(y) ELSE 0) + d - 693594
  BY SMT DEF Date, Marches, Leap
<1>9. Marches(y) = Marches(y - 1) + 365 + Leap(y) /\ Marches(y - 1) \in Int
      /\ Leap(y) \in Int
  BY LeapDay, SMT DEF Marches, Leap
<1>10. DaysBefore[m] \in Int
       /\ first = IF m > 2 THEN DaysBefore[m] - 59 ELSE DaysBefore[m] + 306
  <2>1. m \in {1, 2, 3, 4, 5, 6, 7, 8, 9, 10, 11, 12}
    BY SMT
  <2>2. QED
    BY <2>1, SMT DEF DaysBefore
<1>11. SerialFromYmd(y, m, d) = Date(y, m, d) /\ Date(y, m, d) \in Int
  <2> HIDE DEF first
  <2>1. CASE m <= 2
    <3>1. Y = y - 1 /\ ~(m > 2)
      BY <2>1, SMT
    <3>2. QED
      BY <1>7, <1>8, <1>9, <1>10, <3>1, SMT
  <2>2. CASE m > 2
    <3>1. Y = y
      BY <2>2, SMT
    <3>2. QED
      BY <1>7, <1>8, <1>9, <1>10, <2>2, <3>1, SMT
  <2>3. QED
    BY <2>1, <2>2, SMT
<1>12. QED
  BY <1>11, SMT

LEMMA SameWeekday ==
  ASSUME NEW s \in Int
  PROVE  WeekdayMon0(s) = Weekday(s) /\ Weekday(s) \in 0 .. 6
BY DEF WeekdayMon0, Weekday

\* The year of an era, recovered from a day of the era.
LEMMA YearOfEra ==
  ASSUME NEW Y \in Int, 0 <= Y, Y <= 399, NEW r \in Int, 0 <= r, r <= 365,
         r = 365 => IsLeap(Y + 1)
  PROVE  LET doe == 365 * Y + Y \div 4 - Y \div 100 + r
         IN /\ doe \in Int /\ 0 <= doe /\ doe < 146097
            /\ (doe - doe \div 1460 + doe \div 36524 - doe \div 146096)
                 \div 365 = Y
<1> DEFINE c == Y \div 100
           q == (Y - 100 * c) \div 4
           s == Y - 100 * c - 4 * q
           doe == 365 * Y + Y \div 4 - Y \div 100 + r
           k == IF 24 * c + q + 365 * s + r >= 1460 THEN 1 ELSE 0
           e == IF doe = 146096 THEN 1 ELSE 0
<1>1. /\ c \in 0 .. 3 /\ q \in 0 .. 24 /\ s \in 0 .. 3
      /\ Y = 100 * c + 4 * q + s
  BY SMT
<1>2. Y \div 4 = 25 * c + q /\ Y \div 100 = c
  <2> HIDE DEF c, q, s
  <2>1. Y \div 4 = 25 * c + q
    BY <1>1, SMT
  <2>2. Y \div 100 = c
    BY <1>1, SMT
  <2>3. QED
    BY <2>1, <2>2, SMT
<1>3. doe = 36524 * c + 1461 * q + 365 * s + r
  <2> HIDE DEF c, q, s
  <2>1. QED
    BY <1>1, <1>2, SMT
<1>4. r = 365 => s = 3 /\ (q = 24 => c = 3)
  <2>1. SUFFICES ASSUME r = 365 PROVE s = 3 /\ (q = 24 => c = 3)
    BY SMT
  <2>2. /\ (Y + 1) % 4 = 0
        /\ (Y + 1) % 100 # 0 \/ (Y + 1) % 400 = 0
    BY <2>1, SMT DEF IsLeap
  <2> HIDE DEF c, q, s
  <2>3. s = 3
    BY <1>1, <2>2, SMT
  <2>4. q = 24 => c = 3
    BY <1>1, <2>2, <2>3, SMT
  <2>5. QED
    BY <2>3, <2>4, SMT
<1> HIDE DEF c, q, s, doe
<1>5. doe \in Int /\ 0 <= doe /\ doe <= 146096
  <2>1. /\ c \in Int /\ 0 <= c /\ c <= 3 /\ q \in Int /\ 0 <= q /\ q <= 24
        /\ s \in Int /\ 0 <= s /\ s <= 3 /\ r \in Int /\ 0 <= r /\ r <= 365
    BY <1>1, SMT
  <2>2. QED
    BY <1>3, <2>1, SMT
<1>6. doe \div 1460 = 25 * c + q + k
  BY <1>1, <1>3, SMT
<1>7. doe \div 36524 = c + e /\ doe \div 146096 = e
  <2>1. CASE doe = 146096
    <3>1. c = 3
      BY <1>1, <1>3, <1>4, <2>1, SMT
    <3>2. QED
      BY <2>1, <3>1, SMT
  <2>2. CASE doe # 146096
    <3>1. doe < 146096
      BY <1>5, <2>2, SMT
    <3>2. doe \div 146096 = 0
      BY <1>5, <3>1, SMT
    <3>3. 1461 * q + 365 * s + r < 36524 /\ 0 <= 1461 * q + 365 * s + r
      BY <1>1, <1>3, <1>4, <2>2, SMT
    <3>4. doe \div 36524 = c
      BY <1>1, <1>3, <3>3, SMT
    <3>5. e = 0
      BY <2>2, SMT
    <3>6. QED
      BY <1>1, <3>2, <3>4, <3>5, SMT
  <2>3. QED
    BY <2>1, <2>2, SMT
<1>8. r - k \in 0 .. 364
  BY <1>1, <1>4, SMT
<1>9. doe - doe \div 1460 + doe \div 36524 - doe \div 146096 = 365 * Y + (r - k)
  BY <1>1, <1>3, <1>6, <1>7, SMT
<1>10. (365 * Y + (r - k)) \div 365 = Y
  BY <1>8, SMT
<1>11. QED
  BY <1>5, <1>9, <1>10, SMT DEF doe

\* The native year of a day counted from the first of a March.
LEMMA CivilYear ==
  ASSUME NEW Y \in Int, Y >= 0, NEW r \in Int, 0 <= r, r <= 365,
         r = 365 => IsLeap(Y + 1)
  PROVE  CivilFromSerial(Marches(Y) + r - 693899).year
           = Y + (IF r >= 306 THEN 1 ELSE 0)
<1> DEFINE serial == Marches(Y) + r - 693899
           z == serial - 25569 + 719468
           era == z \div 146097
           doe == z - era * 146097
           yoe == (doe - doe \div 1460 + doe \div 36524 - doe \div 146096)
                    \div 365
           doy == doe - (365 * yoe + yoe \div 4 - yoe \div 100)
           mp == (5 * doy + 2) \div 153
           month == IF mp < 10 THEN mp + 3 ELSE mp - 9
           E == Y \div 400
           V == Y - E * 400
           D == 365 * V + V \div 4 - V \div 100 + r
<1>1. /\ E \in Nat /\ V \in 0 .. 399
      /\ V \div 4 = Y \div 4 - 100 * E /\ V \div 100 = Y \div 100 - 4 * E
  BY EraParts, SMT
<1>2. r = 365 => IsLeap(V + 1)
  <2>1. SUFFICES ASSUME r = 365 PROVE IsLeap(V + 1)
    BY SMT
  <2>2. V = Y - 400 * E
    BY <1>1, SMT
  <2> HIDE DEF V, E
  <2>3. /\ (V + 1) % 4 = (Y + 1) % 4 /\ (V + 1) % 100 = (Y + 1) % 100
        /\ (V + 1) % 400 = (Y + 1) % 400
    BY <1>1, <2>2, SMT
  <2>4. QED
    BY <2>1, <2>3, SMT DEF IsLeap
<1>3. /\ D \in Int /\ 0 <= D /\ D < 146097
      /\ (D - D \div 1460 + D \div 36524 - D \div 146096) \div 365 = V
  <2>1. V \in Int /\ 0 <= V /\ V <= 399
    BY <1>1, SMT
  <2> HIDE DEF V
  <2>2. QED
    BY <1>2, <2>1, YearOfEra, SMT
<1>4. Marches(Y) \in Int /\ z = Marches(Y) + r
  BY SMT DEF Marches
<1>5. Marches(Y) + r = 146097 * E + D
  <2>1. V = Y - 400 * E /\ Marches(Y) = 365 * Y + Y \div 4 - Y \div 100 + E
        /\ Y \div 4 \in Int /\ Y \div 100 \in Int
    BY <1>1, SMT DEF Marches
  <2>2. V \div 4 \in Int /\ V \div 100 \in Int
    BY <1>1, SMT
  <2> HIDE DEF V, E
  <2>3. QED
    BY <1>1, <2>1, <2>2, SMT
<1> HIDE DEF z, V, E, D
<1>6. era = E /\ doe = D
  <2>1. z = 146097 * E + D
    BY <1>4, <1>5, SMT
  <2>2. era = E
    BY <1>1, <1>3, <2>1, SMT
  <2> HIDE DEF era
  <2>3. QED
    BY <1>1, <1>3, <2>1, <2>2, SMT
<1> HIDE DEF era, doe
<1>7. yoe = V
  BY <1>3, <1>6, SMT
<1> HIDE DEF yoe
<1>8. doy = r
  <2>1. V \div 4 \in Int /\ V \div 100 \in Int
    BY <1>1, SMT
  <2>2. QED
    BY <1>1, <1>6, <1>7, <2>1, SMT DEF D
<1> HIDE DEF doy
<1>9. /\ month \in Int
      /\ month <= 2 <=> r >= 306
  BY <1>8, SMT
<1> HIDE DEF month
<1>10. CivilFromSerial(serial).year = yoe + era * 400 + (IF month <= 2 THEN 1 ELSE 0)
  <2> HIDE DEF serial
  <2>1. QED
    BY SMT DEF CivilFromSerial, z, era, doe, yoe, doy, month
<1>11. V + E * 400 = Y
  BY <1>1, SMT DEF V
<1>12. QED
  BY <1>1, <1>6, <1>7, <1>9, <1>10, <1>11, SMT

\* The native year of each day of a year is that year.
LEMMA YearOfDay ==
  ASSUME NEW y \in Nat \ {0}, NEW d \in Date(y, 1, 1) .. Date(y, 12, 31)
  PROVE  /\ CivilFromSerial(d).year = y
         /\ d \in Int
<1>1. /\ Marches(y - 1) \in Int /\ Marches(y) \in Int
      /\ Marches(y) = Marches(y - 1) + 365 + Leap(y)
      /\ Leap(y) = IF IsLeap(y) THEN 1 ELSE 0
  BY LeapDay, SMT DEF Marches, Leap
<1>2. Date(y, 1, 1) = Marches(y - 1) - 693593
  BY SMT DEF Date, Marches, DaysBefore
<1>3. Date(y, 12, 31) = Marches(y - 1) + 365 + Leap(y) - 693594
  BY SMT DEF Date, Marches, DaysBefore, Leap
<1>4. d \in Int /\ Marches(y - 1) - 693593 <= d /\ d <= Marches(y) - 693594
  BY <1>1, <1>2, <1>3, SMT
<1>5. CASE d + 693899 < Marches(y)
  <2> DEFINE r == d + 693899 - Marches(y - 1)
  <2>1. r \in 306 .. 365 /\ d = Marches(y - 1) + r - 693899
    BY <1>1, <1>4, <1>5, SMT
  <2>2. r = 365 => IsLeap((y - 1) + 1)
    BY <1>1, <1>5, SMT
  <2> HIDE DEF r
  <2>3. y - 1 \in Nat /\ r \in 0 .. 365 /\ r >= 306
    BY <2>1, SMT
  <2>4. CivilFromSerial(Marches(y - 1) + r - 693899).year
          = (y - 1) + (IF r >= 306 THEN 1 ELSE 0)
    BY <2>2, <2>3, CivilYear, SMT
  <2>5. QED
    BY <1>4, <2>1, <2>3, <2>4, SMT
<1>6. CASE ~(d + 693899 < Marches(y))
  <2> DEFINE r == d + 693899 - Marches(y)
  <2>1. r \in 0 .. 305 /\ d = Marches(y) + r - 693899
    BY <1>1, <1>4, <1>6, SMT
  <2> HIDE DEF r
  <2>2. r \in 0 .. 365 /\ r # 365 /\ ~(r >= 306)
    BY <2>1, SMT
  <2>3. CivilFromSerial(Marches(y) + r - 693899).year
          = y + (IF r >= 306 THEN 1 ELSE 0)
    BY <2>2, CivilYear, SMT
  <2>4. QED
    BY <1>4, <2>1, <2>2, <2>3, SMT
<1>7. QED
  BY <1>4, <1>5, <1>6, SMT

(***************************************************************************)
(* The holidays.                                                           *)
(***************************************************************************)
LEMMA EasterInSpring ==
  ASSUME NEW y \in Nat
  PROVE  Easter(y).month \in 1 .. 12 /\ Easter(y).day \in Int
<1> DEFINE a == y % 19
           b == y \div 100
           c == y % 100
           g == (b - (b + 8) \div 25 + 1) \div 3
           h == (19 * a + b - b \div 4 - g + 15) % 30
           l == (32 + 2 * (b % 4) + 2 * (c \div 4) - h - (c % 4)) % 7
           m == (a + 11 * h + 22 * l) \div 451
           z == h + l - 7 * m + 114
<1>1. a \in 0 .. 18 /\ b \in Nat /\ c \in 0 .. 99
  OBVIOUS
<1>2. h \in 0 .. 29
  <2> HIDE DEF a, b
  <2>1. g \in Int
    BY <1>1
  <2> HIDE DEF g
  <2>2. 19 * a + b - b \div 4 - g + 15 \in Int
    BY <1>1, <2>1
  <2>3. QED
    BY <2>2
<1>3. l \in 0 .. 6
  <2> HIDE DEF b, c, h
  <2>1. 32 + 2 * (b % 4) + 2 * (c \div 4) - h - (c % 4) \in Int
    BY <1>1, <1>2
  <2>2. QED
    BY <2>1
<1> HIDE DEF a, b, c, g, h, l
<1>4. m \in 0 .. 1
  BY <1>1, <1>2, <1>3
<1> HIDE DEF m
<1>5. z \in Int /\ 93 <= z /\ z <= 155
  BY <1>2, <1>3, <1>4
<1>6. Easter(y) = [month |-> z \div 31, day |-> (z % 31) + 1]
  BY DEF Easter, a, b, c, g, h, l, m
<1> HIDE DEF z
<1>7. z \div 31 \in 1 .. 12 /\ (z % 31) + 1 \in Int
  BY <1>5
<1>8. QED
  BY <1>6, <1>7

LEMMA SameDays ==
  ASSUME NEW y \in Nat \ {0}, NEW m \in 1 .. 12
  PROVE  /\ \A d \in Int : ObservedWeekday(y, m, d) = Observed(Date(y, m, d))
         /\ \A n \in Nat \ {0}, target \in 0 .. 6 :
              NthWeekdayOfMonth(y, m, n, target) = NthWeekday(y, m, n, target)
         /\ m # 12 => \A target \in 0 .. 6 :
              LastWeekdayOfMonth(y, m, target) = NthWeekday(y, m, -1, target)
<1>1. ASSUME NEW d \in Int
      PROVE  ObservedWeekday(y, m, d) = Observed(Date(y, m, d))
  <2>1. SerialFromYmd(y, m, d) = Date(y, m, d) /\ Date(y, m, d) \in Int
    BY SerialIsDate
  <2>2. WeekdayMon0(Date(y, m, d)) = Weekday(Date(y, m, d))
    BY <2>1, SameWeekday
  <2>3. QED
    BY <2>1, <2>2 DEF ObservedWeekday, Observed
<1>2. ASSUME NEW n \in Nat \ {0}, NEW target \in 0 .. 6
      PROVE  NthWeekdayOfMonth(y, m, n, target) = NthWeekday(y, m, n, target)
  <2> DEFINE first == Date(y, m, 1)
             w == Weekday(first)
  <2>1. SerialFromYmd(y, m, 1) = first /\ first \in Int
    BY SerialIsDate
  <2>2. WeekdayMon0(first) = w /\ w \in 0 .. 6
    BY <2>1, SameWeekday
  <2>3. NthWeekdayOfMonth(y, m, n, target)
          = first + ((target - w + 7) % 7) + (n - 1) * 7
    BY <2>1, <2>2 DEF NthWeekdayOfMonth
  <2>4. NthWeekday(y, m, n, target) = first + ((target - w) % 7) + (n - 1) * 7
    BY DEF NthWeekday
  <2> HIDE DEF first, w
  <2>5. (target - w + 7) % 7 = (target - w) % 7
    BY <2>2
  <2>6. QED
    BY <2>3, <2>4, <2>5
<1>3. ASSUME m # 12, NEW target \in 0 .. 6
      PROVE  LastWeekdayOfMonth(y, m, target) = NthWeekday(y, m, -1, target)
  <2> DEFINE last == Date(y, m + 1, 1) - 1
             w == Weekday(last)
  <2>1. SerialFromYmd(y, m + 1, 1) = Date(y, m + 1, 1)
        /\ Date(y, m + 1, 1) \in Int
    <3>1. m + 1 \in 1 .. 12
      BY <1>3
    <3>2. QED
      BY <3>1, SerialIsDate
  <2>2. last \in Int
    BY <2>1
  <2>3. WeekdayMon0(last) = w /\ w \in 0 .. 6
    <3> HIDE DEF last
    <3>1. QED
      BY <2>2, SameWeekday
  <2>4. LastWeekdayOfMonth(y, m, target) = last - ((w - target + 7) % 7)
    BY <1>3, <2>1, <2>3 DEF LastWeekdayOfMonth
  <2>5. NthWeekday(y, m, -1, target) = last - ((w - target) % 7)
    BY <1>3 DEF NthWeekday
  <2> HIDE DEF last, w
  <2>6. (w - target + 7) % 7 = (w - target) % 7
    BY <2>3
  <2>7. QED
    BY <2>4, <2>5, <2>6
<1>4. QED
  BY <1>1, <1>2, <1>3

\* A day of a year is a holiday of both calendars or of neither.
LEMMA SameHolidays ==
  ASSUME NEW y \in Nat \ {0}, NEW d \in Date(y, 1, 1) .. Date(y, 12, 31)
  PROVE  IsUsMarketHoliday(d) <=> d \in UsMarketHolidays(y)
<1>1. CivilFromSerial(d).year = y
  BY YearOfDay
<1>2. y + 1 \in Nat \ {0}
  OBVIOUS
<1>3. /\ ObservedWeekday(y, 1, 1) = Observed(Date(y, 1, 1))
      /\ ObservedWeekday(y, 7, 4) = Observed(Date(y, 7, 4))
      /\ ObservedWeekday(y, 12, 25) = Observed(Date(y, 12, 25))
      /\ ObservedWeekday(y, 6, 19) = Observed(Date(y, 6, 19))
  BY SameDays
<1>4. ObservedWeekday(y + 1, 1, 1) = Observed(Date(y + 1, 1, 1))
  BY <1>2, SameDays
<1>5. /\ NthWeekdayOfMonth(y, 1, 3, 0) = NthWeekday(y, 1, 3, 0)
      /\ NthWeekdayOfMonth(y, 2, 3, 0) = NthWeekday(y, 2, 3, 0)
      /\ NthWeekdayOfMonth(y, 9, 1, 0) = NthWeekday(y, 9, 1, 0)
      /\ NthWeekdayOfMonth(y, 11, 4, 3) = NthWeekday(y, 11, 4, 3)
      /\ LastWeekdayOfMonth(y, 5, 0) = NthWeekday(y, 5, -1, 0)
  BY SameDays
<1>6. SerialFromYmd(y, Easter(y).month, Easter(y).day)
        = Date(y, Easter(y).month, Easter(y).day)
  <2> DEFINE month == Easter(y).month
             day == Easter(y).day
  <2>1. /\ month \in Int /\ 1 <= month /\ month <= 12 /\ day \in Int
        /\ y \in Int /\ y >= 1
    BY EasterInSpring
  <2> HIDE DEF month, day
  <2>2. SerialFromYmd(y, month, day) = Date(y, month, day)
    BY <2>1, SerialIsDate
  <2>3. QED
    BY <2>2 DEF month, day
<1>7. QED
  BY <1>1, <1>3, <1>4, <1>5, <1>6 DEF IsUsMarketHoliday, UsMarketHolidays

LEMMA SameTradingDays ==
  ASSUME NEW y \in Nat \ {0}
  PROVE  LET days == Date(y, 1, 1) .. Date(y, 12, 31)
         IN TradingDays(days, y, y) = NyseSchedule(days)
<1> DEFINE days == Date(y, 1, 1) .. Date(y, 12, 31)
<1>1. UNION {UsMarketHolidays(x) : x \in y .. y} = UsMarketHolidays(y)
  <2>1. y .. y = {y}
    OBVIOUS
  <2>2. QED
    BY <2>1
<1>2. ASSUME NEW d \in days
      PROVE  /\ WeekdayMon0(d) <= 4 <=> Weekday(d) < 5
             /\ IsUsMarketHoliday(d) <=> d \in UsMarketHolidays(y)
  BY YearOfDay, SameWeekday, SameHolidays
<1> HIDE DEF days
<1>3. TradingDays(days, y, y)
        = {d \in days : Weekday(d) < 5 /\ d \notin UsMarketHolidays(y)}
  BY <1>1 DEF TradingDays
<1>4. QED
  BY <1>2, <1>3 DEF NyseSchedule, days

LEMMA ScheduleStep == CalendarsAgree /\ [Next]_vars => CalendarsAgree'
<1> SUFFICES ASSUME CalendarsAgree, [Next]_vars PROVE CalendarsAgree'
  OBVIOUS
<1>1. CASE UNCHANGED deskVars
  BY <1>1 DEF deskVars, CalendarsAgree
<1>2. CASE Answered
  BY <1>2 DEF Answered, None, CalendarsAgree
<1>3. CASE Tool
  <2>1. ASSUME NEW y \in Years, ScheduleTool(y) PROVE CalendarsAgree'
    <3>1. /\ reply'.python = TradingDays(YearDays(y), y, y)
          /\ reply'.native = NyseSchedule(YearDays(y))
      BY <2>1 DEF ScheduleTool, Reply
    <3>2. y \in Nat \ {0}
      BY YearsAssumption
    <3>3. TradingDays(YearDays(y), y, y) = NyseSchedule(YearDays(y))
      BY <3>2, SameTradingDays DEF YearDays
    <3>4. QED
      BY <3>1, <3>3 DEF CalendarsAgree
  <2>2. (\E y \in Years : ScheduleTool(y)) \/ call'.tool # "schedule"
    BY <1>3, ToolIs
  <2>3. QED
    BY <2>1, <2>2 DEF CalendarsAgree
<1>4. QED
  BY <1>1, <1>2, <1>3, DeskSteps

\* The holidays daily_termsheet.py lists and the ones nyse_calendar.hpp
\* recognises give every year of the proleptic calendar the same trading days.
THEOREM CalendarsCoincide == Spec => []CalendarsAgree
<1>1. Init => CalendarsAgree
  BY DEF Init, None, CalendarsAgree
<1>2. QED
  BY <1>1, ScheduleStep, PTL DEF Spec

(***************************************************************************)
(* Numbers in ascending order.                                             *)
(***************************************************************************)
Rank(S, x) == Cardinality({y \in S : y < x})

LEMMA RankIs ==
  ASSUME NEW S, S \subseteq Int, IsFiniteSet(S)
  PROVE  /\ Cardinality(S) \in Nat
         /\ \A x \in S : Rank(S, x) \in 0 .. Cardinality(S) - 1
         /\ \A x, y \in S : x < y => Rank(S, x) < Rank(S, y)
<1> DEFINE Below(x) == {y \in S : y < x}
<1>1. Cardinality(S) \in Nat
  BY FS_CardinalityType
<1>2. ASSUME NEW x \in S
      PROVE  /\ IsFiniteSet(Below(x)) /\ Rank(S, x) \in Nat
             /\ IsFiniteSet(Below(x) \cup {x})
             /\ Cardinality(Below(x) \cup {x}) = Rank(S, x) + 1
  <2>1. Below(x) \in SUBSET S /\ x \notin Below(x)
    OBVIOUS
  <2>2. IsFiniteSet(Below(x)) /\ Cardinality(Below(x)) \in Nat
    BY <2>1, FS_Subset, FS_CardinalityType
  <2>3. Rank(S, x) = Cardinality(Below(x))
    BY DEF Rank
  <2> HIDE DEF Below
  <2>4. QED
    BY <2>1, <2>2, <2>3, FS_AddElement
<1>3. ASSUME NEW x \in S PROVE Rank(S, x) \in 0 .. Cardinality(S) - 1
  <2>1. Below(x) \cup {x} \in SUBSET S
    OBVIOUS
  <2> HIDE DEF Below
  <2>2. Cardinality(Below(x) \cup {x}) <= Cardinality(S)
    BY <2>1, FS_Subset
  <2>3. QED
    BY <1>1, <1>2, <2>2
<1>4. ASSUME NEW x \in S, NEW y \in S, x < y PROVE Rank(S, x) < Rank(S, y)
  <2>1. Below(x) \cup {x} \in SUBSET Below(y)
    <3>1. x \in Int /\ y \in Int /\ x < y
      BY <1>4
    <3>2. \A z \in S : z \in Int
      OBVIOUS
    <3>3. \A z \in S : z < x => z < y
      BY <3>1, <3>2
    <3>4. QED
      BY <1>4, <3>3
  <2>2. Rank(S, y) = Cardinality(Below(y))
    BY DEF Rank
  <2> HIDE DEF Below
  <2>3. Cardinality(Below(x) \cup {x}) <= Cardinality(Below(y))
    BY <1>2, <2>1, FS_Subset
  <2>4. /\ Cardinality(Below(x) \cup {x}) = Rank(S, x) + 1
        /\ Rank(S, x) \in Nat /\ Rank(S, y) \in Nat
    BY <1>2
  <2>5. QED
    BY <2>2, <2>3, <2>4
<1>5. QED
  BY <1>1, <1>3, <1>4

\* Every place is taken: the ranks are as many as the places.
LEMMA RanksFill ==
  ASSUME NEW S, S \subseteq Int, IsFiniteSet(S),
         NEW k \in 0 .. Cardinality(S) - 1
  PROVE  \E x \in S : Rank(S, x) = k
<1> DEFINE c == Cardinality(S)
           f == [x \in S |-> Rank(S, x)]
<1>1. /\ c \in Nat /\ IsFiniteSet(0 .. c - 1)
      /\ Cardinality(0 .. c - 1) = c
  <2>1. c \in Nat
    BY FS_CardinalityType
  <2>2. 0 \in Int /\ c - 1 \in Int
    BY <2>1
  <2> HIDE DEF c
  <2>3. IsFiniteSet(0 .. c - 1)
    BY <2>2, FS_Interval
  <2>4. Cardinality(0 .. c - 1) = IF 0 > c - 1 THEN 0 ELSE c - 1 - 0 + 1
    BY <2>2, FS_Interval
  <2>5. QED
    BY <2>1, <2>3, <2>4
<1>2. f \in Injection(S, 0 .. c - 1)
  <2>1. f \in [S -> 0 .. c - 1]
    BY RankIs
  <2>2. ASSUME NEW x \in S, NEW y \in S, f[x] = f[y] PROVE x = y
    <3>1. Rank(S, x) = Rank(S, y) /\ x \in Int /\ y \in Int
      BY <2>2
    <3>2. \A a, b \in S : a < b => Rank(S, a) < Rank(S, b)
      BY RankIs
    <3>3. \A a \in S : Rank(S, a) \in 0 .. Cardinality(S) - 1
      BY RankIs
    <3>4. Rank(S, x) \in Int /\ Cardinality(S) \in Int
      BY <3>3, FS_CardinalityType
    <3>5. ~(x < y) /\ ~(y < x)
      BY <3>1, <3>2, <3>4
    <3>6. QED
      BY <3>1, <3>5
  <2>3. QED
    BY <2>1, <2>2 DEF Injection, IsInjective
<1>3. f \in Surjection(S, 0 .. c - 1)
  <2> HIDE DEF f
  <2>1. QED
    BY <1>1, <1>2, FS_Injection
<1>4. QED
  BY <1>3 DEF Surjection

\* The sequence has every number of the set and goes up.
LEMMA AscendingIs ==
  ASSUME NEW S, S \subseteq Int, IsFiniteSet(S)
  PROVE  LET s == Ascending(S)
         IN /\ s \in Seq(S) /\ Len(s) = Cardinality(S)
            /\ DOMAIN s = 1 .. Len(s)
            /\ \A i, j \in DOMAIN s : i < j => s[i] < s[j]
            /\ \A x \in S : \E i \in DOMAIN s : s[i] = x
<1> DEFINE s == Ascending(S)
           c == Cardinality(S)
<1>1. /\ c \in Nat
      /\ \A x \in S : Rank(S, x) \in 0 .. c - 1
      /\ \A x, y \in S : x < y => Rank(S, x) < Rank(S, y)
  BY RankIs
<1>2. s = [n \in 1 .. c |-> CHOOSE x \in S : Rank(S, x) = n - 1]
  BY DEF Ascending, Rank
<1>3. ASSUME NEW n \in 1 .. c PROVE s[n] \in S /\ Rank(S, s[n]) = n - 1
  <2>1. n - 1 \in 0 .. c - 1
    BY <1>1
  <2>2. \E x \in S : Rank(S, x) = n - 1
    BY <2>1, RanksFill
  <2>3. s[n] = CHOOSE x \in S : Rank(S, x) = n - 1
    BY <1>2
  <2> HIDE DEF s
  <2>4. QED
    BY <2>2, <2>3
<1>4. DOMAIN s = 1 .. c
  BY <1>2
<1> HIDE DEF s
<1>5. s \in Seq(S) /\ Len(s) = c
  <2>1. s = [n \in 1 .. c |-> s[n]]
    BY <1>2
  <2>2. QED
    BY <1>1, <1>3, <2>1
<1>6. ASSUME NEW i \in 1 .. c, NEW j \in 1 .. c, i < j PROVE s[i] < s[j]
  <2>1. /\ s[i] \in S /\ s[j] \in S /\ s[i] \in Int /\ s[j] \in Int
        /\ Rank(S, s[i]) = i - 1 /\ Rank(S, s[j]) = j - 1
    BY <1>3
  <2>2. s[j] < s[i] => Rank(S, s[j]) < Rank(S, s[i])
    BY <1>1, <2>1
  <2>3. ~(s[j] < s[i]) /\ s[i] # s[j]
    BY <1>1, <1>6, <2>1, <2>2
  <2>4. QED
    BY <2>1, <2>3
<1>7. ASSUME NEW x \in S PROVE \E i \in 1 .. c : s[i] = x
  <2>1. Rank(S, x) \in 0 .. c - 1 /\ Rank(S, x) + 1 \in 1 .. c
    BY <1>1
  <2>2. s[Rank(S, x) + 1] \in S /\ Rank(S, s[Rank(S, x) + 1]) = Rank(S, x)
    BY <1>1, <1>3, <2>1
  <2>3. s[Rank(S, x) + 1] = x
    <3> DEFINE z == s[Rank(S, x) + 1]
    <3>1. z \in S /\ z \in Int /\ x \in Int /\ Rank(S, z) = Rank(S, x)
      BY <2>2
    <3>2. Rank(S, x) \in Int
      BY <1>1
    <3> HIDE DEF z
    <3>3. ~(z < x) /\ ~(x < z)
      BY <1>1, <3>1, <3>2
    <3>4. z = x
      BY <3>1, <3>3
    <3>5. QED
      BY <3>4 DEF z
  <2>4. QED
    BY <2>1, <2>3
<1>8. QED
  BY <1>4, <1>5, <1>6, <1>7 DEF s

(***************************************************************************)
(* The compiled coupon periods.                                            *)
(***************************************************************************)
Dated(sheet) ==
  /\ sheet.evaluation \in Int
  /\ sheet.starts \in Seq(Int) /\ sheet.ends \in Seq(Int)
  /\ Consecutive(sheet)

\* A variant keeps the distances between its dates.
LEMMA ShiftIs ==
  ASSUME NEW s \in Seq(Int), NEW days \in Int
  PROVE  /\ Shift(s, days) \in Seq(Int)
         /\ DOMAIN Shift(s, days) = DOMAIN s
         /\ \A i \in DOMAIN s : Shift(s, days)[i] = s[i] + days
<1>1. Len(s) \in Nat /\ DOMAIN s = 1 .. Len(s) /\ \A i \in DOMAIN s : s[i] \in Int
  OBVIOUS
<1>2. Shift(s, days) = [i \in 1 .. Len(s) |-> s[i] + days]
  BY <1>1 DEF Shift
<1>3. QED
  BY <1>1, <1>2

LEMMA VariantIsDated ==
  ASSUME NEW sheet \in Termsheet, Consecutive(sheet),
         NEW draw, draw.days \in Int
  PROVE  Dated(Permuted(sheet, draw))
<1> DEFINE v == Permuted(sheet, draw)
<1>1. /\ sheet.evaluation \in Int
      /\ sheet.starts \in Seq(Int) /\ sheet.ends \in Seq(Int)
  BY DEF Termsheet
<1>2. /\ v.evaluation = sheet.evaluation
      /\ v.starts = Shift(sheet.starts, draw.days)
      /\ v.ends = Shift(sheet.ends, draw.days)
  BY DEF Permuted, Termsheet
<1>3. /\ v.starts \in Seq(Int) /\ v.ends \in Seq(Int)
      /\ DOMAIN v.starts = DOMAIN sheet.starts
      /\ DOMAIN v.ends = DOMAIN sheet.ends
      /\ \A i \in DOMAIN sheet.starts : v.starts[i] = sheet.starts[i] + draw.days
      /\ \A i \in DOMAIN sheet.ends : v.ends[i] = sheet.ends[i] + draw.days
  <2>1. ASSUME NEW s \in Seq(Int)
        PROVE  /\ Shift(s, draw.days) \in Seq(Int)
               /\ DOMAIN Shift(s, draw.days) = DOMAIN s
               /\ \A i \in DOMAIN s : Shift(s, draw.days)[i] = s[i] + draw.days
    BY ShiftIs
  <2> HIDE DEF v
  <2>2. /\ v.starts \in Seq(Int) /\ DOMAIN v.starts = DOMAIN sheet.starts
        /\ \A i \in DOMAIN sheet.starts :
             v.starts[i] = sheet.starts[i] + draw.days
    BY <1>1, <1>2, <2>1
  <2>3. /\ v.ends \in Seq(Int) /\ DOMAIN v.ends = DOMAIN sheet.ends
        /\ \A i \in DOMAIN sheet.ends : v.ends[i] = sheet.ends[i] + draw.days
    BY <1>1, <1>2, <2>1
  <2>4. QED
    BY <2>2, <2>3
<1> HIDE DEF v
<1>4. ASSUME NEW i \in DOMAIN v.ends
      PROVE  /\ i \in DOMAIN v.starts => v.starts[i] < v.ends[i]
             /\ i > 1 => /\ v.ends[i - 1] < v.ends[i]
                         /\ i \in DOMAIN v.starts => v.ends[i - 1] <= v.starts[i]
  <2>1. /\ i \in DOMAIN sheet.starts => sheet.starts[i] < sheet.ends[i]
        /\ i > 1 => /\ sheet.ends[i - 1] < sheet.ends[i]
                    /\ i \in DOMAIN sheet.starts =>
                         sheet.ends[i - 1] <= sheet.starts[i]
    BY <1>3 DEF Consecutive
  <2>2. /\ sheet.ends[i] \in Int /\ v.ends[i] = sheet.ends[i] + draw.days
        /\ i \in Int /\ 1 <= i /\ i <= Len(sheet.ends) /\ Len(sheet.ends) \in Nat
    BY <1>1, <1>3, SMTT(30)
  <2>3. i > 1 => /\ i - 1 \in DOMAIN sheet.ends
                 /\ sheet.ends[i - 1] \in Int
                 /\ v.ends[i - 1] = sheet.ends[i - 1] + draw.days
    <3>1. i > 1 => i - 1 \in 1 .. Len(sheet.ends)
      BY <2>2
    <3>2. QED
      BY <1>1, <1>3, <3>1, SMTT(30)
  <2>4. i \in DOMAIN v.starts =>
          sheet.starts[i] \in Int /\ v.starts[i] = sheet.starts[i] + draw.days
    BY <1>1, <1>3
  <2>5. QED
    BY <1>3, <2>1, <2>2, <2>3, <2>4
<1>5. QED
  BY <1>1, <1>2, <1>3, <1>4 DEF Dated, Consecutive, v

\* A period starts before its end, and not before the end of any earlier one.
LEMMA PeriodIs ==
  ASSUME NEW sheet, Dated(sheet), NEW i \in DOMAIN sheet.ends, Open(sheet, i)
  PROVE  /\ sheet.evaluation \in Int /\ sheet.ends[i] \in Int
         /\ PeriodStart(sheet, i) \in Int
         /\ PeriodStart(sheet, i) >= sheet.evaluation
         /\ PeriodStart(sheet, i) < sheet.ends[i]
         /\ i > 1 => sheet.ends[i - 1] <= PeriodStart(sheet, i)
<1> DEFINE previous == IF i = 1 THEN sheet.evaluation ELSE sheet.ends[i - 1]
           start == Nth(sheet.starts, i, previous)
<1>1. /\ sheet.evaluation \in Int /\ sheet.starts \in Seq(Int)
      /\ sheet.ends \in Seq(Int) /\ Len(sheet.ends) \in Nat
      /\ i \in Int /\ 1 <= i /\ i <= Len(sheet.ends) /\ sheet.ends[i] \in Int
      /\ sheet.ends[i] > sheet.evaluation
  BY DEF Dated, Open
<1>2. i > 1 => i - 1 \in DOMAIN sheet.ends /\ sheet.ends[i - 1] \in Int
  <2>1. i > 1 => i - 1 \in 1 .. Len(sheet.ends)
    BY <1>1
  <2>2. QED
    BY <1>1, <2>1
<1>3. /\ i \in DOMAIN sheet.starts => sheet.starts[i] < sheet.ends[i]
      /\ i > 1 => /\ sheet.ends[i - 1] < sheet.ends[i]
                  /\ i \in DOMAIN sheet.starts =>
                       sheet.ends[i - 1] <= sheet.starts[i]
  BY DEF Dated, Consecutive
<1>4. previous \in Int /\ previous < sheet.ends[i]
      /\ (i > 1 => previous = sheet.ends[i - 1])
  BY <1>1, <1>2, <1>3
<1> HIDE DEF previous
<1>5. /\ start \in Int /\ start < sheet.ends[i]
      /\ i > 1 => sheet.ends[i - 1] <= start
  <2>1. CASE i <= Len(sheet.starts)
    <3>1. i \in DOMAIN sheet.starts /\ sheet.starts[i] \in Int
      BY <1>1, <2>1
    <3>2. start = sheet.starts[i]
      BY <2>1 DEF Nth
    <3>3. QED
      BY <1>2, <1>3, <3>1, <3>2
  <2>2. CASE ~(i <= Len(sheet.starts))
    <3>1. start = previous
      BY <2>2 DEF Nth
    <3>2. QED
      BY <1>2, <1>4, <3>1
  <2>3. QED
    BY <2>1, <2>2
<1>6. PeriodStart(sheet, i) = Max({start, sheet.evaluation})
  BY DEF PeriodStart, previous
<1> HIDE DEF start
<1>7. PeriodStart(sheet, i) = IF start >= sheet.evaluation THEN start
                              ELSE sheet.evaluation
  <2>1. start \in Int /\ sheet.evaluation \in Int
    BY <1>1, <1>5
  <2>2. QED
    BY <1>6, <2>1, PairBounds
<1>8. QED
  BY <1>1, <1>2, <1>5, <1>7

LEMMA StepsGoUp ==
  ASSUME NEW s \in Seq(Int), \A i \in DOMAIN s : i > 1 => s[i - 1] < s[i]
  PROVE  \A i, j \in DOMAIN s : i <= j => s[i] <= s[j]
<1> DEFINE Good == {n \in Nat : \A i, j \in DOMAIN s :
                                  i <= j /\ j <= i + n => s[i] <= s[j]}
<1>1. /\ Len(s) \in Nat /\ DOMAIN s = 1 .. Len(s)
      /\ \A i \in DOMAIN s : s[i] \in Int /\ i \in Int
  OBVIOUS
<1>2. 0 \in Good
  <2>1. \A i, j \in DOMAIN s : i <= j /\ j <= i + 0 => i = j
    BY <1>1
  <2>2. QED
    BY <1>1, <2>1
<1>3. ASSUME NEW n \in Nat, n \in Good PROVE n + 1 \in Good
  <2>1. ASSUME NEW i \in DOMAIN s, NEW j \in DOMAIN s,
               i <= j, j <= i + (n + 1)
        PROVE  s[i] <= s[j]
    <3>1. CASE i = j
      BY <1>1, <3>1
    <3>2. CASE i # j
      <4>1. /\ j - 1 \in DOMAIN s /\ i <= j - 1 /\ j - 1 <= i + n /\ j > 1
        BY <1>1, <2>1, <3>2
      <4>2. s[i] <= s[j - 1]
        BY <1>3, <4>1
      <4>3. s[j - 1] < s[j]
        BY <4>1
      <4>4. QED
        BY <1>1, <4>1, <4>2, <4>3
    <3>3. QED
      BY <3>1, <3>2
  <2>2. QED
    BY <2>1
<1>4. Nat \subseteq Good
  <2> HIDE DEF Good
  <2>1. QED
    BY <1>2, <1>3, CountingUp
<1>5. ASSUME NEW i \in DOMAIN s, NEW j \in DOMAIN s, i <= j
      PROVE  s[i] <= s[j]
  <2>1. j - i \in Good /\ j <= i + (j - i)
    BY <1>1, <1>4, <1>5
  <2>2. QED
    BY <1>5, <2>1
<1>6. QED
  BY <1>5

\* What the engine's coupon loop counts on.
Fits(compiled) ==
  /\ \A i \in DOMAIN compiled.periods :
       /\ compiled.periods[i].start >= compiled.evaluation
       /\ compiled.periods[i].start < compiled.periods[i].end
  /\ \A i, j \in DOMAIN compiled.periods :
       i < j => compiled.periods[i].end <= compiled.periods[j].start

LEMMA CompiledFits ==
  ASSUME NEW sheet, Dated(sheet)
  PROVE  Fits(CompileFcnNativeRequest(sheet))
<1> DEFINE kept == {i \in DOMAIN sheet.ends : Open(sheet, i)}
           open == Ascending(kept)
           periods == CompileFcnNativeRequest(sheet).periods
<1>1. /\ sheet.ends \in Seq(Int) /\ Len(sheet.ends) \in Nat
      /\ DOMAIN sheet.ends = 1 .. Len(sheet.ends)
  BY DEF Dated
<1>2. kept \subseteq Int /\ IsFiniteSet(kept)
  <2>1. kept \in SUBSET (1 .. Len(sheet.ends)) /\ IsFiniteSet(1 .. Len(sheet.ends))
    BY <1>1, FS_Interval
  <2>2. \A x \in kept : x \in Int
    BY <1>1
  <2> HIDE DEF kept
  <2>3. IsFiniteSet(kept)
    BY <2>1, FS_Subset
  <2>4. QED
    BY <2>2, <2>3
<1>3. ASSUME NEW n \in DOMAIN open
      PROVE  open[n] \in DOMAIN sheet.ends /\ Open(sheet, open[n])
  <2>1. open[n] \in kept
    <3> HIDE DEF kept
    <3>1. open \in Seq(kept) /\ DOMAIN open = 1 .. Len(open)
      BY <1>2, AscendingIs
    <3> HIDE DEF open
    <3>2. QED
      BY <3>1
  <2>2. QED
    BY <2>1
<1>4. \A n, m \in DOMAIN open : n < m => open[n] < open[m]
  <2> HIDE DEF kept
  <2>1. QED
    BY <1>2, AscendingIs
<1>5. periods = [n \in DOMAIN open |-> CouponPeriod(sheet, open[n])]
  BY DEF CompileFcnNativeRequest
<1>6. CompileFcnNativeRequest(sheet).evaluation = sheet.evaluation
  BY DEF CompileFcnNativeRequest, CompilePricingRequest
<1> HIDE DEF open, periods, kept
<1>7. ASSUME NEW n \in DOMAIN periods
      PROVE  /\ n \in DOMAIN open
             /\ periods[n].start = PeriodStart(sheet, open[n])
             /\ periods[n].end = sheet.ends[open[n]]
  BY <1>5 DEF CouponPeriod
<1>8. ASSUME NEW n \in DOMAIN periods, NEW m \in DOMAIN periods, n < m
      PROVE  periods[n].end <= periods[m].start
  <2> DEFINE a == open[n]
             b == open[m]
  <2>1. /\ a \in DOMAIN sheet.ends /\ b \in DOMAIN sheet.ends /\ a < b
        /\ Open(sheet, b)
    BY <1>3, <1>4, <1>7, <1>8
  <2>2. periods[n].end = sheet.ends[a] /\ periods[m].start = PeriodStart(sheet, b)
    BY <1>7
  <2> HIDE DEF a, b
  <2>3. /\ a \in Int /\ b \in Int /\ 1 <= a /\ b <= Len(sheet.ends)
        /\ b - 1 \in DOMAIN sheet.ends /\ a <= b - 1 /\ b > 1
        /\ sheet.ends[a] \in Int /\ sheet.ends[b - 1] \in Int
    BY <1>1, <2>1, SMTT(30)
  <2>4. sheet.ends[b - 1] <= PeriodStart(sheet, b) /\ PeriodStart(sheet, b) \in Int
    BY <2>1, <2>3, PeriodIs
  <2>5. sheet.ends[a] <= sheet.ends[b - 1]
    <3>1. \A i \in DOMAIN sheet.ends : i > 1 => sheet.ends[i - 1] < sheet.ends[i]
      BY DEF Dated, Consecutive
    <3>2. \A i, j \in DOMAIN sheet.ends : i <= j => sheet.ends[i] <= sheet.ends[j]
      BY <1>1, <3>1, StepsGoUp
    <3>3. QED
      BY <2>1, <2>3, <3>2
  <2>6. QED
    BY <2>2, <2>3, <2>4, <2>5
<1>9. ASSUME NEW n \in DOMAIN periods
      PROVE  /\ periods[n].start >= sheet.evaluation
             /\ periods[n].start < periods[n].end
  <2>1. open[n] \in DOMAIN sheet.ends /\ Open(sheet, open[n])
    BY <1>3, <1>7
  <2>2. QED
    BY <1>7, <2>1, PeriodIs
<1>10. QED
  BY <1>6, <1>8, <1>9 DEF Fits, periods

LEMMA EtlStep == CompiledScheduleFits /\ [Next]_vars => CompiledScheduleFits'
<1> SUFFICES ASSUME CompiledScheduleFits, [Next]_vars
             PROVE  CompiledScheduleFits'
  OBVIOUS
<1>1. CASE UNCHANGED deskVars
  BY <1>1 DEF deskVars, CompiledScheduleFits
<1>2. CASE Answered
  BY <1>2 DEF Answered, None, CompiledScheduleFits
<1>3. CASE Tool
  <2>1. ASSUME NEW sheet \in Termsheets, NEW draws \in BoundedSeq(Variants, 2),
               EtlTool(sheet, draws)
        PROVE  CompiledScheduleFits'
    <3> DEFINE variants == AugmentTermsheet(sheet, draws)
    <3>1. SUFFICES ASSUME reply' # Raised, NEW n \in DOMAIN reply'.native
                   PROVE  Fits(reply'.native[n])
      BY DEF CompiledScheduleFits, Fits
    <3>2. reply'.native = [i \in DOMAIN variants |->
                             CompileFcnNativeRequest(variants[i])]
      BY <2>1, <3>1 DEF EtlTool, Reply
    <3>3. variants = [i \in DOMAIN draws |-> Permuted(sheet, draws[i])]
      BY DEF AugmentTermsheet
    <3> HIDE DEF variants
    <3>4. n \in DOMAIN draws
      BY <3>1, <3>2, <3>3
    <3>5. draws[n] \in Variants
      <4>1. BoundedSeq(Variants, 2) = UNION {[1 .. m -> Variants] : m \in 0 .. 2}
        BY DEF BoundedSeq, SeqOf
      <4>2. PICK m \in 0 .. 2 : draws \in [1 .. m -> Variants]
        BY <4>1
      <4>3. QED
        BY <3>4, <4>2
    <3>6. Dated(variants[n])
      BY <3>3, <3>4, <3>5, VariantIsDated, TermsheetsAssumption
    <3>7. reply'.native[n] = CompileFcnNativeRequest(variants[n])
      BY <3>1, <3>2
    <3>8. QED
      BY <3>6, <3>7, CompiledFits
  <2>2. (\E sheet \in Termsheets, draws \in BoundedSeq(Variants, 2) :
           EtlTool(sheet, draws)) \/ call'.tool # "etl"
    BY <1>3, ToolIs
  <2>3. QED
    BY <2>1, <2>2 DEF CompiledScheduleFits
<1>4. QED
  BY <1>1, <1>2, <1>3, DeskSteps

\* However a variant moves a deal's calendar against the evaluation date, the
\* periods compiled from it are in order, disjoint, of positive length and
\* none over.
THEOREM ScheduleFits == Spec => []CompiledScheduleFits
<1>1. Init => CompiledScheduleFits
  BY DEF Init, None, CompiledScheduleFits
<1>2. QED
  BY <1>1, EtlStep, PTL DEF Spec

(***************************************************************************)
(* The daily lanes.  The walk of a path over the coupon periods, as either *)
(* lane takes it.                                                          *)
(***************************************************************************)
DailySkips(lane, dates, period, first, last) ==
  IF lane = "native" THEN \/ period.end < dates[1]
                 \/ Max({last, 0}) < first
                 \/ period.rate = 0
  ELSE last < first \/ period.rate = 0
DailyStart(job) == [cash |-> 0, memory |-> 0, previous |-> job.evaluation]
DailyAfter(lane, job, dates, cube, p, ko, period, before) ==
  LET first == UpTo(dates, before.previous)
      last == UpTo(dates, period.end) - 1
      paid == DailyPeriod(job, period, cube, p, first, last, ko, before.memory)
  IN IF DailySkips(lane, dates, period, first, last)
     THEN [before EXCEPT !.previous = period.end]
     ELSE [cash |-> before.cash + paid.cash,
           memory |-> paid.memory, previous |-> period.end]
DailyWalk(h, lane, job, dates, cube, p, ko, n) ==
  h = [i \in 0 .. n |->
         IF i = 0 THEN DailyStart(job)
         ELSE DailyAfter(lane, job, dates, cube, p, ko, job.periods[i],
                         h[i - 1])]
DailyPaid(lane, job, dates, cube, p, ko) ==
  (CHOOSE h : DailyWalk(h, lane, job, dates, cube, p, ko,
                        Len(job.periods)))[Len(job.periods)].cash

LEMMA NativeLegs ==
  ASSUME NEW job, NEW dates, NEW cube
  PROVE  LET EO == ExpiryDays(job, dates)
             df == Discount(job.evaluation, job.expiry)
             Ko(p) == KoStep(job, cube, p, EO, Len(dates))
             hit == {p \in DOMAIN cube :
                      /\ WorstOn(job, cube, p, EO - 1) <= job.kiBarrier
                      /\ Ko(p) > EO - 1}
         IN PriceDailyJob(job, dates, cube)
              = [PUT |-> 0 - df * SumFunction([p \in hit |->
                           Intrinsic(WorstOn(job, cube, p, EO - 1), job.strike)]),
                 FUNDING |-> df * Unit * Cardinality(DOMAIN cube),
                 COUPON |-> Quoted(job, SumFunction([p \in DOMAIN cube |->
                              DailyPaid("native", job, dates, cube, p, Ko(p))]))]
BY DEF PriceDailyJob, DailyLegs, SumOver, DailyCoupon, DailyPaid, DailyWalk,
       DailyAfter, DailySkips, DailyStart

LEMMA PythonLegs ==
  ASSUME NEW job, NEW dates, NEW cube
  PROVE  LET n == Len(dates)
             df == Discount(job.evaluation, job.expiry)
             Ko(p) == KoStep(job, cube, p, n, n)
             hit == {p \in DOMAIN cube :
                      /\ WorstOn(job, cube, p, n - 1) <= job.kiBarrier
                      /\ Ko(p) > n - 1}
         IN PriceDailyTermsheet(job, dates, cube)
              = [PUT |-> 0 - df * SumFunction([p \in hit |->
                           Intrinsic(WorstOn(job, cube, p, n - 1), job.strike)]),
                 FUNDING |-> df * Unit * Cardinality(DOMAIN cube),
                 COUPON |-> Quoted(job, SumFunction([p \in DOMAIN cube |->
                              DailyPaid("python", job, dates, cube, p, Ko(p))]))]
BY DEF PriceDailyTermsheet, DailyLegs, SumOver, DailyCoupon, DailyPaid,
       DailyWalk, DailyAfter, DailySkips, DailyStart

(***************************************************************************)
(* How many days are on or before another.                                 *)
(***************************************************************************)
GoesUp(dates) ==
  /\ dates \in Seq(Int)
  /\ \A i, j \in DOMAIN dates : i < j => dates[i] < dates[j]

LEMMA UpToIs ==
  ASSUME NEW dates, GoesUp(dates), NEW x \in Int
  PROVE  /\ UpTo(dates, x) \in 0 .. Len(dates)
         /\ \A k \in DOMAIN dates : dates[k] <= x <=> k <= UpTo(dates, x)
<1> DEFINE D == {k \in DOMAIN dates : dates[k] <= x}
<1>1. /\ Len(dates) \in Nat /\ DOMAIN dates = 1 .. Len(dates)
      /\ \A k \in DOMAIN dates : dates[k] \in Int /\ k \in Int
      /\ \A i, j \in DOMAIN dates : i < j => dates[i] < dates[j]
  BY DEF GoesUp
<1>2. UpTo(dates, x) = Cardinality(D)
  BY DEF UpTo
<1>3. CASE D = {}
  <2>1. UpTo(dates, x) = 0
    BY <1>2, <1>3, FS_EmptySet
  <2>2. \A k \in DOMAIN dates : ~(dates[k] <= x) /\ ~(k <= 0)
    BY <1>1, <1>3
  <2>3. QED
    BY <1>1, <2>1, <2>2
<1>4. CASE D # {}
  <2>1. D \subseteq Nat /\ \A k \in D : k <= Len(dates)
    BY <1>1
  <2>2. \E m \in D : \A k \in D : k <= m
    <3>1. IsFiniteSet(D)
      <4>1. D \in SUBSET (1 .. Len(dates)) /\ IsFiniteSet(1 .. Len(dates))
        BY <1>1, FS_Interval
      <4> HIDE DEF D
      <4>2. QED
        BY <4>1, FS_Subset
    <3> HIDE DEF D
    <3>2. Max(D) \in D /\ \A y \in D : y <= Max(D)
      BY <1>4, <2>1, <3>1, GreatestNat
    <3>3. QED
      BY <3>2
  <2>3. PICK m \in D : \A k \in D : k <= m
    BY <2>2
  <2>4. m \in DOMAIN dates /\ dates[m] <= x /\ m \in Nat /\ 1 <= m
        /\ m <= Len(dates)
    BY <1>1, <2>3
  <2>5. ASSUME NEW k \in DOMAIN dates, k <= m PROVE dates[k] <= x
    <3>1. k = m \/ dates[k] < dates[m]
      BY <1>1, <2>4, <2>5
    <3>2. dates[k] \in Int /\ dates[m] \in Int
      BY <1>1, <2>4
    <3>3. QED
      BY <2>4, <3>1, <3>2
  <2>6. \A k \in DOMAIN dates : dates[k] <= x <=> k <= m
    BY <2>3, <2>5
  <2>7. D = 1 .. m
    BY <1>1, <2>4, <2>6
  <2>8. Cardinality(1 .. m) = m
    <3>1. 1 \in Int /\ m \in Int /\ ~(1 > m)
      BY <2>4
    <3>2. Cardinality(1 .. m) = m - 1 + 1
      BY <3>1, FS_Interval
    <3>3. QED
      BY <2>4, <3>2
  <2>9. UpTo(dates, x) = m
    BY <1>2, <2>7, <2>8
  <2>10. QED
    BY <1>1, <2>4, <2>6, <2>9
<1>5. QED
  BY <1>3, <1>4

\* The days up to e tell as much of the days up to x, when x is not later.
LEMMA UpToPrefix ==
  ASSUME NEW dates, GoesUp(dates), NEW e \in Int, NEW x \in Int, x <= e
  PROVE  LET n == UpTo(dates, e)
         IN /\ UpTo(dates, x) \in 0 .. n
            /\ Len(SubSeq(dates, 1, n)) = n
            /\ UpTo(SubSeq(dates, 1, n), x) = UpTo(dates, x)
<1> DEFINE n == UpTo(dates, e)
           m == UpTo(dates, x)
           s == SubSeq(dates, 1, n)
<1>1. /\ Len(dates) \in Nat /\ DOMAIN dates = 1 .. Len(dates)
      /\ \A k \in DOMAIN dates : dates[k] \in Int /\ k \in Int
  BY DEF GoesUp
<1>2. /\ n \in 0 .. Len(dates) /\ m \in 0 .. Len(dates)
      /\ \A k \in DOMAIN dates : dates[k] <= e <=> k <= n
      /\ \A k \in DOMAIN dates : dates[k] <= x <=> k <= m
  BY UpToIs
<1> HIDE DEF n, m
<1>3. m <= n
  <2>1. CASE m = 0
    BY <1>1, <1>2, <2>1
  <2>2. CASE m # 0
    <3>1. m \in DOMAIN dates /\ m <= m
      BY <1>1, <1>2, <2>2
    <3>2. dates[m] <= x /\ dates[m] \in Int
      BY <1>1, <1>2, <3>1
    <3>3. dates[m] <= e
      BY <3>2
    <3>4. QED
      BY <1>2, <3>1, <3>3
  <2>3. QED
    BY <2>1, <2>2
<1>4. DOMAIN s = 1 .. n /\ Len(s) = n /\ \A k \in 1 .. n : s[k] = dates[k]
  <2>1. dates \in Seq(Int)
    BY DEF GoesUp
  <2>2. QED
    BY <1>1, <1>2, <2>1
<1> HIDE DEF s
<1>5. {k \in DOMAIN s : s[k] <= x} = {k \in DOMAIN dates : dates[k] <= x}
  <2>1. ASSUME NEW k \in DOMAIN dates, dates[k] <= x
        PROVE  k \in 1 .. n
    BY <1>1, <1>2, <1>3, <2>1
  <2>2. \A k \in 1 .. n : k \in DOMAIN dates
    BY <1>1, <1>2
  <2>3. QED
    BY <1>4, <2>1, <2>2
<1>6. UpTo(s, x) = m
  BY <1>5 DEF UpTo, m
<1>7. QED
  BY <1>2, <1>3, <1>4, <1>6 DEF n, m, s

(***************************************************************************)
(* One period, on the days of the job and on the days of the sheet.        *)
(***************************************************************************)
LEMMA SkipsAgree ==
  ASSUME NEW dates, GoesUp(dates), NEW e \in Int, NEW period,
         period.end \in Int, period.end <= e, 1 <= UpTo(dates, e),
         NEW first \in Nat, NEW other
  PROVE  LET last == UpTo(dates, period.end) - 1
         IN DailySkips("native", dates, period, first, last)
              <=> DailySkips("python", other, period, first, last)
<1> DEFINE m == UpTo(dates, period.end)
           last == m - 1
<1>1. /\ Len(dates) \in Nat /\ DOMAIN dates = 1 .. Len(dates)
      /\ \A k \in DOMAIN dates : dates[k] \in Int
  BY DEF GoesUp
<1>2. /\ m \in 0 .. Len(dates)
      /\ \A k \in DOMAIN dates : dates[k] <= period.end <=> k <= m
      /\ UpTo(dates, e) \in 0 .. Len(dates)
  BY UpToIs
<1>3. 1 \in DOMAIN dates
  BY <1>1, <1>2
<1>4. period.end < dates[1] <=> m = 0
  <2>1. dates[1] \in Int /\ (dates[1] <= period.end <=> 1 <= m)
    BY <1>1, <1>2, <1>3
  <2>2. QED
    BY <1>2, <2>1
<1> HIDE DEF m
<1>5. Max({last, 0}) = IF last >= 0 THEN last ELSE 0
  <2>1. last \in Int /\ 0 \in Int
    BY <1>2
  <2> HIDE DEF last
  <2>2. QED
    BY <2>1, PairBounds
<1>6. (period.end < dates[1] \/ Max({last, 0}) < first) <=> last < first
  BY <1>2, <1>4, <1>5
<1> HIDE DEF last
<1>7. DailySkips("native", dates, period, first, last)
        <=> DailySkips("python", other, period, first, last)
  BY <1>6, Zenon DEF DailySkips
<1>8. QED
  BY <1>7 DEF last, m

\* Two cubes and two call steps that agree on the first n days.
SameDaysOf(job, c, d, p, n, ko, ko2) ==
  /\ \A t \in 0 .. n - 1 : WorstOn(job, c, p, t) = WorstOn(job, d, p, t)
  /\ \A t \in -1 .. n - 1 : ko > t <=> ko2 > t

LEMMA PeriodsAgree ==
  ASSUME NEW job, NEW c, NEW d, NEW p, NEW n \in Nat, NEW ko, NEW ko2,
         SameDaysOf(job, c, d, p, n, ko, ko2),
         NEW period, NEW first \in Nat, NEW last \in -1 .. n - 1, NEW memory
  PROVE  DailyPeriod(job, period, c, p, first, last, ko, memory)
           = DailyPeriod(job, period, d, p, first, last, ko2, memory)
<1>1. {t \in first .. last : /\ WorstOn(job, c, p, t) >= period.low
                             /\ WorstOn(job, c, p, t) <= period.up}
        = {t \in first .. last : /\ WorstOn(job, d, p, t) >= period.low
                                 /\ WorstOn(job, d, p, t) <= period.up}
  <2>1. \A t \in first .. last : WorstOn(job, c, p, t) = WorstOn(job, d, p, t)
    BY DEF SameDaysOf
  <2>2. QED
    BY <2>1
<1>2. ko > last <=> ko2 > last
  BY DEF SameDaysOf
<1>3. QED
  BY <1>1, <1>2, Zenon DEF DailyPeriod

\* A job of the daily lane whose periods end by its expiry.
DailyJob(job, dates) ==
  /\ job.evaluation \in Int /\ job.expiry \in Int
  /\ job.evaluation <= job.expiry
  /\ Len(job.periods) \in Nat
  /\ \A i \in 1 .. Len(job.periods) :
       job.periods[i].end \in Int /\ job.periods[i].end <= job.expiry
  /\ 1 <= UpTo(dates, job.expiry)

NotAfter(x, e) == x \in Int /\ x <= e

Matching(dates, job, c, d, p, ko, ko2) ==
  /\ GoesUp(dates) /\ DailyJob(job, dates)
  /\ SameDaysOf(job, c, d, p, UpTo(dates, job.expiry), ko, ko2)

LEMMA AftersAgree ==
  ASSUME NEW dates, NEW job, NEW c, NEW d, NEW p, NEW ko, NEW ko2,
         Matching(dates, job, c, d, p, ko, ko2),
         NEW period, NotAfter(period.end, job.expiry),
         NEW before, NotAfter(before.previous, job.expiry)
  PROVE  DailyAfter("native", job, dates, c, p, ko, period, before)
           = DailyAfter("python", job, SubSeq(dates, 1, UpTo(dates, job.expiry)),
                        d, p, ko2, period, before)
<1> DEFINE n == UpTo(dates, job.expiry)
           s == SubSeq(dates, 1, n)
           first == UpTo(dates, before.previous)
           last == UpTo(dates, period.end) - 1
<1>0. /\ job.expiry \in Int /\ 1 <= UpTo(dates, job.expiry)
      /\ period.end \in Int /\ period.end <= job.expiry
      /\ before.previous \in Int /\ before.previous <= job.expiry
      /\ GoesUp(dates)
      /\ SameDaysOf(job, c, d, p, UpTo(dates, job.expiry), ko, ko2)
  BY DEF DailyJob, NotAfter, Matching
<1>1. /\ first \in 0 .. n /\ UpTo(s, before.previous) = first
      /\ last + 1 \in 0 .. n /\ UpTo(s, period.end) - 1 = last
  BY <1>0, UpToPrefix
<1>2. n \in Nat /\ first \in Nat /\ last \in -1 .. n - 1
  <2>1. n \in Nat
    <3>1. Len(dates) \in Nat
      BY <1>0 DEF GoesUp
    <3>2. n \in 0 .. Len(dates)
      BY <1>0, UpToIs
    <3> HIDE DEF n
    <3>3. QED
      BY <3>1, <3>2
  <2>2. UpTo(dates, period.end) \in 0 .. n
    BY <1>0, UpToPrefix
  <2> HIDE DEF n
  <2>3. QED
    BY <1>1, <2>1, <2>2
<1>3. DailySkips("native", dates, period, first, last)
        <=> DailySkips("python", s, period, first, last)
  <2> HIDE DEF s, first
  <2>1. QED
    BY <1>0, <1>2, SkipsAgree
<1> HIDE DEF n, s, first, last
<1>4. SameDaysOf(job, c, d, p, n, ko, ko2)
  BY <1>0 DEF n
<1>5. DailyPeriod(job, period, c, p, first, last, ko, before.memory)
        = DailyPeriod(job, period, d, p, first, last, ko2, before.memory)
  BY <1>2, <1>4, PeriodsAgree
<1>6. DailyAfter("native", job, dates, c, p, ko, period, before)
        = IF DailySkips("native", dates, period, first, last)
          THEN [before EXCEPT !.previous = period.end]
          ELSE [cash |-> before.cash
                  + DailyPeriod(job, period, c, p, first, last, ko,
                                before.memory).cash,
                memory |-> DailyPeriod(job, period, c, p, first, last, ko,
                                       before.memory).memory,
                previous |-> period.end]
  BY DEF DailyAfter, first, last
<1>7. DailyAfter("python", job, s, d, p, ko2, period, before)
        = IF DailySkips("python", s, period, first, last)
          THEN [before EXCEPT !.previous = period.end]
          ELSE [cash |-> before.cash
                  + DailyPeriod(job, period, d, p, first, last, ko2,
                                before.memory).cash,
                memory |-> DailyPeriod(job, period, d, p, first, last, ko2,
                                       before.memory).memory,
                previous |-> period.end]
  BY <1>1 DEF DailyAfter
<1>8. DailyAfter("native", job, dates, c, p, ko, period, before)
        = DailyAfter("python", job, s, d, p, ko2, period, before)
  <2>1. CASE DailySkips("native", dates, period, first, last)
    <3>1. DailySkips("python", s, period, first, last)
      BY <1>3, <2>1, Zenon
    <3>2. QED
      BY <1>6, <1>7, <2>1, <3>1, Zenon
  <2>2. CASE ~DailySkips("native", dates, period, first, last)
    <3>1. ~DailySkips("python", s, period, first, last)
      BY <1>3, <2>2, Zenon
    <3>2. QED
      BY <1>5, <1>6, <1>7, <2>2, <3>1, Zenon
  <2>3. QED
    BY <2>1, <2>2
<1>9. QED
  BY <1>8 DEF s, n

(***************************************************************************)
(* The coupon of a path: the two walks take the same steps.                *)
(***************************************************************************)
LEMMA DailyWalkExists ==
  ASSUME NEW lane, NEW job, NEW dates, NEW cube, NEW p, NEW ko, NEW n \in Nat
  PROVE  \E h : DailyWalk(h, lane, job, dates, cube, p, ko, n)
<1> DEFINE After(i, b) ==
             DailyAfter(lane, job, dates, cube, p, ko, job.periods[i], b)
           W(h, m) == h = [i \in 0 .. m |-> IF i = 0 THEN DailyStart(job)
                                            ELSE After(i, h[i - 1])]
           Good == {m \in Nat : \E h : W(h, m)}
<1> HIDE DEF After
<1>1. 0 \in Good
  <2>1. W([i \in 0 .. 0 |-> DailyStart(job)], 0)
    OBVIOUS
  <2>2. QED
    BY <2>1
<1>2. ASSUME NEW m \in Nat, m \in Good PROVE m + 1 \in Good
  <2>1. PICK h : W(h, m)
    BY <1>2
  <2> DEFINE e == [i \in 0 .. m + 1 |-> IF i = 0 THEN DailyStart(job)
                                        ELSE After(i, h[i - 1])]
  <2>2. \A i \in 0 .. m : e[i] = h[i]
    BY <2>1
  <2>3. \A i \in 0 .. m + 1 : i # 0 => i - 1 \in 0 .. m
    OBVIOUS
  <2>4. e = [i \in 0 .. m + 1 |-> IF i = 0 THEN DailyStart(job)
                                  ELSE After(i, h[i - 1])]
    OBVIOUS
  <2> HIDE DEF e
  <2>5. W(e, m + 1)
    BY <2>2, <2>3, <2>4
  <2>6. QED
    BY <2>5
<1> HIDE DEF Good
<1>3. Nat \subseteq Good
  BY <1>1, <1>2, CountingUp
<1>4. PICK h : W(h, n)
  BY <1>3 DEF Good
<1>5. DailyWalk(h, lane, job, dates, cube, p, ko, n)
  BY <1>4 DEF DailyWalk, After
<1>6. QED
  BY <1>5

LEMMA CouponsAgree ==
  ASSUME NEW dates, NEW job, NEW c, NEW d, NEW p, NEW ko, NEW ko2,
         Matching(dates, job, c, d, p, ko, ko2)
  PROVE  DailyPaid("native", job, dates, c, p, ko)
           = DailyPaid("python", job, SubSeq(dates, 1, UpTo(dates, job.expiry)),
                       d, p, ko2)
<1> DEFINE s == SubSeq(dates, 1, UpTo(dates, job.expiry))
           N == Len(job.periods)
           g == CHOOSE h : DailyWalk(h, "native", job, dates, c, p, ko, N)
           h == CHOOSE w : DailyWalk(w, "python", job, s, d, p, ko2, N)
           A(i, b) == DailyAfter("native", job, dates, c, p, ko, job.periods[i], b)
           B(i, b) == DailyAfter("python", job, s, d, p, ko2, job.periods[i], b)
           End(i) == job.periods[i].end
<1>1. /\ N \in Nat /\ job.evaluation \in Int /\ job.evaluation <= job.expiry
      /\ job.expiry \in Int /\ 1 <= UpTo(dates, job.expiry)
      /\ \A i \in 1 .. N : End(i) \in Int /\ End(i) <= job.expiry
  BY DEF DailyJob, Matching
<1>2. /\ DailyWalk(g, "native", job, dates, c, p, ko, N)
      /\ DailyWalk(h, "python", job, s, d, p, ko2, N)
  <2> HIDE DEF N, s
  <2>1. QED
    BY <1>1, DailyWalkExists
<1> HIDE DEF g, h
<1>3. /\ g = [i \in 0 .. N |-> IF i = 0 THEN DailyStart(job) ELSE A(i, g[i - 1])]
      /\ h = [i \in 0 .. N |-> IF i = 0 THEN DailyStart(job) ELSE B(i, h[i - 1])]
  BY <1>2 DEF DailyWalk
<1>4. ASSUME NEW i \in 1 .. N, NEW b, b.previous \in Int,
             b.previous <= job.expiry
      PROVE  A(i, b) = B(i, b)
  <2> DEFINE period == job.periods[i]
  <2>1. NotAfter(period.end, job.expiry)
    BY <1>1 DEF NotAfter
  <2>2. NotAfter(b.previous, job.expiry)
    BY <1>4 DEF NotAfter
  <2>3. ASSUME NEW y, NotAfter(y.end, job.expiry)
        PROVE  DailyAfter("native", job, dates, c, p, ko, y, b)
                 = DailyAfter("python", job,
                              SubSeq(dates, 1, UpTo(dates, job.expiry)),
                              d, p, ko2, y, b)
    BY <2>2, <2>3, AftersAgree
  <2>4. QED
    BY <2>1, <2>3
<1>5. ASSUME NEW i \in 1 .. N, NEW b,
             b = [cash |-> b.cash, memory |-> b.memory, previous |-> b.previous]
      PROVE  LET a == A(i, b)
             IN /\ a.previous = End(i)
                /\ a = [cash |-> a.cash, memory |-> a.memory,
                        previous |-> a.previous]
  <2>1. CASE A(i, b) = [b EXCEPT !.previous = End(i)]
    BY <1>5, <2>1
  <2>2. CASE \E x, y : A(i, b) = [cash |-> x, memory |-> y,
                                  previous |-> End(i)]
    <3>1. PICK x, y : A(i, b) = [cash |-> x, memory |-> y, previous |-> End(i)]
      BY <2>2
    <3> HIDE DEF A
    <3>2. QED
      BY <3>1
  <2>3. QED
    BY <2>1, <2>2 DEF DailyAfter
<1> HIDE DEF A, B, s
<1> DEFINE Good == {i \in Nat : i <= N =>
             /\ h[i] = g[i]
             /\ g[i].previous \in Int /\ g[i].previous <= job.expiry
             /\ g[i] = [cash |-> g[i].cash, memory |-> g[i].memory,
                        previous |-> g[i].previous]}
<1>6. 0 \in Good
  <2>1. 0 \in 0 .. N
    BY <1>1
  <2>2. g[0] = DailyStart(job) /\ h[0] = DailyStart(job)
    BY <1>3, <2>1
  <2>3. QED
    BY <1>1, <2>2 DEF DailyStart
<1>7. ASSUME NEW m \in Nat, m \in Good PROVE m + 1 \in Good
  <2>1. SUFFICES ASSUME m + 1 <= N
                 PROVE  /\ h[m + 1] = g[m + 1]
                        /\ g[m + 1].previous \in Int
                        /\ g[m + 1].previous <= job.expiry
                        /\ g[m + 1] = [cash |-> g[m + 1].cash,
                                       memory |-> g[m + 1].memory,
                                       previous |-> g[m + 1].previous]
    OBVIOUS
  <2>2. m + 1 \in 1 .. N /\ m + 1 \in 0 .. N /\ m + 1 # 0 /\ (m + 1) - 1 = m
    BY <1>1, <2>1
  <2>3. /\ h[m] = g[m] /\ g[m].previous \in Int /\ g[m].previous <= job.expiry
        /\ g[m] = [cash |-> g[m].cash, memory |-> g[m].memory,
                   previous |-> g[m].previous]
    <3>1. m <= N
      BY <1>1, <2>2
    <3>2. QED
      BY <1>7, <3>1
  <2>4. g[m + 1] = A(m + 1, g[m]) /\ h[m + 1] = B(m + 1, h[m])
    BY <1>3, <2>2
  <2>5. h[m + 1] = g[m + 1]
    BY <1>4, <2>2, <2>3, <2>4
  <2>6. /\ g[m + 1].previous = End(m + 1)
        /\ g[m + 1] = [cash |-> g[m + 1].cash, memory |-> g[m + 1].memory,
                       previous |-> g[m + 1].previous]
    BY <1>5, <2>2, <2>3, <2>4
  <2>7. QED
    BY <1>1, <2>2, <2>5, <2>6
<1> HIDE DEF Good
<1>8. Nat \subseteq Good
  BY <1>6, <1>7, CountingUp
<1>9. h[N] = g[N]
  <2>1. N \in Nat /\ N <= N
    BY <1>1
  <2> HIDE DEF N
  <2>2. N \in Good
    BY <1>8, <2>1
  <2>3. QED
    BY <2>1, <2>2 DEF Good
<1>10. QED
  BY <1>9 DEF DailyPaid, g, h, s

(***************************************************************************)
(* The legs of a job on the cube and on its days up to the expiry.         *)
(***************************************************************************)
Until(c, n) ==
  [p \in DOMAIN c |-> [u \in DOMAIN c[p] |-> [t \in 0 .. n - 1 |-> c[p][u][t]]]]

LEMMA DaysKept ==
  ASSUME NEW job, NEW c, NEW n, NEW p \in DOMAIN c, NEW t \in 0 .. n - 1
  PROVE  /\ WorstOn(job, c, p, t) = WorstOn(job, Until(c, n), p, t)
         /\ AllAbove(job, c, p, t) <=> AllAbove(job, Until(c, n), p, t)
<1> DEFINE d == Until(c, n)
<1>1. /\ DOMAIN d[p] = DOMAIN c[p]
      /\ \A u \in DOMAIN c[p] : d[p][u][t] = c[p][u][t]
  BY DEF Until
<1> HIDE DEF d
<1>2. At(d, p, t) = At(c, p, t)
  BY <1>1 DEF At
<1>3. WorstOn(job, c, p, t) = WorstOn(job, d, p, t)
  BY <1>2 DEF WorstOn
<1>4. AllAbove(job, c, p, t) <=> AllAbove(job, d, p, t)
  BY <1>1 DEF AllAbove
<1>5. QED
  BY <1>3, <1>4 DEF d

LEMMA CallsTogether ==
  ASSUME NEW job, NEW c, NEW p \in DOMAIN c, NEW n \in Nat, NEW L \in Nat,
         n <= L, NEW t \in -1 .. n - 1
  PROVE  KoStep(job, c, p, n, L) > t <=> KoStep(job, Until(c, n), p, n, n) > t
<1> DEFINE H == {x \in 0 .. n - 1 : AllAbove(job, c, p, x)}
           J == {x \in 0 .. n - 1 : AllAbove(job, Until(c, n), p, x)}
<1>1. H = J
  BY DaysKept
<1>2. /\ KoStep(job, c, p, n, L) = IF H = {} THEN L ELSE Min(H)
      /\ KoStep(job, Until(c, n), p, n, n) = IF J = {} THEN n ELSE Min(J)
  BY DEF KoStep
<1> HIDE DEF H, J
<1>3. CASE H = {}
  BY <1>1, <1>2, <1>3
<1>4. CASE H # {}
  BY <1>1, <1>2, <1>4
<1>5. QED
  BY <1>3, <1>4

LEMMA LegsAgree ==
  ASSUME NEW dates, NEW job, GoesUp(dates), DailyJob(job, dates), NEW c
  PROVE  LET n == UpTo(dates, job.expiry)
         IN PriceDailyJob(job, dates, c)
              = PriceDailyTermsheet(job, SubSeq(dates, 1, n), Until(c, n))
<1> DEFINE n == UpTo(dates, job.expiry)
           L == Len(dates)
           s == SubSeq(dates, 1, n)
           d == Until(c, n)
           ko(p) == KoStep(job, c, p, n, L)
           ko2(p) == KoStep(job, d, p, n, n)
           df == Discount(job.evaluation, job.expiry)
           hit == {p \in DOMAIN c : /\ WorstOn(job, c, p, n - 1) <= job.kiBarrier
                                    /\ ko(p) > n - 1}
           hit2 == {p \in DOMAIN d : /\ WorstOn(job, d, p, n - 1) <= job.kiBarrier
                                     /\ ko2(p) > n - 1}
<1>1. L \in Nat /\ n \in 0 .. L /\ n \in Nat /\ 1 <= n
  <2>1. L \in Nat
    BY DEF GoesUp
  <2>2. job.expiry \in Int /\ 1 <= n
    BY DEF DailyJob
  <2>3. n \in 0 .. L
    BY <2>2, UpToIs
  <2> HIDE DEF n, L
  <2>4. QED
    BY <2>1, <2>2, <2>3
<1>2. ExpiryDays(job, dates) = n
  <2>1. ExpiryDays(job, dates) = Max({1, Min({n, L})})
    BY DEF ExpiryDays, Clip
  <2> HIDE DEF n, L
  <2>2. Min({n, L}) = n
    BY <1>1, PairBounds
  <2>3. Max({1, n}) = n
    BY <1>1, PairBounds
  <2>4. QED
    BY <2>1, <2>2, <2>3
<1>3. Len(s) = n
  <2>1. job.expiry \in Int /\ job.expiry <= job.expiry
    BY DEF DailyJob
  <2>2. QED
    BY <2>1, UpToPrefix
<1>4. DOMAIN d = DOMAIN c
  BY DEF Until
<1> HIDE DEF n, L
<1>5. ASSUME NEW p \in DOMAIN c
      PROVE  /\ SameDaysOf(job, c, d, p, n, ko(p), ko2(p))
             /\ WorstOn(job, c, p, n - 1) = WorstOn(job, d, p, n - 1)
             /\ ko(p) > n - 1 <=> ko2(p) > n - 1
  <2>1. \A t \in 0 .. n - 1 : WorstOn(job, c, p, t) = WorstOn(job, d, p, t)
    BY DaysKept
  <2>2. \A t \in -1 .. n - 1 : ko(p) > t <=> ko2(p) > t
    BY <1>1, CallsTogether
  <2>3. n - 1 \in 0 .. n - 1 /\ n - 1 \in -1 .. n - 1
    BY <1>1
  <2> HIDE DEF ko, ko2, d
  <2>4. SameDaysOf(job, c, d, p, n, ko(p), ko2(p))
    BY <2>1, <2>2 DEF SameDaysOf
  <2>5. QED
    BY <2>1, <2>2, <2>3, <2>4
<1> HIDE DEF s, d, ko, ko2, df
<1>6. hit = hit2
  BY <1>4, <1>5
<1>7. [p \in hit |-> Intrinsic(WorstOn(job, c, p, n - 1), job.strike)]
        = [p \in hit2 |-> Intrinsic(WorstOn(job, d, p, n - 1), job.strike)]
  <2>1. hit \subseteq DOMAIN c
    OBVIOUS
  <2> HIDE DEF hit, hit2
  <2>2. \A p \in hit : WorstOn(job, c, p, n - 1) = WorstOn(job, d, p, n - 1)
    BY <1>5, <2>1
  <2>3. QED
    BY <1>6, <2>2
<1>8. [p \in DOMAIN c |-> DailyPaid("native", job, dates, c, p, ko(p))]
        = [p \in DOMAIN d |-> DailyPaid("python", job, s, d, p, ko2(p))]
  <2>1. ASSUME NEW p \in DOMAIN c
        PROVE  DailyPaid("native", job, dates, c, p, ko(p))
                 = DailyPaid("python", job, s, d, p, ko2(p))
    <3>1. Matching(dates, job, c, d, p, ko(p), ko2(p))
      BY <1>5 DEF Matching, n
    <3>2. QED
      BY <3>1, CouponsAgree DEF s, n
  <2>2. QED
    BY <1>4, <2>1
<1>9. PriceDailyJob(job, dates, c)
        = [PUT |-> 0 - df * SumFunction([p \in hit |->
                     Intrinsic(WorstOn(job, c, p, n - 1), job.strike)]),
           FUNDING |-> df * Unit * Cardinality(DOMAIN c),
           COUPON |-> Quoted(job, SumFunction([p \in DOMAIN c |->
                        DailyPaid("native", job, dates, c, p, ko(p))]))]
  BY <1>2, NativeLegs DEF df, ko, L
<1>10. PriceDailyTermsheet(job, s, d)
         = [PUT |-> 0 - df * SumFunction([p \in hit2 |->
                      Intrinsic(WorstOn(job, d, p, n - 1), job.strike)]),
            FUNDING |-> df * Unit * Cardinality(DOMAIN d),
            COUPON |-> Quoted(job, SumFunction([p \in DOMAIN d |->
                         DailyPaid("python", job, s, d, p, ko2(p))]))]
  BY <1>3, PythonLegs DEF df, ko2
<1> HIDE DEF hit, hit2
<1>11. PriceDailyJob(job, dates, c) = PriceDailyTermsheet(job, s, d)
  BY <1>4, <1>7, <1>8, <1>9, <1>10
<1>12. QED
  BY <1>11 DEF s, d, n

(***************************************************************************)
(* The days of a sheet.                                                    *)
(***************************************************************************)
LEMMA SheetDaysGoUp ==
  ASSUME NEW jobs \in Seq(Jobs), jobs # <<>>
  PROVE  GoesUp(SheetDates(jobs))
<1> DEFINE start == jobs[1].evaluation
           end == LastExpiry(jobs)
           days == TradingDays(start .. end, Year(start), Year(end))
<1>1. /\ Len(jobs) \in Nat /\ DOMAIN jobs = 1 .. Len(jobs) /\ 1 \in DOMAIN jobs
      /\ \A j \in DOMAIN jobs : jobs[j] \in Jobs
  BY EmptySeq
<1>2. \A j \in DOMAIN jobs : jobs[j].evaluation \in Nat /\ jobs[j].expiry \in Nat
  BY <1>1 DEF Jobs
<1>3. start \in Int /\ end \in Int
  <2> DEFINE E == [j \in DOMAIN jobs |-> jobs[j].expiry]
             T == {E[j] : j \in DOMAIN jobs}
  <2>1. T = {jobs[j].expiry : j \in DOMAIN jobs}
    OBVIOUS
  <2>2. IsFiniteSet(DOMAIN jobs)
    BY <1>1, FS_Interval
  <2>3. T \subseteq Nat /\ T # {}
    BY <1>1, <1>2
  <2>4. IsFiniteSet(T)
    <3> HIDE DEF E
    <3>1. QED
      BY <2>2, FiniteImage
  <2> HIDE DEF T
  <2>5. Max(T) \in Nat
    BY <2>3, <2>4, GreatestNat
  <2>6. QED
    BY <1>1, <1>2, <2>1, <2>5 DEF LastExpiry
<1> HIDE DEF start, end
<1>4. days \subseteq Int /\ IsFiniteSet(days)
  <2>1. days \in SUBSET (start .. end)
    BY DEF TradingDays
  <2>2. IsFiniteSet(start .. end) /\ start .. end \subseteq Int
    BY <1>3, FS_Interval
  <2> HIDE DEF days
  <2>3. QED
    BY <2>1, <2>2, FS_Subset
<1>5. SheetDates(jobs) = Ascending(days)
  BY DEF SheetDates, NyseSerials, start, end
<1> HIDE DEF days
<1>6. /\ Ascending(days) \in Seq(days)
      /\ \A i, j \in DOMAIN Ascending(days) :
           i < j => Ascending(days)[i] < Ascending(days)[j]
  BY <1>4, AscendingIs
<1>7. Ascending(days) \in Seq(Int)
  <2> DEFINE s == Ascending(days)
  <2>1. s \in Seq(days) /\ \A x \in days : x \in Int
    BY <1>4, <1>6
  <2> HIDE DEF s
  <2>2. /\ Len(s) \in Nat /\ \A i \in 1 .. Len(s) : s[i] \in Int
        /\ s = [i \in 1 .. Len(s) |-> s[i]]
    BY <2>1
  <2>3. s \in Seq(Int)
    BY <2>2
  <2>4. QED
    BY <2>3 DEF s
<1>8. QED
  BY <1>5, <1>6, <1>7 DEF GoesUp

LEMMA SheetJobIs ==
  ASSUME NEW sheet \in DailySheets, NEW j \in DOMAIN sheet.jobs,
         \A i \in DOMAIN sheet.jobs[j].periods :
           sheet.jobs[j].periods[i].end <= sheet.jobs[j].expiry
  PROVE  DailyJob(sheet.jobs[j], SheetDates(sheet.jobs))
<1> DEFINE job == sheet.jobs[j]
           dates == SheetDates(sheet.jobs)
<1>1. /\ sheet.jobs \in Seq(Jobs) /\ sheet.jobs # <<>>
      /\ job.evaluation <= job.expiry
      /\ \E day \in Range(dates) : day <= job.expiry
  BY DailySheetsAssumption
<1>2. GoesUp(dates)
  BY <1>1, SheetDaysGoUp
<1>3. job \in Jobs
  BY <1>1
<1> HIDE DEF dates
<1>4. /\ job.evaluation \in Int /\ job.expiry \in Int
      /\ Len(job.periods) \in Nat /\ DOMAIN job.periods = 1 .. Len(job.periods)
      /\ \A i \in DOMAIN job.periods : job.periods[i].end \in Int
  <2> DEFINE Terms == [end : Nat, payment : Nat, rate : Nat, paid : Nat,
                       total : Nat, low : Nat, up : Nat]
  <2>1. /\ job.evaluation \in Nat /\ job.expiry \in Nat
        /\ job.periods \in Seq(Terms)
    BY <1>3 DEF Jobs
  <2>2. /\ Len(job.periods) \in Nat
        /\ DOMAIN job.periods = 1 .. Len(job.periods)
        /\ \A i \in DOMAIN job.periods : job.periods[i] \in Terms
    <3> HIDE DEF Terms
    <3>1. QED
      BY <2>1
  <2>3. \A i \in DOMAIN job.periods : job.periods[i].end \in Nat
    BY <2>2
  <2>4. /\ job.evaluation \in Int /\ job.expiry \in Int
        /\ \A i \in DOMAIN job.periods : job.periods[i].end \in Int
    BY <2>1, <2>3
  <2> HIDE DEF job
  <2>5. QED
    BY <2>2, <2>4
<1>5. 1 <= UpTo(dates, job.expiry)
  <2>1. PICK k \in DOMAIN dates : dates[k] <= job.expiry
    BY <1>1 DEF Range
  <2>2. /\ UpTo(dates, job.expiry) \in 0 .. Len(dates)
        /\ k <= UpTo(dates, job.expiry)
    BY <1>2, <1>4, <2>1, UpToIs
  <2>3. k \in Nat /\ 1 <= k /\ Len(dates) \in Nat
    BY <1>2 DEF GoesUp
  <2>4. QED
    BY <2>2, <2>3
<1>6. QED
  BY <1>1, <1>4, <1>5 DEF DailyJob, dates

LEMMA DailyStep == DailyLanesAgree /\ [Next]_vars => DailyLanesAgree'
<1> SUFFICES ASSUME DailyLanesAgree, [Next]_vars PROVE DailyLanesAgree'
  OBVIOUS
<1>1. CASE UNCHANGED deskVars
  BY <1>1 DEF deskVars, DailyLanesAgree
<1>2. CASE Answered
  BY <1>2 DEF Answered, None, DailyLanesAgree
<1>3. CASE Tool
  <2>1. ASSUME NEW sheet \in DailySheets, DailyTool(sheet)
        PROVE  DailyLanesAgree'
    <3> DEFINE jobs == sheet.jobs
               dates == SheetDates(jobs)
               cube == BuildDailyPathCube(jobs, sheet.draw, FALSE,
                                          [u \in DOMAIN jobs[1].equity |-> 0])
               n(j) == UpTo(dates, jobs[j].expiry)
    <3>1. /\ call'.sheet = sheet
          /\ reply'.native = [j \in DOMAIN jobs |->
                                PriceDailyJob(jobs[j], dates, cube)]
          /\ reply'.python = [j \in DOMAIN jobs |->
               PriceDailyTermsheet(jobs[j], SubSeq(dates, 1, n(j)),
                                   Until(cube, n(j)))]
      BY <2>1 DEF DailyTool, Reply, Until
    <3> HIDE DEF dates, cube
    <3>2. ASSUME NEW j \in DOMAIN jobs,
                 \A i \in DOMAIN jobs[j].periods :
                   jobs[j].periods[i].end <= jobs[j].expiry
          PROVE  PriceDailyJob(jobs[j], dates, cube)
                   = PriceDailyTermsheet(jobs[j], SubSeq(dates, 1, n(j)),
                                         Until(cube, n(j)))
      <4>1. DailyJob(jobs[j], dates)
        BY <3>2, SheetJobIs DEF dates
      <4>2. GoesUp(dates)
        BY SheetDaysGoUp, DailySheetsAssumption DEF dates
      <4> HIDE DEF jobs
      <4>3. QED
        BY <4>1, <4>2, LegsAgree
    <3> HIDE DEF n
    <3>3. QED
      BY <3>1, <3>2 DEF DailyLanesAgree
  <2>2. (\E sheet \in DailySheets : DailyTool(sheet)) \/ call'.tool # "daily"
    BY <1>3, ToolIs
  <2>3. QED
    BY <2>1, <2>2 DEF DailyLanesAgree
<1>4. QED
  BY <1>1, <1>2, <1>3, DeskSteps

\* The Python lane, on a job's own days, and the native lane, on all the days
\* of the sheet, give every leg of every job the same value.
THEOREM DailyLanesCoincide == Spec => []DailyLanesAgree
<1>1. Init => DailyLanesAgree
  BY DEF Init, None, DailyLanesAgree
<1>2. QED
  BY <1>1, DailyStep, PTL DEF Spec

(***************************************************************************)
(* The coupon of the fixture lane.  The step nearest to a date.            *)
(***************************************************************************)
LEMMA NearestIs ==
  ASSUME NEW D, D \subseteq Nat, D # {}, NEW values \in [D -> Int],
         NEW target \in Int
  PROVE  Nearest(values, target) \in D
<1> DEFINE Gap(k) == Max({values[k] - target, target - values[k]})
           G == {Gap(k) : k \in D}
           Best == {k \in D : \A j \in D : Gap(k) <= Gap(j)}
<1>1. ASSUME NEW k \in D PROVE Gap(k) \in Nat
  <2> DEFINE a == values[k] - target
             b == target - values[k]
  <2>1. a \in Int /\ b \in Int /\ (a >= 0 \/ b >= 0)
    OBVIOUS
  <2> HIDE DEF a, b
  <2>2. Max({a, b}) = IF a >= b THEN a ELSE b
    BY <2>1, PairBounds
  <2>3. Max({a, b}) \in Nat
    BY <2>1, <2>2
  <2>4. QED
    BY <2>3 DEF a, b
<1> HIDE DEF Gap
<1>2. PICK m \in G : \A n \in G : m <= n
  <2>1. G \subseteq Nat /\ G # {}
    BY <1>1
  <2> HIDE DEF G
  <2>2. QED
    BY <2>1, LeastNat
<1>3. Best # {} /\ Best \subseteq Nat
  <2>1. PICK k \in D : m = Gap(k)
    BY <1>2
  <2>2. \A j \in D : Gap(k) <= Gap(j)
    BY <1>2, <2>1
  <2>3. QED
    BY <2>2
<1>4. Nearest(values, target) = Min(Best)
  BY DEF Nearest, Gap
<1>5. Min(Best) \in Best
  <2> HIDE DEF Best
  <2>1. QED
    BY <1>3, MinNat
<1>6. QED
  BY <1>4, <1>5

(***************************************************************************)
(* A cube is of whole numbers.                                             *)
(***************************************************************************)
SoundSurface(surface) ==
  /\ surface \in Surfaces
  /\ surface.vol # <<>> =>
       /\ surface.strikes # <<>>
       /\ \A row \in DOMAIN surface.vol :
            DOMAIN surface.vol[row] = DOMAIN surface.strikes

LEMMA SurfaceVolInt ==
  ASSUME NEW surface, SoundSurface(surface), NEW spot \in Int, NEW date \in Int
  PROVE  SurfaceVol(surface, spot, date) \in Int
<1>1. CASE surface.vol = <<>>
  BY <1>1 DEF SurfaceVol, DefaultVol
<1>2. CASE surface.vol # <<>>
  <2> DEFINE vol == surface.vol
             strikes == surface.strikes
             pillars == surface.pillars
             row == IF pillars = <<>> THEN Min({4, Len(vol)})
                    ELSE Min({Nearest(pillars, date), Len(vol)})
             col == Nearest(strikes, spot)
  <2>1. /\ strikes \in Seq(Nat) /\ pillars \in Seq(Nat) /\ vol \in Seq(Seq(Nat))
        /\ strikes # <<>> /\ vol # <<>>
        /\ \A r \in DOMAIN vol : DOMAIN vol[r] = DOMAIN strikes
    BY <1>2 DEF SoundSurface, Surfaces
  <2>2. SurfaceVol(surface, spot, date) = vol[row][col]
    BY <1>2 DEF SurfaceVol
  <2> HIDE DEF vol, strikes, pillars
  <2>3. /\ Len(vol) \in Nat /\ Len(vol) >= 1 /\ DOMAIN vol = 1 .. Len(vol)
        /\ \A r \in DOMAIN vol : vol[r] \in Seq(Nat)
    BY <2>1, SeqIs
  <2>4. col \in DOMAIN strikes
    <3>1. /\ DOMAIN strikes \subseteq Nat /\ DOMAIN strikes # {}
          /\ strikes \in [DOMAIN strikes -> Nat]
      BY <2>1, SeqIs
    <3>2. strikes \in [DOMAIN strikes -> Int]
      BY <3>1
    <3>3. QED
      BY <3>1, <3>2, NearestIs
  <2>5. row \in DOMAIN vol
    <3>1. CASE pillars = <<>>
      <4>1. Min({4, Len(vol)}) = IF 4 <= Len(vol) THEN 4 ELSE Len(vol)
        <5>1. 4 \in Int /\ Len(vol) \in Int
          BY <2>3
        <5>2. QED
          BY <5>1, PairBounds
      <4>2. QED
        BY <2>3, <3>1, <4>1
    <3>2. CASE pillars # <<>>
      <4> DEFINE near == Nearest(pillars, date)
      <4>1. /\ DOMAIN pillars \subseteq Nat /\ DOMAIN pillars # {}
            /\ pillars \in [DOMAIN pillars -> Nat]
            /\ DOMAIN pillars = 1 .. Len(pillars) /\ Len(pillars) \in Nat
        BY <2>1, <3>2, SeqIs
      <4>2. near \in DOMAIN pillars
        <5>1. pillars \in [DOMAIN pillars -> Int]
          BY <4>1
        <5>2. QED
          BY <4>1, <5>1, NearestIs
      <4> HIDE DEF near
      <4>3. near \in Nat /\ near >= 1
        BY <4>1, <4>2
      <4>4. Min({near, Len(vol)}) = IF near <= Len(vol) THEN near ELSE Len(vol)
        <5>1. near \in Int /\ Len(vol) \in Int
          BY <2>3, <4>3
        <5>2. QED
          BY <5>1, PairBounds
      <4>5. QED
        BY <2>3, <3>2, <4>3, <4>4 DEF near
    <3>3. QED
      BY <3>1, <3>2
  <2> HIDE DEF row, col
  <2>6. vol[row] \in Seq(Nat) /\ col \in DOMAIN vol[row]
    BY <2>1, <2>3, <2>4, <2>5
  <2>7. vol[row][col] \in Nat
    <3> DEFINE values == vol[row]
    <3>1. values \in Seq(Nat) /\ col \in DOMAIN values
      BY <2>6
    <3> HIDE DEF values
    <3>2. values[col] \in Nat
      BY <3>1
    <3>3. QED
      BY <3>2 DEF values
  <2>8. QED
    BY <2>2, <2>7
<1>3. QED
  BY <1>1, <1>2

SoundDraw(draw) ==
  /\ draw # <<>> /\ draw \in Seq(Seq([1 .. 2 -> Int]))
  /\ \A p \in DOMAIN draw : Len(draw[p]) >= 2 /\ Len(draw[p]) = Len(draw[1])
SoundMarket(market) ==
  /\ DOMAIN market.quoted \subseteq 1 .. 2
  /\ market.evaluation \in Int
  /\ \A u \in DOMAIN market.quoted :
       /\ market.quoted[u] \in Int /\ market.vols[u] \in Int
       /\ SoundSurface(market.surfaces[u])

SpotAfter(market, draw, p, u, t, before) ==
  (before * (10 + (IF market.locvol
                   THEN SurfaceVol(market.surfaces[u], before, market.evaluation)
                   ELSE market.vols[u]) * draw[p][t + 1][u])) \div 10
SpotWalk(h, market, draw, p, u, n) ==
  h = [t \in -1 .. n - 1 |->
         IF t = -1 THEN market.quoted[u]
         ELSE SpotAfter(market, draw, p, u, t, h[t - 1])]

LEMMA SpotWalkExists ==
  ASSUME NEW market, NEW draw, NEW p, NEW u, NEW n \in Nat
  PROVE  \E h : SpotWalk(h, market, draw, p, u, n)
<1> DEFINE After(t, b) == SpotAfter(market, draw, p, u, t, b)
           quote == market.quoted[u]
           W(h, m) == h = [t \in -1 .. m - 1 |->
                             IF t = -1 THEN quote ELSE After(t, h[t - 1])]
           Good == {m \in Nat : \E h : W(h, m)}
<1> HIDE DEF After, quote
<1>1. 0 \in Good
  <2>1. W([t \in -1 .. 0 - 1 |-> quote], 0)
    OBVIOUS
  <2>2. QED
    BY <2>1
<1>2. ASSUME NEW m \in Nat, m \in Good PROVE m + 1 \in Good
  <2>1. PICK h : W(h, m)
    BY <1>2
  <2> DEFINE e == [t \in -1 .. (m + 1) - 1 |->
                     IF t = -1 THEN quote ELSE After(t, h[t - 1])]
  <2>2. \A t \in -1 .. m - 1 : e[t] = h[t]
    BY <2>1
  <2>3. \A t \in -1 .. (m + 1) - 1 : t # -1 => t - 1 \in -1 .. m - 1
    OBVIOUS
  <2>4. e = [t \in -1 .. (m + 1) - 1 |->
               IF t = -1 THEN quote ELSE After(t, h[t - 1])]
    OBVIOUS
  <2> HIDE DEF e
  <2>5. W(e, m + 1)
    BY <2>2, <2>3, <2>4
  <2>6. QED
    BY <2>5
<1> HIDE DEF Good
<1>3. Nat \subseteq Good
  BY <1>1, <1>2, CountingUp
<1>4. PICK h : W(h, n)
  BY <1>3 DEF Good
<1>5. SpotWalk(h, market, draw, p, u, n)
  BY <1>4 DEF SpotWalk, After, quote
<1>6. QED
  BY <1>5

LEMMA SpotAfterInt ==
  ASSUME NEW market, SoundMarket(market), NEW draw, SoundDraw(draw),
         NEW p \in DOMAIN draw, NEW u \in DOMAIN market.quoted,
         NEW t \in 0 .. Len(draw[p]) - 1, NEW before \in Int
  PROVE  SpotAfter(market, draw, p, u, t, before) \in Int
<1> DEFINE sigma == IF market.locvol
                    THEN SurfaceVol(market.surfaces[u], before,
                                    market.evaluation)
                    ELSE market.vols[u]
           shock == draw[p][t + 1][u]
<1>1. sigma \in Int
  <2>1. SurfaceVol(market.surfaces[u], before, market.evaluation) \in Int
    BY SurfaceVolInt DEF SoundMarket
  <2>2. market.vols[u] \in Int
    BY DEF SoundMarket
  <2>3. QED
    BY <2>1, <2>2
<1>2. shock \in Int
  <2> DEFINE path == draw[p]
  <2>1. path \in Seq([1 .. 2 -> Int])
    BY DEF SoundDraw
  <2>2. t \in 0 .. Len(path) - 1
    OBVIOUS
  <2> HIDE DEF path
  <2>3. t + 1 \in 1 .. Len(path) /\ DOMAIN path = 1 .. Len(path)
    BY <2>1, <2>2
  <2>4. path[t + 1] \in [1 .. 2 -> Int]
    BY <2>1, <2>3
  <2>5. u \in 1 .. 2
    BY DEF SoundMarket
  <2>6. path[t + 1][u] \in Int
    BY <2>4, <2>5
  <2>7. QED
    BY <2>6 DEF path
<1>3. SpotAfter(market, draw, p, u, t, before)
        = (before * (10 + sigma * shock)) \div 10
  BY DEF SpotAfter
<1> HIDE DEF sigma, shock
<1>4. before * (10 + sigma * shock) \in Int
  BY <1>1, <1>2
<1>5. (before * (10 + sigma * shock)) \div 10 \in Int
  BY <1>4, QuotientInt
<1>6. QED
  BY <1>3, <1>5

LEMMA CubeIs ==
  ASSUME NEW market, SoundMarket(market), NEW draw, SoundDraw(draw)
  PROVE  LET cube == Simulate(market, draw)
         IN /\ DOMAIN cube = DOMAIN draw
            /\ \A p \in DOMAIN draw :
                 /\ DOMAIN cube[p] = DOMAIN market.quoted
                 /\ \A u \in DOMAIN market.quoted :
                      cube[p][u] \in [0 .. Len(draw[p]) - 1 -> Int]
<1> DEFINE cube == Simulate(market, draw)
<1>1. /\ DOMAIN cube = DOMAIN draw
      /\ \A p \in DOMAIN draw : DOMAIN cube[p] = DOMAIN market.quoted
  BY DEF Simulate
<1>2. ASSUME NEW p \in DOMAIN draw, NEW u \in DOMAIN market.quoted
      PROVE  cube[p][u] \in [0 .. Len(draw[p]) - 1 -> Int]
  <2> DEFINE n == Len(draw[p])
             h == CHOOSE f : SpotWalk(f, market, draw, p, u, n)
  <2>1. n \in Nat /\ n >= 2
    <3>1. draw[p] \in Seq([1 .. 2 -> Int]) /\ Len(draw[p]) >= 2
      BY DEF SoundDraw
    <3>2. QED
      BY <3>1
  <2>2. SpotWalk(h, market, draw, p, u, n)
    <3> HIDE DEF n
    <3>1. QED
      BY <2>1, SpotWalkExists
  <2>3. cube[p][u] = [t \in 0 .. n - 1 |-> h[t]]
    BY DEF Simulate, SpotWalk, SpotAfter
  <2> HIDE DEF h, cube
  <2>4. h = [t \in -1 .. n - 1 |->
               IF t = -1 THEN market.quoted[u]
               ELSE SpotAfter(market, draw, p, u, t, h[t - 1])]
    BY <2>2 DEF SpotWalk
  <2>5. ASSUME NEW t \in 0 .. n - 1, NEW before \in Int
        PROVE  SpotAfter(market, draw, p, u, t, before) \in Int
    BY SpotAfterInt
  <2> DEFINE After(t, b) == SpotAfter(market, draw, p, u, t, b)
             Good == {m \in Nat : m <= n => h[m - 1] \in Int}
  <2> HIDE DEF n, After
  <2>6. 0 \in Good
    <3>1. -1 \in -1 .. n - 1
      BY <2>1
    <3>2. h[-1] = market.quoted[u]
      BY <2>4, <3>1
    <3>3. h[-1] \in Int /\ 0 - 1 = -1
      BY <3>2 DEF SoundMarket
    <3>4. QED
      BY <3>3
  <2>7. ASSUME NEW m \in Nat, m \in Good PROVE m + 1 \in Good
    <3>1. SUFFICES ASSUME m + 1 <= n PROVE h[m] \in Int
      BY <2>1
    <3>2. m <= n /\ m \in 0 .. n - 1 /\ m \in -1 .. n - 1 /\ m # -1
      BY <2>1, <3>1
    <3>3. h[m - 1] \in Int
      BY <2>7, <3>2
    <3>4. h[m] = After(m, h[m - 1])
      BY <2>4, <3>2 DEF After
    <3>5. After(m, h[m - 1]) \in Int
      BY <2>5, <3>2, <3>3 DEF After
    <3>6. QED
      BY <3>4, <3>5
  <2> HIDE DEF Good
  <2>8. Nat \subseteq Good
    BY <2>6, <2>7, CountingUp
  <2>9. ASSUME NEW t \in 0 .. n - 1 PROVE h[t] \in Int
    <3>1. t + 1 \in Nat /\ t + 1 <= n /\ (t + 1) - 1 = t
      BY <2>1
    <3>2. t + 1 \in Good
      BY <2>8, <3>1
    <3>3. QED
      BY <3>1, <3>2 DEF Good
  <2>10. [t \in 0 .. n - 1 |-> h[t]] \in [0 .. n - 1 -> Int]
    BY <2>9
  <2>11. QED
    BY <2>3, <2>10 DEF n
<1>3. QED
  BY <1>1, <1>2

(***************************************************************************)
(* A higher call barrier.                                                  *)
(***************************************************************************)
\* Two jobs that differ in their call barriers alone.
Harder(job) == [job EXCEPT !.callBarrier = @ + (Unit \div 4)]

LEMMA HarderIs ==
  ASSUME NEW job \in Jobs
  PROVE  LET hard == Harder(job)
         IN /\ hard.callBarrier \in Int /\ job.callBarrier \in Int
            /\ job.callBarrier <= hard.callBarrier
            /\ hard.locked = job.locked /\ hard.periods = job.periods
            /\ hard.evaluation = job.evaluation /\ hard.expiry = job.expiry
            /\ hard.notional = job.notional /\ hard.quoteScale = job.quoteScale
            /\ hard.equity = job.equity /\ hard.underlyings = job.underlyings
            /\ hard.surfaces = job.surfaces
<1>1. Unit \div 4 \in Nat
  BY UnitAssumption
<1>2. job.callBarrier \in Nat
  BY DEF Jobs
<1>3. Harder(job).callBarrier = job.callBarrier + (Unit \div 4)
  BY DEF Jobs, Harder
<1>4. LET hard == Harder(job)
      IN /\ hard.locked = job.locked /\ hard.periods = job.periods
         /\ hard.evaluation = job.evaluation /\ hard.expiry = job.expiry
         /\ hard.notional = job.notional /\ hard.quoteScale = job.quoteScale
         /\ hard.equity = job.equity /\ hard.underlyings = job.underlyings
         /\ hard.surfaces = job.surfaces
  BY DEF Jobs, Harder
<1>5. QED
  BY <1>1, <1>2, <1>3, <1>4

\* What the coupon reads of a cube.
SoundCube(job, cube) ==
  /\ Steps(cube) \in Nat /\ Steps(cube) >= 2
  /\ IsFiniteSet(DOMAIN cube)
  /\ \A p, q \in DOMAIN cube : \A u \in DOMAIN cube[p] :
       \A t \in 0 .. Steps(cube) - 1 :
         Performance(cube[q][u][t], References(job)[u]) \in Int

LEMMA CallsLater ==
  ASSUME NEW job \in Jobs, NEW cube, SoundCube(job, cube), NEW p \in DOMAIN cube
  PROVE  /\ CallDate(job, cube, p) \in Nat
         /\ CallDate(Harder(job), cube, p) \in Nat
         /\ CallDate(job, cube, p) <= CallDate(Harder(job), cube, p)
<1> DEFINE hard == Harder(job)
           N == Steps(cube)
           Perf(q, t, u) == Performance(cube[q][u][t], References(job)[u])
           Called(b) == {t \in 0 .. N - 1 :
              /\ \E q \in DOMAIN cube, u \in DOMAIN cube[p] : Perf(q, t, u) >= b
              /\ \A u \in DOMAIN cube[p] :
                   job.locked[u] \/ \E r \in 0 .. t : Perf(p, r, u) >= b}
           a == job.callBarrier
           b == hard.callBarrier
<1>1. /\ b \in Int /\ a \in Int /\ a <= b /\ hard.locked = job.locked
      /\ References(hard) = References(job)
  BY HarderIs DEF References
<1>2. /\ N \in Nat
      /\ \A q \in DOMAIN cube, t \in 0 .. N - 1, u \in DOMAIN cube[p] :
           Perf(q, t, u) \in Int
  BY DEF SoundCube
<1>3. /\ CallDate(job, cube, p) = IF Called(a) = {} THEN N ELSE Min(Called(a))
      /\ CallDate(hard, cube, p) = IF Called(b) = {} THEN N ELSE Min(Called(b))
  <2>1. CallDate(job, cube, p) = IF Called(a) = {} THEN N ELSE Min(Called(a))
    BY DEF CallDate
  <2>2. CallDate(hard, cube, p) = IF Called(b) = {} THEN N ELSE Min(Called(b))
    <3> HIDE DEF hard
    <3>1. QED
      BY <1>1 DEF CallDate
  <2>3. QED
    BY <2>1, <2>2
<1> HIDE DEF Perf, hard, N, a, b
<1>4. Called(b) \subseteq Called(a)
  <2>1. SUFFICES ASSUME NEW t \in Called(b) PROVE t \in Called(a)
    OBVIOUS
  <2>2. t \in 0 .. N - 1 /\ \A r \in 0 .. t : r \in 0 .. N - 1
    BY <1>2
  <2>3. \E q \in DOMAIN cube, u \in DOMAIN cube[p] : Perf(q, t, u) >= a
    <3>1. PICK q \in DOMAIN cube, u \in DOMAIN cube[p] : Perf(q, t, u) >= b
      OBVIOUS
    <3>2. Perf(q, t, u) \in Int
      BY <1>2, <2>2
    <3>3. QED
      BY <1>1, <3>1, <3>2
  <2>4. ASSUME NEW u \in DOMAIN cube[p]
        PROVE  job.locked[u] \/ \E r \in 0 .. t : Perf(p, r, u) >= a
    <3>1. CASE job.locked[u]
      BY <3>1
    <3>2. CASE \E r \in 0 .. t : Perf(p, r, u) >= b
      <4>1. PICK r \in 0 .. t : Perf(p, r, u) >= b
        BY <3>2
      <4>2. Perf(p, r, u) \in Int
        BY <1>2, <2>2
      <4>3. Perf(p, r, u) >= a
        BY <1>1, <4>1, <4>2
      <4>4. QED
        BY <4>3
    <3>3. QED
      BY <3>1, <3>2
  <2>5. QED
    BY <2>2, <2>3, <2>4
<1>5. /\ Called(a) \subseteq 0 .. N - 1 /\ Called(b) \subseteq 0 .. N - 1
  OBVIOUS
<1> HIDE DEF Called
<1>6. ASSUME NEW S, S \subseteq 0 .. N - 1, S # {}
      PROVE  Min(S) \in S /\ Min(S) \in Nat /\ Min(S) < N
             /\ \A y \in S : Min(S) <= y
  <2>1. S \subseteq Nat /\ \A y \in S : y < N
    BY <1>2, <1>6
  <2>2. QED
    BY <1>6, <2>1, MinNat
<1>7. CASE Called(b) = {}
  BY <1>2, <1>3, <1>5, <1>6, <1>7 DEF hard
<1>8. CASE Called(b) # {}
  <2>1. Called(a) # {}
    BY <1>4, <1>8
  <2>2. Min(Called(b)) \in Called(b) /\ Min(Called(b)) \in Nat
    BY <1>5, <1>6, <1>8
  <2>3. Min(Called(a)) \in Nat /\ \A y \in Called(a) : Min(Called(a)) <= y
    BY <1>5, <1>6, <2>1
  <2>4. Min(Called(a)) <= Min(Called(b))
    BY <1>4, <2>2, <2>3
  <2>5. QED
    BY <1>3, <1>8, <2>1, <2>2, <2>3, <2>4 DEF hard
<1>9. QED
  BY <1>7, <1>8

LEMMA ClipMono ==
  ASSUME NEW x \in Int, NEW y \in Int, NEW high \in Nat, x <= y
  PROVE  /\ Clip(x, 0, high) \in Nat /\ Clip(y, 0, high) \in Nat
         /\ Clip(x, 0, high) <= Clip(y, 0, high)
<1>1. ASSUME NEW z \in Int
      PROVE  Clip(z, 0, high) = IF z <= 0 THEN 0
                                ELSE IF z <= high THEN z ELSE high
  <2>1. Min({z, high}) = IF z <= high THEN z ELSE high
    BY PairBounds
  <2> DEFINE m == Min({z, high})
  <2>2. m \in Int
    BY <2>1
  <2> HIDE DEF m
  <2>3. Max({0, m}) = IF 0 >= m THEN 0 ELSE m
    BY <2>2, PairBounds
  <2>4. QED
    BY <2>1, <2>3 DEF Clip, m
<1>2. /\ Clip(x, 0, high) = IF x <= 0 THEN 0 ELSE IF x <= high THEN x ELSE high
      /\ Clip(y, 0, high) = IF y <= 0 THEN 0 ELSE IF y <= high THEN y ELSE high
  BY <1>1
<1>3. QED
  BY <1>2

\* A period of a path that is called later pays no less.
LEMMA PaysMore ==
  ASSUME NEW job \in Jobs, NEW steps \in Nat, steps >= 2,
         NEW i \in DOMAIN job.periods, NEW x \in Nat, NEW y \in Nat, x <= y
  PROVE  LET grid == Grid(job.evaluation, job.expiry, steps)
         IN /\ PeriodPays(job, grid, i, x) \in Int
            /\ PeriodPays(job, grid, i, y) \in Int
            /\ PeriodPays(job, grid, i, x) <= PeriodPays(job, grid, i, y)
<1> DEFINE grid == Grid(job.evaluation, job.expiry, steps)
           Terms == [end : Nat, payment : Nat, rate : Nat, paid : Nat,
                     total : Nat, low : Nat, up : Nat]
           begin == BeginStep(job, grid, i)
           end == EndStep(job, grid, i)
           span == Max({end - begin + 1, 1})
           amount == job.notional * job.periods[i].rate
           Pays(c) == (amount * Clip(c - begin + 1, 0, span)) \div span
<1>1. /\ job.evaluation \in Nat /\ job.expiry \in Nat /\ job.notional \in Nat
      /\ job.periods \in Seq(Terms)
  BY DEF Jobs
<1>2. /\ Len(job.periods) \in Nat /\ DOMAIN job.periods = 1 .. Len(job.periods)
      /\ \A j \in DOMAIN job.periods :
           job.periods[j].end \in Nat /\ job.periods[j].rate \in Nat
  <2>1. /\ Len(job.periods) \in Nat /\ DOMAIN job.periods = 1 .. Len(job.periods)
        /\ \A j \in DOMAIN job.periods : job.periods[j] \in Terms
    <3> HIDE DEF Terms
    <3>1. QED
      BY <1>1
  <2>2. QED
    BY <2>1
<1> HIDE DEF Terms
<1>3. /\ grid \in [0 .. steps - 1 -> Int]
      /\ 0 .. steps - 1 \subseteq Nat /\ 0 .. steps - 1 # {}
  <2>1. ASSUME NEW k \in 0 .. steps - 1
        PROVE  job.evaluation + (k * (job.expiry - job.evaluation))
                                  \div (steps - 1) \in Int
    <3>1. steps - 1 \in Nat /\ steps - 1 > 0
      OBVIOUS
    <3>2. k * (job.expiry - job.evaluation) \in Int
      <4>1. job.expiry - job.evaluation \in Int /\ k \in Int
        BY <1>1
      <4>2. \A a, b \in Int : a * b \in Int
        OBVIOUS
      <4>3. QED
        BY <4>1, <4>2
    <3>3. (k * (job.expiry - job.evaluation)) \div (steps - 1) \in Int
      BY <3>1, <3>2, QuotientInt
    <3>4. job.evaluation \in Int
      BY <1>1
    <3>5. QED
      BY <3>3, <3>4
  <2>2. grid \in [0 .. steps - 1 -> Int]
    BY <2>1 DEF Grid
  <2>3. 0 \in 0 .. steps - 1
    OBVIOUS
  <2>4. 0 .. steps - 1 \subseteq Nat
    OBVIOUS
  <2> HIDE DEF grid
  <2>5. 0 .. steps - 1 # {}
    BY <2>3
  <2>6. QED
    BY <2>2, <2>4, <2>5
<1> HIDE DEF grid
<1>4. ASSUME NEW j \in DOMAIN job.periods PROVE EndStep(job, grid, j) \in Int
  <2>1. EndStep(job, grid, j) = Nearest(grid, job.periods[j].end)
    BY DEF EndStep
  <2>2. job.periods[j].end \in Int
    BY <1>2
  <2>3. Nearest(grid, job.periods[j].end) \in 0 .. steps - 1
    BY <1>3, <2>2, NearestIs
  <2>4. QED
    BY <2>1, <2>3
<1>5. end \in Int /\ begin \in Int
  <2>1. i # 1 => i - 1 \in DOMAIN job.periods
    BY <1>2
  <2>2. QED
    BY <1>4, <2>1 DEF BeginStep
<1> HIDE DEF begin, end
<1>6. span \in Nat /\ span > 0
  <2>1. Max({end - begin + 1, 1}) = IF end - begin + 1 >= 1 THEN end - begin + 1
                                    ELSE 1
    <3>1. end - begin + 1 \in Int /\ 1 \in Int
      BY <1>5
    <3>2. QED
      BY <3>1, PairBounds
  <2>2. QED
    BY <1>5, <2>1
<1>7. amount \in Nat
  <2>1. job.notional \in Nat /\ job.periods[i].rate \in Nat
    BY <1>1, <1>2
  <2>2. \A a, b \in Nat : a * b \in Nat
    OBVIOUS
  <2>3. QED
    BY <2>1, <2>2
<1>8. ASSUME NEW c \in Nat
      PROVE  PeriodPays(job, grid, i, c)
               = IF job.periods[i].total <= job.periods[i].paid THEN 0
                 ELSE Pays(c)
  BY DEF PeriodPays, begin, end
<1> HIDE DEF span, amount
<1>9. Pays(x) \in Int /\ Pays(y) \in Int /\ Pays(x) <= Pays(y)
  <2> DEFINE a == Clip(x - begin + 1, 0, span)
             b == Clip(y - begin + 1, 0, span)
  <2>1. a \in Nat /\ b \in Nat /\ a <= b
    <3>1. /\ x - begin + 1 \in Int /\ y - begin + 1 \in Int
          /\ x - begin + 1 <= y - begin + 1
      BY <1>5
    <3>2. QED
      BY <1>6, <3>1, ClipMono
  <2> HIDE DEF a, b
  <2>2. a * amount \in Int /\ b * amount \in Int /\ a * amount <= b * amount
    BY <1>7, <2>1, ProductMono
  <2>3. amount * a = a * amount /\ amount * b = b * amount
    BY <1>7, <2>1
  <2>4. /\ (amount * a) \div span \in Int /\ (amount * b) \div span \in Int
        /\ (amount * a) \div span <= (amount * b) \div span
    BY <1>6, <2>2, <2>3, QuotientInt, QuotientMono
  <2>5. QED
    BY <2>4 DEF a, b
<1> HIDE DEF Pays
<1>10. QED
  BY <1>8, <1>9 DEF grid

(***************************************************************************)
(* The value of the coupon.                                                *)
(***************************************************************************)
\* What the periods of a path called at step c are worth today.
PeriodFlow(job, grid, i, c) ==
  PeriodPays(job, grid, i, c)
    * Discount(job.evaluation, job.periods[i].payment)
CashOn(job, grid, c) ==
  SumFunctionOnSet([i \in DOMAIN job.periods |-> PeriodFlow(job, grid, i, c)],
                   DOMAIN job.periods)
GridOf(job, cube) == Grid(job.evaluation, job.expiry, Steps(cube))

LEMMA CouponIs ==
  ASSUME NEW job, NEW cube
  PROVE  CouponPv(job, cube)
           = (SumFunctionOnSet(
                [p \in DOMAIN cube |->
                   CashOn(job, GridOf(job, cube), CallDate(job, cube, p))],
                DOMAIN cube) * job.quoteScale) \div Max({job.notional, 1})
<1> DEFINE grid == Grid(job.evaluation, job.expiry, Steps(cube))
           Cash(p) == SumOver(
             LAMBDA i : PeriodPays(job, grid, i, CallDate(job, cube, p))
                          * Discount(job.evaluation, job.periods[i].payment),
             DOMAIN job.periods)
           D == DOMAIN cube
<1>1. \A p : Cash(p) = CashOn(job, grid, CallDate(job, cube, p))
  BY DEF SumOver, SumFunction, CashOn, PeriodFlow
<1>2. CouponPv(job, cube)
        = (SumOver(Cash, D) * job.quoteScale) \div Max({job.notional, 1})
  BY DEF CouponPv
<1>3. grid = GridOf(job, cube)
  BY DEF GridOf
<1> HIDE DEF Cash, grid
<1>4. SumOver(Cash, D) = SumFunctionOnSet([p \in D |-> Cash(p)], D)
  BY DEF SumOver, SumFunction
<1>5. [p \in D |-> Cash(p)]
        = [p \in D |-> CashOn(job, grid, CallDate(job, cube, p))]
  BY <1>1
<1>6. QED
  BY <1>2, <1>3, <1>4, <1>5

LEMMA SameCash ==
  ASSUME NEW job \in Jobs, NEW grid, NEW c
  PROVE  CashOn(Harder(job), grid, c) = CashOn(job, grid, c)
<1> DEFINE hard == Harder(job)
<1>1. /\ hard.periods = job.periods /\ hard.notional = job.notional
      /\ hard.evaluation = job.evaluation
  BY HarderIs
<1> HIDE DEF hard
<1>2. \A i : PeriodFlow(hard, grid, i, c) = PeriodFlow(job, grid, i, c)
  BY <1>1 DEF PeriodFlow, PeriodPays, BeginStep, EndStep
<1>3. CashOn(hard, grid, c) = CashOn(job, grid, c)
  BY <1>1, <1>2 DEF CashOn
<1>4. QED
  BY <1>3 DEF hard

\* A payment of a job is worth something.
WorthPaying(job) ==
  \A i \in DOMAIN job.periods :
    Discount(job.evaluation, job.periods[i].payment) >= 0

LEMMA JobPeriods ==
  ASSUME NEW job \in Jobs
  PROVE  /\ IsFiniteSet(DOMAIN job.periods)
         /\ job.evaluation \in Nat /\ job.quoteScale \in Nat
         /\ job.notional \in Nat
         /\ \A i \in DOMAIN job.periods : job.periods[i].payment \in Nat
<1> DEFINE Terms == [end : Nat, payment : Nat, rate : Nat, paid : Nat,
                     total : Nat, low : Nat, up : Nat]
           periods == job.periods
<1>1. /\ job.evaluation \in Nat /\ job.quoteScale \in Nat
      /\ job.notional \in Nat /\ periods \in Seq(Terms)
  BY DEF Jobs
<1> HIDE DEF Terms, periods
<1>2. /\ Len(periods) \in Nat /\ DOMAIN periods = 1 .. Len(periods)
      /\ periods \in [DOMAIN periods -> Terms]
  BY <1>1, SeqIs
<1>3. IsFiniteSet(DOMAIN periods)
  BY <1>2, FS_Interval
<1>4. \A i \in DOMAIN periods : periods[i].payment \in Nat
  BY <1>2 DEF Terms
<1>5. QED
  BY <1>1, <1>3, <1>4 DEF periods

LEMMA CashMore ==
  ASSUME NEW job \in Jobs, WorthPaying(job), NEW steps \in Nat, steps >= 2,
         NEW x \in Nat, NEW y \in Nat, x <= y
  PROVE  LET grid == Grid(job.evaluation, job.expiry, steps)
         IN /\ CashOn(job, grid, x) \in Int /\ CashOn(job, grid, y) \in Int
            /\ CashOn(job, grid, x) <= CashOn(job, grid, y)
<1> DEFINE grid == Grid(job.evaluation, job.expiry, steps)
           I == DOMAIN job.periods
           g == [i \in I |-> PeriodFlow(job, grid, i, x)]
           h == [i \in I |-> PeriodFlow(job, grid, i, y)]
<1>1. ASSUME NEW i \in I
      PROVE  g[i] \in Int /\ h[i] \in Int /\ g[i] <= h[i]
  <2> DEFINE a == PeriodPays(job, grid, i, x)
             b == PeriodPays(job, grid, i, y)
             d == Discount(job.evaluation, job.periods[i].payment)
  <2>1. a \in Int /\ b \in Int /\ a <= b
    BY PaysMore
  <2>2. d \in Nat
    <3>1. job.periods[i].payment \in Nat /\ job.evaluation \in Nat
      BY JobPeriods
    <3> DEFINE gap == job.periods[i].payment - job.evaluation
    <3>2. gap \in Int
      BY <3>1
    <3> HIDE DEF gap
    <3>3. Max({gap, 0}) = IF gap >= 0 THEN gap ELSE 0
      BY <3>2, PairBounds
    <3>4. d = Whole - Max({gap, 0})
      BY DEF Discount, YearFraction, gap
    <3>5. d >= 0
      BY DEF WorthPaying
    <3> HIDE DEF d
    <3>6. QED
      BY <3>2, <3>3, <3>4, <3>5 DEF Whole
  <2>3. g[i] = a * d /\ h[i] = b * d
    BY DEF PeriodFlow
  <2> HIDE DEF a, b, d, g, h
  <2>4. QED
    BY <2>1, <2>2, <2>3, ProductMono
<1>2. IsFiniteSet(I)
  BY JobPeriods
<1>3. CashOn(job, grid, x) = SumFunctionOnSet(g, I)
  BY DEF CashOn
<1>4. CashOn(job, grid, y) = SumFunctionOnSet(h, I)
  BY DEF CashOn
<1> HIDE DEF g, h, I
<1>5. /\ SumFunctionOnSet(g, I) \in Int /\ SumFunctionOnSet(h, I) \in Int
      /\ SumFunctionOnSet(g, I) <= SumFunctionOnSet(h, I)
  BY <1>1, <1>2, SumMono
<1> HIDE DEF grid
<1>6. QED
  BY <1>3, <1>4, <1>5 DEF grid

LEMMA CouponPvMono ==
  ASSUME NEW job \in Jobs, WorthPaying(job), NEW cube, SoundCube(job, cube)
  PROVE  CouponPv(job, cube) <= CouponPv(Harder(job), cube)
<1> DEFINE hard == Harder(job)
           grid == GridOf(job, cube)
           D == DOMAIN cube
           g == [p \in D |-> CashOn(job, grid, CallDate(job, cube, p))]
           h == [p \in D |-> CashOn(job, grid, CallDate(hard, cube, p))]
           scale == job.quoteScale
           face == Max({job.notional, 1})
<1>1. /\ hard.quoteScale = scale /\ hard.notional = job.notional
      /\ GridOf(hard, cube) = grid
  BY HarderIs DEF GridOf
<1>2. CouponPv(job, cube) = (SumFunctionOnSet(g, D) * scale) \div face
  BY CouponIs
<1>3. CouponPv(hard, cube) = (SumFunctionOnSet(h, D) * scale) \div face
  <2>1. [p \in D |-> CashOn(hard, grid, CallDate(hard, cube, p))] = h
    <3>1. \A c : CashOn(hard, grid, c) = CashOn(job, grid, c)
      BY SameCash
    <3> HIDE DEF hard, grid
    <3>2. QED
      BY <3>1
  <2>2. CouponPv(hard, cube)
          = (SumFunctionOnSet(
               [p \in D |-> CashOn(hard, GridOf(hard, cube),
                                   CallDate(hard, cube, p))],
               D) * hard.quoteScale) \div Max({hard.notional, 1})
    BY CouponIs
  <2> HIDE DEF hard, grid, h, scale
  <2>3. QED
    BY <1>1, <2>1, <2>2
<1>4. ASSUME NEW p \in D PROVE g[p] \in Int /\ h[p] \in Int /\ g[p] <= h[p]
  <2> DEFINE c == CallDate(job, cube, p)
             d == CallDate(hard, cube, p)
  <2>1. c \in Nat /\ d \in Nat /\ c <= d
    BY CallsLater
  <2>2. g[p] = CashOn(job, grid, c) /\ h[p] = CashOn(job, grid, d)
    OBVIOUS
  <2>3. Steps(cube) \in Nat /\ Steps(cube) >= 2
    BY DEF SoundCube
  <2> HIDE DEF c, d, g, h
  <2>4. QED
    BY <2>1, <2>2, <2>3, CashMore DEF GridOf
<1>5. IsFiniteSet(D)
  BY DEF SoundCube
<1>6. scale \in Nat /\ face \in Nat /\ face > 0
  <2>1. job.notional \in Nat /\ job.quoteScale \in Nat
    BY JobPeriods
  <2>2. job.notional \in Int /\ 1 \in Int
    BY <2>1
  <2>3. Max({job.notional, 1})
          = IF job.notional >= 1 THEN job.notional ELSE 1
    BY <2>2, PairBounds
  <2>4. QED
    BY <2>1, <2>3
<1> HIDE DEF g, h, D, scale, face, hard
<1> DEFINE a == SumFunctionOnSet(g, D)
           b == SumFunctionOnSet(h, D)
<1>7. a \in Int /\ b \in Int /\ a <= b
  BY <1>4, <1>5, SumMono
<1> HIDE DEF a, b
<1>8. a * scale \in Int /\ b * scale \in Int /\ a * scale <= b * scale
  BY <1>6, <1>7, ProductMono
<1>9. (a * scale) \div face <= (b * scale) \div face
  BY <1>6, <1>8, QuotientMono
<1>10. QED
  BY <1>2, <1>3, <1>9 DEF a, b, hard

(***************************************************************************)
(* The prices a call shows.                                                *)
(***************************************************************************)
\* A job that no basket rule refuses, with a name to price.
Priceable(job) ==
  Sound(job) /\ Len(job.equity) >= 2 /\ ~TooWide(job) /\ WorthPaying(job)

LEMMA JobNames ==
  ASSUME NEW job, Priceable(job)
  PROVE  /\ job \in Jobs /\ DOMAIN job.equity = 1 .. 2
         /\ DOMAIN References(job) = 1 .. 2
         /\ \A u \in 1 .. 2 :
              /\ job.equity[u].spot \in Nat
              /\ References(job)[u] \in Nat /\ References(job)[u] > 0
              /\ SoundSurface(job.surfaces[u])
<1> DEFINE Name == [id : STRING, spot : Nat, reference : Nat \ {0}]
           equity == job.equity
           fixings == job.underlyings
           surfaces == job.surfaces
<1>1. /\ job \in Jobs /\ equity \in Seq(Name) /\ fixings \in Seq(Nat \ {0})
      /\ surfaces \in Seq(Surfaces) /\ Len(equity) >= 2
  BY DEF Priceable, Sound, Jobs
<1>2. /\ DOMAIN equity \subseteq DOMAIN surfaces
      /\ fixings # <<>> => DOMAIN equity \subseteq DOMAIN fixings
      /\ \A u \in DOMAIN surfaces :
           surfaces[u].vol # <<>> =>
             /\ surfaces[u].strikes # <<>>
             /\ \A row \in DOMAIN surfaces[u].vol :
                  DOMAIN surfaces[u].vol[row] = DOMAIN surfaces[u].strikes
  BY DEF Priceable, Sound
<1>3. ~(Max({Len(equity), Len(fixings)}) > 2)
  BY DEF Priceable, TooWide
<1>4. References(job) = IF fixings # <<>> THEN fixings
                        ELSE [u \in DOMAIN equity |-> equity[u].reference]
  BY DEF References
<1> HIDE DEF equity, fixings, surfaces, Name
<1>5. /\ Len(equity) \in Nat /\ DOMAIN equity = 1 .. Len(equity)
      /\ equity \in [DOMAIN equity -> Name]
  BY <1>1, SeqIs
<1>6. /\ Len(fixings) \in Nat /\ DOMAIN fixings = 1 .. Len(fixings)
      /\ fixings \in [DOMAIN fixings -> Nat \ {0}]
  BY <1>1, SeqIs
<1>7. surfaces \in [DOMAIN surfaces -> Surfaces]
  BY <1>1, SeqIs
<1>8. Len(equity) = 2 /\ Len(fixings) <= 2
  <2>1. Len(equity) \in Int /\ Len(fixings) \in Int
    BY <1>5, <1>6
  <2>2. Max({Len(equity), Len(fixings)})
          = IF Len(equity) >= Len(fixings) THEN Len(equity) ELSE Len(fixings)
    BY <2>1, PairBounds
  <2> DEFINE m == Max({Len(equity), Len(fixings)})
             a == Len(equity)
             b == Len(fixings)
  <2>3. m = (IF Len(equity) >= Len(fixings) THEN Len(equity) ELSE Len(fixings))
        /\ ~(m > 2)
    BY <1>3, <2>2
  <2>4. a \in Int /\ b \in Int /\ a >= 2 /\ m = (IF a >= b THEN a ELSE b)
    BY <1>1, <2>1, <2>3
  <2> HIDE DEF m, a, b
  <2>5. a = 2 /\ b <= 2
    BY <2>3, <2>4
  <2>6. QED
    BY <2>5 DEF a, b
<1>9. DOMAIN equity = 1 .. 2
  BY <1>5, <1>8
<1>10. DOMAIN References(job) = 1 .. 2
  <2>1. fixings # <<>> => 2 \in 1 .. Len(fixings)
    BY <1>2, <1>6, <1>9
  <2>2. fixings # <<>> => Len(fixings) = 2
    BY <1>6, <1>8, <2>1
  <2>3. QED
    BY <1>4, <1>6, <1>9, <2>2
<1>11. ASSUME NEW u \in 1 .. 2
       PROVE  /\ equity[u].spot \in Nat
              /\ References(job)[u] \in Nat /\ References(job)[u] > 0
              /\ SoundSurface(surfaces[u])
  <2>1. u \in DOMAIN equity /\ equity[u] \in Name
    BY <1>5, <1>9
  <2>2. equity[u].spot \in Nat /\ equity[u].reference \in Nat \ {0}
    BY <2>1 DEF Name
  <2>3. References(job)[u] \in Nat \ {0}
    BY <1>2, <1>4, <1>6, <2>1, <2>2
  <2>4. u \in DOMAIN surfaces
    BY <1>2, <2>1
  <2>5. SoundSurface(surfaces[u])
    BY <1>2, <1>7, <2>4 DEF SoundSurface
  <2>6. QED
    BY <2>2, <2>3, <2>5
<1>12. QED
  BY <1>1, <1>9, <1>10, <1>11 DEF equity, surfaces

\* A market on whatever spots a caller prices.
LEMMA MarketIs ==
  ASSUME NEW job, Priceable(job), NEW option, option.spots \in [1 .. 2 -> Int],
         option.ratio \in Nat
  PROVE  LET market == MarketOf(job, option)
         IN SoundMarket(market) /\ DOMAIN market.quoted = 1 .. 2
<1> DEFINE market == MarketOf(job, option)
           ratio == option.ratio
<1>1. /\ market.quoted = option.spots /\ market.vols = Vols(job, ratio)
      /\ market.surfaces = job.surfaces
      /\ market.evaluation = job.evaluation
  BY DEF MarketOf
<1> HIDE DEF market
<1>2. /\ job \in Jobs /\ DOMAIN job.equity = 1 .. 2
      /\ \A u \in 1 .. 2 :
           /\ job.equity[u].spot \in Nat
           /\ References(job)[u] \in Nat /\ References(job)[u] > 0
           /\ SoundSurface(job.surfaces[u])
  BY JobNames
<1>3. job.evaluation \in Nat /\ job.expiry \in Nat /\ ratio \in Nat
  BY <1>2 DEF Jobs
<1> HIDE DEF ratio
<1>4. /\ DOMAIN market.quoted = 1 .. 2
      /\ \A u \in 1 .. 2 : market.quoted[u] \in Int
  BY <1>1
<1>5. ASSUME NEW u \in 1 .. 2 PROVE market.vols[u] \in Int
  <2>1. market.vols[u]
          = IF ratio = 0 THEN SurfaceVol(job.surfaces[u], job.equity[u].spot,
                                         job.evaluation + Horizon)
            ELSE SurfaceVol(job.surfaces[u],
                            (ratio * References(job)[u]) \div Unit, job.expiry)
    BY <1>1, <1>2 DEF Vols
  <2>2. job.equity[u].spot \in Int /\ job.evaluation + Horizon \in Int
    BY <1>2, <1>3 DEF Horizon
  <2>3. SurfaceVol(job.surfaces[u], job.equity[u].spot,
                   job.evaluation + Horizon) \in Int
    BY <1>2, <2>2, SurfaceVolInt
  <2> DEFINE strike == (ratio * References(job)[u]) \div Unit
  <2>4. strike \in Int
    <3> DEFINE r == References(job)[u]
    <3>1. r \in Nat
      BY <1>2
    <3> HIDE DEF r
    <3>2. ratio * r \in Int
      BY <1>3, <3>1
    <3>3. Unit \in Nat /\ Unit > 0
      BY UnitAssumption
    <3>4. (ratio * r) \div Unit \in Int
      BY <3>2, <3>3, QuotientInt
    <3>5. QED
      BY <3>4 DEF r
  <2> HIDE DEF strike
  <2>5. SurfaceVol(job.surfaces[u], strike, job.expiry) \in Int
    BY <1>2, <1>3, <2>4, SurfaceVolInt
  <2>6. QED
    BY <2>1, <2>3, <2>5 DEF strike
<1>6. SoundMarket(market)
  BY <1>1, <1>2, <1>3, <1>4, <1>5 DEF SoundMarket
<1>7. QED
  BY <1>4, <1>6 DEF market

LEMMA BaseMarketIs ==
  ASSUME NEW job, Priceable(job), NEW locvol, NEW ratio \in Nat
  PROVE  /\ BaseOption(job, locvol, ratio).spots \in [1 .. 2 -> Int]
         /\ BaseOption(job, locvol, ratio).ratio \in Nat
<1>1. Quotes(job) \in [1 .. 2 -> Int]
  BY JobNames DEF Quotes
<1>2. QED
  BY <1>1 DEF BaseOption

LEMMA PerformanceInt ==
  ASSUME NEW spot \in Int, NEW r \in Nat, r > 0
  PROVE  Performance(spot, r) \in Int
<1>1. spot * Unit \in Int
  BY UnitAssumption
<1>2. (spot * Unit) \div r \in Int
  BY <1>1, QuotientInt
<1>3. QED
  BY <1>2 DEF Performance

LEMMA CubeShape ==
  ASSUME NEW market, SoundMarket(market), DOMAIN market.quoted = 1 .. 2,
         NEW draw, SoundDraw(draw)
  PROVE  LET cube == Simulate(market, draw)
         IN /\ DOMAIN cube = DOMAIN draw /\ IsFiniteSet(DOMAIN draw)
            /\ Steps(cube) \in Nat /\ Steps(cube) >= 2
            /\ \A p \in DOMAIN draw :
                 /\ DOMAIN cube[p] = 1 .. 2
                 /\ \A u \in 1 .. 2 :
                      cube[p][u] \in [0 .. Steps(cube) - 1 -> Int]
<1> DEFINE cube == Simulate(market, draw)
           names == 1 .. 2
           D == DOMAIN draw
           N == Len(draw[1])
<1>2. /\ DOMAIN cube = D
      /\ \A p \in D :
           /\ DOMAIN cube[p] = names
           /\ \A u \in names : cube[p][u] \in [0 .. Len(draw[p]) - 1 -> Int]
  BY CubeIs
<1> HIDE DEF cube
<1>3. 1 \in D /\ IsFiniteSet(D)
  <2>1. draw \in Seq(Seq([1 .. 2 -> Int])) /\ draw # <<>>
    BY DEF SoundDraw
  <2>2. 1 \in D /\ D = 1 .. Len(draw) /\ Len(draw) \in Nat
    BY <2>1, SeqIs
  <2>3. 1 \in Int /\ Len(draw) \in Int
    BY <2>2
  <2>4. IsFiniteSet(1 .. Len(draw))
    BY <2>3, FS_Interval
  <2> HIDE DEF D
  <2>5. QED
    BY <2>2, <2>4
<1>4. /\ N \in Nat /\ N >= 2 /\ \A p \in D : Len(draw[p]) = N
  <2>1. \A p \in D : Len(draw[p]) >= 2 /\ Len(draw[p]) = N
    BY DEF SoundDraw
  <2>2. draw \in Seq(Seq([1 .. 2 -> Int]))
    BY DEF SoundDraw
  <2>3. draw[1] \in Seq([1 .. 2 -> Int])
    BY <1>3, <2>2, SeqIs
  <2>4. N \in Nat
    BY <2>3
  <2>5. QED
    BY <1>3, <2>1, <2>4
<1> HIDE DEF N, D, names
<1>5. Steps(cube) = N
  <2>1. DOMAIN cube[1][1] = 0 .. N - 1
    <3>1. 1 \in names
      BY DEF names
    <3>2. QED
      BY <1>2, <1>3, <1>4, <3>1
  <2>2. Cardinality(0 .. N - 1) = N
    <3>1. 0 \in Int /\ N - 1 \in Int /\ (N - 1) - 0 + 1 = N /\ ~(0 > N - 1)
      BY <1>4
    <3>2. Cardinality(0 .. N - 1) = (N - 1) - 0 + 1
      BY <3>1, FS_Interval
    <3>3. QED
      BY <3>1, <3>2
  <2>3. QED
    BY <2>1, <2>2 DEF Steps
<1>6. QED
  BY <1>2, <1>3, <1>4, <1>5 DEF cube, D, names

LEMMA CubeSound ==
  ASSUME NEW job, Priceable(job), NEW market, SoundMarket(market),
         DOMAIN market.quoted = 1 .. 2, NEW draw, SoundDraw(draw)
  PROVE  SoundCube(job, Simulate(market, draw))
<1> DEFINE cube == Simulate(market, draw)
<1>1. \A u \in 1 .. 2 :
        References(job)[u] \in Nat /\ References(job)[u] > 0
  BY JobNames
<1>2. /\ DOMAIN cube = DOMAIN draw /\ IsFiniteSet(DOMAIN draw)
      /\ Steps(cube) \in Nat /\ Steps(cube) >= 2
      /\ \A p \in DOMAIN draw :
           /\ DOMAIN cube[p] = 1 .. 2
           /\ \A u \in 1 .. 2 : cube[p][u] \in [0 .. Steps(cube) - 1 -> Int]
  BY CubeShape
<1> HIDE DEF cube
<1>3. ASSUME NEW q \in DOMAIN draw, NEW u \in 1 .. 2,
             NEW t \in 0 .. Steps(cube) - 1
      PROVE  Performance(cube[q][u][t], References(job)[u]) \in Int
  <2>1. cube[q][u] \in [0 .. Steps(cube) - 1 -> Int]
    BY <1>2
  <2>2. cube[q][u][t] \in Int
    BY <2>1
  <2>3. QED
    BY <1>1, <2>2, PerformanceInt
<1>4. SoundCube(job, cube)
  BY <1>2, <1>3 DEF SoundCube
<1>5. QED
  BY <1>4 DEF cube

LEMMA HarderMarket ==
  ASSUME NEW job \in Jobs, NEW locvol, NEW ratio
  PROVE  LET hard == Harder(job)
         IN MarketOf(hard, BaseOption(hard, locvol, ratio))
              = MarketOf(job, BaseOption(job, locvol, ratio))
<1> DEFINE hard == Harder(job)
<1>1. /\ hard.equity = job.equity /\ hard.underlyings = job.underlyings
      /\ hard.surfaces = job.surfaces /\ hard.evaluation = job.evaluation
      /\ hard.expiry = job.expiry
  BY HarderIs
<1> HIDE DEF hard
<1>2. References(hard) = References(job) /\ Quotes(hard) = Quotes(job)
  BY <1>1 DEF References, Quotes
<1>3. Vols(hard, ratio) = Vols(job, ratio)
  BY <1>1, <1>2 DEF Vols
<1>4. MarketOf(hard, BaseOption(hard, locvol, ratio))
        = MarketOf(job, BaseOption(job, locvol, ratio))
  BY <1>1, <1>2, <1>3 DEF MarketOf, BaseOption
<1>5. QED
  BY <1>4 DEF hard

\* What a call prices of a job, and of the job with the higher barrier.
CouponOf(job, locvol, ratio, draw) ==
  PriceFixture(job, BaseOption(job, locvol, ratio), draw).legs.COUPON

LEMMA HarderPaysMore ==
  ASSUME NEW job, Priceable(job), NEW locvol \in BOOLEAN, NEW ratio \in Nat,
         NEW draw, SoundDraw(draw)
  PROVE  CouponOf(job, locvol, ratio, draw)
           <= CouponOf(Harder(job), locvol, ratio, draw)
<1> DEFINE market == MarketOf(job, BaseOption(job, locvol, ratio))
           cube == Simulate(market, draw)
           hard == Harder(job)
<1>1. job \in Jobs /\ WorthPaying(job)
  BY JobNames DEF Priceable
<1>2. SoundCube(job, cube)
  <2> DEFINE option == BaseOption(job, locvol, ratio)
  <2>1. option.spots \in [1 .. 2 -> Int] /\ option.ratio \in Nat
    BY BaseMarketIs
  <2> HIDE DEF option
  <2>2. SoundMarket(MarketOf(job, option))
        /\ DOMAIN MarketOf(job, option).quoted = 1 .. 2
    BY <2>1, MarketIs
  <2>3. QED
    BY <2>2, CubeSound DEF option
<1>3. MarketOf(hard, BaseOption(hard, locvol, ratio)) = market
  BY <1>1, HarderMarket
<1> HIDE DEF market, hard
<1>4. CouponOf(job, locvol, ratio, draw) = CouponPv(job, cube)
  BY DEF CouponOf, PriceFixture, PriceMarket, PriceCube, TerminalLegs, market
<1>5. CouponOf(hard, locvol, ratio, draw) = CouponPv(hard, cube)
  BY <1>3 DEF CouponOf, PriceFixture, PriceMarket, PriceCube, TerminalLegs
<1> HIDE DEF cube
<1>6. QED
  BY <1>1, <1>2, <1>4, <1>5, CouponPvMono DEF hard

\* What the bumped result of a call shows as its coupon.
LEMMA CouponShown ==
  ASSUME NEW book, NEW locvol, NEW ratio, NEW draw
  PROVE  PricingAndSensitivity(book, locvol, ratio, draw)
           .bumped.base.legs.COUPON
           = CouponOf(book[IF Len(book) >= 3 THEN 3 ELSE 1],
                      locvol, ratio, draw)
<1> DEFINE option == BaseOption(book[1], locvol, ratio)
           result == BumpResult(book[1], option, draw)
           coupon == IF Len(book) >= 3
                     THEN PriceFixture(book[3],
                                       BaseOption(book[3], locvol, ratio),
                                       draw).legs.COUPON
                     ELSE result.base.legs.COUPON
           base == PriceFixture(book[1], option, draw)
<1>1. PricingAndSensitivity(book, locvol, ratio, draw).bumped
        = [result EXCEPT !.base.legs.COUPON = coupon]
  BY DEF PricingAndSensitivity
<1>2. result.base = base
  BY DEF BumpResult, Bumped
<1>3. "base" \in DOMAIN result
  BY DEF BumpResult, Bumped
<1>4. "legs" \in DOMAIN base /\ "COUPON" \in DOMAIN base.legs
  BY DEF PriceFixture, PriceMarket, PriceCube, TerminalLegs
<1>5. coupon = CouponOf(book[IF Len(book) >= 3 THEN 3 ELSE 1],
                        locvol, ratio, draw)
  <2> HIDE DEF result, option
  <2>1. coupon = IF Len(book) >= 3
                 THEN CouponOf(book[3], locvol, ratio, draw)
                 ELSE base.legs.COUPON
    BY <1>2 DEF CouponOf
  <2>2. base.legs.COUPON = CouponOf(book[1], locvol, ratio, draw)
    BY DEF CouponOf, option
  <2>3. QED
    BY <2>1, <2>2
<1> HIDE DEF result, coupon, base, option
<1>6. [result EXCEPT !.base.legs.COUPON = coupon].base.legs.COUPON = coupon
  BY <1>2, <1>3, <1>4
<1>7. QED
  BY <1>1, <1>5, <1>6

LEMMA BooksPriceable ==
  ASSUME NEW book \in Books, NEW j \in DOMAIN book, ~TooWide(book[j])
  PROVE  Priceable(book[j])
BY BooksAssumption DEF Priceable, WorthPaying

LEMMA BookHasLegs ==
  ASSUME NEW book \in Books
  PROVE  1 \in DOMAIN book /\ (IF Len(book) >= 3 THEN 3 ELSE 1) \in DOMAIN book
<1>1. book # <<>> /\ book \in Seq(Jobs)
  BY BooksAssumption
<1>2. Len(book) \in Nat /\ DOMAIN book = 1 .. Len(book) /\ 1 \in DOMAIN book
  BY <1>1, SeqIs
<1>3. QED
  BY <1>2

LEMMA LaterStep == LaterCallsPayMore /\ [Next]_vars => LaterCallsPayMore'
<1> SUFFICES ASSUME LaterCallsPayMore, [Next]_vars PROVE LaterCallsPayMore'
  OBVIOUS
<1>1. CASE UNCHANGED deskVars
  BY <1>1 DEF deskVars, LaterCallsPayMore, Priced
<1>2. CASE Answered
  BY <1>2 DEF Answered, None, LaterCallsPayMore, Priced
<1>3. CASE Tool
  <2>1. ASSUME NEW book \in Books, NEW draw \in Draws, NEW locvol \in BOOLEAN,
               NEW ratio \in Ratios, PricingTool(book, locvol, ratio, draw)
        PROVE  LaterCallsPayMore'
    <3> DEFINE leg == IF Len(book) >= 3 THEN 3 ELSE 1
               hard == Harder(book[leg])
    <3>1. SUFFICES ASSUME reply' # Raised
                   PROVE  reply'.bumped.base.legs.COUPON
                            <= CouponOf(hard, locvol, ratio, draw)
      <4>1. /\ call'.book = book /\ call'.locvol = locvol
            /\ call'.ratio = ratio /\ call'.draw = draw
        BY <2>1 DEF PricingTool, Reply
      <4>2. QED
        BY <3>1, <4>1 DEF LaterCallsPayMore, Priced, Harder, CouponOf
    <3>2. leg \in DOMAIN book /\ leg \in PricedJobs(book)
      BY BookHasLegs DEF PricedJobs
    <3> HIDE DEF leg
    <3>3. ~TooWide(book[leg])
      BY <2>1, <3>1, <3>2 DEF PricingTool, Reply
    <3>4. Priceable(book[leg])
      BY <3>2, <3>3, BooksPriceable
    <3>5. reply'.bumped = PricingAndSensitivity(book, locvol, ratio, draw).bumped
      BY <2>1, <3>1 DEF PricingTool, Reply
    <3>6. PricingAndSensitivity(book, locvol, ratio, draw).bumped.base.legs.COUPON
            = CouponOf(book[leg], locvol, ratio, draw)
      BY CouponShown DEF leg
    <3>7. CouponOf(book[leg], locvol, ratio, draw)
            <= CouponOf(hard, locvol, ratio, draw)
      <4>1. ratio \in Nat /\ SoundDraw(draw)
        BY BooksAssumption DEF SoundDraw
      <4>2. QED
        BY <3>4, <4>1, HarderPaysMore
    <3> HIDE DEF hard
    <3>8. QED
      BY <3>5, <3>6, <3>7
  <2>2. ASSUME NEW book \in Books, NEW draw \in Draws, RunRiskSingle(book, draw)
        PROVE  LaterCallsPayMore'
    <3> DEFINE single == <<book[1]>>
               hard == Harder(book[1])
    <3>1. SUFFICES ASSUME reply' # Raised
                   PROVE  reply'.bumped.base.legs.COUPON
                            <= CouponOf(hard, TRUE, 0, draw)
      <4>1. /\ call'.book = single /\ call'.locvol = TRUE
            /\ call'.ratio = 0 /\ call'.draw = draw
        BY <2>2 DEF RunRiskSingle, Reply
      <4>2. Len(single) = 1 /\ single[1] = book[1] /\ ~(1 >= 3)
        OBVIOUS
      <4> HIDE DEF single
      <4>3. QED
        BY <3>1, <4>1, <4>2, ZenonT(60)
           DEF LaterCallsPayMore, Priced, Harder, CouponOf
    <3>2. 1 \in DOMAIN book
      BY BookHasLegs
    <3>3. ~TooWide(book[1])
      BY <2>2, <3>1 DEF RunRiskSingle, Reply
    <3>4. Priceable(book[1])
      BY <3>2, <3>3, BooksPriceable
    <3>5. reply' = PricingAndSensitivity(single, TRUE, 0, draw)
      BY <2>2, <3>1 DEF RunRiskSingle, Reply
    <3>6. PricingAndSensitivity(single, TRUE, 0, draw).bumped.base.legs.COUPON
            = CouponOf(book[1], TRUE, 0, draw)
      <4>1. Len(single) = 1 /\ single[1] = book[1] /\ ~(1 >= 3)
        OBVIOUS
      <4> HIDE DEF single
      <4>2. PricingAndSensitivity(single, TRUE, 0, draw).bumped.base.legs.COUPON
              = CouponOf(single[IF Len(single) >= 3 THEN 3 ELSE 1],
                         TRUE, 0, draw)
        BY CouponShown
      <4>3. QED
        BY <4>1, <4>2
    <3>7. CouponOf(book[1], TRUE, 0, draw) <= CouponOf(hard, TRUE, 0, draw)
      <4>1. 0 \in Nat /\ TRUE \in BOOLEAN /\ SoundDraw(draw)
        BY BooksAssumption DEF SoundDraw
      <4>2. QED
        BY <3>4, <4>1, HarderPaysMore
    <3> HIDE DEF hard, single
    <3>8. QED
      BY <3>5, <3>6, <3>7
  <2>3. \/ \E book \in Books, draw \in Draws, locvol \in BOOLEAN, ratio \in Ratios :
             PricingTool(book, locvol, ratio, draw)
        \/ \E book \in Books, draw \in Draws : RunRiskSingle(book, draw)
        \/ call'.tool \notin {"pricing_and_sensitivity", "single"}
    BY <1>3, ToolIs
  <2>4. QED
    BY <2>1, <2>2, <2>3 DEF LaterCallsPayMore, Priced
<1>4. QED
  BY <1>1, <1>2, <1>3, DeskSteps

\* Whatever is priced on whatever market, draw and volatility, a note with a
\* higher call barrier, its locks and the paths the same, shows no lower
\* coupon.
THEOREM HarderCallPaysMore == Spec => []LaterCallsPayMore
<1>1. Init => LaterCallsPayMore
  BY DEF Init, None, LaterCallsPayMore, Priced
<1>2. QED
  BY <1>1, LaterStep, PTL DEF Spec

(***************************************************************************)
(* The Taylor P&L of the rows.  What a job is worth is a whole number.     *)
(***************************************************************************)
Option(option) ==
  option \in [spots : [1 .. 2 -> Int], locvol : BOOLEAN, ratio : Nat]

LEMMA DiscountInt ==
  ASSUME NEW a \in Int, NEW b \in Int
  PROVE  Discount(a, b) \in Int
<1>1. b - a \in Int /\ 0 \in Int
  OBVIOUS
<1>2. Max({b - a, 0}) = IF b - a >= 0 THEN b - a ELSE 0
  BY <1>1, PairBounds
<1>3. QED
  BY <1>1, <1>2 DEF Discount, YearFraction, Whole

LEMMA WorstInt ==
  ASSUME NEW spots \in [1 .. 2 -> Int], NEW refs, DOMAIN refs = 1 .. 2,
         \A u \in 1 .. 2 : refs[u] \in Nat /\ refs[u] > 0
  PROVE  Worst(spots, refs) \in Int
<1> DEFINE a == Performance(spots[1], refs[1])
           b == Performance(spots[2], refs[2])
<1>1. 1 \in 1 .. 2 /\ 2 \in 1 .. 2 /\ \A u \in 1 .. 2 : u = 1 \/ u = 2
  OBVIOUS
<1>2. a \in Int /\ b \in Int
  <2>1. \A u \in 1 .. 2 : spots[u] \in Int
    OBVIOUS
  <2>2. QED
    BY <1>1, <2>1, PerformanceInt
<1>3. {Performance(spots[u], refs[u]) : u \in DOMAIN refs} = {a, b}
  BY <1>1
<1> HIDE DEF a, b
<1>4. Min({a, b}) = IF a <= b THEN a ELSE b
  BY <1>2, PairBounds
<1>5. QED
  BY <1>2, <1>3, <1>4 DEF Worst

LEMMA IntrinsicInt ==
  ASSUME NEW worst \in Int, NEW strike \in Int
  PROVE  Intrinsic(worst, strike) \in Int
<1>1. strike - worst \in Int /\ 0 \in Int
  OBVIOUS
<1>2. Max({strike - worst, 0}) = IF strike - worst >= 0 THEN strike - worst ELSE 0
  BY <1>1, PairBounds
<1>3. QED
  BY <1>1, <1>2 DEF Intrinsic

\* The last spots of a cube.
LastOf(cube) == [p \in DOMAIN cube |-> At(cube, p, Steps(cube) - 1)]

LEMMA LastIs ==
  ASSUME NEW market, SoundMarket(market), DOMAIN market.quoted = 1 .. 2,
         NEW draw, SoundDraw(draw)
  PROVE  LET cube == Simulate(market, draw)
         IN /\ DOMAIN cube = DOMAIN draw /\ IsFiniteSet(DOMAIN draw)
            /\ LastOf(cube) \in [DOMAIN draw -> [1 .. 2 -> Int]]
<1> DEFINE cube == Simulate(market, draw)
<1>1. /\ DOMAIN cube = DOMAIN draw /\ IsFiniteSet(DOMAIN draw)
      /\ Steps(cube) \in Nat /\ Steps(cube) >= 2
      /\ \A p \in DOMAIN draw :
           /\ DOMAIN cube[p] = 1 .. 2
           /\ \A u \in 1 .. 2 : cube[p][u] \in [0 .. Steps(cube) - 1 -> Int]
  BY CubeShape
<1> HIDE DEF cube
<1>2. Steps(cube) - 1 \in 0 .. Steps(cube) - 1
  BY <1>1
<1>3. ASSUME NEW p \in DOMAIN draw
      PROVE  At(cube, p, Steps(cube) - 1) \in [1 .. 2 -> Int]
  <2>1. \A u \in 1 .. 2 : cube[p][u][Steps(cube) - 1] \in Int
    BY <1>1, <1>2
  <2>2. At(cube, p, Steps(cube) - 1)
          = [u \in 1 .. 2 |-> cube[p][u][Steps(cube) - 1]]
    BY <1>1 DEF At
  <2>3. QED
    BY <2>1, <2>2
<1>4. LastOf(cube) \in [DOMAIN draw -> [1 .. 2 -> Int]]
  BY <1>1, <1>3 DEF LastOf
<1>5. QED
  BY <1>1, <1>4 DEF cube

LEMMA PricesAreInt ==
  ASSUME NEW job, Priceable(job), NEW option, Option(option),
         NEW draw, SoundDraw(draw)
  PROVE  LET price == PriceFixture(job, option, draw)
         IN PutPrice(price) \in Int /\ price.adjoint \in [1 .. 2 -> Int]
<1> DEFINE market == MarketOf(job, option)
           cube == Simulate(market, draw)
           last == [p \in DOMAIN cube |-> At(cube, p, Steps(cube) - 1)]
           refs == References(job)
           df == Discount(job.evaluation, job.expiry)
           strike == job.strike
           price == PriceFixture(job, option, draw)
           D == DOMAIN draw
           worst == [p \in DOMAIN last |-> Worst(last[p], refs)]
           pays == {p \in DOMAIN last : worst[p] <= job.kiBarrier}
           put == [p \in pays |-> Intrinsic(worst[p], strike)]
           moves(u) == {p \in DOMAIN last :
                          /\ Worst(last[p], refs) < strike
                          /\ Worst(last[p], refs) <= job.kiBarrier
                          /\ WorstName(last[p], refs) = u}
           move(u) == [p \in moves(u) |-> Performance(last[p][u], refs[u])]
<1>1. SoundMarket(market) /\ DOMAIN market.quoted = 1 .. 2
  BY MarketIs DEF Option
<1>2. /\ DOMAIN cube = D /\ IsFiniteSet(D) /\ last \in [D -> [1 .. 2 -> Int]]
  BY <1>1, LastIs DEF LastOf
<1>3. /\ DOMAIN job.equity = 1 .. 2 /\ DOMAIN refs = 1 .. 2
      /\ \A u \in 1 .. 2 : refs[u] \in Nat /\ refs[u] > 0
      /\ strike \in Int /\ job.evaluation \in Int /\ job.expiry \in Int
  <2>1. job \in Jobs
    BY JobNames
  <2>2. strike \in Int /\ job.evaluation \in Int /\ job.expiry \in Int
    BY <2>1 DEF Jobs
  <2>3. QED
    BY <2>2, JobNames
<1>4. df \in Int
  BY <1>3, DiscountInt
<1>5. market.references = refs
  BY DEF MarketOf
<1> HIDE DEF market
<1>6. price.legs.PUT = 0 - df * SumFunctionOnSet(put, pays)
  BY <1>5 DEF PriceFixture, PriceMarket, PriceCube, TerminalLegs, SumOver,
              SumFunction, market
<1>7. price.adjoint = [u \in DOMAIN job.equity |->
                         0 - df * SumFunctionOnSet(move(u), moves(u))]
  BY <1>5 DEF PriceFixture, PriceMarket, PriceCube, AdjointDollar, SumOver,
              SumFunction, market
<1> HIDE DEF price, cube, last, refs, df, strike
<1>8. DOMAIN last = D /\ \A p \in D : worst[p] = Worst(last[p], refs)
  BY <1>2
<1>9. \A p \in D : worst[p] \in Int
  <2>1. ASSUME NEW p \in D PROVE worst[p] \in Int
    <3>1. last[p] \in [1 .. 2 -> Int]
      BY <1>2
    <3>2. Worst(last[p], refs) \in Int
      BY <1>3, <3>1, WorstInt
    <3>3. QED
      BY <1>8, <3>2
  <2>2. QED
    BY <2>1
<1>10. SumFunctionOnSet(put, pays) \in Int
  <2>1. IsFiniteSet(pays) /\ pays \subseteq D
    BY <1>2, <1>8, FS_Subset
  <2>2. \A p \in pays : put[p] \in Int
    BY <1>3, <1>9, <2>1, IntrinsicInt
  <2> HIDE DEF put, pays
  <2>3. QED
    BY <2>1, <2>2, SumTake
<1>11. ASSUME NEW u \in 1 .. 2 PROVE SumFunctionOnSet(move(u), moves(u)) \in Int
  <2>1. IsFiniteSet(moves(u)) /\ moves(u) \subseteq D
    BY <1>2, <1>8, FS_Subset
  <2>2. \A p \in moves(u) : move(u)[p] \in Int
    <3>1. ASSUME NEW p \in D PROVE Performance(last[p][u], refs[u]) \in Int
      <4>1. last[p] \in [1 .. 2 -> Int]
        BY <1>2
      <4>2. last[p][u] \in Int
        BY <4>1
      <4>3. QED
        BY <1>3, <4>2, PerformanceInt
    <3>2. QED
      BY <2>1, <3>1
  <2> HIDE DEF move, moves
  <2>3. QED
    BY <2>1, <2>2, SumTake
<1> HIDE DEF put, pays, move, moves, worst
<1>12. \A x \in Int : 0 - df * x \in Int /\ 0 - (0 - df * x) \in Int
  BY <1>4
<1>13. PutPrice(price) \in Int
  BY <1>6, <1>10, <1>12 DEF PutPrice
<1>14. price.adjoint \in [1 .. 2 -> Int]
  BY <1>3, <1>7, <1>11, <1>12
<1>15. QED
  BY <1>13, <1>14 DEF price

LEMMA ShiftedIs ==
  ASSUME NEW option, Option(option), NEW u \in 1 .. 2, NEW sign \in {-1, 1}
  PROVE  Option(Shifted(option, u, sign))
<1> DEFINE spots == option.spots
           moved == (spots[u] * (10 + sign * Bump)) \div 10
<1>1. spots \in [1 .. 2 -> Int] /\ option.ratio \in Nat
  BY DEF Option
<1>2. Shifted(option, u, sign)
        = [option EXCEPT !.spots = [spots EXCEPT ![u] = moved]]
  BY DEF Shifted
<1>3. moved \in Int
  <2>1. spots[u] \in Int /\ 10 + sign * Bump \in Int
    BY <1>1 DEF Bump
  <2> DEFINE a == spots[u]
             b == 10 + sign * Bump
  <2> HIDE DEF a, b
  <2>2. a * b \in Int
    BY <2>1 DEF a, b
  <2>3. (a * b) \div 10 \in Int
    BY <2>2, QuotientInt
  <2>4. QED
    BY <2>3 DEF a, b
<1> HIDE DEF moved, spots
<1>4. [spots EXCEPT ![u] = moved] \in [1 .. 2 -> Int]
  BY <1>1, <1>3
<1>5. QED
  BY <1>2, <1>4 DEF Option

\* The bumps of a job and its forecast.
LEMMA BumpIs ==
  ASSUME NEW job, Priceable(job), NEW option, Option(option),
         NEW draw, SoundDraw(draw)
  PROVE  LET result == BumpResult(job, option, draw)
         IN /\ result.names = 1 .. 2
            /\ \A u \in 1 .. 2 : Contribution(result, u) \in Int
            /\ result.forecast = Contribution(result, 1) + Contribution(result, 2)
<1> DEFINE Price(u, sign) ==
             PutPrice(PriceFixture(job, Shifted(option, u, sign), draw))
           base == PriceFixture(job, option, draw)
           names == DOMAIN job.equity
           up == [u \in names |-> Price(u, 1)]
           down == [u \in names |-> Price(u, -1)]
           fd == [u \in names |-> ((up[u] - down[u]) * 10) \div (2 * Bump)]
           selected == IF XadAvailable THEN base.adjoint ELSE fd
           result == BumpResult(job, option, draw)
           share == [u \in names |-> (selected[u] * Bump) \div 10]
<1>1. names = 1 .. 2
  BY JobNames
<1>2. base.adjoint \in [1 .. 2 -> Int]
  BY PricesAreInt
<1>3. ASSUME NEW u \in 1 .. 2, NEW sign \in {-1, 1} PROVE Price(u, sign) \in Int
  BY ShiftedIs, PricesAreInt
<1>4. /\ result.names = names /\ result.selected = selected
      /\ result.forecast = SumFunctionOnSet(share, names)
  <2>1. result = Bumped(job, base, up, down)
    BY DEF BumpResult
  <2> HIDE DEF base, up, down, result
  <2>2. result.names = names /\ result.selected = selected
    BY <2>1 DEF Bumped
  <2>3. result.forecast = SumOver(LAMBDA u : (selected[u] * Bump) \div 10, names)
    BY <2>1 DEF Bumped
  <2> HIDE DEF selected, names
  <2>4. SumOver(LAMBDA u : (selected[u] * Bump) \div 10, names)
          = SumFunctionOnSet(share, names)
    BY DEF SumOver, SumFunction
  <2>5. QED
    BY <2>2, <2>3, <2>4
<1> HIDE DEF Price, base, result, names
<1>5. ASSUME NEW u \in 1 .. 2 PROVE fd[u] \in Int
  <2>1. up[u] \in Int /\ down[u] \in Int
    <3>1. up[u] = Price(u, 1) /\ down[u] = Price(u, -1)
      BY <1>1
    <3>2. QED
      BY <1>3, <3>1
  <2>2. fd[u] = ((up[u] - down[u]) * 10) \div (2 * Bump)
    BY <1>1
  <2> HIDE DEF up, down, fd
  <2>3. (up[u] - down[u]) * 10 \in Int /\ 2 * Bump \in Nat /\ 2 * Bump > 0
    BY <2>1 DEF Bump
  <2>4. ((up[u] - down[u]) * 10) \div (2 * Bump) \in Int
    BY <2>3, QuotientInt
  <2>5. QED
    BY <2>2, <2>4
<1> HIDE DEF up, down, fd
<1>6. \A u \in 1 .. 2 : selected[u] \in Int
  BY <1>2, <1>5
<1> HIDE DEF selected
<1>7. ASSUME NEW u \in 1 .. 2
      PROVE  /\ share[u] \in Int /\ Contribution(result, u) = share[u]
  <2>1. share[u] = (selected[u] * Bump) \div 10
    BY <1>1
  <2>2. selected[u] * Bump \in Int
    BY <1>6 DEF Bump
  <2>3. (selected[u] * Bump) \div 10 \in Int
    BY <2>2, QuotientInt
  <2>4. QED
    BY <1>4, <2>1, <2>3 DEF Contribution
<1>8. 1 \in 1 .. 2 /\ 2 \in 1 .. 2
  OBVIOUS
<1> HIDE DEF share
<1>9. SumFunctionOnSet(share, 1 .. 2) = share[1] + share[2]
  BY <1>7, <1>8, SumTwo
<1>10. QED
  BY <1>1, <1>4, <1>7, <1>8, <1>9 DEF result

\* Views of two rows each, with a key and a total.
Tabled(views) ==
  /\ IsFiniteSet(DOMAIN views) /\ DOMAIN views \subseteq Nat
  /\ \A v \in DOMAIN views :
       /\ DOMAIN views[v].wide = 1 .. 2
       /\ \A u \in 1 .. 2 :
            /\ {"key", "total"} \subseteq DOMAIN views[v].wide[u]
            /\ views[v].wide[u].total \in Int

LEMMA TotalsAddUp ==
  ASSUME NEW views, Tabled(views)
  PROVE  LET wide == AggregateRiskViews(views).wide
         IN SumOver(LAMBDA key : (CHOOSE row \in wide : row.key = key).total,
                    {row.key : row \in wide})
              = SumFunctionOnSet(
                  [v \in DOMAIN views |->
                     views[v].wide[1].total + views[v].wide[2].total],
                  DOMAIN views)
<1> DEFINE D == DOMAIN views
           Places == UNION {{v} \X DOMAIN views[v].wide : v \in D}
           Row(at) == views[at[1]].wide[at[2]]
           Of(key) == {at \in Places : Row(at).key = key}
           First(key) == CHOOSE at \in Of(key) :
                           \A other \in Of(key) : at[1] <= other[1]
           Sum(key) == Added(Row(First(key)), [at \in Of(key) |-> Row(at)])
           keys == {Row(at).key : at \in Places}
           wide == AggregateRiskViews(views).wide
           g == [at \in Places |-> Row(at).total]
           k == [at \in Places |-> Row(at).key]
           w == [at \in Places |-> at[1]]
           part == [key \in keys |-> SumFunctionOnSet(g, Of(key))]
<1>1. wide = {Sum(key) : key \in keys}
  BY ZenonT(60) DEF AggregateRiskViews
<1>2. /\ Places = D \X (1 .. 2) /\ IsFiniteSet(Places)
      /\ \A at \in Places : at[1] \in D /\ at[1] \in Nat /\ at[2] \in 1 .. 2
  <2>1. Places = D \X (1 .. 2)
    <3>1. \A v \in D : DOMAIN views[v].wide = 1 .. 2
      BY DEF Tabled
    <3>2. Places = UNION {{v} \X (1 .. 2) : v \in D}
      BY <3>1
    <3>3. UNION {{v} \X (1 .. 2) : v \in D} = D \X (1 .. 2)
      OBVIOUS
    <3>4. QED
      BY <3>2, <3>3
  <2>2. IsFiniteSet(D) /\ IsFiniteSet(1 .. 2) /\ D \subseteq Nat
    <3>1. 1 \in Int /\ 2 \in Int
      OBVIOUS
    <3>2. IsFiniteSet(1 .. 2)
      BY <3>1, FS_Interval
    <3>3. QED
      BY <3>2 DEF Tabled
  <2> HIDE DEF Places, D
  <2>3. IsFiniteSet(Places)
    BY <2>1, <2>2, FS_Product
  <2>4. QED
    BY <2>1, <2>2, <2>3
<1>3. \A at \in Places : /\ {"key", "total"} \subseteq DOMAIN Row(at)
                         /\ Row(at).total \in Int
  <2>1. \A v \in D, u \in 1 .. 2 :
          /\ {"key", "total"} \subseteq DOMAIN views[v].wide[u]
          /\ views[v].wide[u].total \in Int
    BY DEF Tabled
  <2>2. QED
    BY <1>2, <2>1
<1> HIDE DEF Places, Row, D
<1>4. ASSUME NEW key \in keys
      PROVE  First(key) \in Places /\ Row(First(key)).key = key
  <2> DEFINE Views == {at[1] : at \in Of(key)}
  <2>1. Views # {} /\ Views \subseteq Nat
    BY <1>2
  <2> HIDE DEF Views
  <2>2. PICK v \in Views : \A x \in Views : v <= x
    BY <2>1, LeastNat
  <2>3. \E at \in Of(key) : \A other \in Of(key) : at[1] <= other[1]
    BY <2>2 DEF Views
  <2>4. First(key) \in Of(key)
    BY <2>3
  <2>5. QED
    BY <2>4
<1> HIDE DEF First
<1>5. ASSUME NEW key \in keys
      PROVE  Sum(key).key = key /\ Sum(key).total = part[key]
  <2> DEFINE S == Of(key)
             table == [at \in S |-> Row(at)]
             first == Row(First(key))
             totals == [at \in S |-> Row(at).total]
  <2>1. {"key", "total"} \subseteq DOMAIN first /\ first.key = key
    BY <1>3, <1>4
  <2> HIDE DEF first
  <2>2. /\ Added(first, table).key = first.key
        /\ Added(first, table).total = SumOver(LAMBDA at : table[at].total, DOMAIN table)
    BY <2>1 DEF Added
  <2>3. SumOver(LAMBDA at : table[at].total, DOMAIN table)
          = SumFunctionOnSet([at \in DOMAIN table |-> table[at].total], DOMAIN table)
    BY DEF SumOver, SumFunction
  <2>4. DOMAIN table = S /\ [at \in DOMAIN table |-> table[at].total] = totals
    OBVIOUS
  <2>5. SumFunctionOnSet(totals, S) = SumFunctionOnSet(g, S)
    <3>1. IsFiniteSet(S) /\ S \subseteq Places
      BY <1>2, FS_Subset
    <3>2. \A at \in S : totals[at] \in Int /\ g[at] = totals[at]
      BY <1>3, <3>1
    <3> HIDE DEF S, totals, g
    <3>3. QED
      BY <3>1, <3>2, SumSame
  <2>6. part[key] = SumFunctionOnSet(g, S)
    OBVIOUS
  <2> HIDE DEF table, totals, S, g, part
  <2>7. QED
    BY <2>1, <2>2, <2>3, <2>4, <2>5, <2>6 DEF first, table, S
<1> HIDE DEF Sum
<1>6. /\ {row.key : row \in wide} = keys
      /\ \A key \in keys :
           (CHOOSE row \in wide : row.key = key).total = part[key]
  <2> HIDE DEF wide, keys, part
  <2>1. {row.key : row \in wide} = keys
    BY <1>1, <1>5
  <2>2. ASSUME NEW key \in keys
        PROVE  (CHOOSE row \in wide : row.key = key) = Sum(key)
    <3>1. Sum(key) \in wide /\ Sum(key).key = key
      BY <1>1, <1>5
    <3>2. \A row \in wide : row.key = key => row = Sum(key)
      BY <1>1, <1>5
    <3>3. QED
      BY <3>1, <3>2
  <2>3. QED
    BY <1>5, <2>1, <2>2
<1>7. SumOver(LAMBDA key : (CHOOSE row \in wide : row.key = key).total,
              {row.key : row \in wide})
        = SumFunctionOnSet(part, keys)
  <2> DEFINE chosen == [key \in keys |->
                          (CHOOSE row \in wide : row.key = key).total]
  <2>1. SumOver(LAMBDA key : (CHOOSE row \in wide : row.key = key).total, keys)
          = SumFunctionOnSet(chosen, keys)
    BY DEF SumOver, SumFunction
  <2>2. chosen = part
    <3>1. \A key \in keys : chosen[key] = part[key]
      BY <1>6
    <3> HIDE DEF wide, keys
    <3>2. QED
      BY <3>1
  <2> HIDE DEF wide, keys, part, chosen
  <2>3. QED
    BY <1>6, <2>1, <2>2
<1>8. \A at \in Places : g[at] \in Int
  BY <1>3
<1>9. SumFunctionOnSet(part, keys) = SumFunctionOnSet(g, Places)
  <2>1. /\ {k[y] : y \in Places} = keys
        /\ \A key : {y \in Places : k[y] = key} = Of(key)
    OBVIOUS
  <2>2. SumFunctionOnSet(
          [key \in {k[y] : y \in Places} |->
             SumFunctionOnSet(g, {y \in Places : k[y] = key})],
          {k[y] : y \in Places})
          = SumFunctionOnSet(g, Places)
    <3> HIDE DEF g, k
    <3>1. QED
      BY <1>2, <1>8, SumByKey
  <2> HIDE DEF g, k, keys, Of
  <2>3. [key \in {k[y] : y \in Places} |->
           SumFunctionOnSet(g, {y \in Places : k[y] = key})] = part
    BY <2>1
  <2>4. QED
    BY <2>1, <2>2, <2>3
<1>10. ASSUME NEW v \in D
       PROVE  SumFunctionOnSet(g, {y \in Places : w[y] = v})
                = views[v].wide[1].total + views[v].wide[2].total
  <2> DEFINE a == <<v, 1>>
             b == <<v, 2>>
  <2>1. a \in Places /\ b \in Places /\ a # b
    BY <1>2
  <2>2. {y \in Places : w[y] = v} = {a, b}
    <3>1. ASSUME NEW y \in Places PROVE w[y] = v <=> y = a \/ y = b
      <4>1. PICK x \in D, u \in 1 .. 2 : y = <<x, u>>
        BY <1>2
      <4>2. w[y] = x /\ (u = 1 \/ u = 2)
        BY <4>1
      <4>3. QED
        BY <4>1, <4>2
    <3> HIDE DEF a, b, w
    <3>2. QED
      BY <2>1, <3>1
  <2>3. /\ g[a] = views[v].wide[1].total /\ g[b] = views[v].wide[2].total
        /\ g[a] \in Int /\ g[b] \in Int
    <3>1. g[a] = Row(a).total /\ g[b] = Row(b).total
      BY <2>1
    <3>2. Row(a) = views[v].wide[1] /\ Row(b) = views[v].wide[2]
      BY DEF Row
    <3>3. QED
      BY <1>8, <2>1, <3>1, <3>2
  <2> HIDE DEF a, b, g, w
  <2>4. SumFunctionOnSet(g, {a, b}) = g[a] + g[b]
    BY <2>1, <2>3, SumPair
  <2>5. QED
    BY <2>2, <2>3, <2>4
<1>11. SumFunctionOnSet(
         [v \in D |-> views[v].wide[1].total + views[v].wide[2].total], D)
         = SumFunctionOnSet(g, Places)
  <2>1. {w[y] : y \in Places} = D
    <3>1. \A v \in D : <<v, 1>> \in Places /\ w[<<v, 1>>] = v
      BY <1>2
    <3>2. \A y \in Places : w[y] \in D
      BY <1>2
    <3> HIDE DEF w
    <3>3. QED
      BY <3>1, <3>2
  <2>2. SumFunctionOnSet(
          [v \in {w[y] : y \in Places} |->
             SumFunctionOnSet(g, {y \in Places : w[y] = v})],
          {w[y] : y \in Places})
          = SumFunctionOnSet(g, Places)
    <3> HIDE DEF g, w
    <3>1. QED
      BY <1>2, <1>8, SumByKey
  <2> HIDE DEF g, w
  <2>3. [v \in {w[y] : y \in Places} |->
           SumFunctionOnSet(g, {y \in Places : w[y] = v})]
          = [v \in D |-> views[v].wide[1].total + views[v].wide[2].total]
    BY <1>10, <2>1
  <2>4. QED
    BY <2>1, <2>2, <2>3
<1> HIDE DEF g, part, keys, wide
<1>12. QED
  BY <1>7, <1>9, <1>11, SMTT(30) DEF D, wide

LEMMA BaseIsOption ==
  ASSUME NEW job, Priceable(job), NEW locvol \in BOOLEAN, NEW ratio \in Nat
  PROVE  Option(BaseOption(job, locvol, ratio))
<1>1. Quotes(job) \in [1 .. 2 -> Int]
  BY BaseMarketIs DEF BaseOption
<1>2. QED
  BY <1>1 DEF Option, BaseOption

\* The wide rows of a job, no name of it listed twice.
LEMMA RowsOfJob ==
  ASSUME NEW job, Priceable(job), NEW option, Option(option),
         NEW draw, SoundDraw(draw),
         \A u \in DOMAIN job.equity : FirstOfName(job, u)
  PROVE  LET result == BumpResult(job, option, draw)
             table == WideRows(job, result)
         IN /\ DOMAIN table = 1 .. 2
            /\ \A u \in 1 .. 2 :
                 /\ {"key", "total"} \subseteq DOMAIN table[u]
                 /\ table[u].total \in Int
            /\ table[1].total + table[2].total = result.forecast
<1> DEFINE result == BumpResult(job, option, draw)
           table == WideRows(job, result)
<1>1. DOMAIN job.equity = 1 .. 2
  BY JobNames
<1>2. /\ \A u \in 1 .. 2 : Contribution(result, u) \in Int
      /\ result.forecast = Contribution(result, 1) + Contribution(result, 2)
  BY BumpIs
<1> HIDE DEF result
<1>3. /\ DOMAIN table = 1 .. 2
      /\ \A u \in 1 .. 2 :
           /\ {"key", "total"} \subseteq DOMAIN table[u]
           /\ table[u].total = Contribution(result, u)
  BY <1>1 DEF WideRows
<1> HIDE DEF table
<1>4. 1 \in 1 .. 2 /\ 2 \in 1 .. 2
  OBVIOUS
<1>5. QED
  BY <1>2, <1>3, <1>4 DEF result, table

\* Of a book of which no job lists a name twice, the totals of the aggregated
\* rows add up to the forecasts of the jobs.
LEMMA BookAddsUp ==
  ASSUME NEW book \in Books, NEW draw \in Draws, NEW locvol \in BOOLEAN,
         \A j \in DOMAIN book : ~TooWide(book[j]),
         \A j \in DOMAIN book : \A u \in DOMAIN book[j].equity :
           FirstOfName(book[j], u)
  PROVE  LET portfolio == AggregatePortfolio(book, locvol, draw)
             wide == portfolio.views.wide
         IN SumOver(LAMBDA key : (CHOOSE row \in wide : row.key = key).total,
                    {row.key : row \in wide})
              = SumOver(LAMBDA j : portfolio.results[j].forecast,
                        DOMAIN portfolio.results)
<1> DEFINE D == DOMAIN book
           Result(j) == BumpResult(book[j], BaseOption(book[j], locvol, 0), draw)
           results == [j \in D |-> Result(j)]
           views == [j \in D |-> BuildRiskViews(book[j], results[j])]
           portfolio == AggregatePortfolio(book, locvol, draw)
           table == [j \in D |-> WideRows(book[j], Result(j))]
           twice == [v \in DOMAIN views |->
                       views[v].wide[1].total + views[v].wide[2].total]
           forecast == [j \in D |-> Result(j).forecast]
<1>1. portfolio.results = results /\ portfolio.views = AggregateRiskViews(views)
  BY DEF AggregatePortfolio
<1>2. IsFiniteSet(D) /\ D \subseteq Nat
  <2>1. book \in Seq(Jobs)
    BY BooksAssumption
  <2>2. Len(book) \in Nat /\ D = 1 .. Len(book) /\ D \subseteq Nat
    BY <2>1, SeqIs
  <2>3. 1 \in Int /\ Len(book) \in Int
    BY <2>2
  <2>4. QED
    BY <2>2, <2>3, FS_Interval
<1>3. ASSUME NEW j \in D
      PROVE  /\ DOMAIN table[j] = 1 .. 2
             /\ \A u \in 1 .. 2 :
                  /\ {"key", "total"} \subseteq DOMAIN table[j][u]
                  /\ table[j][u].total \in Int
             /\ table[j][1].total + table[j][2].total = forecast[j]
  <2>1. Priceable(book[j])
    BY BooksPriceable
  <2>2. SoundDraw(draw) /\ 0 \in Nat
    BY BooksAssumption DEF SoundDraw
  <2>3. Option(BaseOption(book[j], locvol, 0))
    BY <2>1, <2>2, BaseIsOption
  <2>4. \A u \in DOMAIN book[j].equity : FirstOfName(book[j], u)
    OBVIOUS
  <2> DEFINE job == book[j]
             option == BaseOption(book[j], locvol, 0)
  <2>5. table[j] = WideRows(job, BumpResult(job, option, draw))
        /\ forecast[j] = BumpResult(job, option, draw).forecast
    OBVIOUS
  <2> HIDE DEF job, option, table, forecast
  <2>6. QED
    BY <2>1, <2>2, <2>3, <2>4, <2>5, RowsOfJob DEF job, option
<1> HIDE DEF Result
<1>4. /\ DOMAIN views = D /\ DOMAIN results = D
      /\ \A j \in D : views[j].wide = table[j]
  BY DEF BuildRiskViews
<1>5. forecast = [j \in D |-> results[j].forecast]
  OBVIOUS
<1> HIDE DEF views, table, results, portfolio, D, forecast
<1>6. Tabled(views)
  <2>1. IsFiniteSet(DOMAIN views) /\ DOMAIN views \subseteq Nat
    BY <1>2, <1>4
  <2>2. ASSUME NEW v \in DOMAIN views
        PROVE  /\ DOMAIN views[v].wide = 1 .. 2
               /\ \A u \in 1 .. 2 :
                    /\ {"key", "total"} \subseteq DOMAIN views[v].wide[u]
                    /\ views[v].wide[u].total \in Int
    BY <1>3, <1>4
  <2>3. QED
    BY <2>1, <2>2 DEF Tabled
<1>7. twice = forecast
  <2>1. \A j \in D : twice[j] = forecast[j]
    BY <1>3, <1>4
  <2>2. forecast = [j \in D |-> forecast[j]] /\ twice = [j \in D |-> twice[j]]
    BY <1>4 DEF forecast
  <2> HIDE DEF twice
  <2>3. QED
    BY <2>1, <2>2
<1>8. SumOver(LAMBDA j : results[j].forecast, D)
        = SumFunctionOnSet(forecast, D)
  BY <1>5 DEF SumOver, SumFunction
<1> DEFINE wide == AggregateRiskViews(views).wide
<1>9. SumOver(LAMBDA key : (CHOOSE row \in wide : row.key = key).total,
              {row.key : row \in wide})
        = SumFunctionOnSet(twice, DOMAIN views)
  BY <1>6, TotalsAddUp
<1> HIDE DEF twice
<1>10. QED
  BY <1>1, <1>4, <1>7, <1>8, <1>9 DEF portfolio

LEMMA TaylorStep == TaylorRowsAddUp /\ [Next]_vars => TaylorRowsAddUp'
<1> SUFFICES ASSUME TaylorRowsAddUp, [Next]_vars PROVE TaylorRowsAddUp'
  OBVIOUS
<1>1. CASE UNCHANGED deskVars
  BY <1>1 DEF deskVars, TaylorRowsAddUp, SumOver, SumFunction
<1>2. CASE Answered
  BY <1>2 DEF Answered, None, TaylorRowsAddUp
<1>3. CASE Tool
  <2>1. ASSUME NEW book \in Books, NEW draw \in Draws, NEW locvol \in BOOLEAN,
               AggregateTool(book, locvol, draw)
        PROVE  TaylorRowsAddUp'
    <3> DEFINE Once == \A j \in DOMAIN book : \A u \in DOMAIN book[j].equity :
                         FirstOfName(book[j], u)
               portfolio == AggregatePortfolio(book, locvol, draw)
    <3>1. call'.book = book
      BY <2>1 DEF AggregateTool, Reply
    <3>2. SUFFICES ASSUME reply' # Raised, Once
                   PROVE  SumOver(LAMBDA key :
                                    (CHOOSE row \in reply'.views.wide :
                                       row.key = key).total,
                                  {row.key : row \in reply'.views.wide})
                            = SumOver(LAMBDA j : reply'.results[j].forecast,
                                      DOMAIN reply'.results)
      BY <3>1 DEF TaylorRowsAddUp, SumOver, SumFunction
    <3>3. \A j \in DOMAIN book : ~TooWide(book[j])
      BY <2>1, <3>2 DEF AggregateTool, Reply
    <3>4. reply' = portfolio
      BY <2>1, <3>3 DEF AggregateTool, Reply
    <3>5. Once
      BY <3>2
    <3> HIDE DEF Once
    <3>6. SumOver(LAMBDA key : (CHOOSE row \in portfolio.views.wide :
                                 row.key = key).total,
                  {row.key : row \in portfolio.views.wide})
            = SumOver(LAMBDA j : portfolio.results[j].forecast,
                      DOMAIN portfolio.results)
      BY <3>3, <3>5, BookAddsUp DEF Once
    <3> HIDE DEF portfolio
    <3>7. QED
      BY <3>4, <3>6 DEF SumOver, SumFunction
  <2>2. \/ \E book \in Books, draw \in Draws, locvol \in BOOLEAN :
             AggregateTool(book, locvol, draw)
        \/ call'.tool # "aggregate_portfolio"
    BY <1>3, ToolIs
  <2>3. QED
    BY <2>1, <2>2 DEF TaylorRowsAddUp
<1>4. QED
  BY <1>1, <1>2, <1>3, DeskSteps

\* The rows of an aggregated portfolio, one per risk factor, have as their
\* Taylor totals, together, the forecasts of the jobs: aggregating loses no
\* row and counts none twice, whatever keys the jobs share, as long as no job
\* lists a name twice.
THEOREM RowsAddUp == Spec => []TaylorRowsAddUp
<1>1. Init => TaylorRowsAddUp
  BY DEF Init, None, TaylorRowsAddUp
<1>2. QED
  BY <1>1, TaylorStep, PTL DEF Spec

(***************************************************************************)
(* The pages of a request.  What a request asks for does not depend on the *)
(* rows it asks for.                                                       *)
(***************************************************************************)
Alike(p, q) ==
  /\ p.groups = q.groups /\ p.keys = q.keys /\ p.filters = q.filters
  /\ p.pivot = q.pivot /\ p.values = q.values /\ p.sort = q.sort

LEMMA AlikeTerms ==
  ASSUME NEW p, NEW q, Alike(p, q)
  PROVE  /\ WhereTerms(p) = WhereTerms(q) /\ Refused(p) = Refused(q)
         /\ IsGrouping(p) = IsGrouping(q) /\ IsPivot(p) = IsPivot(q)
         /\ GroupField(p) = GroupField(q)
<1>1. p.groups = q.groups /\ p.keys = q.keys /\ p.filters = q.filters
      /\ p.pivot = q.pivot /\ p.values = q.values
  BY DEF Alike
<1>2. WhereTerms(p) = WhereTerms(q)
  BY <1>1 DEF WhereTerms
<1>3. IsGrouping(p) = IsGrouping(q) /\ GroupField(p) = GroupField(q)
  BY <1>1 DEF IsGrouping, GroupField
<1>4. Refused(p) = Refused(q)
  BY <1>1 DEF Refused
<1>5. IsPivot(p) = IsPivot(q)
  BY <1>1, <1>3 DEF IsPivot
<1>6. QED
  BY <1>2, <1>3, <1>4, <1>5

LEMMA AlikeHoles ==
  ASSUME NEW p, NEW q, Alike(p, q), NEW table
  PROVE  /\ PivotCells(p, table) = PivotCells(q, table)
         /\ SelectHoles(p, table) = SelectHoles(q, table)
         /\ Holes(p, table) = Holes(q, table)
         /\ Params(p, table) = Params(q, table)
<1>1. /\ p.pivot = q.pivot /\ p.values = q.values
      /\ WhereTerms(p) = WhereTerms(q) /\ IsPivot(p) = IsPivot(q)
  BY AlikeTerms DEF Alike
<1>2. PivotCells(p, table) = PivotCells(q, table)
  <2> DEFINE CellsOf(pivot, values) ==
               FlattenSeq([c \in DOMAIN ColumnValues(table, pivot) |->
                 [v \in DOMAIN values |->
                    [value |-> ColumnValues(table, pivot)[c],
                     measure |-> values[v]]]])
  <2>1. /\ PivotCells(p, table) = CellsOf(p.pivot, p.values)
        /\ PivotCells(q, table) = CellsOf(q.pivot, q.values)
    BY DEF PivotCells
  <2> HIDE DEF CellsOf
  <2>2. QED
    BY <1>1, <2>1
<1>3. SelectHoles(p, table) = SelectHoles(q, table)
  BY <1>1, <1>2 DEF SelectHoles
<1>4. Holes(p, table) = Holes(q, table)
  BY <1>1, <1>3 DEF Holes
<1>5. Params(p, table) = Params(q, table)
  BY <1>1 DEF Params
<1>6. QED
  BY <1>2, <1>3, <1>4, <1>5

LEMMA AlikeAnswer ==
  ASSUME NEW p, NEW q, Alike(p, q), NEW table, NEW params
  PROVE  Answer(p, table, params) = Answer(q, table, params)
<1> DEFINE Rows(x) ==
             {r \in DOMAIN table :
                Satisfies(table[r],
                          BoundWhere(x, params, SelectHoles(x, table)))}
           Member(x, g) == {r \in Rows(x) : table[r][GroupField(x)] = g}
           Pivoted(x, g) ==
             [c \in DOMAIN PivotCells(x, table) |->
                SumColumn(table, {r \in Member(x, g) :
                                    table[r][x.pivot] = params[c]},
                          PivotCells(x, table)[c].measure)]
           Plain(x, g) ==
             [v \in DOMAIN x.values |->
                SumColumn(table, Member(x, g), x.values[v])]
           CellsOf(x, g) == IF IsPivot(x) THEN Pivoted(x, g) ELSE Plain(x, g)
           Grouped(x) == {[id |-> g, cells |-> CellsOf(x, g)] :
                            g \in {table[r][GroupField(x)] : r \in Rows(x)}}
           Leaves(x) == {[id |-> r, cells |-> [v \in DOMAIN x.values |->
                                                table[r][x.values[v]]]] :
                           r \in Rows(x)}
<1>1. /\ Answer(p, table, params) = IF IsGrouping(p) THEN Grouped(p) ELSE Leaves(p)
      /\ Answer(q, table, params) = IF IsGrouping(q) THEN Grouped(q) ELSE Leaves(q)
  BY DEF Answer
<1>2. /\ p.pivot = q.pivot /\ p.values = q.values
      /\ WhereTerms(p) = WhereTerms(q) /\ IsPivot(p) = IsPivot(q)
      /\ GroupField(p) = GroupField(q) /\ IsGrouping(p) = IsGrouping(q)
      /\ PivotCells(p, table) = PivotCells(q, table)
      /\ SelectHoles(p, table) = SelectHoles(q, table)
  BY AlikeTerms, AlikeHoles DEF Alike
<1>3. \A skip : BoundWhere(p, params, skip) = BoundWhere(q, params, skip)
  <2> DEFINE Bound(terms, skip) ==
               LET From(i) == skip + Len(WhereArgs(SubSeq(terms, 1, i - 1)))
               IN [i \in DOMAIN terms |->
                     [terms[i] EXCEPT !.args =
                        [k \in DOMAIN @ |-> params[From(i) + k]]]]
  <2>1. \A skip : /\ BoundWhere(p, params, skip) = Bound(WhereTerms(p), skip)
                  /\ BoundWhere(q, params, skip) = Bound(WhereTerms(q), skip)
    BY DEF BoundWhere
  <2> HIDE DEF Bound
  <2>2. QED
    BY <1>2, <2>1
<1>4. Rows(p) = Rows(q)
  BY <1>2, <1>3
<1> HIDE DEF Rows
<1>5. \A g : Member(p, g) = Member(q, g)
  BY <1>2, <1>4
<1> HIDE DEF Member
<1>6. \A g : Pivoted(p, g) = Pivoted(q, g)
  <2> DEFINE Of(cells, pivot, members) ==
               [c \in DOMAIN cells |->
                  SumColumn(table, {r \in members : table[r][pivot] = params[c]},
                            cells[c].measure)]
  <2>1. \A g : /\ Pivoted(p, g) = Of(PivotCells(p, table), p.pivot, Member(p, g))
               /\ Pivoted(q, g) = Of(PivotCells(q, table), q.pivot, Member(q, g))
    OBVIOUS
  <2> HIDE DEF Of, Pivoted
  <2>2. QED
    BY <1>2, <1>5, <2>1
<1>7. \A g : Plain(p, g) = Plain(q, g)
  <2> DEFINE Of(values, members) ==
               [v \in DOMAIN values |-> SumColumn(table, members, values[v])]
  <2>1. \A g : /\ Plain(p, g) = Of(p.values, Member(p, g))
               /\ Plain(q, g) = Of(q.values, Member(q, g))
    OBVIOUS
  <2> HIDE DEF Of, Plain
  <2>2. QED
    BY <1>2, <1>5, <2>1
<1> HIDE DEF Pivoted, Plain
<1>8. \A g : CellsOf(p, g) = CellsOf(q, g)
  BY <1>2, <1>6, <1>7
<1> HIDE DEF CellsOf
<1>9. Grouped(p) = Grouped(q)
  BY <1>2, <1>4, <1>8
<1>10. Leaves(p) = Leaves(q)
  <2> DEFINE Of(values, members) ==
               {[id |-> r, cells |-> [v \in DOMAIN values |->
                                        table[r][values[v]]]] : r \in members}
  <2>1. Leaves(p) = Of(p.values, Rows(p)) /\ Leaves(q) = Of(q.values, Rows(q))
    OBVIOUS
  <2> HIDE DEF Of, Leaves
  <2>2. QED
    BY <1>2, <1>4, <2>1
<1> HIDE DEF Grouped, Leaves
<1>11. QED
  BY <1>1, <1>2, <1>9, <1>10

\* A request on a table whose cells are numbers, NULL among them.
Asked(q, table) ==
  /\ q \in Query /\ table \in Seq(Range(table))
  /\ \A r \in DOMAIN table, column \in Range(q.groups) \cup Range(q.values) :
       table[r][column] \in Nat

LEMMA AskedIs ==
  ASSUME NEW q \in Queries, NEW table \in Tables
  PROVE  Asked(q, table)
BY QueriesAssumption DEF Asked

LEMMA QueryIs ==
  ASSUME NEW q, NEW table, Asked(q, table)
  PROVE  /\ q.groups \in Seq(STRING) /\ q.keys \in Seq(Nat)
         /\ q.filters \in Seq(FilterTerm) /\ q.values \in Seq(STRING)
         /\ q.start \in Nat /\ q.end \in Nat
         /\ Len(q.keys) \in Nat /\ Len(q.groups) \in Nat
         /\ IsFiniteSet(DOMAIN table) /\ DOMAIN table \subseteq Nat
         /\ Len(table) \in Nat /\ DOMAIN table = 1 .. Len(table)
         /\ \A r \in DOMAIN table :
              /\ \A v \in DOMAIN q.values : table[r][q.values[v]] \in Nat
              /\ IsGrouping(q) => table[r][GroupField(q)] \in Nat
<1>1. /\ q.groups \in Seq(STRING) /\ q.keys \in Seq(Nat)
      /\ q.filters \in Seq(FilterTerm) /\ q.values \in Seq(STRING)
      /\ q.start \in Nat /\ q.end \in Nat
  BY DEF Asked, Query
<1>2. /\ Len(q.keys) \in Nat /\ Len(q.groups) \in Nat
      /\ DOMAIN q.groups = 1 .. Len(q.groups)
  BY <1>1, SeqIs
<1>3. /\ Len(table) \in Nat /\ DOMAIN table = 1 .. Len(table)
      /\ DOMAIN table \subseteq Nat
  BY SeqIs DEF Asked
<1>4. IsFiniteSet(DOMAIN table)
  <2>1. 1 \in Int /\ Len(table) \in Int
    BY <1>3
  <2>2. QED
    BY <1>3, <2>1, FS_Interval
<1>5. ASSUME NEW r \in DOMAIN table, NEW v \in DOMAIN q.values
      PROVE  table[r][q.values[v]] \in Nat
  <2>1. q.values[v] \in Range(q.values)
    BY DEF Range
  <2>2. QED
    BY <2>1 DEF Asked
<1>6. ASSUME NEW r \in DOMAIN table, IsGrouping(q)
      PROVE  table[r][GroupField(q)] \in Nat
  <2>1. Len(q.keys) + 1 \in DOMAIN q.groups
    BY <1>2, <1>6 DEF IsGrouping
  <2>2. GroupField(q) \in Range(q.groups)
    BY <2>1 DEF GroupField, Range
  <2>3. QED
    BY <2>2 DEF Asked
<1>7. QED
  BY <1>1, <1>2, <1>3, <1>4, <1>5, <1>6

\* Rows that are told apart by their number.
Numbered(answer) ==
  /\ IsFiniteSet(answer) /\ \A row \in answer : row.id \in Nat
  /\ \A a, b \in answer : a.id = b.id => a = b

LEMMA AnswerIs ==
  ASSUME NEW q, NEW table, Asked(q, table), NEW params
  PROVE  Numbered(Answer(q, table, params))
<1> DEFINE rows0 == {r \in DOMAIN table :
                       Satisfies(table[r],
                         BoundWhere(q, params, SelectHoles(q, table)))}
           Member(g) == {r \in rows0 : table[r][GroupField(q)] = g}
           CellsOf(g) ==
             IF IsPivot(q)
             THEN [c \in DOMAIN PivotCells(q, table) |->
                     SumColumn(table, {r \in Member(g) :
                                         table[r][q.pivot] = params[c]},
                               PivotCells(q, table)[c].measure)]
             ELSE [v \in DOMAIN q.values |->
                     SumColumn(table, Member(g), q.values[v])]
           field == [r \in rows0 |-> table[r][GroupField(q)]]
           ids == {table[r][GroupField(q)] : r \in rows0}
           group == [g \in ids |-> [id |-> g, cells |-> CellsOf(g)]]
           leaf == [r \in rows0 |-> [id |-> r, cells |-> [v \in DOMAIN q.values |->
                                                table[r][q.values[v]]]]]
           answer == Answer(q, table, params)
<1>1. answer = IF IsGrouping(q)
               THEN {[id |-> g, cells |-> CellsOf(g)] : g \in ids}
               ELSE {[id |-> r, cells |-> [v \in DOMAIN q.values |->
                                             table[r][q.values[v]]]] : r \in rows0}
  BY DEF Answer
<1>2. IsFiniteSet(rows0) /\ rows0 \subseteq DOMAIN table /\ rows0 \subseteq Nat
  <2>1. rows0 \subseteq DOMAIN table
    OBVIOUS
  <2> HIDE DEF rows0
  <2>2. QED
    BY <2>1, QueryIs, FS_Subset
<1> HIDE DEF rows0, CellsOf, answer
<1>3. CASE IsGrouping(q)
  <2>1. ids = {field[r] : r \in rows0}
    OBVIOUS
  <2>2. IsFiniteSet(ids)
    <3> HIDE DEF field, ids
    <3>1. QED
      BY <1>2, <2>1, FiniteImage
  <2>3. ids \subseteq Nat
    BY <1>2, <1>3, QueryIs
  <2> HIDE DEF ids
  <2>4. answer = {group[g] : g \in ids}
    BY <1>1, <1>3
  <2>5. \A g \in ids : group[g].id = g
    OBVIOUS
  <2> HIDE DEF group
  <2>6. IsFiniteSet(answer)
    BY <2>2, <2>4, FiniteImage
  <2>7. QED
    BY <2>3, <2>4, <2>5, <2>6 DEF Numbered, answer
<1>4. CASE ~IsGrouping(q)
  <2>1. answer = {leaf[r] : r \in rows0}
    BY <1>1, <1>4
  <2>2. \A r \in rows0 : leaf[r].id = r
    OBVIOUS
  <2> HIDE DEF leaf
  <2>3. IsFiniteSet(answer)
    BY <1>2, <2>1, FiniteImage
  <2>4. QED
    BY <1>2, <2>1, <2>2, <2>3 DEF Numbered, answer
<1>5. QED
  BY <1>3, <1>4

\* A list of every element of a set, each once.
Lists(o, S) ==
  /\ o \in Seq(S) /\ \A s \in S : \E n \in DOMAIN o : o[n] = s
  /\ \A m, n \in DOMAIN o : o[m] = o[n] => m = n

LEMMA SortedLists ==
  ASSUME NEW answer, Numbered(answer), NEW descending \in BOOLEAN
  PROVE  Lists(Sorted(answer, descending), answer)
<1> DEFINE number == [row \in answer |-> row.id]
           S == {row.id : row \in answer}
           ids == Ascending(S)
           c == Len(ids)
           nulls == \E row \in answer : row.id = Null
           Place(n) == IF descending THEN Len(ids) + 1 - n
                       ELSE IF ~nulls THEN n
                       ELSE IF n = Len(ids) THEN 1 ELSE n + 1
           Back(n) == IF descending THEN Len(ids) + 1 - n
                      ELSE IF ~nulls THEN n
                      ELSE IF n = 1 THEN Len(ids) ELSE n - 1
           o == Sorted(answer, descending)
           Row(i) == CHOOSE row \in answer : row.id = i
<1>1. IsFiniteSet(S) /\ S \subseteq Int
  <2>1. IsFiniteSet({number[row] : row \in answer})
    BY FiniteImage DEF Numbered
  <2>2. {number[row] : row \in answer} = S
    OBVIOUS
  <2>3. S \subseteq Int
    BY DEF Numbered
  <2>4. QED
    BY <2>1, <2>2, <2>3
<1>2. /\ ids \in Seq(S) /\ DOMAIN ids = 1 .. c /\ c \in Nat
      /\ \A i, j \in 1 .. c : i < j => ids[i] < ids[j]
      /\ \A x \in S : \E i \in 1 .. c : ids[i] = x
      /\ \A i \in 1 .. c : ids[i] \in S
  <2> HIDE DEF S
  <2>1. /\ ids \in Seq(S) /\ DOMAIN ids = 1 .. c
        /\ \A i, j \in DOMAIN ids : i < j => ids[i] < ids[j]
        /\ \A x \in S : \E i \in DOMAIN ids : ids[i] = x
    BY <1>1, AscendingIs
  <2> HIDE DEF ids
  <2>2. c \in Nat /\ \A i \in 1 .. c : ids[i] \in S
    BY <2>1
  <2>3. QED
    BY <2>1, <2>2
<1>3. o = [n \in 1 .. c |-> Row(ids[Place(n)])]
  BY <1>2 DEF Sorted
<1> HIDE DEF ids, c, o, nulls
<1>4. \A i \in S : Row(i) \in answer /\ Row(i).id = i
  OBVIOUS
<1>5. \A row \in answer : Row(row.id) = row /\ row.id \in S
  BY <1>4 DEF Numbered
<1> HIDE DEF S, Row
<1>6. \A n \in 1 .. c : /\ Place(n) \in 1 .. c /\ Back(Place(n)) = n
                         /\ Back(n) \in 1 .. c /\ Place(Back(n)) = n
  <2>1. ASSUME NEW n \in 1 .. c
        PROVE  /\ Place(n) \in 1 .. c /\ Back(Place(n)) = n
               /\ Back(n) \in 1 .. c /\ Place(Back(n)) = n
    <3>1. c \in Nat /\ c = Len(ids)
      BY <1>2 DEF c
    <3>2. CASE descending
      BY <3>1, <3>2
    <3>3. CASE ~descending /\ ~nulls
      BY <3>1, <3>3
    <3>4. CASE ~descending /\ nulls
      BY <3>1, <3>4
    <3>5. QED
      BY <3>2, <3>3, <3>4
  <2>2. QED
    BY <2>1
<1> HIDE DEF Place, Back
<1>7. \A n \in 1 .. c : o[n] \in answer /\ o[n].id = ids[Place(n)]
  BY <1>2, <1>3, <1>4, <1>6
<1>8. o \in Seq(answer) /\ DOMAIN o = 1 .. c
  <2>1. o = [n \in 1 .. c |-> o[n]]
    BY <1>3
  <2>2. \A n \in 1 .. c : o[n] \in answer
    BY <1>7
  <2>3. c \in Nat
    BY <1>2
  <2>4. o \in [1 .. c -> answer]
    BY <2>1, <2>2
  <2>5. QED
    BY <2>3, <2>4
<1>9. ASSUME NEW row \in answer PROVE \E n \in 1 .. c : o[n] = row
  <2>1. PICK i \in 1 .. c : ids[i] = row.id
    BY <1>2, <1>5
  <2>2. Back(i) \in 1 .. c /\ Place(Back(i)) = i
    BY <1>6
  <2>3. o[Back(i)] = Row(row.id)
    BY <1>3, <2>1, <2>2
  <2>4. QED
    BY <1>5, <2>2, <2>3
<1>10. ASSUME NEW m \in 1 .. c, NEW n \in 1 .. c, o[m] = o[n] PROVE m = n
  <2>1. ids[Place(m)] = ids[Place(n)]
    BY <1>7, <1>10
  <2> DEFINE a == Place(m)
             b == Place(n)
  <2>2. a \in 1 .. c /\ b \in 1 .. c /\ ids[a] \in Int /\ ids[a] = ids[b]
    BY <1>1, <1>2, <1>6, <2>1
  <2> HIDE DEF a, b
  <2>3. a = b
    <3>1. a < b => ids[a] < ids[b]
      BY <1>2, <2>2
    <3>2. b < a => ids[b] < ids[a]
      BY <1>2, <2>2
    <3>3. a \in Int /\ b \in Int
      BY <1>2, <2>2
    <3>4. QED
      BY <2>2, <3>1, <3>2, <3>3
  <2>4. QED
    BY <1>6, <2>3 DEF a, b
<1>11. QED
  BY <1>8, <1>9, <1>10 DEF Lists, o

LEMMA UnsortedLists ==
  ASSUME NEW S, IsFiniteSet(S)
  PROVE  /\ SetToSeqs(S) # {} /\ \A o \in SetToSeqs(S) : Lists(o, S)
<1> DEFINE c == Cardinality(S)
           D == 1 .. c
<1>1. c \in Nat /\ ExistsBijection(D, S)
  BY FS_CardinalityType
<1>2. IsFiniteSet(D) /\ Cardinality(D) = c
  <2>1. 1 \in Int /\ c \in Int /\ (1 > c <=> c = 0)
    BY <1>1
  <2> HIDE DEF c
  <2>2. IsFiniteSet(1 .. c) /\ Cardinality(1 .. c) = IF 1 > c THEN 0 ELSE c - 1 + 1
    BY <2>1, FS_Interval
  <2>3. QED
    BY <1>1, <2>1, <2>2
<1>3. SetToSeqs(S) = {f \in [D -> S] : \A i, j \in D : i # j => f[i] # f[j]}
  BY DEF SetToSeqs
<1>4. SetToSeqs(S) # {}
  <2>1. PICK f : f \in Bijection(D, S)
    BY <1>1 DEF ExistsBijection
  <2>2. f \in [D -> S] /\ \A i, j \in D : f[i] = f[j] => i = j
    BY <2>1 DEF Bijection, Injection, IsInjective
  <2>3. QED
    BY <1>3, <2>2
<1>5. ASSUME NEW o \in SetToSeqs(S) PROVE Lists(o, S)
  <2>1. o \in [D -> S] /\ \A i, j \in D : o[i] = o[j] => i = j
    BY <1>3
  <2>2. o \in Injection(D, S)
    BY <2>1 DEF Injection, IsInjective
  <2>3. o \in Surjection(D, S)
    <3> HIDE DEF D
    <3>1. Cardinality(D) = Cardinality(S)
      BY <1>2
    <3>2. QED
      BY <2>2, <3>1, FS_Injection
  <2>4. o \in Seq(S) /\ DOMAIN o = D
    BY <1>1, <2>1
  <2>5. \A s \in S : \E n \in D : o[n] = s
    BY <2>3 DEF Surjection
  <2>6. QED
    BY <2>1, <2>4, <2>5 DEF Lists
<1>6. QED
  BY <1>4, <1>5

\* A request has an order, each a list of the rows, and with a sort it is one.
LEMMA OrdersAre ==
  ASSUME NEW q, NEW answer, Numbered(answer)
  PROVE  /\ Orders(q, answer) # {}
         /\ \A o \in Orders(q, answer) : Lists(o, answer)
         /\ q.sort # "none" => \E o : Orders(q, answer) = {o}
<1>1. SetToSeqs(answer) # {} /\ \A o \in SetToSeqs(answer) : Lists(o, answer)
  BY UnsortedLists DEF Numbered
<1> DEFINE o == Sorted(answer, q.sort = "desc")
<1>2. Lists(o, answer)
  BY SortedLists
<1>3. Orders(q, answer) = IF q.sort = "none" THEN SetToSeqs(answer) ELSE {o}
  BY DEF Orders
<1> HIDE DEF o
<1>4. QED
  BY <1>1, <1>2, <1>3

(***************************************************************************)
(* The rows from s up to e of a list.                                      *)
(***************************************************************************)
Within(o, s, e) ==
  IF Len(o) <= s THEN 0 ELSE IF Len(o) <= e THEN Len(o) - s ELSE e - s
Window(o, s, e) == [n \in 1 .. Within(o, s, e) |-> o[s + n]]

LEMMA WindowIs ==
  ASSUME NEW S, NEW o \in Seq(S), NEW s \in Nat, NEW e \in Nat, s <= e
  PROVE  /\ Within(o, s, e) \in Nat /\ Within(o, s, e) <= e - s
         /\ \A n \in 1 .. Within(o, s, e) : s + n \in DOMAIN o
         /\ Window(o, s, e) \in Seq(S) /\ Len(Window(o, s, e)) = Within(o, s, e)
<1>1. Len(o) \in Nat /\ DOMAIN o = 1 .. Len(o) /\ o \in [DOMAIN o -> S]
  BY SeqIs
<1>2. Within(o, s, e) \in Nat /\ Within(o, s, e) <= e - s
  BY <1>1 DEF Within
<1>3. ASSUME NEW n \in 1 .. Within(o, s, e) PROVE s + n \in DOMAIN o
  BY <1>1 DEF Within
<1>4. \A n \in 1 .. Within(o, s, e) : o[s + n] \in S
  BY <1>1, <1>3
<1>5. Window(o, s, e) \in [1 .. Within(o, s, e) -> S]
  BY <1>4 DEF Window
<1>6. QED
  BY <1>2, <1>3, <1>5

LEMMA WindowsTile ==
  ASSUME NEW S, NEW o \in Seq(S), NEW s \in Nat, NEW e \in Nat, NEW f \in Nat,
         s <= e, e <= f
  PROVE  /\ Window(o, s, e) \o Window(o, e, f) = Window(o, s, f)
         /\ e < f => (Window(o, e, f) # <<>> <=> Len(o) > e)
<1> DEFINE a == Window(o, s, e)
           b == Window(o, e, f)
           c == Window(o, s, f)
           la == Within(o, s, e)
           lb == Within(o, e, f)
           lc == Within(o, s, f)
<1>1. s <= f /\ Len(o) \in Nat
  BY SeqIs
<1>2. /\ a \in Seq(S) /\ b \in Seq(S) /\ c \in Seq(S)
      /\ Len(a) = la /\ Len(b) = lb /\ Len(c) = lc
      /\ la \in Nat /\ lb \in Nat /\ lc \in Nat
  BY <1>1, WindowIs, ZenonT(60)
<1>3. /\ \A n \in 1 .. la : a[n] = o[s + n]
      /\ \A n \in 1 .. lb : b[n] = o[e + n]
      /\ \A n \in 1 .. lc : c[n] = o[s + n]
  BY DEF Window
<1> HIDE DEF a, b, c
<1>4. lc = la + lb /\ (lb > 0 => la = e - s) /\ (e < f => (lb # 0 <=> Len(o) > e))
  <2> DEFINE L == Len(o)
  <2>1. L \in Nat
    BY <1>1
  <2>2. /\ la = IF L <= s THEN 0 ELSE IF L <= e THEN L - s ELSE e - s
        /\ lb = IF L <= e THEN 0 ELSE IF L <= f THEN L - e ELSE f - e
        /\ lc = IF L <= s THEN 0 ELSE IF L <= f THEN L - s ELSE f - s
    BY DEF Within
  <2> HIDE DEF L, la, lb, lc
  <2>3. lc = la + lb
    BY <1>1, <2>1, <2>2
  <2>4. lb > 0 => la = e - s
    BY <1>1, <2>1, <2>2
  <2>5. e < f => (lb # 0 <=> L > e)
    BY <1>1, <2>1, <2>2
  <2>6. QED
    BY <2>3, <2>4, <2>5 DEF L
<1> HIDE DEF la, lb, lc
<1>5. /\ a \o b \in Seq(S) /\ Len(a \o b) = la + lb
      /\ \A i \in 1 .. la + lb :
           (a \o b)[i] = IF i <= la THEN a[i] ELSE b[i - la]
  BY <1>2, ConcatProperties
<1>6. ASSUME NEW i \in 1 .. lc PROVE (a \o b)[i] = c[i]
  <2>1. CASE i <= la
    <3>1. i \in 1 .. la
      BY <1>2, <2>1
    <3>2. QED
      BY <1>3, <1>4, <1>5, <2>1, <3>1
  <2>2. CASE ~(i <= la)
    <3>1. i - la \in 1 .. lb /\ la = e - s /\ e + (i - la) = s + i
      BY <1>2, <1>4, <2>2
    <3>2. QED
      BY <1>3, <1>4, <1>5, <2>2, <3>1
  <2>3. QED
    BY <2>1, <2>2
<1>7. a \o b = c
  <2>1. Len(a \o b) = Len(c) /\ \A i \in 1 .. Len(a \o b) : (a \o b)[i] = c[i]
    BY <1>2, <1>4, <1>5, <1>6
  <2>2. QED
    BY <1>2, <1>5, <2>1, SeqEqual
<1>8. b # <<>> <=> lb # 0
  <2>1. Len(<<>>) = 0 /\ (b # <<>> => Len(b) \in Nat \ {0})
    BY <1>2, EmptySeq
  <2>2. QED
    BY <1>2, <2>1
<1>9. QED
  BY <1>4, <1>7, <1>8 DEF a, b, c

\* A page has the rows asked for, and tells whether there are more.
LEMMA PageIs ==
  ASSUME NEW q, q.start \in Nat, q.end \in Nat, q.start <= q.end,
         NEW S, NEW o \in Seq(S)
  PROVE  /\ Page(q, o).rows = Window(o, q.start, q.end)
         /\ (Page(q, o).lastRow = -1) <=> Len(o) > q.end
<1> DEFINE s == q.start
           e == q.end
           last == Min({s + Limit(q), Len(o)})
           fetched == SubSeq(o, s + 1, last)
           requested == Max({e - s, 0})
           more == Len(fetched) > requested
           page == Page(q, o)
<1>1. /\ page.rows = IF more THEN SubSeq(fetched, 1, requested) ELSE fetched
      /\ page.lastRow = IF more THEN -1 ELSE s + Len(fetched)
  BY DEF Page, Offset
<1> HIDE DEF page
<1>2. Len(o) \in Nat /\ DOMAIN o = 1 .. Len(o) /\ o \in [DOMAIN o -> S]
  BY SeqIs
<1>3. Limit(q) = e - s + 1 /\ requested = e - s
  <2>1. e \in Int /\ s \in Int /\ e - s \in Int /\ 0 \in Int
    OBVIOUS
  <2>2. Max({e, s}) = IF e >= s THEN e ELSE s
    BY <2>1, PairBounds
  <2>3. Max({e - s, 0}) = IF e - s >= 0 THEN e - s ELSE 0
    BY <2>1, PairBounds
  <2>4. QED
    BY <2>1, <2>2, <2>3 DEF Limit
<1>4. last = IF e + 1 <= Len(o) THEN e + 1 ELSE Len(o)
  <2>1. e + 1 \in Int /\ Len(o) \in Int /\ s + Limit(q) = e + 1
    BY <1>2, <1>3
  <2>2. Min({e + 1, Len(o)}) = IF e + 1 <= Len(o) THEN e + 1 ELSE Len(o)
    BY <2>1, PairBounds
  <2>3. QED
    BY <2>1, <2>2
<1> HIDE DEF last, requested, s, e
<1>5. s \in Nat /\ e \in Nat /\ s <= e /\ last \in Nat
  BY <1>2, <1>4 DEF s, e
<1>6. /\ fetched \in Seq(S)
      /\ Len(fetched) = IF s + 1 <= last THEN last - s ELSE 0
      /\ \A i \in 1 .. last - s : fetched[i] = o[s + i]
  <2>1. s + 1 \in Int /\ last \in Int
    BY <1>5
  <2>2. \A i \in s + 1 .. last : o[i] \in S
    BY <1>2, <1>4, <1>5
  <2>3. /\ fetched \in Seq(S)
        /\ Len(fetched) = IF s + 1 <= last THEN last - (s + 1) + 1 ELSE 0
        /\ \A i \in 1 .. last - (s + 1) + 1 : fetched[i] = o[s + 1 + i - 1]
    BY <2>1, <2>2, SubSeqProperties
  <2> HIDE DEF fetched
  <2>4. last - (s + 1) + 1 = last - s
    BY <1>5
  <2>5. ASSUME NEW i \in 1 .. last - s PROVE fetched[i] = o[s + i]
    <3>1. s + 1 + i - 1 = s + i
      BY <1>5
    <3>2. QED
      BY <2>3, <2>4, <3>1
  <2>6. QED
    BY <1>5, <2>3, <2>4, <2>5
<1> HIDE DEF fetched
<1>7. more <=> Len(o) > e
  BY <1>2, <1>3, <1>4, <1>5, <1>6
<1>8. page.lastRow = -1 <=> Len(o) > e
  <2>1. s + Len(fetched) # -1
    BY <1>5, <1>6
  <2>2. QED
    BY <1>1, <1>7, <2>1
<1>9. /\ page.rows \in Seq(S) /\ Len(page.rows) = Within(o, s, e)
      /\ \A i \in 1 .. Within(o, s, e) : page.rows[i] = o[s + i]
  <2>1. CASE more
    <3>1. Len(fetched) = e - s + 1 /\ Within(o, s, e) = e - s /\ last - s = e - s + 1
      BY <1>2, <1>4, <1>5, <1>6, <1>7, <2>1 DEF Within
    <3>2. \A i \in 1 .. e - s : fetched[i] \in S /\ fetched[i] = o[s + i]
      BY <1>5, <1>6, <3>1
    <3>3. 1 \in Int /\ e - s \in Int
      BY <1>5
    <3>4. /\ SubSeq(fetched, 1, e - s) \in Seq(S)
          /\ Len(SubSeq(fetched, 1, e - s)) = IF 1 <= e - s THEN e - s - 1 + 1 ELSE 0
          /\ \A i \in 1 .. e - s - 1 + 1 :
               SubSeq(fetched, 1, e - s)[i] = fetched[1 + i - 1]
      BY <3>2, <3>3, SubSeqProperties
    <3>5. page.rows = SubSeq(fetched, 1, e - s)
      BY <1>1, <1>3, <2>1
    <3> DEFINE head == SubSeq(fetched, 1, e - s)
    <3> HIDE DEF head
    <3>6. /\ head \in Seq(S) /\ Len(head) = e - s
          /\ \A i \in 1 .. e - s : head[i] = fetched[i]
      BY <1>5, <3>4 DEF head
    <3>7. QED
      BY <3>1, <3>2, <3>5, <3>6 DEF head
  <2>2. CASE ~more
    <3>1. /\ Len(fetched) = Within(o, s, e)
          /\ Within(o, s, e) \in Nat
          /\ \A i \in 1 .. Within(o, s, e) : i \in 1 .. last - s
      BY <1>2, <1>4, <1>5, <1>6, <1>7, <2>2 DEF Within
    <3>2. QED
      BY <1>1, <1>6, <2>2, <3>1
  <2>3. QED
    BY <2>1, <2>2
<1>10. /\ Window(o, s, e) \in Seq(S) /\ Len(Window(o, s, e)) = Within(o, s, e)
       /\ \A i \in 1 .. Within(o, s, e) : Window(o, s, e)[i] = o[s + i]
  BY <1>5, WindowIs DEF Window
<1>11. page.rows = Window(o, s, e)
  <2>1. /\ Len(page.rows) = Len(Window(o, s, e))
        /\ \A i \in 1 .. Len(page.rows) : page.rows[i] = Window(o, s, e)[i]
    BY <1>9, <1>10
  <2>2. QED
    BY <1>9, <1>10, <2>1, SeqEqual
<1>12. QED
  BY <1>8, <1>11 DEF page, s, e

\* With an order on the rows, requests that differ in the rows they ask for
\* are pages of one list.
LEMMA PagesOf ==
  ASSUME NEW q, NEW table, Asked(q, table), q.sort # "none", ~Refused(q),
         Len(Params(q, table)) = Holes(q, table)
  PROVE  \E o : /\ o \in Seq(Answer(q, table, Params(q, table)))
                /\ \A p : Alike(p, q) => QuerySsrm(p, table) = {Page(p, o)}
<1> DEFINE answer == Answer(q, table, Params(q, table))
<1>1. Numbered(answer)
  BY AnswerIs
<1> HIDE DEF answer
<1>2. PICK o : Orders(q, answer) = {o}
  BY <1>1, OrdersAre
<1>3. o \in Seq(answer)
  BY <1>1, <1>2, OrdersAre DEF Lists
<1>4. ASSUME NEW p, Alike(p, q) PROVE QuerySsrm(p, table) = {Page(p, o)}
  <2>1. /\ Params(p, table) = Params(q, table) /\ Refused(p) = Refused(q)
        /\ Holes(p, table) = Holes(q, table)
    BY <1>4, AlikeTerms, AlikeHoles
  <2>2. Answer(p, table, Params(p, table)) = answer
    BY <1>4, <2>1, AlikeAnswer DEF answer
  <2>3. Orders(p, answer) = {o}
    <3>1. p.sort = q.sort
      BY <1>4 DEF Alike
    <3>2. Orders(p, answer) = Orders(q, answer)
      BY <3>1 DEF Orders
    <3>3. QED
      BY <1>2, <3>2
  <2>4. QuerySsrm(p, table)
          = {Page(p, x) : x \in Orders(p, Answer(p, table, Params(p, table)))}
    BY <2>1 DEF QuerySsrm
  <2>5. QED
    BY <2>2, <2>3, <2>4
<1>5. QED
  BY <1>3, <1>4 DEF answer

LEMMA AnswerTiles ==
  ASSUME NEW q \in Queries, NEW table \in Tables, NEW page,
         page \in QuerySsrm(q, table), page # Failure,
         q.sort # "none", q.start < q.end
  PROVE  LET size == q.end - q.start
             next == [q EXCEPT !.start = q.end, !.end = q.end + size]
             both == [q EXCEPT !.end = q.end + size]
             Rows(p) == (CHOOSE x \in QuerySsrm(p, table) : TRUE).rows
         IN /\ page.rows \o Rows(next) = Rows(both)
            /\ (page.lastRow = -1) <=> (Rows(next) # <<>>)
<1> DEFINE size == q.end - q.start
           next == [q EXCEPT !.start = q.end, !.end = q.end + size]
           both == [q EXCEPT !.end = q.end + size]
           Rows(p) == (CHOOSE x \in QuerySsrm(p, table) : TRUE).rows
           s == q.start
           e == q.end
           f == q.end + size
           A == Answer(q, table, Params(q, table))
<1>1. Asked(q, table) /\ s \in Nat /\ e \in Nat /\ f \in Nat /\ s <= e /\ e < f
  <2>1. s \in Nat /\ e \in Nat
    BY AskedIs, QueryIs
  <2>2. QED
    BY <2>1, AskedIs
<1>2. ~Refused(q) /\ Len(Params(q, table)) = Holes(q, table)
  BY DEF QuerySsrm
<1>3. PICK o : /\ o \in Seq(A)
               /\ \A p : Alike(p, q) => QuerySsrm(p, table) = {Page(p, o)}
  BY <1>1, <1>2, PagesOf
<1> HIDE DEF A
<1>4. q \in Query
  BY <1>1 DEF Asked
<1>5. /\ Alike(q, q) /\ Alike(next, q) /\ Alike(both, q)
      /\ next.start = e /\ next.end = f /\ both.start = s /\ both.end = f
  BY <1>4 DEF Alike, Query
<1> HIDE DEF next, both, size, s, e, f
<1>6. page = Page(q, o) /\ Rows(next) = Page(next, o).rows
      /\ Rows(both) = Page(both, o).rows
  <2>1. /\ QuerySsrm(q, table) = {Page(q, o)}
        /\ QuerySsrm(next, table) = {Page(next, o)}
        /\ QuerySsrm(both, table) = {Page(both, o)}
    BY <1>3, <1>5
  <2>2. QED
    BY <2>1
<1> HIDE DEF Rows
<1>7. /\ page.rows = Window(o, s, e) /\ ((page.lastRow = -1) <=> Len(o) > e)
  BY <1>1, <1>3, <1>6, PageIs DEF s, e
<1>8. Rows(next) = Window(o, e, f)
  <2>1. next.start \in Nat /\ next.end \in Nat /\ next.start <= next.end
    BY <1>1, <1>5
  <2>2. Page(next, o).rows = Window(o, next.start, next.end)
    BY <1>3, <2>1, PageIs
  <2>3. QED
    BY <1>5, <1>6, <2>2
<1>9. Rows(both) = Window(o, s, f)
  <2>1. both.start \in Nat /\ both.end \in Nat /\ both.start <= both.end
    BY <1>1, <1>5
  <2>2. Page(both, o).rows = Window(o, both.start, both.end)
    BY <1>3, <2>1, PageIs
  <2>3. QED
    BY <1>5, <1>6, <2>2
<1>10. /\ Window(o, s, e) \o Window(o, e, f) = Window(o, s, f)
       /\ Window(o, e, f) # <<>> <=> Len(o) > e
  BY <1>1, <1>3, WindowsTile
<1>11. QED
  BY <1>7, <1>8, <1>9, <1>10 DEF Rows, next, both, size

LEMMA PagesStep == PagesTile /\ [Next]_vars => PagesTile'
<1> SUFFICES ASSUME PagesTile, [Next]_vars PROVE PagesTile'
  OBVIOUS
<1>1. CASE UNCHANGED deskVars
  BY <1>1 DEF deskVars, PagesTile
<1>2. CASE Answered
  BY <1>2 DEF Answered, None, PagesTile
<1>3. CASE Tool
  <2>1. ASSUME NEW q \in Queries, NEW table \in Tables, OlapQuery(q, table)
        PROVE  PagesTile'
    <3>1. call'.query = q /\ call'.table = table /\ reply' \in QuerySsrm(q, table)
      BY <2>1 DEF OlapQuery, Reply
    <3>2. QED
      BY <3>1, AnswerTiles, ZenonT(60) DEF PagesTile
  <2>2. \/ \E q \in Queries, table \in Tables : OlapQuery(q, table)
        \/ call'.tool # "olap_query"
    BY <1>3, ToolIs
  <2>3. QED
    BY <2>1, <2>2, ZenonT(60) DEF PagesTile
<1>4. QED
  BY <1>1, <1>2, <1>3, DeskSteps

\* The pages of a sorted request follow each other without a gap or a row
\* twice, and the end is announced on the last page and on no other, on
\* whatever level, under whatever filters and for whatever table.
THEOREM PagesFollow == Spec => []PagesTile
<1>1. Init => PagesTile
  BY DEF Init, None, PagesTile
<1>2. QED
  BY <1>1, PagesStep, PTL DEF Spec

(***************************************************************************)
(* Flattening.  f accumulates the first n sequences of ss.                 *)
(***************************************************************************)
Joined(ss, i, before) == IF i = 1 THEN ss[i] ELSE before \o ss[i]
Chain(f, ss, n) == f = [i \in 1 .. n |-> Joined(ss, i, f[i - 1])]

LEMMA JoinedIs ==
  ASSUME NEW ss, NEW i, NEW before, NEW after
  PROVE  i = 1 => Joined(ss, i, before) = Joined(ss, i, after)
BY DEF Joined

LEMMA ChainAt ==
  ASSUME NEW f, NEW ss, NEW n, Chain(f, ss, n), NEW i \in 1 .. n
  PROVE  f[i] = Joined(ss, i, f[i - 1])
BY DEF Chain

LEMMA ChainExists ==
  ASSUME NEW ss, NEW n \in Nat
  PROVE  \E f : Chain(f, ss, n)
<1> DEFINE Good == {m \in Nat : \E f : Chain(f, ss, m)}
<1>1. 0 \in Good
  <2>1. Chain([i \in 1 .. 0 |-> ss], ss, 0)
    BY DEF Chain
  <2>2. QED
    BY <2>1
<1>2. ASSUME NEW m \in Nat, m \in Good PROVE m + 1 \in Good
  <2>1. PICK f : Chain(f, ss, m)
    BY <1>2
  <2> DEFINE e == [i \in 1 .. m + 1 |-> Joined(ss, i, f[i - 1])]
  <2>2. \A i \in 1 .. m : e[i] = f[i]
    BY <2>1 DEF Chain
  <2>3. \A i \in 1 .. m + 1 : i # 1 => i - 1 \in 1 .. m
    OBVIOUS
  <2>4. e = [i \in 1 .. m + 1 |-> Joined(ss, i, f[i - 1])]
    OBVIOUS
  <2> HIDE DEF e
  <2>5. \A i \in 1 .. m + 1 : Joined(ss, i, f[i - 1]) = Joined(ss, i, e[i - 1])
    BY <2>2, <2>3, JoinedIs
  <2>6. Chain(e, ss, m + 1)
    BY <2>4, <2>5 DEF Chain
  <2>7. QED
    BY <2>6
<1> HIDE DEF Good
<1>3. Nat \subseteq Good
  BY <1>1, <1>2, CountingUp
<1>4. QED
  BY <1>3 DEF Good

LEMMA FlattenChain ==
  ASSUME NEW ss, Len(ss) \in Nat, Len(ss) # 0
  PROVE  \E f : Chain(f, ss, Len(ss)) /\ FlattenSeq(ss) = f[Len(ss)]
<1> DEFINE f == CHOOSE f : Chain(f, ss, Len(ss))
<1>1. Chain(f, ss, Len(ss))
  BY ChainExists
<1>2. FlattenSeq(ss) = f[Len(ss)]
  BY DEF FlattenSeq, Chain, Joined
<1>3. QED
  BY <1>1, <1>2

\* Chains over the same sequences agree.
LEMMA ChainsAgree ==
  ASSUME NEW f, NEW g, NEW ss, NEW tt, NEW n \in Nat, NEW m \in Nat, m <= n,
         Chain(f, ss, n), Chain(g, tt, m), \A i \in 1 .. m : ss[i] = tt[i]
  PROVE  \A i \in 1 .. m : f[i] = g[i]
<1> DEFINE Good == {k \in Nat : k \in 1 .. m => f[k] = g[k]}
<1>1. 0 \in Good
  OBVIOUS
<1>2. ASSUME NEW k \in Nat, k \in Good PROVE k + 1 \in Good
  <2>1. SUFFICES ASSUME k + 1 \in 1 .. m PROVE f[k + 1] = g[k + 1]
    OBVIOUS
  <2>2. k + 1 \in 1 .. n /\ ss[k + 1] = tt[k + 1] /\ k + 1 - 1 = k
    BY <2>1
  <2>3. /\ f[k + 1] = IF k + 1 = 1 THEN ss[k + 1] ELSE f[k] \o ss[k + 1]
        /\ g[k + 1] = IF k + 1 = 1 THEN tt[k + 1] ELSE g[k] \o tt[k + 1]
    <3>1. f[k + 1] = Joined(ss, k + 1, f[k + 1 - 1])
      BY <2>2, ChainAt
    <3>2. g[k + 1] = Joined(tt, k + 1, g[k + 1 - 1])
      BY <2>1, ChainAt
    <3>3. QED
      BY <2>2, <3>1, <3>2 DEF Joined
  <2>4. CASE k = 0
    BY <2>2, <2>3, <2>4
  <2>5. CASE k # 0
    <3>1. k \in 1 .. m
      BY <2>1, <2>5
    <3>2. f[k] = g[k]
      BY <1>2, <3>1
    <3>3. QED
      BY <2>2, <2>3, <3>2
  <2>6. QED
    BY <2>4, <2>5
<1> HIDE DEF Good
<1>3. Nat \subseteq Good
  BY <1>1, <1>2, CountingUp
<1>4. QED
  BY <1>3 DEF Good

\* The first sequences, flattened.
Flat(ss, m) == FlattenSeq(SubSeq(ss, 1, m))

LEMMA FlatNext ==
  ASSUME NEW T, NEW ss \in Seq(Seq(T)), NEW m \in 0 .. Len(ss) - 1
  PROVE  Flat(ss, 0) = <<>> /\ Flat(ss, m + 1) = Flat(ss, m) \o ss[m + 1]
<1>1. Len(ss) \in Nat /\ DOMAIN ss = 1 .. Len(ss) /\ ss \in [DOMAIN ss -> Seq(T)]
  BY SeqIs
<1>2. ASSUME NEW k \in 0 .. Len(ss)
      PROVE  /\ SubSeq(ss, 1, k) \in Seq(Seq(T)) /\ Len(SubSeq(ss, 1, k)) = k
             /\ \A i \in 1 .. k : SubSeq(ss, 1, k)[i] = ss[i]
  <2>1. \A i \in 1 .. k : ss[i] \in Seq(T)
    BY <1>1
  <2>2. 1 \in Int /\ k \in Int /\ k - 1 + 1 = k /\ k >= 0
    OBVIOUS
  <2>3. /\ SubSeq(ss, 1, k) \in Seq(Seq(T))
        /\ Len(SubSeq(ss, 1, k)) = IF 1 <= k THEN k - 1 + 1 ELSE 0
        /\ \A i \in 1 .. k - 1 + 1 : SubSeq(ss, 1, k)[i] = ss[1 + i - 1]
    BY <2>1, <2>2, SubSeqProperties
  <2>4. \A i \in 1 .. k : 1 + i - 1 = i
    BY <2>2
  <2>5. QED
    BY <2>2, <2>3, <2>4
<1>3. Flat(ss, 0) = <<>>
  <2>1. SubSeq(ss, 1, 0) = <<>>
    BY SubSeqEmpty
  <2>2. QED
    BY <2>1 DEF Flat, FlattenSeq
<1>4. PICK f : Chain(f, ss, Len(ss))
  BY <1>1, ChainExists
<1>5. ASSUME NEW k \in 1 .. Len(ss) PROVE Flat(ss, k) = f[k]
  <2> DEFINE pre == SubSeq(ss, 1, k)
  <2>1. Len(pre) = k /\ k \in Nat /\ k # 0 /\ \A i \in 1 .. k : ss[i] = pre[i]
    BY <1>2
  <2> HIDE DEF pre
  <2>2. PICK g : Chain(g, pre, k) /\ FlattenSeq(pre) = g[k]
    BY <2>1, FlattenChain
  <2>3. \A i \in 1 .. k : f[i] = g[i]
    <3> DEFINE n == Len(ss)
    <3>1. k <= n /\ n \in Nat /\ k \in Nat
      BY <1>1
    <3>2. Chain(f, ss, n) /\ Chain(g, pre, k) /\ \A i \in 1 .. k : ss[i] = pre[i]
      BY <1>4, <2>1, <2>2
    <3> HIDE DEF n
    <3>3. QED
      BY <3>1, <3>2, ChainsAgree
  <2>4. QED
    BY <2>1, <2>2, <2>3 DEF Flat, pre
<1>6. m + 1 \in 1 .. Len(ss) /\ m + 1 - 1 = m
  BY <1>1
<1>7. f[m + 1] = IF m + 1 = 1 THEN ss[m + 1] ELSE f[m] \o ss[m + 1]
  <2>1. f[m + 1] = Joined(ss, m + 1, f[m + 1 - 1])
    <3> DEFINE n == Len(ss)
               k == m + 1
    <3>1. Chain(f, ss, n) /\ k \in 1 .. n
      BY <1>4, <1>6
    <3> HIDE DEF n, k
    <3>2. f[k] = Joined(ss, k, f[k - 1])
      BY <3>1, ChainAt
    <3>3. QED
      BY <3>2 DEF k
  <2>2. QED
    BY <1>6, <2>1 DEF Joined
<1>8. CASE m = 0
  <2>1. ss[m + 1] \in Seq(T)
    BY <1>1, <1>6
  <2>2. <<>> \o ss[m + 1] = ss[m + 1]
    BY <2>1, ConcatEmptySeq
  <2>3. QED
    BY <1>3, <1>5, <1>6, <1>7, <1>8, <2>2
<1>9. CASE m # 0
  <2>1. m \in 1 .. Len(ss) /\ m + 1 # 1
    BY <1>1, <1>9
  <2>2. QED
    BY <1>3, <1>5, <1>6, <1>7, <2>1
<1>10. QED
  BY <1>8, <1>9

\* Flattened, the elements of a sequence come after those of the earlier ones.
LEMMA FlattenPlaces ==
  ASSUME NEW T, NEW ss \in Seq(Seq(T))
  PROVE  /\ FlattenSeq(ss) \in Seq(T)
         /\ \A i \in DOMAIN ss : \A k \in DOMAIN ss[i] :
              FlattenSeq(ss)[Len(Flat(ss, i - 1)) + k] = ss[i][k]
<1> DEFINE L == Len(ss)
           Start(i) == Len(Flat(ss, i - 1))
           Placed(m) ==
             /\ Flat(ss, m) \in Seq(T)
             /\ \A i \in 1 .. m : /\ Start(i) \in Nat
                                  /\ Start(i) + Len(ss[i]) <= Len(Flat(ss, m))
                                  /\ \A k \in 1 .. Len(ss[i]) :
                                       Flat(ss, m)[Start(i) + k] = ss[i][k]
           Good == {m \in Nat : m <= L => Placed(m)}
<1>1. L \in Nat /\ DOMAIN ss = 1 .. L /\ ss \in [1 .. L -> Seq(T)]
  BY SeqIs
<1>2. \A i \in 1 .. L : ss[i] \in Seq(T)
  BY <1>1
<1>3. CASE L = 0
  <2>1. FlattenSeq(ss) = ss /\ ss = <<>>
    BY <1>3, EmptySeq DEF FlattenSeq
  <2>2. <<>> \in Seq(T) /\ DOMAIN ss = {}
    BY <1>1, <1>3, EmptySeq
  <2>3. QED
    BY <2>1, <2>2
<1>4. CASE L # 0
  <2>1. 0 \in Good
    <3>1. Flat(ss, 0) = <<>>
      <4>1. 0 \in 0 .. Len(ss) - 1
        BY <1>1, <1>4
      <4>2. QED
        BY <4>1, FlatNext
    <3>2. Flat(ss, 0) \in Seq(T)
      BY <3>1, EmptySeq
    <3>3. Placed(0)
      <4>1. 1 .. 0 = {}
        OBVIOUS
      <4> HIDE DEF Start
      <4>2. QED
        BY <3>2, <4>1
    <3> HIDE DEF Placed
    <3>4. QED
      BY <3>3
  <2>2. ASSUME NEW m \in Nat, m \in Good PROVE m + 1 \in Good
    <3>1. SUFFICES ASSUME m + 1 <= L PROVE Placed(m + 1)
      <4> HIDE DEF Placed, L
      <4>1. QED
        OBVIOUS
    <3> DEFINE a == Flat(ss, m)
               b == ss[m + 1]
               c == Flat(ss, m + 1)
    <3>2. m \in 0 .. Len(ss) - 1 /\ m <= L /\ m + 1 \in 1 .. L
      BY <1>1, <3>1
    <3>3. Placed(m)
      BY <2>2, <3>2
    <3>4. c = a \o b /\ a \in Seq(T) /\ b \in Seq(T)
      BY <1>2, <3>2, <3>3, FlatNext
    <3>5. Start(m + 1) = Len(a)
      <4>1. m + 1 - 1 = m
        OBVIOUS
      <4>2. QED
        BY <4>1
    <3>6. ASSUME NEW i \in 1 .. m
          PROVE  /\ Start(i) \in Nat /\ Start(i) + Len(ss[i]) <= Len(a)
                 /\ \A k \in 1 .. Len(ss[i]) : a[Start(i) + k] = ss[i][k]
      BY <3>3
    <3> HIDE DEF a, b, c, Start, Good
    <3>7. /\ c \in Seq(T) /\ Len(c) = Len(a) + Len(b)
          /\ Len(a) \in Nat /\ Len(b) \in Nat
          /\ \A j \in 1 .. Len(a) + Len(b) :
               c[j] = IF j <= Len(a) THEN a[j] ELSE b[j - Len(a)]
      BY <3>4, ConcatProperties
    <3>8. ASSUME NEW i \in 1 .. m
          PROVE  /\ Start(i) \in Nat /\ Start(i) + Len(ss[i]) <= Len(c)
                 /\ \A k \in 1 .. Len(ss[i]) : c[Start(i) + k] = ss[i][k]
      <4>1. i \in 1 .. L
        BY <3>2
      <4>2. Len(ss[i]) \in Nat
        BY <1>2, <4>1
      <4>3. ASSUME NEW k \in 1 .. Len(ss[i]) PROVE c[Start(i) + k] = ss[i][k]
        <5> DEFINE at == Start(i) + k
        <5>1. Start(i) \in Nat /\ Start(i) + Len(ss[i]) <= Len(a) /\ a[at] = ss[i][k]
          BY <3>6
        <5>2. at \in 1 .. Len(a) + Len(b) /\ at <= Len(a)
          <6> DEFINE x == Start(i)
                     l == Len(ss[i])
                     la == Len(a)
                     lb == Len(b)
          <6>1. /\ x \in Nat /\ x + l <= la /\ la \in Nat /\ lb \in Nat
                /\ l \in Nat /\ k \in 1 .. l /\ at = x + k
            BY <3>7, <4>2, <5>1
          <6> HIDE DEF x, l, la, lb, at
          <6>2. at \in 1 .. la + lb /\ at <= la
            BY <6>1
          <6>3. QED
            BY <6>2 DEF la, lb
        <5> HIDE DEF at
        <5>3. c[at] = a[at]
          BY <3>7, <5>2
        <5>4. QED
          BY <5>1, <5>3 DEF at
      <4>4. Start(i) \in Nat /\ Start(i) + Len(ss[i]) <= Len(c)
        <5>1. Start(i) \in Nat /\ Start(i) + Len(ss[i]) <= Len(a)
          BY <3>6
        <5>2. QED
          BY <3>7, <4>2, <5>1
      <4>5. QED
        BY <4>3, <4>4
    <3>9. /\ Start(m + 1) \in Nat /\ Start(m + 1) + Len(b) <= Len(c)
          /\ \A k \in 1 .. Len(b) : c[Start(m + 1) + k] = b[k]
      <4>1. \A k \in 1 .. Len(b) : /\ Len(a) + k \in 1 .. Len(a) + Len(b)
                                   /\ ~(Len(a) + k <= Len(a))
                                   /\ Len(a) + k - Len(a) = k
        BY <3>7
      <4>2. ASSUME NEW k \in 1 .. Len(b) PROVE c[Start(m + 1) + k] = b[k]
        <5> DEFINE at == Len(a) + k
        <5>1. at \in 1 .. Len(a) + Len(b) /\ ~(at <= Len(a)) /\ at - Len(a) = k
          BY <4>1
        <5> HIDE DEF at
        <5>2. c[at] = b[k]
          BY <3>7, <5>1
        <5>3. QED
          BY <3>5, <5>2 DEF at
      <4>3. Start(m + 1) \in Nat /\ Start(m + 1) + Len(b) <= Len(c)
        BY <3>5, <3>7
      <4>4. QED
        BY <4>2, <4>3
    <3>10. \A i \in 1 .. m + 1 : i \in 1 .. m \/ i = m + 1
      OBVIOUS
    <3>11. QED
      BY <3>7, <3>8, <3>9, <3>10 DEF b, c
  <2> HIDE DEF Good
  <2>3. Nat \subseteq Good
    BY <2>1, <2>2, CountingUp
  <2>4. Placed(L)
    <3> HIDE DEF Placed
    <3>1. L \in Good
      BY <1>1, <2>3
    <3> HIDE DEF L
    <3>2. QED
      BY <1>1, <3>1 DEF Good
  <2>5. Flat(ss, L) = FlattenSeq(ss)
    <3>1. SubSeq(ss, 1, Len(ss)) = ss
      BY SubSeqFull
    <3>2. QED
      BY <3>1 DEF Flat
  <2>6. \A i \in 1 .. L : DOMAIN ss[i] = 1 .. Len(ss[i])
    BY <1>2
  <2> HIDE DEF L, Start
  <2>7. QED
    BY <1>1, <2>4, <2>5, <2>6 DEF Start
<1>5. QED
  BY <1>3, <1>4

\* What a key asks of a row.
KeyTerm(q, i) ==
  [column |-> q.groups[i], kind |-> "equals", args |-> <<q.keys[i]>>]

LEMMA TermsAre ==
  ASSUME NEW q, NEW table, Asked(q, table), ~Refused(q)
  PROVE  LET terms == WhereTerms(q)
             nk == Len(q.keys)
             nf == Len(q.filters)
         IN /\ terms \in Seq(FilterTerm) /\ DOMAIN terms = 1 .. nk + nf
            /\ nk \in Nat /\ nf \in Nat
            /\ \A i \in 1 .. nk : terms[i] = KeyTerm(q, i)
            /\ \A i \in 1 .. nf : terms[nk + i] = q.filters[i]
<1> DEFINE terms == WhereTerms(q)
           keys == q.keys
           filters == q.filters
           groups == q.groups
           nk == Len(keys)
           nf == Len(filters)
           ofKeys == [i \in DOMAIN keys |-> KeyTerm(q, i)]
<1>1. /\ groups \in Seq(STRING) /\ keys \in Seq(Nat) /\ filters \in Seq(FilterTerm)
      /\ nk <= Len(groups)
  BY QueryIs DEF Refused
<1>2. /\ nk \in Nat /\ DOMAIN keys = 1 .. nk /\ nf \in Nat
      /\ \A i \in 1 .. nk : keys[i] \in Nat /\ groups[i] \in STRING
  <2> HIDE DEF keys, filters, groups
  <2>1. nk \in Nat /\ DOMAIN keys = 1 .. nk /\ nf \in Nat /\ Len(groups) \in Nat
    BY <1>1, SeqIs
  <2>2. ASSUME NEW i \in 1 .. nk PROVE keys[i] \in Nat /\ groups[i] \in STRING
    <3>1. i \in 1 .. Len(groups)
      BY <1>1, <2>1
    <3>2. QED
      BY <1>1, <3>1, ElementOfSeq
  <2>3. QED
    BY <2>1, <2>2
<1>3. \A i \in 1 .. nk : KeyTerm(q, i) \in FilterTerm
  BY <1>2 DEF KeyTerm, FilterTerm
<1>4. terms = ofKeys \o filters
  BY DEF WhereTerms, KeyTerm
<1>5. ofKeys \in Seq(FilterTerm) /\ Len(ofKeys) = nk
  <2>1. ofKeys \in [1 .. nk -> FilterTerm]
    BY <1>2, <1>3
  <2> HIDE DEF ofKeys, nk
  <2>2. QED
    BY <1>2, <2>1
<1>6. \A i \in 1 .. nk : ofKeys[i] = KeyTerm(q, i)
  BY <1>2
<1> HIDE DEF terms, ofKeys, nk, nf, keys, filters
<1>7. /\ terms \in Seq(FilterTerm) /\ Len(terms) = nk + nf
      /\ \A i \in 1 .. nk + nf :
           terms[i] = IF i <= nk THEN ofKeys[i] ELSE filters[i - nk]
  BY <1>1, <1>4, <1>5, ConcatProperties, ZenonT(60) DEF nf
<1>8. \A i \in 1 .. nk : terms[i] = KeyTerm(q, i)
  <2>1. \A i \in 1 .. nk : i \in 1 .. nk + nf /\ i <= nk
    BY <1>2
  <2>2. QED
    BY <1>6, <1>7, <2>1
<1>9. ASSUME NEW i \in 1 .. nf PROVE terms[nk + i] = filters[i]
  <2> DEFINE at == nk + i
  <2>1. at \in 1 .. nk + nf /\ ~(at <= nk) /\ at - nk = i
    BY <1>2
  <2> HIDE DEF at
  <2>2. QED
    BY <1>7, <2>1 DEF at
<1>10. DOMAIN terms = 1 .. nk + nf
  BY <1>7, SeqIs
<1>11. QED
  BY <1>2, <1>7, <1>8, <1>9, <1>10 DEF terms, nk, nf, keys, filters

\* The arguments of the first terms.
LEMMA ArgsAre ==
  ASSUME NEW terms \in Seq(FilterTerm)
  PROVE  LET args == [i \in DOMAIN terms |-> terms[i].args]
         IN /\ args \in Seq(Seq(Nat)) /\ DOMAIN args = DOMAIN terms
            /\ WhereArgs(terms) = FlattenSeq(args)
            /\ \A i \in DOMAIN terms :
                 WhereArgs(SubSeq(terms, 1, i - 1)) = Flat(args, i - 1)
<1> DEFINE args == [i \in DOMAIN terms |-> terms[i].args]
           L == Len(terms)
<1>1. L \in Nat /\ DOMAIN terms = 1 .. L /\ terms \in [1 .. L -> FilterTerm]
  BY SeqIs
<1>2. \A i \in 1 .. L : terms[i] \in FilterTerm /\ terms[i].args \in Seq(Nat)
  BY <1>1 DEF FilterTerm
<1>3. args \in [1 .. L -> Seq(Nat)] /\ DOMAIN args = 1 .. L
  BY <1>1, <1>2
<1>4. \A i \in 1 .. L : args[i] = terms[i].args
  BY <1>1
<1>5. WhereArgs(terms) = FlattenSeq(args)
  BY DEF WhereArgs
<1> HIDE DEF args, L
<1>6. args \in Seq(Seq(Nat)) /\ Len(args) = L
  BY <1>1, <1>3
<1>7. ASSUME NEW i \in 1 .. L
      PROVE  WhereArgs(SubSeq(terms, 1, i - 1)) = Flat(args, i - 1)
  <2> DEFINE pre == SubSeq(terms, 1, i - 1)
             m == i - 1
  <2>1. /\ 1 \in Int /\ m \in Int /\ m >= 0 /\ m - 1 + 1 = m
        /\ \A j \in 1 .. m : j \in 1 .. L /\ 1 + j - 1 = j
    BY <1>1
  <2> HIDE DEF m
  <2>2. \A j \in 1 .. m : terms[j] \in FilterTerm /\ args[j] \in Seq(Nat)
    BY <1>2, <1>4, <2>1
  <2>3. /\ SubSeq(terms, 1, m) \in Seq(FilterTerm)
        /\ Len(SubSeq(terms, 1, m)) = IF 1 <= m THEN m - 1 + 1 ELSE 0
        /\ \A j \in 1 .. m - 1 + 1 : SubSeq(terms, 1, m)[j] = terms[1 + j - 1]
    BY <2>1, <2>2, SubSeqProperties
  <2>4. /\ SubSeq(args, 1, m) \in Seq(Seq(Nat))
        /\ Len(SubSeq(args, 1, m)) = IF 1 <= m THEN m - 1 + 1 ELSE 0
        /\ \A j \in 1 .. m - 1 + 1 : SubSeq(args, 1, m)[j] = args[1 + j - 1]
    BY <2>1, <2>2, SubSeqProperties
  <2> DEFINE a == SubSeq(args, 1, m)
             t == SubSeq(terms, 1, m)
             mapped == [j \in DOMAIN t |-> t[j].args]
  <2> HIDE DEF a, t
  <2>5. /\ t \in Seq(FilterTerm) /\ Len(t) = m /\ a \in Seq(Seq(Nat)) /\ Len(a) = m
        /\ \A j \in 1 .. m : t[j] = terms[j] /\ a[j] = args[j]
    BY <2>1, <2>3, <2>4 DEF a, t
  <2>6. DOMAIN t = 1 .. m /\ DOMAIN a = 1 .. m /\ a \in [1 .. m -> Seq(Nat)]
    BY <2>5, SeqIs
  <2>7. mapped = a
    <3>1. \A j \in 1 .. m : mapped[j] = a[j]
      BY <1>4, <2>1, <2>5, <2>6
    <3>2. mapped = [j \in 1 .. m |-> mapped[j]] /\ a = [j \in 1 .. m |-> a[j]]
      BY <2>6
    <3> HIDE DEF mapped
    <3>3. QED
      BY <3>1, <3>2
  <2>8. WhereArgs(t) = FlattenSeq(mapped)
    BY DEF WhereArgs
  <2> HIDE DEF mapped
  <2>9. QED
    BY <2>7, <2>8 DEF Flat, a, t, m
<1>8. QED
  BY <1>1, <1>3, <1>5, <1>6, <1>7 DEF args

\* Without a pivot every placeholder gets the argument of its own term.
LEMMA BoundIs ==
  ASSUME NEW q, NEW table, Asked(q, table), ~Refused(q), ~IsPivot(q)
  PROVE  /\ Len(Params(q, table)) = Holes(q, table)
         /\ SelectHoles(q, table) = 0
         /\ BoundWhere(q, Params(q, table), 0) = WhereTerms(q)
<1> DEFINE terms == WhereTerms(q)
           args == [i \in DOMAIN terms |-> terms[i].args]
           params == WhereArgs(terms)
<1>1. terms \in Seq(FilterTerm)
  BY TermsAre
<1> HIDE DEF terms
<1>2. /\ args \in Seq(Seq(Nat)) /\ DOMAIN args = DOMAIN terms
      /\ params = FlattenSeq(args)
      /\ \A i \in DOMAIN terms :
           WhereArgs(SubSeq(terms, 1, i - 1)) = Flat(args, i - 1)
  BY <1>1, ArgsAre
<1>3. \A i \in DOMAIN terms : args[i] = terms[i].args
  OBVIOUS
<1> HIDE DEF args
<1>4. /\ params \in Seq(Nat)
      /\ \A i \in DOMAIN args : \A k \in DOMAIN args[i] :
           params[Len(Flat(args, i - 1)) + k] = args[i][k]
  BY <1>2, FlattenPlaces
<1>5. Params(q, table) = params /\ SelectHoles(q, table) = 0
  <2>1. Params(q, table) = params \o <<>>
    BY DEF Params, terms
  <2>2. params \o <<>> = params
    BY <1>4, ConcatEmptySeq
  <2>3. QED
    BY <2>1, <2>2 DEF SelectHoles
<1>6. Len(params) \in Nat
  BY <1>4, SeqIs
<1>7. Len(Params(q, table)) = Holes(q, table)
  <2>1. Holes(q, table) = 0 + Len(params)
    BY <1>5 DEF Holes, terms
  <2>2. QED
    BY <1>5, <1>6, <2>1
<1> DEFINE From(i) == 0 + Len(WhereArgs(SubSeq(terms, 1, i - 1)))
           Bound(i) == [terms[i] EXCEPT !.args =
                          [k \in DOMAIN @ |-> params[From(i) + k]]]
<1>8. BoundWhere(q, params, 0) = [i \in DOMAIN terms |-> Bound(i)]
  BY DEF BoundWhere, terms
<1>9. ASSUME NEW i \in DOMAIN terms PROVE Bound(i) = terms[i]
  <2>1. terms[i] \in FilterTerm
    BY <1>1
  <2>2. From(i) = Len(Flat(args, i - 1))
    <3>1. Flat(args, i - 1) \in Seq(Nat)
      <4>1. Len(terms) \in Nat /\ DOMAIN terms = 1 .. Len(terms)
        BY <1>1, SeqIs
      <4>2. 1 \in Int /\ i - 1 \in Int /\ \A j \in 1 .. i - 1 : j \in DOMAIN args
        BY <1>2, <4>1
      <4>3. \A j \in 1 .. i - 1 : args[j] \in Seq(Nat)
        BY <1>2, <4>2, SeqIs
      <4>4. SubSeq(args, 1, i - 1) \in Seq(Seq(Nat))
        BY <4>2, <4>3, SubSeqProperties
      <4>5. QED
        BY <4>4, FlattenPlaces DEF Flat
    <3>2. Len(Flat(args, i - 1)) \in Nat
      BY <3>1, SeqIs
    <3>3. WhereArgs(SubSeq(terms, 1, i - 1)) = Flat(args, i - 1)
      BY <1>2
    <3>4. QED
      BY <3>2, <3>3
  <2> HIDE DEF From, params
  <2> DEFINE given == terms[i].args
             bound == [k \in DOMAIN given |-> params[From(i) + k]]
  <2>3. \A k \in DOMAIN given : params[From(i) + k] = given[k]
    BY <1>2, <1>3, <1>4, <2>2
  <2>4. given \in Seq(Nat)
    BY <2>1 DEF FilterTerm
  <2>5. bound = given
    <3> HIDE DEF given
    <3>1. given = [k \in DOMAIN given |-> given[k]]
      BY <2>4, SeqIs
    <3>2. QED
      BY <2>3, <3>1
  <2>6. Bound(i) = [terms[i] EXCEPT !.args = bound]
    OBVIOUS
  <2> HIDE DEF Bound, bound
  <2>7. [terms[i] EXCEPT !.args = given] = terms[i]
    BY <2>1 DEF FilterTerm
  <2>8. QED
    BY <2>5, <2>6, <2>7
<1> HIDE DEF Bound
<1>10. terms = [i \in DOMAIN terms |-> terms[i]]
  BY <1>1, SeqIs
<1>11. BoundWhere(q, params, 0) = terms
  BY <1>8, <1>9, <1>10
<1>12. QED
  BY <1>5, <1>7, <1>11 DEF terms

\* Summed over what they are mapped to, one to one, the sum is the same.
LEMMA SumRenamed ==
  ASSUME NEW g, NEW h, NEW k, NEW S, IsFiniteSet(S),
         \A y \in S : g[y] \in Int /\ h[k[y]] = g[y],
         \A x, y \in S : k[x] = k[y] => x = y
  PROVE  SumFunctionOnSet(h, {k[y] : y \in S}) = SumFunctionOnSet(g, S)
<1> DEFINE K == {k[y] : y \in S}
           part == [key \in K |-> SumFunctionOnSet(g, {y \in S : k[y] = key})]
<1>1. SumFunctionOnSet(part, K) = SumFunctionOnSet(g, S)
  BY SumByKey
<1>2. ASSUME NEW key \in K PROVE part[key] \in Int /\ h[key] = part[key]
  <2>1. PICK y \in S : k[y] = key
    OBVIOUS
  <2>2. {x \in S : k[x] = key} = {y} /\ {y} = {} \cup {y} /\ y \notin {}
    BY <2>1
  <2>3. part[key] = SumFunctionOnSet(g, {} \cup {y})
    BY <2>2
  <2>4. SumFunctionOnSet(g, {} \cup {y}) = SumFunctionOnSet(g, {}) + g[y]
    BY FS_EmptySet, SumAdd
  <2>5. SumFunctionOnSet(g, {}) = 0 /\ g[y] \in Int
    BY SumEmpty
  <2> HIDE DEF part
  <2>6. part[key] = g[y]
    BY <2>3, <2>4, <2>5
  <2>7. QED
    BY <2>1, <2>5, <2>6
<1>3. IsFiniteSet(K)
  BY FiniteImage
<1> HIDE DEF K, part
<1>4. SumFunctionOnSet(part, K) = SumFunctionOnSet(h, K)
  BY <1>2, <1>3, SumSame
<1>5. QED
  BY <1>1, <1>4 DEF K

\* The rows of the table a request is about.
Chosen(q, table) ==
  {r \in DOMAIN table : Satisfies(table[r], WhereTerms(q))}

LEMMA ChosenIs ==
  ASSUME NEW q, NEW table, Asked(q, table), ~Refused(q), NEW row
  PROVE  Satisfies(row, WhereTerms(q)) <=>
           /\ \A i \in 1 .. Len(q.keys) : /\ row[q.groups[i]] = q.keys[i]
                                         /\ row[q.groups[i]] # Null
           /\ \A i \in 1 .. Len(q.filters) :
                Holds(q.filters[i].kind, row[q.filters[i].column],
                      q.filters[i].args)
<1> DEFINE terms == WhereTerms(q)
           nk == Len(q.keys)
           nf == Len(q.filters)
           Meets(t) == Holds(t.kind, row[t.column], t.args)
<1>1. /\ DOMAIN terms = 1 .. nk + nf /\ nk \in Nat /\ nf \in Nat
      /\ \A i \in 1 .. nk : terms[i] = KeyTerm(q, i)
      /\ \A i \in 1 .. nf : terms[nk + i] = q.filters[i]
  BY TermsAre
<1> HIDE DEF terms, nk, nf
<1>2. Satisfies(row, terms) <=> \A i \in 1 .. nk + nf : Meets(terms[i])
  BY <1>1 DEF Satisfies
<1>3. ASSUME NEW i \in 1 .. nk
      PROVE  Meets(terms[i]) <=> /\ row[q.groups[i]] = q.keys[i]
                                 /\ row[q.groups[i]] # Null
  <2>1. terms[i] = KeyTerm(q, i)
    BY <1>1
  <2>2. /\ KeyTerm(q, i).kind = "equals" /\ KeyTerm(q, i).column = q.groups[i]
        /\ KeyTerm(q, i).args = <<q.keys[i]>>
    BY DEF KeyTerm
  <2>3. Holds("equals", row[q.groups[i]], <<q.keys[i]>>)
          <=> row[q.groups[i]] = q.keys[i] /\ row[q.groups[i]] # Null
    BY DEF Holds
  <2>4. QED
    BY <2>1, <2>2, <2>3
<1> HIDE DEF Meets
<1>4. (\A i \in 1 .. nk + nf : Meets(terms[i]))
        <=> /\ \A i \in 1 .. nk : Meets(terms[i])
            /\ \A i \in 1 .. nf : Meets(terms[nk + i])
  <2>1. \A i \in 1 .. nk : i \in 1 .. nk + nf
    BY <1>1
  <2>2. \A i \in 1 .. nf : nk + i \in 1 .. nk + nf
    BY <1>1
  <2>3. ASSUME NEW i \in 1 .. nk + nf
        PROVE  i \in 1 .. nk \/ \E j \in 1 .. nf : i = nk + j
    <3>1. i \in 1 .. nk \/ (i - nk \in 1 .. nf /\ i = nk + (i - nk))
      BY <1>1
    <3>2. QED
      BY <3>1
  <2>4. QED
    BY <2>1, <2>2, <2>3
<1>5. \A i \in 1 .. nf : Meets(terms[nk + i]) <=> Meets(q.filters[i])
  BY <1>1
<1>6. QED
  BY <1>2, <1>3, <1>4, <1>5 DEF Meets, nk, nf, terms

\* Opening a group leaves, of the rows chosen, those of the group.
LEMMA ChosenBelow ==
  ASSUME NEW q, NEW table, Asked(q, table), IsGrouping(q), NEW g \in Nat,
         g # Null, NEW p, Asked(p, table), p.keys = Append(q.keys, g),
         p.groups = q.groups, p.filters = q.filters
  PROVE  /\ ~Refused(p) /\ ~Refused(q)
         /\ Chosen(p, table)
              = {r \in Chosen(q, table) : table[r][GroupField(q)] = g}
<1> DEFINE nk == Len(q.keys)
<1>1. q.keys \in Seq(Nat) /\ nk \in Nat /\ Len(q.groups) \in Nat
  BY QueryIs
<1>2. /\ Len(p.keys) = nk + 1
      /\ \A i \in 1 .. nk : p.keys[i] = q.keys[i]
      /\ p.keys[nk + 1] = g
  BY <1>1
<1>3. ~Refused(p) /\ ~Refused(q)
  BY <1>1, <1>2 DEF Refused, IsGrouping
<1>4. ASSUME NEW row
      PROVE  Satisfies(row, WhereTerms(p))
               <=> Satisfies(row, WhereTerms(q)) /\ row[GroupField(q)] = g
  <2> DEFINE Filtered(x) ==
               \A i \in 1 .. Len(x.filters) :
                 Holds(x.filters[i].kind, row[x.filters[i].column],
                       x.filters[i].args)
             Keyed(x) == \A i \in 1 .. Len(x.keys) :
                           row[x.groups[i]] = x.keys[i] /\ row[x.groups[i]] # Null
  <2>1. /\ Satisfies(row, WhereTerms(p)) <=> Keyed(p) /\ Filtered(p)
        /\ Satisfies(row, WhereTerms(q)) <=> Keyed(q) /\ Filtered(q)
    BY <1>3, ChosenIs
  <2>2. Filtered(p) <=> Filtered(q)
    OBVIOUS
  <2> HIDE DEF Filtered
  <2>3. Keyed(p) <=> Keyed(q) /\ row[q.groups[nk + 1]] = g
    <3> HIDE DEF nk
    <3>1. \A i \in 1 .. nk + 1 : i \in 1 .. nk \/ i = nk + 1
      BY <1>1 DEF nk
    <3>2. /\ \A i \in 1 .. nk : i \in 1 .. nk + 1 /\ p.keys[i] = q.keys[i]
          /\ nk + 1 \in 1 .. nk + 1
      BY <1>1, <1>2 DEF nk
    <3>3. Keyed(p) <=> \A i \in 1 .. nk + 1 : /\ row[q.groups[i]] = p.keys[i]
                                              /\ row[q.groups[i]] # Null
      BY <1>2
    <3>4. Keyed(q) <=> \A i \in 1 .. nk : /\ row[q.groups[i]] = q.keys[i]
                                          /\ row[q.groups[i]] # Null
      BY DEF nk
    <3> HIDE DEF Keyed
    <3>5. QED
      BY <1>2, <3>1, <3>2, <3>3, <3>4
  <2> HIDE DEF Keyed
  <2>4. QED
    BY <2>1, <2>2, <2>3 DEF GroupField
<1>5. QED
  BY <1>3, <1>4 DEF Chosen

\* The rows of an answer without a pivot: a row for each group, its cells the
\* sums of its members', or for each row of the table.
Members(q, table, g) == {r \in Chosen(q, table) : table[r][GroupField(q)] = g}
GroupRow(q, table, g) ==
  [id |-> g, cells |-> [v \in DOMAIN q.values |->
                          SumColumn(table, Members(q, table, g), q.values[v])]]
LeafRow(q, table, r) ==
  [id |-> r, cells |-> [v \in DOMAIN q.values |-> table[r][q.values[v]]]]
Groups(q, table) == {table[r][GroupField(q)] : r \in Chosen(q, table)}
PlainRows(q, table) ==
  IF IsGrouping(q) THEN {GroupRow(q, table, g) : g \in Groups(q, table)}
  ELSE {LeafRow(q, table, r) : r \in Chosen(q, table)}

LEMMA PlainIs ==
  ASSUME NEW q, NEW table, Asked(q, table), ~Refused(q), ~IsPivot(q)
  PROVE  /\ Numbered(PlainRows(q, table))
         /\ QuerySsrm(q, table) = {Page(q, o) : o \in Orders(q, PlainRows(q, table))}
<1> DEFINE params == Params(q, table)
<1>1. /\ Len(params) = Holes(q, table) /\ SelectHoles(q, table) = 0
      /\ BoundWhere(q, params, 0) = WhereTerms(q)
  BY BoundIs
<1> HIDE DEF params
<1>2. Answer(q, table, params) = PlainRows(q, table)
  <2> DEFINE chosen == {r \in DOMAIN table :
                          Satisfies(table[r],
                            BoundWhere(q, params, SelectHoles(q, table)))}
             CellsOf(g) == [v \in DOMAIN q.values |->
                            SumColumn(table,
                                      {r \in chosen : table[r][GroupField(q)] = g},
                                      q.values[v])]
  <2>1. Answer(q, table, params)
          = IF IsGrouping(q)
            THEN {[id |-> g, cells |-> CellsOf(g)] :
                    g \in {table[r][GroupField(q)] : r \in chosen}}
            ELSE {[id |-> r, cells |-> [v \in DOMAIN q.values |->
                                          table[r][q.values[v]]]] : r \in chosen}
    BY DEF Answer
  <2>2. chosen = Chosen(q, table)
    BY <1>1 DEF Chosen
  <2> HIDE DEF chosen
  <2>3. \A g : [id |-> g, cells |-> CellsOf(g)] = GroupRow(q, table, g)
    BY <2>2 DEF GroupRow, Members
  <2>4. \A r : [id |-> r, cells |-> [v \in DOMAIN q.values |->
                                       table[r][q.values[v]]]]
                 = LeafRow(q, table, r)
    BY DEF LeafRow
  <2> HIDE DEF CellsOf
  <2>5. QED
    BY <2>1, <2>2, <2>3, <2>4, ZenonT(60) DEF PlainRows, Groups
<1>3. Numbered(Answer(q, table, params))
  BY AnswerIs
<1>4. QED
  BY <1>1, <1>2, <1>3 DEF QuerySsrm, params

LEMMA ChosenFinite ==
  ASSUME NEW q, NEW table, Asked(q, table)
  PROVE  /\ Chosen(q, table) \subseteq DOMAIN table
         /\ IsFiniteSet(Chosen(q, table))
         /\ Cardinality(Chosen(q, table)) <= Len(table)
<1>1. IsFiniteSet(DOMAIN table) /\ DOMAIN table = 1 .. Len(table)
      /\ Len(table) \in Nat
  BY QueryIs
<1>2. Chosen(q, table) \subseteq DOMAIN table
  BY DEF Chosen
<1>3. Cardinality(DOMAIN table) = Len(table)
  <2> DEFINE L == Len(table)
  <2>1. 1 \in Int /\ L \in Int /\ L \in Nat /\ (1 > L <=> L = 0)
    BY <1>1
  <2> HIDE DEF L
  <2>2. Cardinality(1 .. L) = IF 1 > L THEN 0 ELSE L - 1 + 1
    BY <2>1, FS_Interval
  <2>3. Cardinality(1 .. L) = L
    BY <2>1, <2>2
  <2>4. QED
    BY <1>1, <2>3 DEF L
<1>4. QED
  BY <1>1, <1>2, <1>3, FS_Subset

\* The cells of a measure add up to the measure over the rows chosen, and
\* there are no more rows than chosen.
LEMMA CellsAddUp ==
  ASSUME NEW q, NEW table, Asked(q, table)
  PROVE  LET A == PlainRows(q, table)
         IN /\ Cardinality(A) <= Len(table)
            /\ \A v \in DOMAIN q.values :
                 /\ \A row \in A : row.cells[v] \in Int
                 /\ SumFunctionOnSet([row \in A |-> row.cells[v]], A)
                      = SumColumn(table, Chosen(q, table), q.values[v])
<1> DEFINE C == Chosen(q, table)
           A == PlainRows(q, table)
           L == Len(table)
<1>1. C \subseteq DOMAIN table /\ IsFiniteSet(C) /\ Cardinality(C) <= L
      /\ Cardinality(C) \in Nat /\ L \in Nat
  BY ChosenFinite, QueryIs, FS_CardinalityType
<1>2. \A r \in C : \A v \in DOMAIN q.values : table[r][q.values[v]] \in Int
  BY <1>1, QueryIs
<1> HIDE DEF L, C
<1>3. CASE IsGrouping(q)
  <2> DEFINE ids == Groups(q, table)
             field == [r \in C |-> table[r][GroupField(q)]]
             row == [g \in ids |-> GroupRow(q, table, g)]
             Of(g) == {r \in C : field[r] = g}
  <2>1. ids = {field[r] : r \in C} /\ \A g : Of(g) = Members(q, table, g)
    BY DEF Groups, Members, C
  <2>2. A = {row[g] : g \in ids} /\ \A g \in ids : row[g].id = g
    BY <1>3 DEF PlainRows, GroupRow
  <2>3. \A g \in ids, v \in DOMAIN q.values :
          row[g].cells[v] = SumColumn(table, Of(g), q.values[v])
    BY <2>1 DEF GroupRow
  <2> HIDE DEF ids, field, row, A
  <2>4. IsFiniteSet(ids)
    BY <1>1, <2>1, FiniteImage
  <2>5. Cardinality(A) <= L
    <3> DEFINE f == [r \in C |-> row[field[r]]]
    <3>1. f \in Surjection(C, A)
      BY <2>1, <2>2 DEF Surjection
    <3> HIDE DEF f
    <3>2. Cardinality(A) <= Cardinality(C) /\ IsFiniteSet(A)
      BY <1>1, <3>1, FS_Surjection
    <3>3. Cardinality(A) \in Nat
      BY <3>2, FS_CardinalityType
    <3>4. QED
      BY <1>1, <3>2, <3>3
  <2>6. ASSUME NEW v \in DOMAIN q.values
        PROVE  /\ \A x \in A : x.cells[v] \in Int
               /\ SumFunctionOnSet([x \in A |-> x.cells[v]], A)
                    = SumColumn(table, C, q.values[v])
    <3> DEFINE column == q.values[v]
               cell == [r \in C |-> table[r][column]]
               part == [g \in ids |-> SumFunctionOnSet(cell, Of(g))]
               h == [x \in A |-> x.cells[v]]
    <3>1. \A r \in C : cell[r] \in Int
      BY <1>2
    <3>2. SumColumn(table, C, column) = SumFunctionOnSet(cell, C)
      BY DEF SumColumn
    <3>3. ASSUME NEW g \in ids
          PROVE  /\ part[g] = SumColumn(table, Of(g), column) /\ part[g] \in Int
      <4> DEFINE S == Of(g)
                 own == [r \in S |-> table[r][column]]
      <4>1. IsFiniteSet(S) /\ S \subseteq C
        BY <1>1, FS_Subset
      <4>2. \A r \in S : cell[r] \in Int /\ own[r] = cell[r]
        BY <3>1, <4>1
      <4>3. SumColumn(table, S, column) = SumFunctionOnSet(own, S)
        BY DEF SumColumn
      <4>4. part[g] = SumFunctionOnSet(cell, S)
        OBVIOUS
      <4> HIDE DEF S, own, cell, part
      <4>5. SumFunctionOnSet(cell, S) = SumFunctionOnSet(own, S)
        BY <4>1, <4>2, SumSame
      <4>6. SumFunctionOnSet(cell, S) \in Int
        BY <4>1, <4>2, SumTake
      <4>7. QED
        BY <4>3, <4>4, <4>5, <4>6 DEF S
    <3>4. SumFunctionOnSet(part, ids) = SumFunctionOnSet(cell, C)
      <4> HIDE DEF cell
      <4>1. SumFunctionOnSet(
              [key \in {field[r] : r \in C} |->
                 SumFunctionOnSet(cell, {r \in C : field[r] = key})],
              {field[r] : r \in C})
              = SumFunctionOnSet(cell, C)
        BY <1>1, <3>1, SumByKey
      <4>2. QED
        BY <2>1, <4>1
    <3> HIDE DEF part, cell
    <3>5. \A g \in ids : part[g] \in Int /\ h[row[g]] = part[g]
      BY <2>2, <2>3, <3>3
    <3>6. \A a, b \in ids : row[a] = row[b] => a = b
      BY <2>2
    <3>7. ASSUME NEW x \in A PROVE x.cells[v] \in Int
      <4>1. PICK g \in ids : x = row[g]
        BY <2>2
      <4>2. x.cells[v] = part[g] /\ part[g] \in Int
        BY <2>3, <3>3, <4>1
      <4>3. QED
        BY <4>2
    <3> HIDE DEF h
    <3>8. SumFunctionOnSet(h, {row[g] : g \in ids}) = SumFunctionOnSet(part, ids)
      BY <2>4, <3>5, <3>6, SumRenamed
    <3>9. QED
      BY <2>2, <3>2, <3>4, <3>7, <3>8 DEF h
  <2>7. QED
    BY <2>5, <2>6 DEF A, C, L
<1>4. CASE ~IsGrouping(q)
  <2> DEFINE row == [r \in C |-> LeafRow(q, table, r)]
  <2>1. A = {row[r] : r \in C} /\ \A r \in C : row[r].id = r
    BY <1>4 DEF PlainRows, LeafRow, C
  <2>2. \A r \in C, v \in DOMAIN q.values :
          row[r].cells[v] = table[r][q.values[v]]
    BY DEF LeafRow
  <2> HIDE DEF row, A
  <2>3. Cardinality(A) <= L
    <3> DEFINE f == [r \in C |-> row[r]]
    <3>1. f \in Surjection(C, A)
      BY <2>1 DEF Surjection
    <3> HIDE DEF f
    <3>2. Cardinality(A) <= Cardinality(C) /\ IsFiniteSet(A)
      BY <1>1, <3>1, FS_Surjection
    <3>3. Cardinality(A) \in Nat
      BY <3>2, FS_CardinalityType
    <3>4. QED
      BY <1>1, <3>2, <3>3
  <2>4. ASSUME NEW v \in DOMAIN q.values
        PROVE  /\ \A x \in A : x.cells[v] \in Int
               /\ SumFunctionOnSet([x \in A |-> x.cells[v]], A)
                    = SumColumn(table, C, q.values[v])
    <3> DEFINE column == q.values[v]
               cell == [r \in C |-> table[r][column]]
               h == [x \in A |-> x.cells[v]]
    <3>1. SumColumn(table, C, column) = SumFunctionOnSet(cell, C)
      BY DEF SumColumn
    <3>2. \A r \in C : cell[r] \in Int /\ h[row[r]] = cell[r]
      BY <1>2, <2>1, <2>2
    <3>3. \A a, b \in C : row[a] = row[b] => a = b
      BY <2>1
    <3>4. \A x \in A : x.cells[v] \in Int
      BY <1>2, <2>1, <2>2
    <3> HIDE DEF cell, h
    <3>5. SumFunctionOnSet(h, {row[r] : r \in C}) = SumFunctionOnSet(cell, C)
      BY <1>1, <3>2, <3>3, SumRenamed
    <3>6. QED
      BY <2>1, <3>1, <3>4, <3>5 DEF h
  <2>5. QED
    BY <2>3, <2>4 DEF A, C, L
<1>5. QED
  BY <1>3, <1>4

\* Every row of a page is one of the list.
LEMMA PageHolds ==
  ASSUME NEW q, q.start \in Nat, q.end \in Nat, NEW S, NEW o \in Seq(S),
         NEW n \in DOMAIN Page(q, o).rows
  PROVE  Page(q, o).rows[n] \in S
<1> DEFINE s == q.start
           e == q.end
           last == Min({s + Limit(q), Len(o)})
           fetched == SubSeq(o, s + 1, last)
           requested == Max({e - s, 0})
           more == Len(fetched) > requested
           page == Page(q, o)
<1>1. page.rows = IF more THEN SubSeq(fetched, 1, requested) ELSE fetched
  BY DEF Page, Offset
<1>2. Len(o) \in Nat /\ DOMAIN o = 1 .. Len(o) /\ o \in [DOMAIN o -> S]
  BY SeqIs
<1>3. /\ s \in Nat /\ e \in Nat /\ e - s \in Int /\ 0 \in Int
      /\ e \in Int /\ s \in Int
  OBVIOUS
<1>4. Limit(q) \in Int /\ requested \in Int /\ requested >= 0
  <2>1. Max({e, s}) = IF e >= s THEN e ELSE s
    BY <1>3, PairBounds
  <2>2. Max({e - s, 0}) = IF e - s >= 0 THEN e - s ELSE 0
    BY <1>3, PairBounds
  <2>3. QED
    BY <1>3, <2>1, <2>2 DEF Limit
<1>5. last \in Int /\ last <= Len(o)
  <2> DEFINE a == s + Limit(q)
             b == Len(o)
  <2>1. a \in Int /\ b \in Int
    BY <1>2, <1>3, <1>4
  <2> HIDE DEF a, b
  <2>2. Min({a, b}) = IF a <= b THEN a ELSE b
    BY <2>1, PairBounds
  <2>3. QED
    BY <2>1, <2>2 DEF a, b
<1> HIDE DEF last, requested, e
<1>6. fetched \in Seq(S)
  <2>1. s + 1 \in Int /\ \A i \in s + 1 .. last : i \in DOMAIN o
    BY <1>2, <1>3, <1>5
  <2>2. \A i \in s + 1 .. last : o[i] \in S
    BY <1>2, <2>1
  <2> HIDE DEF s
  <2>3. QED
    BY <1>5, <2>1, <2>2, SubSeqProperties
<1> HIDE DEF fetched
<1>7. page.rows \in Seq(S)
  <2>1. CASE more
    <3>1. Len(fetched) \in Nat /\ DOMAIN fetched = 1 .. Len(fetched)
          /\ fetched \in [DOMAIN fetched -> S]
      BY <1>6, SeqIs
    <3>2. \A i \in 1 .. requested : i \in DOMAIN fetched
      BY <1>4, <2>1, <3>1
    <3>3. \A i \in 1 .. requested : fetched[i] \in S
      BY <3>1, <3>2
    <3>4. SubSeq(fetched, 1, requested) \in Seq(S)
      <4>1. 1 \in Int
        OBVIOUS
      <4>2. QED
        BY <1>4, <3>3, <4>1, SubSeqProperties
    <3>5. QED
      BY <1>1, <2>1, <3>4
  <2>2. CASE ~more
    BY <1>1, <1>6, <2>2
  <2>3. QED
    BY <2>1, <2>2
<1> HIDE DEF page
<1>8. page.rows \in [DOMAIN page.rows -> S] /\ n \in DOMAIN page.rows
  BY <1>7, SeqIs DEF page
<1>9. page.rows[n] \in S
  BY <1>8
<1>10. QED
  BY <1>9 DEF page

\* A page that asks for as many rows as the table has holds the whole list.
LEMMA PageOfAll ==
  ASSUME NEW q, q.start = 0, q.end \in Nat, NEW S, NEW o \in Seq(S),
         Len(o) <= q.end
  PROVE  Page(q, o).rows = o
<1> DEFINE e == q.end
<1>1. Page(q, o).rows = Window(o, 0, e)
  <2>1. q.start \in Nat /\ q.start <= q.end
    OBVIOUS
  <2>2. Page(q, o).rows = Window(o, q.start, q.end)
    BY <2>1, PageIs
  <2>3. QED
    BY <2>2
<1>2. e \in Nat /\ Len(o) \in Nat /\ Len(o) <= e
  BY SeqIs
<1> HIDE DEF e
<1>3. Within(o, 0, e) = Len(o)
  <2> DEFINE L == Len(o)
  <2>1. Within(o, 0, e) = IF L <= 0 THEN 0 ELSE IF L <= e THEN L - 0 ELSE e - 0
    BY DEF Within
  <2>2. L \in Nat /\ L <= e
    BY <1>2
  <2> HIDE DEF L
  <2>3. Within(o, 0, e) = L
    BY <2>1, <2>2
  <2>4. QED
    BY <2>3 DEF L
<1>4. /\ Window(o, 0, e) \in Seq(S) /\ Len(Window(o, 0, e)) = Len(o)
  BY <1>2, <1>3, WindowIs
<1>5. ASSUME NEW i \in 1 .. Len(o) PROVE Window(o, 0, e)[i] = o[i]
  <2>1. Window(o, 0, e)[i] = o[0 + i] /\ 0 + i = i
    BY <1>2, <1>3 DEF Window
  <2>2. QED
    BY <2>1
<1>6. Window(o, 0, e) = o
  <2>1. \A i \in 1 .. Len(Window(o, 0, e)) : Window(o, 0, e)[i] = o[i]
    BY <1>4, <1>5
  <2>2. QED
    BY <1>4, <2>1, SeqEqual
<1>7. QED
  BY <1>1, <1>6

\* A list sums to what its elements do.
LEMMA ListSums ==
  ASSUME NEW A, IsFiniteSet(A), NEW o, Lists(o, A), NEW h,
         \A x \in A : h[x] \in Int
  PROVE  /\ Len(o) <= Cardinality(A)
         /\ SumFunctionOnSet([n \in DOMAIN o |-> h[o[n]]], DOMAIN o)
              = SumFunctionOnSet(h, A)
<1> DEFINE D == DOMAIN o
           L == Len(o)
           g == [n \in D |-> h[o[n]]]
<1>1. L \in Nat /\ D = 1 .. L /\ o \in [D -> A]
  BY SeqIs DEF Lists
<1> HIDE DEF L, D
<1>2. IsFiniteSet(D) /\ Cardinality(D) = L
  <2>1. 1 \in Int /\ L \in Int /\ (1 > L <=> L = 0)
    BY <1>1
  <2>2. IsFiniteSet(1 .. L) /\ Cardinality(1 .. L) = IF 1 > L THEN 0 ELSE L - 1 + 1
    BY <2>1, FS_Interval
  <2>3. QED
    BY <1>1, <2>1, <2>2
<1>3. \A m, n \in D : o[m] = o[n] => m = n
  BY DEF Lists, D
<1>4. L <= Cardinality(A)
  <2>1. o \in Injection(D, A)
    BY <1>1, <1>3 DEF Injection, IsInjective, D
  <2>2. Cardinality(D) <= Cardinality(A)
    BY <2>1, FS_Injection
  <2>3. QED
    BY <1>2, <2>2
<1>5. {o[n] : n \in D} = A
  BY <1>1 DEF Lists, D
<1>6. \A n \in D : g[n] \in Int /\ h[o[n]] = g[n]
  BY <1>1
<1> HIDE DEF g
<1>7. SumFunctionOnSet(h, {o[n] : n \in D}) = SumFunctionOnSet(g, D)
  BY <1>2, <1>3, <1>6, SumRenamed
<1>8. QED
  BY <1>4, <1>5, <1>7 DEF g, D, L

\* The request that opens a group.
LEMMA BelowIs ==
  ASSUME NEW q, NEW table, Asked(q, table), IsGrouping(q), ~IsPivot(q),
         NEW g \in Nat, q.values # <<>>
  PROVE  LET p == [q EXCEPT !.keys = Append(@, g), !.start = 0,
                            !.end = Len(table)]
         IN /\ Asked(p, table) /\ ~IsPivot(p)
            /\ p.keys = Append(q.keys, g) /\ p.groups = q.groups
            /\ p.filters = q.filters /\ p.values = q.values
            /\ p.start = 0 /\ p.end = Len(table)
<1> DEFINE p == [q EXCEPT !.keys = Append(@, g), !.start = 0,
                          !.end = Len(table)]
<1>1. q \in Query
  BY DEF Asked
<1>2. Append(q.keys, g) \in Seq(Nat) /\ Len(table) \in Nat
  BY QueryIs, AppendProperties
<1>3. /\ p \in Query
      /\ p.keys = Append(q.keys, g) /\ p.groups = q.groups
      /\ p.filters = q.filters /\ p.values = q.values /\ p.pivot = q.pivot
      /\ p.start = 0 /\ p.end = Len(table)
  BY <1>1, <1>2 DEF Query
<1> HIDE DEF p
<1>4. Asked(p, table)
  BY <1>3 DEF Asked
<1>5. ~IsPivot(p)
  BY <1>3 DEF IsPivot
<1>6. QED
  BY <1>3, <1>4, <1>5 DEF p

LEMMA CellsOfGroup ==
  ASSUME NEW q, NEW table, Asked(q, table), ~Refused(q), IsGrouping(q),
         ~IsPivot(q), NEW page, page \in QuerySsrm(q, table),
         NEW n \in DOMAIN page.rows
  PROVE  LET g == page.rows[n].id
         IN /\ g \in Nat
            /\ \A v \in DOMAIN q.values :
                 page.rows[n].cells[v]
                   = SumColumn(table, Members(q, table, g), q.values[v])
<1> DEFINE A == PlainRows(q, table)
<1>1. Numbered(A) /\ QuerySsrm(q, table) = {Page(q, o) : o \in Orders(q, A)}
  BY PlainIs
<1>2. A = {GroupRow(q, table, g) : g \in Groups(q, table)}
  BY DEF PlainRows
<1> HIDE DEF A
<1>3. PICK o \in Orders(q, A) : page = Page(q, o)
  BY <1>1
<1>4. o \in Seq(A)
  BY <1>1, OrdersAre DEF Lists
<1>5. page.rows[n] \in A
  BY <1>3, <1>4, QueryIs, PageHolds
<1>6. PICK g \in Groups(q, table) : page.rows[n] = GroupRow(q, table, g)
  BY <1>2, <1>5
<1>7. page.rows[n].id = g /\ page.rows[n].id \in Nat
  BY <1>1, <1>5, <1>6 DEF GroupRow, Numbered
<1>8. \A v \in DOMAIN q.values :
        page.rows[n].cells[v] = SumColumn(table, Members(q, table, g), q.values[v])
  BY <1>6 DEF GroupRow
<1>9. QED
  BY <1>7, <1>8

LEMMA OpenedAddsUp ==
  ASSUME NEW p, NEW table, Asked(p, table), ~Refused(p), ~IsPivot(p),
         p.start = 0, p.end = Len(table), NEW v \in DOMAIN p.values
  PROVE  LET opened == (CHOOSE page \in QuerySsrm(p, table) : TRUE).rows
         IN SumOver(LAMBDA r : opened[r].cells[v], DOMAIN opened)
              = SumColumn(table, Chosen(p, table), p.values[v])
<1> DEFINE A == PlainRows(p, table)
           page == CHOOSE page \in QuerySsrm(p, table) : TRUE
           opened == page.rows
           h == [row \in A |-> row.cells[v]]
<1>1. Numbered(A) /\ QuerySsrm(p, table) = {Page(p, o) : o \in Orders(p, A)}
  BY PlainIs
<1>2. /\ Cardinality(A) <= Len(table)
      /\ \A row \in A : row.cells[v] \in Int
      /\ SumFunctionOnSet(h, A) = SumColumn(table, Chosen(p, table), p.values[v])
  BY CellsAddUp
<1> HIDE DEF A
<1>3. Orders(p, A) # {}
  BY <1>1, OrdersAre
<1>4. PICK o \in Orders(p, A) : page = Page(p, o)
  BY <1>1, <1>3
<1> HIDE DEF page
<1>5. Lists(o, A) /\ o \in Seq(A) /\ IsFiniteSet(A)
  BY <1>1, OrdersAre DEF Lists, Numbered
<1>6. \A row \in A : h[row] \in Int /\ h[row] = row.cells[v]
  BY <1>2
<1> HIDE DEF h
<1>7. /\ Len(o) <= Cardinality(A)
      /\ SumFunctionOnSet([n \in DOMAIN o |-> h[o[n]]], DOMAIN o)
           = SumFunctionOnSet(h, A)
  BY <1>5, <1>6, ListSums
<1>8. opened = o
  <2>1. Len(o) \in Nat /\ Cardinality(A) \in Nat /\ Len(table) \in Nat
    BY <1>5, SeqIs, FS_CardinalityType, QueryIs
  <2>2. Len(o) <= p.end /\ p.end \in Nat
    BY <1>2, <1>7, <2>1
  <2>3. Page(p, o).rows = o
    BY <1>5, <2>2, PageOfAll
  <2>4. QED
    BY <1>4, <2>3
<1>9. [n \in DOMAIN o |-> h[o[n]]] = [n \in DOMAIN o |-> o[n].cells[v]]
  <2>1. \A n \in DOMAIN o : o[n] \in A
    BY <1>5, SeqIs
  <2>2. QED
    BY <1>6, <2>1
<1>10. SumOver(LAMBDA r : opened[r].cells[v], DOMAIN opened)
         = SumFunctionOnSet([n \in DOMAIN opened |-> opened[n].cells[v]],
                            DOMAIN opened)
  BY DEF SumOver, SumFunction
<1> HIDE DEF opened
<1>11. QED
  BY <1>2, <1>7, <1>8, <1>9, <1>10 DEF opened, page

LEMMA AnswerReconciles ==
  ASSUME NEW q \in Queries, NEW table \in Tables, NEW page,
         page \in QuerySsrm(q, table), page # Failure,
         IsGrouping(q), ~IsPivot(q), NEW n \in DOMAIN page.rows,
         page.rows[n].id # Null, NEW v \in DOMAIN q.values
  PROVE  page.rows[n].cells[v] = OpenedTotal(q, table, page.rows[n].id, v)
<1> DEFINE g == page.rows[n].id
           below == [q EXCEPT !.keys = Append(@, g),
                              !.start = 0, !.end = Len(table)]
           opened == (CHOOSE x \in QuerySsrm(below, table) : TRUE).rows
<1>1. Asked(q, table) /\ ~Refused(q)
  BY AskedIs DEF QuerySsrm
<1>2. /\ g \in Nat /\ g # Null
      /\ page.rows[n].cells[v]
           = SumColumn(table, Members(q, table, g), q.values[v])
  BY <1>1, CellsOfGroup
<1>3. OpenedTotal(q, table, g, v)
        = SumOver(LAMBDA r : opened[r].cells[v], DOMAIN opened)
  BY DEF OpenedTotal, SumOver, SumFunction
<1> HIDE DEF g
<1>4. q.values # <<>>
  <2>1. q.values \in Seq(STRING)
    BY <1>1, QueryIs
  <2>2. DOMAIN q.values = 1 .. Len(q.values)
    BY <2>1, SeqIs
  <2>3. Len(<<>>) = 0 /\ 1 .. 0 = {}
    OBVIOUS
  <2>4. QED
    BY <2>2, <2>3
<1>5. /\ Asked(below, table) /\ ~IsPivot(below)
      /\ below.keys = Append(q.keys, g) /\ below.groups = q.groups
      /\ below.filters = q.filters /\ below.values = q.values
      /\ below.start = 0 /\ below.end = Len(table)
  BY <1>1, <1>2, <1>4, BelowIs, ZenonT(60)
<1> HIDE DEF below
<1>6. ~Refused(below) /\ Chosen(below, table) = Members(q, table, g)
  BY <1>1, <1>2, <1>5, ChosenBelow DEF Members
<1>7. SumOver(LAMBDA r : opened[r].cells[v], DOMAIN opened)
        = SumColumn(table, Chosen(below, table), below.values[v])
  <2>1. v \in DOMAIN below.values
    BY <1>5
  <2>2. QED
    BY <1>5, <1>6, <2>1, OpenedAddsUp
<1> HIDE DEF opened
<1>8. QED
  BY <1>2, <1>5, <1>6, <1>7, <1>3 DEF g

LEMMA DrillStep == DrillDownReconciles /\ [Next]_vars => DrillDownReconciles'
<1> SUFFICES ASSUME DrillDownReconciles, [Next]_vars PROVE DrillDownReconciles'
  OBVIOUS
<1>1. CASE UNCHANGED deskVars
  BY <1>1 DEF deskVars, DrillDownReconciles
<1>2. CASE Answered
  BY <1>2 DEF Answered, None, DrillDownReconciles
<1>3. CASE Tool
  <2>1. ASSUME NEW q \in Queries, NEW table \in Tables, OlapQuery(q, table)
        PROVE  DrillDownReconciles'
    <3>1. call'.query = q /\ call'.table = table /\ reply' \in QuerySsrm(q, table)
      BY <2>1 DEF OlapQuery, Reply
    <3>2. QED
      BY <3>1, AnswerReconciles DEF DrillDownReconciles
  <2>2. \/ \E q \in Queries, table \in Tables : OlapQuery(q, table)
        \/ call'.tool # "olap_query"
    BY <1>3, ToolIs
  <2>3. QED
    BY <2>1, <2>2 DEF DrillDownReconciles
<1>4. QED
  BY <1>1, <1>2, <1>3, DeskSteps

\* The cells of a group are the sums of what it opens to, on every level,
\* under whatever filters, for whatever table, and in whatever order the
\* database gives the rows: every placeholder is bound to the argument of its
\* own term, and the rows below a group are the group's.
THEOREM GroupsReconcile == Spec => []DrillDownReconciles
<1>1. Init => DrillDownReconciles
  BY DEF Init, None, DrillDownReconciles
<1>2. QED
  BY <1>1, DrillStep, PTL DEF Spec

(***************************************************************************)
(* The adjoint of the put and its central difference.                      *)
(***************************************************************************)
\* A sum over a part is one over all of which the rest counts nothing.
LEMMA SumOfPart ==
  ASSUME NEW g, NEW h, NEW S, IsFiniteSet(S), NEW P \in SUBSET S,
         \A y \in S : h[y] \in Int /\ h[y] = IF y \in P THEN g[y] ELSE 0
  PROVE  SumFunctionOnSet(g, P) = SumFunctionOnSet(h, S)
<1> DEFINE Q == S \ P
           Good == {T \in SUBSET Q : SumFunctionOnSet(h, T) = 0}
<1>1. IsFiniteSet(P) /\ IsFiniteSet(Q) /\ P \cap Q = {} /\ P \cup Q = S
  BY FS_Subset
<1>2. SumFunctionOnSet(h, S) = SumFunctionOnSet(h, P) + SumFunctionOnSet(h, Q)
  BY <1>1, SumUnion
<1>3. SumFunctionOnSet(h, P) = SumFunctionOnSet(g, P)
  BY <1>1, SumSame
<1>4. \A y \in Q : h[y] = 0
  OBVIOUS
<1>5. SumFunctionOnSet(h, Q) = 0
  <2>1. {} \in Good
    BY SumEmpty
  <2>2. ASSUME NEW T \in SUBSET Q, NEW x \in Q, T \in Good, x \notin T
        PROVE  T \cup {x} \in Good
    <3>1. IsFiniteSet(T) /\ \A y \in T \cup {x} : h[y] = 0 /\ h[y] \in Int
      BY <1>1, <1>4, FS_Subset
    <3>2. SumFunctionOnSet(h, T \cup {x}) = SumFunctionOnSet(h, T) + h[x]
      BY <2>2, <3>1, SumAdd
    <3>3. SumFunctionOnSet(h, T) = 0 /\ h[x] = 0
      BY <2>2, <3>1
    <3>4. QED
      BY <2>2, <3>2, <3>3
  <2> HIDE DEF Good, Q
  <2>3. Q \in Good
    BY <1>1, <2>1, <2>2, FiniteInduction
  <2>4. QED
    BY <2>3 DEF Good
<1>6. SumFunctionOnSet(h, P) \in Int
  BY <1>1, SumTake
<1>7. QED
  BY <1>2, <1>3, <1>5, <1>6

\* What a difference is worth.
Balances(f, g, h, a, b) ==
  f \in Int /\ g \in Int /\ h \in Int /\ a * (f - g) = b * h

\* What holds of the terms of three sums holds of the sums.
LEMMA SumBalance ==
  ASSUME NEW f, NEW g, NEW h, NEW S, IsFiniteSet(S),
         NEW a \in Int, NEW b \in Int,
         \A y \in S : Balances(f[y], g[y], h[y], a, b)
  PROVE  Balances(SumFunctionOnSet(f, S), SumFunctionOnSet(g, S),
                  SumFunctionOnSet(h, S), a, b)
<1> DEFINE Even(T) == a * (SumFunctionOnSet(f, T) - SumFunctionOnSet(g, T))
                        = b * SumFunctionOnSet(h, T)
           Good == {T \in SUBSET S : Even(T)}
<1>0. \A y \in S : /\ f[y] \in Int /\ g[y] \in Int /\ h[y] \in Int
                   /\ a * (f[y] - g[y]) = b * h[y]
  BY DEF Balances
<1>1. {} \in Good
  <2>1. a * (0 - 0) = b * 0
    OBVIOUS
  <2>2. QED
    BY <2>1, SumEmpty
<1>2. ASSUME NEW T \in SUBSET S, NEW x \in S, T \in Good, x \notin T
      PROVE  T \cup {x} \in Good
  <2>1. IsFiniteSet(T)
    BY FS_Subset
  <2> DEFINE F == SumFunctionOnSet(f, T)
             G == SumFunctionOnSet(g, T)
             H == SumFunctionOnSet(h, T)
             p == f[x]
             q == g[x]
             r == h[x]
  <2>2. /\ SumFunctionOnSet(f, T \cup {x}) = F + p
        /\ SumFunctionOnSet(g, T \cup {x}) = G + q
        /\ SumFunctionOnSet(h, T \cup {x}) = H + r
    BY <1>0, <1>2, <2>1, SumAdd
  <2>3. F \in Int /\ G \in Int /\ H \in Int
    BY <1>0, <2>1, SumTake
  <2>4. a * (F - G) = b * H
    BY <1>2
  <2>5. p \in Int /\ q \in Int /\ r \in Int /\ a * (p - q) = b * r
    BY <1>0
  <2> HIDE DEF F, G, H, p, q, r
  <2>6. a * ((F + p) - (G + q)) = b * (H + r)
    <3>1. a * ((F + p) - (G + q)) = a * (F - G) + a * (p - q)
      BY <2>3, <2>5
    <3>2. b * (H + r) = b * H + b * r
      BY <2>3, <2>5
    <3>3. QED
      BY <2>4, <2>5, <3>1, <3>2
  <2>7. QED
    BY <1>2, <2>2, <2>6
<1> HIDE DEF Good
<1>3. S \in Good
  BY <1>1, <1>2, FiniteInduction
<1>4. QED
  <2>1. Even(S)
    BY <1>3 DEF Good
  <2>2. /\ SumFunctionOnSet(f, S) \in Int /\ SumFunctionOnSet(g, S) \in Int
        /\ SumFunctionOnSet(h, S) \in Int
    BY <1>0, SumTake
  <2>3. QED
    BY <2>1, <2>2 DEF Balances

\* A number and what it is when scaled by tenths; shares without a remainder.
Scales(x, y, k) == 10 * y = x * k
Divides(d, x, f) == (x * f) % d = 0
Share(x, f, d) == (x * f) \div d

\* They scale with what they divide.
LEMMA ScaledShare ==
  ASSUME NEW x \in Int, NEW y \in Int, NEW f \in Int, NEW k \in Int,
         Scales(x, y, k), NEW d \in Nat, d > 0,
         Divides(d, x, f), Divides(d, y, f)
  PROVE  Scales(Share(x, f, d), Share(y, f, d), k)
<1> DEFINE xf == x * f
           yf == y * f
           a == xf \div d
           b == yf \div d
<1>1. 10 * y = x * k
  BY DEF Scales
<1>2. xf \in Int /\ yf \in Int /\ 10 * yf = xf * k
  <2>1. 10 * (y * f) = (10 * y) * f
    OBVIOUS
  <2>2. (x * k) * f = (x * f) * k
    OBVIOUS
  <2>3. QED
    BY <1>1, <2>1, <2>2
<1>3. xf % d = 0 /\ yf % d = 0
  BY DEF Divides
<1> HIDE DEF xf, yf
<1>4. a \in Int /\ b \in Int /\ xf = d * a /\ yf = d * b
  <2>1. xf = d * (xf \div d) + (xf % d) /\ yf = d * (yf \div d) + (yf % d)
    BY <1>2
  <2>2. a \in Int /\ b \in Int
    BY <1>2, QuotientInt
  <2>3. QED
    BY <1>3, <2>1, <2>2
<1> HIDE DEF a, b
<1>5. d * (10 * b) = d * (a * k)
  <2>1. d * (10 * b) = 10 * (d * b) /\ d * (a * k) = (d * a) * k
    BY <1>4
  <2>2. QED
    BY <1>2, <1>4, <2>1
<1>6. 10 * b = a * k
  <2> DEFINE m == 10 * b
             n == a * k
  <2>1. m \in Int /\ n \in Int /\ d * m = d * n
    BY <1>4, <1>5
  <2> HIDE DEF m, n
  <2>2. m = n
    <3>1. d * (m - n) = 0 /\ m - n \in Int
      BY <2>1
    <3>2. m - n = 0
      BY <3>1
    <3>3. QED
      BY <2>1, <3>2
  <2>3. QED
    BY <2>2 DEF m, n
<1>7. QED
  BY <1>6 DEF Scales, Share, a, b, xf, yf

\* The spot a step starts from.
Before(market, draw, p, u, t) ==
  IF t = 0 THEN market.quoted[u] ELSE Simulate(market, draw)[p][u][t - 1]

LEMMA SpotsFollow ==
  ASSUME NEW market, SoundMarket(market), NEW draw, SoundDraw(draw),
         NEW p \in DOMAIN draw, NEW u \in DOMAIN market.quoted,
         NEW t \in 0 .. Len(draw[p]) - 1
  PROVE  /\ Simulate(market, draw)[p][u][t]
              = SpotAfter(market, draw, p, u, t, Before(market, draw, p, u, t))
         /\ Simulate(market, draw)[p][u][t] \in Int
         /\ Before(market, draw, p, u, t) \in Int
<1> DEFINE cube == Simulate(market, draw)
           n == Len(draw[p])
           h == CHOOSE f : SpotWalk(f, market, draw, p, u, n)
<1>1. n \in Nat /\ n >= 2
  <2>1. draw[p] \in Seq([1 .. 2 -> Int]) /\ Len(draw[p]) >= 2
    BY DEF SoundDraw
  <2>2. QED
    BY <2>1
<1>2. SpotWalk(h, market, draw, p, u, n)
  <2> HIDE DEF n
  <2>1. QED
    BY <1>1, SpotWalkExists
<1>3. cube[p][u] = [s \in 0 .. n - 1 |-> h[s]]
  BY DEF Simulate, SpotWalk, SpotAfter
<1>4. cube[p][u] \in [0 .. n - 1 -> Int]
  BY CubeIs
<1>5. market.quoted[u] \in Int
  BY DEF SoundMarket
<1> HIDE DEF h, cube
<1>6. h = [s \in -1 .. n - 1 |->
             IF s = -1 THEN market.quoted[u]
             ELSE SpotAfter(market, draw, p, u, s, h[s - 1])]
  BY <1>2 DEF SpotWalk
<1> DEFINE After(b) == SpotAfter(market, draw, p, u, t, b)
           quote == market.quoted[u]
<1>7. t \in 0 .. n - 1
  OBVIOUS
<1>8. h[t] = After(h[t - 1])
  BY <1>1, <1>6, <1>7
<1>9. h[-1] = quote
  BY <1>1, <1>6
<1> HIDE DEF After, n, quote
<1>10. h[t - 1] = IF t = 0 THEN quote ELSE cube[p][u][t - 1]
  <2>1. CASE t = 0
    BY <1>9, <2>1
  <2>2. CASE t # 0
    <3>1. t - 1 \in 0 .. n - 1
      BY <1>1, <1>7, <2>2
    <3>2. QED
      BY <1>3, <2>2, <3>1
  <2>3. QED
    BY <2>1, <2>2
<1>11. cube[p][u][t] = After(IF t = 0 THEN quote ELSE cube[p][u][t - 1])
  BY <1>3, <1>7, <1>8, <1>10
<1>12. (IF t = 0 THEN quote ELSE cube[p][u][t - 1]) \in Int
  <2>1. t # 0 => t - 1 \in 0 .. n - 1
    BY <1>1, <1>7
  <2>2. QED
    BY <1>4, <1>5, <2>1 DEF quote
<1>13. Before(market, draw, p, u, t) = IF t = 0 THEN quote ELSE cube[p][u][t - 1]
  BY DEF Before, cube, quote
<1>14. QED
  BY <1>4, <1>7, <1>11, <1>12, <1>13 DEF After, cube

\* What a step multiplies a spot with, in tenths, under a flat volatility.
Factor(market, draw, p, u, t) == 10 + market.vols[u] * draw[p][t + 1][u]

Tenth(x, f) == Share(x, f, 10)

\* A simulation on which integers lose nothing for a name: every step gives a
\* whole spot, and the last spot a whole performance.
WholeSpots(market, draw, u) ==
  \A p \in DOMAIN draw :
    /\ \A t \in 0 .. Len(draw[p]) - 1 :
         Divides(10, Before(market, draw, p, u, t),
                 Factor(market, draw, p, u, t))
    /\ Divides(market.references[u],
               Simulate(market, draw)[p][u][Len(draw[p]) - 1], Unit)

\* Two flat markets that differ in their quotes.
Twins(market, moved, draw) ==
  /\ SoundMarket(market) /\ SoundMarket(moved) /\ SoundDraw(draw)
  /\ DOMAIN market.quoted = 1 .. 2 /\ DOMAIN moved.quoted = 1 .. 2
  /\ ~market.locvol /\ ~moved.locvol /\ moved.vols = market.vols
  /\ moved.references = market.references

LEMMA FlatStep ==
  ASSUME NEW market, NEW moved, NEW draw, Twins(market, moved, draw),
         NEW p \in DOMAIN draw, NEW u \in 1 .. 2,
         NEW t \in 0 .. Len(draw[p]) - 1
  PROVE  /\ Factor(market, draw, p, u, t) \in Int
         /\ Before(market, draw, p, u, t) \in Int
         /\ Before(moved, draw, p, u, t) \in Int
         /\ Factor(moved, draw, p, u, t) = Factor(market, draw, p, u, t)
         /\ Simulate(market, draw)[p][u][t]
              = Tenth(Before(market, draw, p, u, t), Factor(market, draw, p, u, t))
         /\ Simulate(moved, draw)[p][u][t]
              = Tenth(Before(moved, draw, p, u, t), Factor(market, draw, p, u, t))
<1>1. /\ SoundMarket(market) /\ SoundMarket(moved) /\ SoundDraw(draw)
      /\ u \in DOMAIN market.quoted /\ u \in DOMAIN moved.quoted
      /\ ~market.locvol /\ ~moved.locvol /\ moved.vols = market.vols
  BY DEF Twins
<1> DEFINE f == Factor(market, draw, p, u, t)
           x == Before(market, draw, p, u, t)
           y == Before(moved, draw, p, u, t)
<1>2. Factor(moved, draw, p, u, t) = f
  BY <1>1 DEF Factor
<1>3. f \in Int
  <2> DEFINE path == draw[p]
             vol == market.vols[u]
             shock == path[t + 1][u]
  <2>1. path \in Seq([1 .. 2 -> Int])
    BY <1>1 DEF SoundDraw
  <2>2. t \in 0 .. Len(path) - 1
    OBVIOUS
  <2>3. vol \in Int
    BY <1>1 DEF SoundMarket
  <2>4. f = 10 + vol * shock
    BY DEF Factor
  <2> HIDE DEF path, vol, f
  <2>5. t + 1 \in 1 .. Len(path) /\ DOMAIN path = 1 .. Len(path)
    BY <2>1, <2>2
  <2>6. path[t + 1] \in [1 .. 2 -> Int]
    BY <2>1, <2>5
  <2>7. shock \in Int
    BY <2>6
  <2> HIDE DEF shock
  <2>8. QED
    BY <2>3, <2>4, <2>7
<1>4. /\ x \in Int /\ y \in Int
      /\ Simulate(market, draw)[p][u][t] = SpotAfter(market, draw, p, u, t, x)
      /\ Simulate(moved, draw)[p][u][t] = SpotAfter(moved, draw, p, u, t, y)
  BY <1>1, SpotsFollow
<1>5. /\ SpotAfter(market, draw, p, u, t, x) = Tenth(x, f)
      /\ SpotAfter(moved, draw, p, u, t, y) = Tenth(y, f)
  <2> HIDE DEF x, y
  <2>1. QED
    BY <1>1 DEF SpotAfter, Factor, Tenth, Share
<1>6. QED
  BY <1>2, <1>3, <1>4, <1>5

\* A name whose quote is scaled has all its spots scaled.
LEMMA SpotsScale ==
  ASSUME NEW market, NEW moved, NEW draw, Twins(market, moved, draw),
         NEW u \in 1 .. 2, NEW k \in Int,
         Scales(market.quoted[u], moved.quoted[u], k),
         WholeSpots(market, draw, u), WholeSpots(moved, draw, u),
         NEW p \in DOMAIN draw
  PROVE  \A t \in 0 .. Len(draw[p]) - 1 :
           Scales(Simulate(market, draw)[p][u][t],
                  Simulate(moved, draw)[p][u][t], k)
<1> DEFINE n == Len(draw[p])
           x == Simulate(market, draw)[p][u]
           y == Simulate(moved, draw)[p][u]
           bx(t) == Before(market, draw, p, u, t)
           by(t) == Before(moved, draw, p, u, t)
           f(t) == Factor(market, draw, p, u, t)
           Good == {t \in Nat : t < n => Scales(x[t], y[t], k)}
<1>1. n \in Nat
  <2>1. draw[p] \in Seq([1 .. 2 -> Int])
    BY DEF Twins, SoundDraw
  <2>2. QED
    BY <2>1
<1>2. \A t \in 0 .. n - 1 :
        /\ f(t) \in Int /\ bx(t) \in Int /\ by(t) \in Int
        /\ x[t] = Tenth(bx(t), f(t)) /\ y[t] = Tenth(by(t), f(t))
        /\ Divides(10, bx(t), f(t)) /\ Divides(10, by(t), f(t))
  <2>1. SUFFICES ASSUME NEW t \in 0 .. n - 1
                 PROVE  /\ f(t) \in Int /\ bx(t) \in Int /\ by(t) \in Int
                        /\ x[t] = Tenth(bx(t), f(t))
                        /\ y[t] = Tenth(by(t), f(t))
                        /\ Divides(10, bx(t), f(t)) /\ Divides(10, by(t), f(t))
    OBVIOUS
  <2>2. /\ f(t) \in Int /\ bx(t) \in Int /\ by(t) \in Int
        /\ Factor(moved, draw, p, u, t) = f(t)
        /\ x[t] = Tenth(bx(t), f(t)) /\ y[t] = Tenth(by(t), f(t))
    BY FlatStep
  <2>3. /\ Divides(10, bx(t), f(t))
        /\ Divides(10, by(t), Factor(moved, draw, p, u, t))
    BY DEF WholeSpots
  <2> HIDE DEF bx, by, f, x, y
  <2>4. QED
    BY <2>2, <2>3
<1>3. /\ \A t \in Nat : t # 0 => bx(t) = x[t - 1] /\ by(t) = y[t - 1]
      /\ bx(0) = market.quoted[u] /\ by(0) = moved.quoted[u]
  BY DEF Before
<1>4. Scales(market.quoted[u], moved.quoted[u], k)
  OBVIOUS
<1> HIDE DEF n, x, y, bx, by, f
<1>5. ASSUME NEW t \in 0 .. n - 1, Scales(bx(t), by(t), k)
      PROVE  Scales(x[t], y[t], k)
  <2> DEFINE ten == 10
  <2>1. /\ ten \in Nat /\ ten > 0
        /\ Divides(ten, bx(t), f(t)) /\ Divides(ten, by(t), f(t))
        /\ x[t] = Share(bx(t), f(t), ten) /\ y[t] = Share(by(t), f(t), ten)
    BY <1>2 DEF Tenth
  <2>2. f(t) \in Int /\ bx(t) \in Int /\ by(t) \in Int
    BY <1>2
  <2> HIDE DEF ten
  <2>3. Scales(Share(bx(t), f(t), ten), Share(by(t), f(t), ten), k)
    BY <1>5, <2>1, <2>2, ScaledShare
  <2>4. QED
    BY <2>1, <2>3
<1>6. 0 \in Good
  <2>1. 0 < n => 0 \in 0 .. n - 1
    BY <1>1
  <2>2. QED
    BY <1>3, <1>4, <1>5, <2>1
<1>7. ASSUME NEW t \in Nat, t \in Good PROVE t + 1 \in Good
  <2>1. SUFFICES ASSUME t + 1 < n PROVE Scales(x[t + 1], y[t + 1], k)
    OBVIOUS
  <2>2. t < n /\ t + 1 \in 0 .. n - 1 /\ t + 1 # 0 /\ (t + 1) - 1 = t
        /\ t + 1 \in Nat
    BY <1>1, <2>1
  <2>3. Scales(x[t], y[t], k)
    BY <1>7, <2>2
  <2>4. bx(t + 1) = x[t] /\ by(t + 1) = y[t]
    BY <1>3, <2>2
  <2>5. QED
    BY <1>5, <2>2, <2>3, <2>4
<1> HIDE DEF Good
<1>8. Nat \subseteq Good
  BY <1>6, <1>7, CountingUp
<1>9. ASSUME NEW t \in 0 .. n - 1 PROVE Scales(x[t], y[t], k)
  <2>1. t \in Nat /\ t < n
    BY <1>1
  <2>2. QED
    BY <1>8, <2>1 DEF Good
<1>10. QED
  BY <1>9 DEF n, x, y

\* A name whose quote stays has all its spots unchanged.
LEMMA SpotsStay ==
  ASSUME NEW market, NEW moved, NEW draw, Twins(market, moved, draw),
         NEW u \in 1 .. 2, moved.quoted[u] = market.quoted[u],
         NEW p \in DOMAIN draw
  PROVE  \A t \in 0 .. Len(draw[p]) - 1 :
           Simulate(moved, draw)[p][u][t] = Simulate(market, draw)[p][u][t]
<1> DEFINE n == Len(draw[p])
           x == Simulate(market, draw)[p][u]
           y == Simulate(moved, draw)[p][u]
           bx(t) == Before(market, draw, p, u, t)
           by(t) == Before(moved, draw, p, u, t)
           f(t) == Factor(market, draw, p, u, t)
           Good == {t \in Nat : t < n => y[t] = x[t]}
<1>1. n \in Nat
  <2>1. draw[p] \in Seq([1 .. 2 -> Int])
    BY DEF Twins, SoundDraw
  <2>2. QED
    BY <2>1
<1>2. \A t \in 0 .. n - 1 :
        x[t] = Tenth(bx(t), f(t)) /\ y[t] = Tenth(by(t), f(t))
  BY FlatStep
<1>3. /\ \A t \in Nat : t # 0 => bx(t) = x[t - 1] /\ by(t) = y[t - 1]
      /\ bx(0) = by(0)
  BY DEF Before
<1> HIDE DEF n, x, y, bx, by, f
<1>4. 0 \in Good
  <2>1. 0 < n => 0 \in 0 .. n - 1
    BY <1>1
  <2>2. QED
    BY <1>2, <1>3, <2>1
<1>5. ASSUME NEW t \in Nat, t \in Good PROVE t + 1 \in Good
  <2>1. SUFFICES ASSUME t + 1 < n PROVE y[t + 1] = x[t + 1]
    OBVIOUS
  <2>2. t < n /\ t + 1 \in 0 .. n - 1 /\ t + 1 # 0 /\ (t + 1) - 1 = t
        /\ t + 1 \in Nat
    BY <1>1, <2>1
  <2>3. y[t] = x[t]
    BY <1>5, <2>2
  <2>4. bx(t + 1) = x[t] /\ by(t + 1) = y[t]
    BY <1>3, <2>2
  <2>5. QED
    BY <1>2, <2>2, <2>3, <2>4
<1> HIDE DEF Good
<1>6. Nat \subseteq Good
  BY <1>4, <1>5, CountingUp
<1>7. ASSUME NEW t \in 0 .. n - 1 PROVE y[t] = x[t]
  <2>1. t \in Nat /\ t < n
    BY <1>1
  <2>2. QED
    BY <1>6, <2>1 DEF Good
<1>8. QED
  BY <1>7 DEF n, x, y

\* Two names: the worst performance, and whose it is.
LEMMA WorstOfTwo ==
  ASSUME NEW spots \in [1 .. 2 -> Int], NEW refs, DOMAIN refs = 1 .. 2,
         \A u \in 1 .. 2 : refs[u] \in Nat /\ refs[u] > 0
  PROVE  LET a == Performance(spots[1], refs[1])
             b == Performance(spots[2], refs[2])
         IN /\ a \in Int /\ b \in Int
            /\ Worst(spots, refs) = IF a <= b THEN a ELSE b
            /\ WorstName(spots, refs) = IF a <= b THEN 1 ELSE 2
<1> DEFINE a == Performance(spots[1], refs[1])
           b == Performance(spots[2], refs[2])
           worst == Worst(spots, refs)
           those == {u \in DOMAIN refs : Performance(spots[u], refs[u]) = worst}
<1>1. 1 \in 1 .. 2 /\ 2 \in 1 .. 2 /\ \A u \in 1 .. 2 : u = 1 \/ u = 2
  OBVIOUS
<1>2. a \in Int /\ b \in Int
  <2>1. \A u \in 1 .. 2 : spots[u] \in Int
    OBVIOUS
  <2>2. QED
    BY <1>1, <2>1, PerformanceInt
<1>3. {Performance(spots[u], refs[u]) : u \in DOMAIN refs} = {a, b}
  BY <1>1
<1>4. worst = Min({a, b})
  BY <1>3 DEF Worst
<1>5. WorstName(spots, refs) = Min(those)
  BY DEF WorstName
<1>6. \A u : u \in those <=> (u = 1 /\ a = worst) \/ (u = 2 /\ b = worst)
  <2> HIDE DEF worst
  <2>1. \A u : u \in those
                <=> u \in 1 .. 2 /\ Performance(spots[u], refs[u]) = worst
    OBVIOUS
  <2> HIDE DEF those
  <2>2. QED
    BY <1>1, <2>1
<1> HIDE DEF a, b, worst, those
<1>7. worst = IF a <= b THEN a ELSE b
  BY <1>2, <1>4, PairBounds
<1>8. those \subseteq Nat /\ those # {}
  BY <1>2, <1>6, <1>7
<1>9. Min(those) \in those /\ \A u \in those : Min(those) <= u
  BY <1>8, MinNat
<1>10. Min(those) = IF a <= b THEN 1 ELSE 2
  <2>1. CASE a <= b
    <3>1. 1 \in those
      BY <1>6, <1>7, <2>1
    <3>2. Min(those) \in {1, 2} /\ Min(those) <= 1
      BY <1>6, <1>9, <3>1
    <3>3. QED
      BY <2>1, <3>2
  <2>2. CASE ~(a <= b)
    <3>1. 1 \notin those
      BY <1>2, <1>6, <1>7, <2>2
    <3>2. Min(those) \in {1, 2} /\ Min(those) # 1
      BY <1>6, <1>9, <3>1
    <3>3. QED
      BY <2>2, <3>2
  <2>3. QED
    BY <2>1, <2>2
<1>11. QED
  BY <1>2, <1>5, <1>7, <1>10 DEF a, b, worst

\* What a path adds to the put, before discounting, and to the adjoint.
Paid(spots, refs, strike, ki) ==
  IF Worst(spots, refs) <= ki THEN Intrinsic(Worst(spots, refs), strike) ELSE 0
Moved(spots, refs, strike, ki, u) ==
  IF /\ Worst(spots, refs) < strike /\ Worst(spots, refs) <= ki
     /\ WorstName(spots, refs) = u
  THEN Performance(spots[u], refs[u]) ELSE 0
Branch(spots, refs, strike, ki) ==
  <<WorstName(spots, refs), Worst(spots, refs) < strike,
    Worst(spots, refs) <= ki>>

\* With the worst performance a, the put pays.
PaidAt(a, strike, ki) ==
  IF a <= ki THEN (IF strike - a >= 0 THEN strike - a ELSE 0) ELSE 0

LEMMA PaidIs ==
  ASSUME NEW spots, NEW refs, NEW strike \in Int, NEW ki \in Int,
         Worst(spots, refs) \in Int
  PROVE  Paid(spots, refs, strike, ki) = PaidAt(Worst(spots, refs), strike, ki)
<1> DEFINE w == Worst(spots, refs)
<1>1. w \in Int
  OBVIOUS
<1> HIDE DEF w
<1>2. strike - w \in Int /\ 0 \in Int
  BY <1>1
<1>3. Max({strike - w, 0}) = IF strike - w >= 0 THEN strike - w ELSE 0
  BY <1>2, PairBounds
<1>4. QED
  BY <1>3 DEF Paid, PaidAt, Intrinsic, w

\* A number, and what it is when bumped up and down.
Bumps(a, up, down) ==
  /\ a \in Int /\ up \in Int /\ down \in Int
  /\ 10 * up = a * (10 + Bump) /\ 10 * down = a * (10 - Bump)

\* It lies between its bumps.
LEMMA BetweenBumps ==
  ASSUME NEW a, NEW up, NEW down, Bumps(a, up, down), NEW b \in Int
  PROVE  /\ up <= b /\ down <= b => a <= b
         /\ b <= up /\ b <= down => b <= a
         /\ up < b /\ down < b => a < b
         /\ b < up /\ b < down => b < a
BY DEF Bumps, Bump

LEMMA BumpsPay ==
  ASSUME NEW a, NEW up, NEW down, Bumps(a, up, down),
         NEW strike \in Int, NEW ki \in Int,
         up < strike <=> down < strike, up <= ki <=> down <= ki
  PROVE  10 * (PaidAt(up, strike, ki) - PaidAt(down, strike, ki))
           = 0 - 2 * Bump * (IF a < strike /\ a <= ki THEN a ELSE 0)
<1>1. /\ a \in Int /\ up \in Int /\ down \in Int
      /\ 10 * up = a * 12 /\ 10 * down = a * 8 /\ 2 * Bump = 4
  BY DEF Bumps, Bump
<1>2. /\ up < strike <=> a < strike
      /\ up <= ki <=> a <= ki
  BY <1>1
<1>3. CASE a < strike /\ a <= ki
  BY <1>1, <1>2, <1>3 DEF PaidAt
<1>4. CASE ~(a < strike /\ a <= ki)
  BY <1>1, <1>2, <1>4 DEF PaidAt
<1>5. QED
  BY <1>3, <1>4

LEMMA SameBranch ==
  ASSUME NEW U, NEW D, NEW refs, NEW strike, NEW ki,
         Branch(U, refs, strike, ki) = Branch(D, refs, strike, ki)
  PROVE  /\ WorstName(U, refs) = WorstName(D, refs)
         /\ Worst(U, refs) < strike <=> Worst(D, refs) < strike
         /\ Worst(U, refs) <= ki <=> Worst(D, refs) <= ki
<1>1. <<WorstName(U, refs), Worst(U, refs) < strike, Worst(U, refs) <= ki>>
        = <<WorstName(D, refs), Worst(D, refs) < strike, Worst(D, refs) <= ki>>
  BY DEF Branch
<1>2. QED
  BY <1>1

\* On a path whose bumps stay on one branch, what the put gains or loses
\* between them is what the adjoint says.
LEMMA PathMoves ==
  ASSUME NEW S \in [1 .. 2 -> Int], NEW U \in [1 .. 2 -> Int],
         NEW D \in [1 .. 2 -> Int],
         NEW refs, DOMAIN refs = 1 .. 2,
         \A w \in 1 .. 2 : refs[w] \in Nat /\ refs[w] > 0,
         NEW u \in 1 .. 2, NEW strike \in Int, NEW ki \in Int,
         \A w \in 1 .. 2 : w # u => U[w] = S[w] /\ D[w] = S[w],
         10 * Performance(U[u], refs[u])
           = Performance(S[u], refs[u]) * (10 + Bump),
         10 * Performance(D[u], refs[u])
           = Performance(S[u], refs[u]) * (10 - Bump),
         Branch(U, refs, strike, ki) = Branch(D, refs, strike, ki)
  PROVE  /\ Paid(U, refs, strike, ki) \in Int
         /\ Paid(D, refs, strike, ki) \in Int
         /\ Moved(S, refs, strike, ki, u) \in Int
         /\ 10 * (Paid(U, refs, strike, ki) - Paid(D, refs, strike, ki))
              = (0 - 2 * Bump) * Moved(S, refs, strike, ki, u)
<1> DEFINE one(s) == Performance(s[1], refs[1])
           two(s) == Performance(s[2], refs[2])
           a == Performance(S[u], refs[u])
           up == Performance(U[u], refs[u])
           down == Performance(D[u], refs[u])
<1>1. \A s \in {S, U, D} :
        /\ one(s) \in Int /\ two(s) \in Int
        /\ Worst(s, refs) = IF one(s) <= two(s) THEN one(s) ELSE two(s)
        /\ WorstName(s, refs) = IF one(s) <= two(s) THEN 1 ELSE 2
  <2>1. SUFFICES ASSUME NEW s \in {S, U, D}
                 PROVE  /\ one(s) \in Int /\ two(s) \in Int
                        /\ Worst(s, refs) = IF one(s) <= two(s) THEN one(s)
                                            ELSE two(s)
                        /\ WorstName(s, refs) = IF one(s) <= two(s) THEN 1 ELSE 2
    OBVIOUS
  <2>2. s \in [1 .. 2 -> Int]
    OBVIOUS
  <2>3. QED
    BY <2>2, WorstOfTwo
<1>2. /\ WorstName(U, refs) = WorstName(D, refs)
      /\ Worst(U, refs) < strike <=> Worst(D, refs) < strike
      /\ Worst(U, refs) <= ki <=> Worst(D, refs) <= ki
  BY SameBranch
<1> DEFINE wS == Worst(S, refs)
           wU == Worst(U, refs)
           wD == Worst(D, refs)
<1>3. wS \in Int /\ wU \in Int /\ wD \in Int
  <2>1. \A s \in {S, U, D} : Worst(s, refs) \in Int
    <3> HIDE DEF one, two
    <3>1. QED
      BY <1>1
  <2>2. QED
    BY <2>1
<1>4. /\ Paid(U, refs, strike, ki) = PaidAt(wU, strike, ki)
      /\ Paid(D, refs, strike, ki) = PaidAt(wD, strike, ki)
  BY <1>3, PaidIs
<1>5. Moved(S, refs, strike, ki, u)
        = IF wS < strike /\ wS <= ki /\ WorstName(S, refs) = u THEN a ELSE 0
  BY DEF Moved
<1>6. \A x \in Int : PaidAt(x, strike, ki) \in Int
  BY DEF PaidAt
<1>7. u = 1 \/ u = 2
  OBVIOUS
<1> DEFINE other == IF u = 1 THEN two(S) ELSE one(S)
<1>8. /\ u = 1 => /\ one(S) = a /\ one(U) = up /\ one(D) = down
                  /\ two(S) = other /\ two(U) = other /\ two(D) = other
      /\ u = 2 => /\ two(S) = a /\ two(U) = up /\ two(D) = down
                  /\ one(S) = other /\ one(U) = other /\ one(D) = other
  OBVIOUS
<1> HIDE DEF one, two, other
<1>9. a \in Int /\ up \in Int /\ down \in Int /\ other \in Int
  <2> HIDE DEF a, up, down
  <2>1. S \in {S, U, D} /\ U \in {S, U, D} /\ D \in {S, U, D}
    OBVIOUS
  <2>2. QED
    BY <1>1, <1>7, <1>8, <2>1
<1>10. Bumps(a, up, down)
  BY <1>9 DEF Bumps
<1> HIDE DEF a, up, down, wS, wU, wD
<1>11. /\ up <= other /\ down <= other => a <= other
       /\ other <= up /\ other <= down => other <= a
       /\ up < other /\ down < other => a < other
       /\ other < up /\ other < down => other < a
  BY <1>9, <1>10, BetweenBumps
<1>12. \/ /\ wU = up /\ wD = down /\ wS = a /\ WorstName(S, refs) = u
       \/ /\ wU = other /\ wD = other /\ wS = other /\ WorstName(S, refs) # u
  <2>1. S \in {S, U, D} /\ U \in {S, U, D} /\ D \in {S, U, D}
    OBVIOUS
  <2>2. /\ wS = IF one(S) <= two(S) THEN one(S) ELSE two(S)
        /\ WorstName(S, refs) = IF one(S) <= two(S) THEN 1 ELSE 2
    BY <1>1, <2>1 DEF wS
  <2>3. /\ wU = IF one(U) <= two(U) THEN one(U) ELSE two(U)
        /\ WorstName(U, refs) = IF one(U) <= two(U) THEN 1 ELSE 2
    BY <1>1, <2>1 DEF wU
  <2>4. /\ wD = IF one(D) <= two(D) THEN one(D) ELSE two(D)
        /\ WorstName(D, refs) = IF one(D) <= two(D) THEN 1 ELSE 2
    BY <1>1, <2>1 DEF wD
  <2>5. CASE u = 1
    <3>1. /\ wS = (IF a <= other THEN a ELSE other)
          /\ WorstName(S, refs) = (IF a <= other THEN 1 ELSE 2)
      BY <1>8, <2>2, <2>5
    <3>2. /\ wU = (IF up <= other THEN up ELSE other)
          /\ WorstName(U, refs) = (IF up <= other THEN 1 ELSE 2)
      BY <1>8, <2>3, <2>5
    <3>3. /\ wD = (IF down <= other THEN down ELSE other)
          /\ WorstName(D, refs) = (IF down <= other THEN 1 ELSE 2)
      BY <1>8, <2>4, <2>5
    <3>4. a \in Int /\ up \in Int /\ down \in Int /\ other \in Int
      BY <1>9, <1>10 DEF Bumps
    <3>5. (up <= other) <=> (down <= other)
      <4>1. WorstName(U, refs) = WorstName(D, refs)
        BY <1>2
      <4>2. QED
        BY <3>2, <3>3, <3>4, <4>1
    <3>6. QED
      BY <1>11, <2>5, <3>1, <3>2, <3>3, <3>5, <3>4
  <2>6. CASE u = 2
    <3>1. /\ wS = (IF other <= a THEN other ELSE a)
          /\ WorstName(S, refs) = (IF other <= a THEN 1 ELSE 2)
      BY <1>8, <2>2, <2>6
    <3>2. /\ wU = (IF other <= up THEN other ELSE up)
          /\ WorstName(U, refs) = (IF other <= up THEN 1 ELSE 2)
      BY <1>8, <2>3, <2>6
    <3>3. /\ wD = (IF other <= down THEN other ELSE down)
          /\ WorstName(D, refs) = (IF other <= down THEN 1 ELSE 2)
      BY <1>8, <2>4, <2>6
    <3>4. a \in Int /\ up \in Int /\ down \in Int /\ other \in Int
      BY <1>9, <1>10 DEF Bumps
    <3>5. (other <= up) <=> (other <= down)
      <4>1. WorstName(U, refs) = WorstName(D, refs)
        BY <1>2
      <4>2. QED
        BY <3>2, <3>3, <3>4, <4>1
    <3>6. QED
      BY <1>11, <2>6, <3>1, <3>2, <3>3, <3>5, <3>4
  <2>7. QED
    BY <1>7, <2>5, <2>6
<1> DEFINE moved == Moved(S, refs, strike, ki, u)
           paidU == PaidAt(wU, strike, ki)
           paidD == PaidAt(wD, strike, ki)
<1>13. moved \in Int /\ paidU \in Int /\ paidD \in Int
       /\ 10 * (paidU - paidD) = 0 - 2 * Bump * moved
  <2>1. CASE /\ wU = up /\ wD = down /\ wS = a /\ WorstName(S, refs) = u
    <3>1. moved = IF a < strike /\ a <= ki THEN a ELSE 0
      BY <1>5, <2>1
    <3>2. /\ up < strike <=> down < strike
          /\ up <= ki <=> down <= ki
      BY <1>2, <2>1 DEF wU, wD
    <3>3. 10 * (paidU - paidD) = 0 - 2 * Bump * moved
      <4>1. 10 * (PaidAt(up, strike, ki) - PaidAt(down, strike, ki))
              = 0 - 2 * Bump * (IF a < strike /\ a <= ki THEN a ELSE 0)
        BY <1>10, <3>2, BumpsPay
      <4>2. QED
        BY <2>1, <3>1, <4>1
    <3>4. QED
      BY <1>3, <1>6, <1>9, <3>1, <3>3
  <2>2. CASE /\ wU = other /\ wD = other /\ wS = other /\ WorstName(S, refs) # u
    <3>1. moved = 0
      BY <1>5, <2>2
    <3>2. paidU = paidD /\ paidU \in Int
      BY <1>3, <1>6, <2>2
    <3> HIDE DEF moved, paidU, paidD
    <3>3. 10 * (paidU - paidD) = 0 - 2 * Bump * moved
      BY <3>1, <3>2 DEF Bump
    <3>4. QED
      BY <3>1, <3>2, <3>3
  <2>3. QED
    BY <1>12, <2>1, <2>2
<1> HIDE DEF moved, paidU, paidD
<1>14. 0 - 2 * Bump * moved = (0 - 2 * Bump) * moved
  BY <1>13 DEF Bump
<1>15. QED
  BY <1>4, <1>13, <1>14 DEF moved, paidU, paidD

\* What a bump multiplies a spot with, in tenths, and the market it makes.
Tilt(sign) == 10 + sign * Bump
Tilted(job, option, u, sign) == MarketOf(job, Shifted(option, u, sign))

\* Integers lose nothing of a job's market or of what a bump makes of it.
WholeJob(job, option, draw) ==
  \A u \in 1 .. 2 :
    /\ WholeSpots(MarketOf(job, option), draw, u)
    /\ \A sign \in {-1, 1} :
         /\ Divides(10, option.spots[u], Tilt(sign))
         /\ WholeSpots(Tilted(job, option, u, sign), draw, u)

LEMMA TiltInt == ASSUME NEW sign \in {-1, 1} PROVE Tilt(sign) \in Int
BY DEF Tilt, Bump

\* A market, and it with one of its quotes tilted.
TiltedTwins(market, moved, draw, refs, spots, u, k) ==
  /\ Twins(market, moved, draw) /\ market.references = refs
  /\ market.quoted = spots
  /\ moved.quoted = [spots EXCEPT ![u] = Tenth(spots[u], k)]

LEMMA BumpedTwins ==
  ASSUME NEW job, Priceable(job), NEW option, Option(option), ~option.locvol,
         NEW draw, SoundDraw(draw), NEW u \in 1 .. 2, NEW sign \in {-1, 1}
  PROVE  TiltedTwins(MarketOf(job, option), Tilted(job, option, u, sign), draw,
                     References(job), option.spots, u, Tilt(sign))
<1> DEFINE market == MarketOf(job, option)
           shifted == Shifted(option, u, sign)
           moved == MarketOf(job, shifted)
<1>1. Option(shifted)
  BY ShiftedIs
<1>2. /\ shifted.locvol = option.locvol /\ shifted.ratio = option.ratio
      /\ shifted.spots
           = [option.spots EXCEPT ![u] = Tenth(option.spots[u], Tilt(sign))]
  BY DEF Shifted, Option, Tenth, Share, Tilt
<1> HIDE DEF shifted
<1>3. /\ SoundMarket(market) /\ DOMAIN market.quoted = 1 .. 2
      /\ SoundMarket(moved) /\ DOMAIN moved.quoted = 1 .. 2
  BY <1>1, MarketIs DEF Option
<1>4. /\ ~market.locvol /\ market.vols = Vols(job, option.ratio)
      /\ market.references = References(job) /\ market.quoted = option.spots
  BY DEF MarketOf
<1>5. /\ ~moved.locvol /\ moved.vols = Vols(job, option.ratio)
      /\ moved.references = References(job) /\ moved.quoted = shifted.spots
  BY <1>2 DEF MarketOf
<1> HIDE DEF market, moved
<1>6. Twins(market, moved, draw)
  BY <1>3, <1>4, <1>5 DEF Twins
<1>7. QED
  BY <1>2, <1>4, <1>5, <1>6 DEF TiltedTwins, market, moved, shifted, Tilted

\* The spots a path of a market ends on.
Ends(market, draw, p) == LastOf(Simulate(market, draw))[p]

LEMMA EndsAre ==
  ASSUME NEW market, SoundMarket(market), DOMAIN market.quoted = 1 .. 2,
         NEW draw, SoundDraw(draw), NEW p \in DOMAIN draw
  PROVE  /\ Ends(market, draw, p) \in [1 .. 2 -> Int]
         /\ \A u \in 1 .. 2 : Ends(market, draw, p)[u]
                               = Simulate(market, draw)[p][u][Len(draw[p]) - 1]
         /\ Len(draw[p]) - 1 \in 0 .. Len(draw[p]) - 1
<1> DEFINE cube == Simulate(market, draw)
           n == Len(draw[p])
           m == Steps(cube)
<1>1. /\ DOMAIN cube = DOMAIN draw /\ m \in Nat /\ m >= 2
      /\ DOMAIN cube[p] = 1 .. 2
      /\ \A u \in 1 .. 2 : cube[p][u] \in [0 .. m - 1 -> Int]
  BY CubeShape
<1>2. \A u \in 1 .. 2 : cube[p][u] \in [0 .. n - 1 -> Int]
  BY CubeIs
<1>3. n \in Nat /\ n >= 2
  <2>1. draw[p] \in Seq([1 .. 2 -> Int]) /\ Len(draw[p]) >= 2
    BY DEF SoundDraw
  <2>2. QED
    BY <2>1
<1>4. LastOf(cube)[p] = [u \in 1 .. 2 |-> cube[p][u][m - 1]]
  BY <1>1 DEF LastOf, At
<1> HIDE DEF cube, n, m
<1>5. m = n
  <2>1. 1 \in 1 .. 2
    OBVIOUS
  <2>2. 0 .. m - 1 = 0 .. n - 1
    BY <1>1, <1>2, <2>1
  <2>3. m - 1 \in 0 .. m - 1 /\ n - 1 \in 0 .. n - 1
    BY <1>1, <1>3
  <2>4. m - 1 \in 0 .. n - 1 /\ n - 1 \in 0 .. m - 1
    BY <2>2, <2>3
  <2>5. QED
    BY <1>1, <1>3, <2>4
<1>6. \A u \in 1 .. 2 : cube[p][u][n - 1] \in Int
  BY <1>2, <1>3
<1>7. LastOf(cube)[p] \in [1 .. 2 -> Int]
  BY <1>4, <1>5, <1>6
<1>8. n - 1 \in 0 .. n - 1
  BY <1>3
<1>9. QED
  BY <1>4, <1>5, <1>7, <1>8 DEF Ends, cube, n

\* A bump of a name scales its last spot and its performance on every path,
\* and leaves the other name's as they are.
LEMMA EndsScale ==
  ASSUME NEW job, Priceable(job), NEW option, Option(option), ~option.locvol,
         NEW draw, SoundDraw(draw), WholeJob(job, option, draw),
         NEW u \in 1 .. 2, NEW sign \in {-1, 1}, NEW p \in DOMAIN draw,
         NEW S, S = Ends(MarketOf(job, option), draw, p),
         NEW M, M = Ends(Tilted(job, option, u, sign), draw, p)
  PROVE  /\ S \in [1 .. 2 -> Int] /\ M \in [1 .. 2 -> Int]
         /\ Scales(S[u], M[u], Tilt(sign))
         /\ \A w \in 1 .. 2 : w # u => M[w] = S[w]
         /\ Scales(Performance(S[u], References(job)[u]),
                   Performance(M[u], References(job)[u]), Tilt(sign))
<1> DEFINE market == MarketOf(job, option)
           moved == Tilted(job, option, u, sign)
           refs == References(job)
           k == Tilt(sign)
           spots == option.spots
           end == Len(draw[p]) - 1
<1>1. /\ Twins(market, moved, draw) /\ market.references = refs
      /\ market.quoted = spots
      /\ moved.quoted = [spots EXCEPT ![u] = Tenth(spots[u], k)]
  <2>1. TiltedTwins(market, moved, draw, refs, spots, u, k)
    BY BumpedTwins
  <2> HIDE DEF market, moved, refs, k, spots
  <2>2. QED
    BY <2>1 DEF TiltedTwins
<1>2. /\ WholeSpots(market, draw, u) /\ WholeSpots(moved, draw, u)
      /\ Divides(10, spots[u], k)
  BY DEF WholeJob
<1>3. refs[u] \in Nat /\ refs[u] > 0
  BY JobNames
<1>4. k \in Int /\ spots \in [1 .. 2 -> Int] /\ spots[u] \in Int
  BY TiltInt DEF Option
<1> HIDE DEF market, moved, refs, k, spots
<1>5. /\ SoundMarket(market) /\ SoundMarket(moved)
      /\ DOMAIN market.quoted = 1 .. 2 /\ DOMAIN moved.quoted = 1 .. 2
      /\ moved.references = refs
  BY <1>1 DEF Twins
<1>6. S = Ends(market, draw, p) /\ M = Ends(moved, draw, p)
  BY DEF market, moved
<1>7. /\ S \in [1 .. 2 -> Int] /\ M \in [1 .. 2 -> Int]
      /\ \A w \in 1 .. 2 : /\ S[w] = Simulate(market, draw)[p][w][end]
                           /\ M[w] = Simulate(moved, draw)[p][w][end]
      /\ end \in 0 .. end
  BY <1>5, <1>6, EndsAre
<1>8. Scales(market.quoted[u], moved.quoted[u], k)
  <2>1. moved.quoted[u] = Tenth(spots[u], k) /\ market.quoted[u] = spots[u]
    BY <1>1, <1>4
  <2> DEFINE q == spots[u]
             z == q * k
  <2>2. z \in Int /\ z % 10 = 0
    BY <1>2, <1>4 DEF Divides
  <2>3. Tenth(q, k) = z \div 10
    BY DEF Tenth, Share
  <2> HIDE DEF z
  <2>4. 10 * (z \div 10) = z
    BY <2>2
  <2>5. 10 * Tenth(q, k) = q * k
    BY <2>3, <2>4 DEF z
  <2>6. QED
    BY <2>1, <2>5 DEF Scales
<1>9. Scales(S[u], M[u], k)
  <2>1. \A t \in 0 .. Len(draw[p]) - 1 :
          Scales(Simulate(market, draw)[p][u][t],
                 Simulate(moved, draw)[p][u][t], k)
    BY <1>1, <1>2, <1>4, <1>8, SpotsScale
  <2>2. end \in 0 .. Len(draw[p]) - 1
    BY <1>7
  <2> HIDE DEF end
  <2>3. QED
    BY <1>7, <2>1, <2>2
<1>10. ASSUME NEW w \in 1 .. 2, w # u PROVE M[w] = S[w]
  <2>1. moved.quoted[w] = market.quoted[w]
    BY <1>1, <1>4, <1>10
  <2>2. \A t \in 0 .. Len(draw[p]) - 1 :
          Simulate(moved, draw)[p][w][t] = Simulate(market, draw)[p][w][t]
    <3>1. Twins(market, moved, draw)
      BY <1>1
    <3>2. QED
      BY <2>1, <3>1, SpotsStay
  <2>3. end \in 0 .. Len(draw[p]) - 1
    BY <1>7
  <2> HIDE DEF end
  <2>4. QED
    BY <1>7, <2>2, <2>3
<1>11. Scales(Performance(S[u], refs[u]), Performance(M[u], refs[u]), k)
  <2>1. /\ Divides(refs[u], Simulate(market, draw)[p][u][end], Unit)
        /\ Divides(refs[u], Simulate(moved, draw)[p][u][end], Unit)
    BY <1>1, <1>2, <1>5 DEF WholeSpots
  <2>2. Divides(refs[u], S[u], Unit) /\ Divides(refs[u], M[u], Unit)
    <3> HIDE DEF end
    <3>1. QED
      BY <1>7, <2>1
  <2>3. S[u] \in Int /\ M[u] \in Int /\ Unit \in Int
    BY <1>7, UnitAssumption
  <2>4. Scales(Share(S[u], Unit, refs[u]), Share(M[u], Unit, refs[u]), k)
    BY <1>3, <1>4, <1>9, <2>2, <2>3, ScaledShare
  <2>5. QED
    BY <2>4 DEF Performance, Share
<1>12. QED
  BY <1>7, <1>9, <1>10, <1>11 DEF refs, k

\* What each path adds to the put and to the adjoint.
PaidOn(job, market, draw) ==
  [p \in DOMAIN draw |-> Paid(Ends(market, draw, p), References(job),
                              job.strike, job.kiBarrier)]
MovedOn(job, market, draw, u) ==
  [p \in DOMAIN draw |-> Moved(Ends(market, draw, p), References(job),
                               job.strike, job.kiBarrier, u)]
LifeDiscount(job) == Discount(job.evaluation, job.expiry)

\* A path's ends, and the terms of a job.
LEMMA JobTerms ==
  ASSUME NEW job, Priceable(job)
  PROVE  /\ DOMAIN References(job) = 1 .. 2 /\ DOMAIN job.equity = 1 .. 2
         /\ \A u \in 1 .. 2 : References(job)[u] \in Nat /\ References(job)[u] > 0
         /\ job.strike \in Int /\ job.kiBarrier \in Int
         /\ LifeDiscount(job) \in Int
<1>1. job \in Jobs
  BY JobNames
<1>2. /\ job.strike \in Int /\ job.kiBarrier \in Int
      /\ job.evaluation \in Int /\ job.expiry \in Int
  BY <1>1 DEF Jobs
<1>3. LifeDiscount(job) \in Int
  BY <1>2, DiscountInt DEF LifeDiscount
<1>4. QED
  BY <1>2, <1>3, JobNames

\* What a price on a market is made of.
PricedOn(job, market, draw, price) ==
  /\ IsFiniteSet(DOMAIN draw)
  /\ price.last = [p \in DOMAIN draw |-> Ends(market, draw, p)]
  /\ PutPrice(price)
       = LifeDiscount(job)
           * SumFunctionOnSet(PaidOn(job, market, draw), DOMAIN draw)
  /\ \A u \in 1 .. 2 :
       price.adjoint[u]
         = 0 - LifeDiscount(job)
                 * SumFunctionOnSet(MovedOn(job, market, draw, u), DOMAIN draw)

LEMMA PutIs ==
  ASSUME NEW job, Priceable(job), NEW option, Option(option),
         NEW draw, SoundDraw(draw),
         NEW price, price = PriceFixture(job, option, draw),
         NEW market, market = MarketOf(job, option)
  PROVE  PricedOn(job, market, draw, price)
<1> DEFINE cube == Simulate(market, draw)
           last == [p \in DOMAIN cube |-> At(cube, p, Steps(cube) - 1)]
           refs == References(job)
           df == LifeDiscount(job)
           strike == job.strike
           ki == job.kiBarrier
           D == DOMAIN draw
           worst == [p \in DOMAIN last |-> Worst(last[p], refs)]
           pays == {p \in DOMAIN last : worst[p] <= ki}
           put == [p \in pays |-> Intrinsic(worst[p], strike)]
           moves(u) == {p \in DOMAIN last :
                          /\ Worst(last[p], refs) < strike
                          /\ Worst(last[p], refs) <= ki
                          /\ WorstName(last[p], refs) = u}
           move(u) == [p \in moves(u) |-> Performance(last[p][u], refs[u])]
<1>1. SoundMarket(market) /\ DOMAIN market.quoted = 1 .. 2
  BY MarketIs DEF Option
<1>2. /\ DOMAIN cube = D /\ IsFiniteSet(D) /\ last \in [D -> [1 .. 2 -> Int]]
  BY <1>1, LastIs DEF LastOf
<1>3. /\ DOMAIN refs = 1 .. 2 /\ DOMAIN job.equity = 1 .. 2
      /\ \A u \in 1 .. 2 : refs[u] \in Nat /\ refs[u] > 0
      /\ strike \in Int /\ ki \in Int /\ df \in Int
  BY JobTerms
<1>4. market.references = refs
  BY DEF MarketOf
<1>5. price = PriceCube(job, market, cube)
  BY DEF PriceFixture, PriceMarket
<1> HIDE DEF cube
<1>6. price.legs.PUT = 0 - df * SumFunctionOnSet(put, pays)
  BY <1>4, <1>5 DEF PriceCube, TerminalLegs, SumOver, SumFunction, LifeDiscount
<1>7. price.adjoint = [u \in DOMAIN job.equity |->
                         0 - df * SumFunctionOnSet(move(u), moves(u))]
  <2>1. price.adjoint
          = PriceCube(job, market, cube).adjoint
    BY <1>5
  <2> HIDE <1>5
  <2>2. QED
    BY <1>4, <2>1 DEF PriceCube, AdjointDollar, SumOver, SumFunction, LifeDiscount
<1>8. price.last = last
  BY <1>5 DEF PriceCube
<1>9. \A p \in D : last[p] = Ends(market, draw, p)
  BY <1>2 DEF Ends, LastOf, cube
<1> HIDE DEF last, refs, df, strike, ki
<1>10. DOMAIN last = D /\ \A p \in D : worst[p] = Worst(last[p], refs)
  BY <1>2
<1>11. last = [p \in D |-> Ends(market, draw, p)]
  <2>1. last = [p \in D |-> last[p]]
    BY <1>2
  <2>2. QED
    BY <1>9, <2>1
<1>12. \A p \in D : /\ last[p] \in [1 .. 2 -> Int]
                    /\ Worst(last[p], refs) \in Int
  BY <1>2, <1>3, WorstInt
<1> DEFINE paid == PaidOn(job, market, draw)
           moved(u) == MovedOn(job, market, draw, u)
<1>13. \A p \in D : paid[p] = Paid(last[p], refs, strike, ki)
  BY <1>9 DEF PaidOn, refs, strike, ki
<1>14. \A u \in 1 .. 2 : \A p \in D :
         moved(u)[p] = Moved(last[p], refs, strike, ki, u)
  BY <1>9 DEF MovedOn, refs, strike, ki
<1> HIDE DEF paid, moved
<1>15. SumFunctionOnSet(put, pays) = SumFunctionOnSet(paid, D)
         /\ SumFunctionOnSet(paid, D) \in Int
  <2>1. pays \in SUBSET D
    BY <1>10
  <2>2. ASSUME NEW p \in D
        PROVE  paid[p] \in Int /\ paid[p] = IF p \in pays THEN put[p] ELSE 0
    <3>1. p \in pays <=> Worst(last[p], refs) <= ki
      BY <1>10
    <3>2. p \in pays => put[p] = Intrinsic(Worst(last[p], refs), strike)
      BY <1>10, <2>1
    <3>3. Intrinsic(Worst(last[p], refs), strike) \in Int
      BY <1>3, <1>12, IntrinsicInt
    <3> HIDE DEF put, pays, worst
    <3>4. QED
      BY <1>13, <3>1, <3>2, <3>3 DEF Paid
  <2> HIDE DEF put, pays, worst
  <2>3. SumFunctionOnSet(put, pays) = SumFunctionOnSet(paid, D)
    BY <1>2, <2>1, <2>2, SumOfPart
  <2>4. SumFunctionOnSet(paid, D) \in Int
    BY <1>2, <2>2, SumTake
  <2>5. QED
    BY <2>3, <2>4
<1>16. ASSUME NEW u \in 1 .. 2
       PROVE  SumFunctionOnSet(move(u), moves(u)) = SumFunctionOnSet(moved(u), D)
  <2> DEFINE T == moves(u)
             g == move(u)
             h == moved(u)
  <2>1. T \in SUBSET D
    BY <1>10
  <2>2. ASSUME NEW p \in D
        PROVE  h[p] \in Int /\ h[p] = IF p \in T THEN g[p] ELSE 0
    <3>1. p \in T <=> /\ Worst(last[p], refs) < strike
                      /\ Worst(last[p], refs) <= ki
                      /\ WorstName(last[p], refs) = u
      BY <1>10
    <3>2. p \in T => g[p] = Performance(last[p][u], refs[u])
      OBVIOUS
    <3>3. Performance(last[p][u], refs[u]) \in Int
      <4>1. last[p][u] \in Int
        BY <1>12
      <4>2. QED
        BY <1>3, <4>1, PerformanceInt
    <3>4. h[p] = Moved(last[p], refs, strike, ki, u)
      BY <1>14
    <3> HIDE DEF T, g, h
    <3>5. QED
      BY <3>1, <3>2, <3>3, <3>4 DEF Moved
  <2> HIDE DEF T, g, h
  <2>3. SumFunctionOnSet(g, T) = SumFunctionOnSet(h, D)
    BY <1>2, <2>1, <2>2, SumOfPart
  <2>4. QED
    BY <2>3 DEF T, g, h
<1> HIDE DEF put, pays, worst, move, moves
<1>17. PutPrice(price) = df * SumFunctionOnSet(paid, D)
  <2> DEFINE s == SumFunctionOnSet(paid, D)
             x == df * s
  <2>1. s \in Int
    BY <1>15
  <2>2. PutPrice(price) = 0 - (0 - x)
    BY <1>6, <1>15 DEF PutPrice
  <2> HIDE DEF s
  <2>3. x \in Int
    BY <1>3, <2>1
  <2> HIDE DEF x
  <2>4. PutPrice(price) = x
    BY <2>2, <2>3
  <2>5. QED
    BY <2>4 DEF x, s
<1>18. \A u \in 1 .. 2 :
         price.adjoint[u] = 0 - df * SumFunctionOnSet(moved(u), D)
  BY <1>3, <1>7, <1>16
<1>19. QED
  BY <1>2, <1>8, <1>11, <1>17, <1>18 DEF PricedOn, paid, moved, df, D

\* Where a job's paths end when a name is bumped.
TiltedEnds(job, option, draw, u, sign, p) ==
  Ends(Tilted(job, option, u, sign), draw, p)
Stays(job, option, draw, u) ==
  \A p \in DOMAIN draw :
    Branch(TiltedEnds(job, option, draw, u, 1, p), References(job),
           job.strike, job.kiBarrier)
      = Branch(TiltedEnds(job, option, draw, u, -1, p), References(job),
               job.strike, job.kiBarrier)

\* On every path of a job the put moves as its adjoint says.
LEMMA PathsMove ==
  ASSUME NEW job, Priceable(job), NEW option, Option(option), ~option.locvol,
         NEW draw, SoundDraw(draw), WholeJob(job, option, draw),
         NEW u \in 1 .. 2, Stays(job, option, draw, u),
         NEW p \in DOMAIN draw,
         NEW f, f = PaidOn(job, Tilted(job, option, u, 1), draw),
         NEW g, g = PaidOn(job, Tilted(job, option, u, -1), draw),
         NEW h, h = MovedOn(job, MarketOf(job, option), draw, u)
  PROVE  Balances(f[p], g[p], h[p], 10, 0 - 2 * Bump)
<1> DEFINE S == Ends(MarketOf(job, option), draw, p)
           U == Ends(Tilted(job, option, u, 1), draw, p)
           D == Ends(Tilted(job, option, u, -1), draw, p)
           refs == References(job)
           strike == job.strike
           ki == job.kiBarrier
<1>1. /\ S \in [1 .. 2 -> Int] /\ U \in [1 .. 2 -> Int]
      /\ \A w \in 1 .. 2 : w # u => U[w] = S[w]
      /\ Scales(Performance(S[u], refs[u]), Performance(U[u], refs[u]), Tilt(1))
  <2>1. 1 \in {-1, 1}
    OBVIOUS
  <2>2. QED
    BY <2>1, EndsScale
<1>2. /\ D \in [1 .. 2 -> Int]
      /\ \A w \in 1 .. 2 : w # u => D[w] = S[w]
      /\ Scales(Performance(S[u], refs[u]), Performance(D[u], refs[u]), Tilt(-1))
  <2>1. -1 \in {-1, 1}
    OBVIOUS
  <2>2. QED
    BY <2>1, EndsScale
<1>3. /\ DOMAIN refs = 1 .. 2 /\ strike \in Int /\ ki \in Int
      /\ \A w \in 1 .. 2 : refs[w] \in Nat /\ refs[w] > 0
  BY JobTerms
<1>4. Branch(U, refs, strike, ki) = Branch(D, refs, strike, ki)
  BY DEF Stays, TiltedEnds
<1>5. /\ f[p] = Paid(U, refs, strike, ki) /\ g[p] = Paid(D, refs, strike, ki)
      /\ h[p] = Moved(S, refs, strike, ki, u)
  BY DEF PaidOn, MovedOn
<1> HIDE DEF S, U, D, refs, strike, ki
<1>6. /\ 10 * Performance(U[u], refs[u])
           = Performance(S[u], refs[u]) * (10 + Bump)
      /\ 10 * Performance(D[u], refs[u])
           = Performance(S[u], refs[u]) * (10 - Bump)
  <2>1. Tilt(1) = 10 + Bump /\ Tilt(-1) = 10 - Bump
    BY DEF Tilt, Bump
  <2>2. QED
    BY <1>1, <1>2, <2>1 DEF Scales
<1>7. /\ Paid(U, refs, strike, ki) \in Int /\ Paid(D, refs, strike, ki) \in Int
      /\ Moved(S, refs, strike, ki, u) \in Int
      /\ 10 * (Paid(U, refs, strike, ki) - Paid(D, refs, strike, ki))
           = (0 - 2 * Bump) * Moved(S, refs, strike, ki, u)
  BY <1>1, <1>2, <1>3, <1>4, <1>6, PathMoves
<1>8. QED
  BY <1>5, <1>7 DEF Balances

\* So the central difference of a job's put is its adjoint.
LEMMA DifferenceIsAdjoint ==
  ASSUME NEW job, Priceable(job), NEW option, Option(option), ~option.locvol,
         NEW draw, SoundDraw(draw), WholeJob(job, option, draw),
         NEW u \in 1 .. 2, Stays(job, option, draw, u)
  PROVE  BumpResult(job, option, draw).fd[u]
           = PriceFixture(job, option, draw).adjoint[u]
<1> DEFINE price(o) == PriceFixture(job, o, draw)
           up == Shifted(option, u, 1)
           down == Shifted(option, u, -1)
           D == DOMAIN draw
           df == LifeDiscount(job)
           f == PaidOn(job, Tilted(job, option, u, 1), draw)
           g == PaidOn(job, Tilted(job, option, u, -1), draw)
           h == MovedOn(job, MarketOf(job, option), draw, u)
           F == SumFunctionOnSet(f, D)
           G == SumFunctionOnSet(g, D)
           H == SumFunctionOnSet(h, D)
           putUp == PutPrice(price(up))
           putDown == PutPrice(price(down))
           adjoint == price(option).adjoint[u]
           fd == BumpResult(job, option, draw).fd[u]
<1>1. fd = ((putUp - putDown) * 10) \div (2 * Bump)
  <2>1. u \in DOMAIN job.equity
    BY JobTerms
  <2>2. QED
    BY <2>1 DEF BumpResult, Bumped
<1>2. Option(up) /\ Option(down)
  <2>1. 1 \in {-1, 1} /\ -1 \in {-1, 1}
    OBVIOUS
  <2>2. QED
    BY <2>1, ShiftedIs
<1>0. ASSUME NEW o, Option(o)
       PROVE  /\ IsFiniteSet(D)
              /\ PutPrice(price(o))
                   = df * SumFunctionOnSet(PaidOn(job, MarketOf(job, o), draw), D)
              /\ price(o).adjoint[u]
                   = 0 - df * SumFunctionOnSet(MovedOn(job, MarketOf(job, o),
                                                       draw, u), D)
  <2>1. PricedOn(job, MarketOf(job, o), draw, PriceFixture(job, o, draw))
    BY <1>0, PutIs
  <2>2. QED
    BY <2>1 DEF PricedOn
<1>3. IsFiniteSet(D) /\ adjoint = 0 - df * H
  BY <1>0
<1>4. putUp = df * F
  BY <1>2, <1>0 DEF Tilted
<1>5. putDown = df * G
  BY <1>2, <1>0 DEF Tilted
<1>6. \A p \in D : Balances(f[p], g[p], h[p], 10, 0 - 2 * Bump)
  BY PathsMove
<1>7. df \in Int
  BY JobTerms
<1> HIDE DEF price, up, down, D, df, f, g, h, putUp, putDown, adjoint, fd
<1>8. /\ F \in Int /\ G \in Int /\ H \in Int
      /\ 10 * (F - G) = (0 - 2 * Bump) * H
  <2> DEFINE a == 10
             b == 0 - 2 * Bump
  <2>1. a \in Int /\ b \in Int
    BY DEF Bump
  <2>2. \A p \in D : Balances(f[p], g[p], h[p], a, b)
    BY <1>6
  <2> HIDE DEF a, b
  <2>3. Balances(F, G, H, a, b)
    BY <1>3, <2>1, <2>2, SumBalance
  <2>4. QED
    BY <2>3 DEF Balances, a, b
<1> HIDE DEF F, G, H
<1>9. adjoint \in Int /\ (putUp - putDown) * 10 = adjoint * 4
  <2> DEFINE x == df * F
             y == df * G
             z == df * H
  <2>1. 10 * (F - G) = (0 - 4) * H
    BY <1>8 DEF Bump
  <2>2. df * (10 * (F - G)) = df * ((0 - 4) * H)
    BY <2>1
  <2>3. df * (10 * (F - G)) = 10 * (x - y)
    BY <1>7, <1>8
  <2>4. df * ((0 - 4) * H) = (0 - 4) * z
    BY <1>7, <1>8
  <2>5. x \in Int /\ y \in Int /\ z \in Int
    BY <1>7, <1>8
  <2>6. putUp = x /\ putDown = y /\ adjoint = 0 - z
    BY <1>3, <1>4, <1>5
  <2> HIDE DEF x, y, z
  <2>7. 10 * (x - y) = (0 - 4) * z
    BY <2>2, <2>3, <2>4
  <2>8. QED
    BY <2>5, <2>6, <2>7
<1>10. fd = (adjoint * 4) \div 4
  <2>1. 2 * Bump = 4
    BY DEF Bump
  <2>2. QED
    BY <1>1, <1>9, <2>1
<1>11. (adjoint * 4) \div 4 = adjoint
  BY <1>9
<1>12. QED
  BY <1>10, <1>11 DEF fd, adjoint, price

\* A path's last spots with a name's bumped, and the branches they are on.
Nudged(spots, u, sign) ==
  [spots EXCEPT ![u] = (@ * (10 + sign * Bump)) \div 10]
Matches(job, names, last, fd, adjoint) ==
  \A u \in names :
    (\A p \in DOMAIN last :
       Branch(Nudged(last[p], u, 1), References(job), job.strike, job.kiBarrier)
         = Branch(Nudged(last[p], u, -1), References(job), job.strike,
                  job.kiBarrier))
      => fd[u] = adjoint[u]

LEMMA NudgedIs ==
  ASSUME NEW job, Priceable(job), NEW option, Option(option), ~option.locvol,
         NEW draw, SoundDraw(draw), WholeJob(job, option, draw),
         NEW u \in 1 .. 2, NEW sign \in {-1, 1}, NEW p \in DOMAIN draw
  PROVE  Nudged(Ends(MarketOf(job, option), draw, p), u, sign)
           = TiltedEnds(job, option, draw, u, sign, p)
<1> DEFINE S == Ends(MarketOf(job, option), draw, p)
           M == Ends(Tilted(job, option, u, sign), draw, p)
           k == Tilt(sign)
           x == S[u]
           y == M[u]
<1>1. /\ S \in [1 .. 2 -> Int] /\ M \in [1 .. 2 -> Int]
      /\ Scales(S[u], M[u], k)
      /\ \A w \in 1 .. 2 : w # u => M[w] = S[w]
  BY EndsScale
<1>2. k \in Int /\ k = 10 + sign * Bump
  BY TiltInt DEF Tilt
<1> HIDE DEF S, M, k
<1>3. x \in Int /\ y \in Int /\ 10 * y = x * k
  BY <1>1 DEF Scales
<1>4. (x * k) \div 10 = y
  <2> DEFINE z == x * k
  <2>1. z = 10 * y
    BY <1>3
  <2> HIDE DEF z, x, y
  <2>2. z \div 10 = y
    BY <1>3, <2>1
  <2>3. QED
    BY <2>2 DEF z
<1>5. Nudged(S, u, sign) = [S EXCEPT ![u] = y]
  BY <1>2, <1>4 DEF Nudged
<1> HIDE DEF x, y
<1>6. [S EXCEPT ![u] = y] = M
  BY <1>1 DEF y
<1>7. QED
  BY <1>5, <1>6 DEF TiltedEnds, S, M

LEMMA BaseIs ==
  ASSUME NEW job, NEW option, NEW draw
  PROVE  /\ BumpResult(job, option, draw).names = DOMAIN job.equity
         /\ BumpResult(job, option, draw).base = PriceFixture(job, option, draw)
<1> DEFINE base == PriceFixture(job, option, draw)
           result == BumpResult(job, option, draw)
<1>1. result.names = DOMAIN job.equity
  BY DEF BumpResult, Bumped
<1>2. result.base = base
  BY DEF BumpResult, Bumped
<1>3. QED
  BY <1>1, <1>2

LEMMA JobMatches ==
  ASSUME NEW job, Priceable(job), NEW ratio \in Nat,
         NEW draw, SoundDraw(draw),
         WholeJob(job, BaseOption(job, FALSE, ratio), draw),
         NEW result, result = BumpResult(job, BaseOption(job, FALSE, ratio), draw)
  PROVE  Matches(job, result.names, result.base.last, result.fd,
                 result.base.adjoint)
<1> DEFINE option == BaseOption(job, FALSE, ratio)
           price == PriceFixture(job, option, draw)
           last == result.base.last
<1>1. Option(option) /\ ~option.locvol
  BY BaseIsOption DEF BaseOption
<1>2. WholeJob(job, option, draw) /\ result = BumpResult(job, option, draw)
  OBVIOUS
<1> HIDE DEF option
<1>3. result.names = DOMAIN job.equity /\ result.base = price
  BY <1>2, BaseIs DEF price
<1>4. DOMAIN job.equity = 1 .. 2
  BY JobTerms
<1>5. PricedOn(job, MarketOf(job, option), draw, price)
  BY <1>1, PutIs
<1> HIDE DEF price
<1>6. last = [p \in DOMAIN draw |-> Ends(MarketOf(job, option), draw, p)]
  BY <1>3, <1>5 DEF PricedOn
<1> HIDE DEF last
<1>7. ASSUME NEW u \in 1 .. 2,
             \A p \in DOMAIN last :
               Branch(Nudged(last[p], u, 1), References(job), job.strike,
                      job.kiBarrier)
                 = Branch(Nudged(last[p], u, -1), References(job), job.strike,
                          job.kiBarrier)
      PROVE  result.fd[u] = result.base.adjoint[u]
  <2>1. ASSUME NEW p \in DOMAIN draw
        PROVE  /\ Nudged(last[p], u, 1) = TiltedEnds(job, option, draw, u, 1, p)
               /\ Nudged(last[p], u, -1)
                    = TiltedEnds(job, option, draw, u, -1, p)
    <3>1. last[p] = Ends(MarketOf(job, option), draw, p)
      BY <1>6
    <3>2. 1 \in {-1, 1} /\ -1 \in {-1, 1}
      OBVIOUS
    <3>3. QED
      BY <1>1, <1>2, <3>1, <3>2, NudgedIs
  <2>2. DOMAIN last = DOMAIN draw
    BY <1>6
  <2>3. Stays(job, option, draw, u)
    BY <1>7, <2>1, <2>2 DEF Stays
  <2>4. BumpResult(job, option, draw).fd[u]
          = PriceFixture(job, option, draw).adjoint[u]
    BY <1>1, <1>2, <2>3, DifferenceIsAdjoint
  <2>5. QED
    BY <1>2, <1>3, <2>4 DEF price
<1>8. QED
  BY <1>3, <1>4, <1>7 DEF Matches, last

\* What a call shows of its bumps is the bump result's, but for the coupon.
Shows(shown, result) ==
  /\ shown.names = result.names /\ shown.fd = result.fd
  /\ shown.base.last = result.base.last
  /\ shown.base.adjoint = result.base.adjoint
LEMMA BumpsShown ==
  ASSUME NEW book, NEW locvol, NEW ratio, NEW draw,
         NEW result,
         result = BumpResult(book[1], BaseOption(book[1], locvol, ratio), draw),
         NEW shown,
         shown = PricingAndSensitivity(book, locvol, ratio, draw).bumped
  PROVE  Shows(shown, result)
<1> DEFINE coupon == IF Len(book) >= 3
                     THEN PriceFixture(book[3],
                                       BaseOption(book[3], locvol, ratio),
                                       draw).legs.COUPON
                     ELSE result.base.legs.COUPON
<1>1. shown = [result EXCEPT !.base.legs.COUPON = coupon]
  BY DEF PricingAndSensitivity
<1>2. "base" \in DOMAIN result /\ result.base
        = PriceFixture(book[1], BaseOption(book[1], locvol, ratio), draw)
  BY DEF BumpResult, Bumped
<1>3. "last" \in DOMAIN result.base /\ "adjoint" \in DOMAIN result.base
  BY <1>2 DEF PriceFixture, PriceMarket, PriceCube
<1>4. "names" \in DOMAIN result /\ "fd" \in DOMAIN result
  BY DEF BumpResult, Bumped
<1> HIDE DEF coupon
<1>5. QED
  BY <1>1, <1>2, <1>3, <1>4 DEF Shows

\* Integer division loses nothing of what the call in hand prices: bumps give
\* whole quotes, steps whole spots, and last spots whole performances.
WholeNumbers ==
  Priced => WholeJob(call.book[1],
                     BaseOption(call.book[1], call.locvol, call.ratio),
                     call.draw)

LEMMA AdjointStep ==
  (WholeNumbers => AdjointMatchesBumps) /\ [Next]_vars
    => (WholeNumbers => AdjointMatchesBumps)'
<1> SUFFICES ASSUME WholeNumbers => AdjointMatchesBumps, [Next]_vars,
                    WholeNumbers'
             PROVE  AdjointMatchesBumps'
  OBVIOUS
<1>1. CASE UNCHANGED deskVars
  BY <1>1 DEF deskVars, AdjointMatchesBumps, WholeNumbers, Priced
<1>2. CASE Answered
  <2>1. call'.tool = "none"
    BY <1>2 DEF Answered, None
  <2>2. ~Priced'
    BY <2>1 DEF Priced
  <2>3. QED
    BY <2>2 DEF AdjointMatchesBumps
<1>3. CASE Tool
  <2>1. ASSUME NEW book \in Books, NEW draw \in Draws, NEW locvol \in BOOLEAN,
               NEW ratio \in Ratios, PricingTool(book, locvol, ratio, draw)
        PROVE  AdjointMatchesBumps'
    <3> DEFINE job == book[1]
               option == BaseOption(job, FALSE, ratio)
               result == BumpResult(job, option, draw)
    <3>1. /\ call'.book = book /\ call'.locvol = locvol
          /\ call'.ratio = ratio /\ call'.draw = draw
          /\ call'.tool = "pricing_and_sensitivity"
      BY <2>1 DEF PricingTool, Reply
    <3>2. SUFFICES ASSUME reply' # Raised, ~locvol
                   PROVE  Matches(job, reply'.bumped.names,
                                  reply'.bumped.base.last, reply'.bumped.fd,
                                  reply'.bumped.base.adjoint)
      BY <3>1, <3>2, ZenonT(60)
         DEF AdjointMatchesBumps, Matches, Branch, Nudged, Priced
    <3>3. locvol = FALSE
      BY <3>2
    <3>4. 1 \in DOMAIN book /\ 1 \in PricedJobs(book)
      BY BookHasLegs DEF PricedJobs
    <3>5. ~TooWide(job)
      BY <2>1, <3>2, <3>4 DEF PricingTool, Reply
    <3>6. Priceable(job)
      BY <3>4, <3>5, BooksPriceable
    <3>7. reply'.bumped = PricingAndSensitivity(book, locvol, ratio, draw).bumped
      BY <2>1, <3>2 DEF PricingTool, Reply
    <3>8. WholeJob(job, option, draw)
      BY <3>1, <3>2, <3>3 DEF WholeNumbers, Priced
    <3>9. ratio \in Nat /\ SoundDraw(draw)
      BY BooksAssumption DEF SoundDraw
    <3>10. Matches(job, result.names, result.base.last, result.fd,
                   result.base.adjoint)
      BY <3>6, <3>8, <3>9, JobMatches
    <3>11. /\ reply'.bumped.names = result.names
           /\ reply'.bumped.fd = result.fd
           /\ reply'.bumped.base.last = result.base.last
           /\ reply'.bumped.base.adjoint = result.base.adjoint
      <4> DEFINE shown == PricingAndSensitivity(book, FALSE, ratio, draw).bumped
      <4>1. Shows(shown, result)
        BY BumpsShown
      <4> HIDE DEF shown, result
      <4>2. reply'.bumped = shown
        BY <3>3, <3>7 DEF shown
      <4>3. QED
        BY <4>1, <4>2 DEF Shows
    <3> HIDE DEF job, result
    <3>12. QED
      BY <3>10, <3>11
  <2>2. ASSUME NEW book \in Books, NEW draw \in Draws, RunRiskSingle(book, draw)
        PROVE  AdjointMatchesBumps'
    <3>1. call'.locvol = TRUE
      BY <2>2 DEF RunRiskSingle, Reply
    <3>2. QED
      BY <3>1 DEF AdjointMatchesBumps
  <2>3. \/ \E book \in Books, draw \in Draws, locvol \in BOOLEAN, ratio \in Ratios :
             PricingTool(book, locvol, ratio, draw)
        \/ \E book \in Books, draw \in Draws : RunRiskSingle(book, draw)
        \/ call'.tool \notin {"pricing_and_sensitivity", "single"}
    BY <1>3, ToolIs
  <2>4. QED
    BY <2>1, <2>2, <2>3 DEF AdjointMatchesBumps, Priced
<1>4. QED
  BY <1>1, <1>2, <1>3, DeskSteps

\* Where integer division loses nothing, the adjoint of the put of whatever
\* job, on whatever draw, is its central difference for every name whose
\* bumps leave each path on its branch, although the difference re-reads the
\* market, re-simulates and re-prices.
THEOREM AdjointIsDifference ==
  Spec => [](WholeNumbers => AdjointMatchesBumps)
<1>1. Init => (WholeNumbers => AdjointMatchesBumps)
  BY DEF Init, None, AdjointMatchesBumps, Priced
<1>2. (WholeNumbers => AdjointMatchesBumps) /\ [Next]_vars
        => (WholeNumbers => AdjointMatchesBumps)'
  BY AdjointStep
<1>3. QED
  BY <1>1, <1>2, PTL DEF Spec
=============================================================================
