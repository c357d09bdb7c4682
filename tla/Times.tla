------------------------------- MODULE Times --------------------------------
(***************************************************************************)
(* The conversions of time of linux/time.h and the load average of         *)
(* linux/sched.h, in the 32 bits they have; TLC's numbers end at 2^31 - 1, *)
(* so dates after January 2038 and sums above it are left out.             *)
(***************************************************************************)
EXTENDS Integers

HZ == 100
Second == 1000000000
MAX_JIFFY_OFFSET == 2147483646

(* Mutant of timespec_to_jiffies: rounded down.                            *)
timespec_to_jiffies_down(sec, nsec) ==
  IF sec < 0 \/ sec >= MAX_JIFFY_OFFSET \div HZ
  THEN MAX_JIFFY_OFFSET
  ELSE HZ * sec + nsec \div (Second \div HZ)

(* A negative number of seconds is a large unsigned one.                   *)
timespec_to_jiffies(sec, nsec) ==
  IF sec < 0 \/ sec >= MAX_JIFFY_OFFSET \div HZ
  THEN MAX_JIFFY_OFFSET
  ELSE HZ * sec + (nsec + Second \div HZ - 1) \div (Second \div HZ)

jiffies_to_timespec(jiffies) == <<jiffies \div HZ, (jiffies % HZ) * (Second \div HZ)>>

(* February is put last, in the year before: it has the leap day.          *)
mktime(year, mon, day, hour, min, sec) ==
  LET late == mon - 2 <= 0
      m == IF late THEN mon + 10 ELSE mon - 2
      y == IF late THEN year - 1 ELSE year
      days == y \div 4 - y \div 100 + y \div 400 + (367 * m) \div 12 + day + y * 365 - 719499
  IN ((days * 24 + hour) * 60 + min) * 60 + sec

FSHIFT == 11
FIXED_1 == 2^FSHIFT
EXP_1 == 1884
EXP_5 == 2014
EXP_15 == 2037

CALC_LOAD(load, exp, n) == (load * exp + n * (FIXED_1 - exp)) \div 2^FSHIFT

CT_TO_SECS(x) == x \div HZ
CT_TO_USECS(x) == ((x % HZ) * 1000000) \div HZ
-----------------------------------------------------------------------------
(* A timeout lasts at least as long as it was asked for, and less than a   *)
(* tick longer; one too long is the longest there is (time.h:17-42).       *)
WaitsLongEnough(sec, nsec) ==
  LET j == timespec_to_jiffies(sec, nsec)
      t == jiffies_to_timespec(j)
      tick == Second \div HZ
  IN IF sec < 0 \/ sec >= MAX_JIFFY_OFFSET \div HZ
     THEN j = MAX_JIFFY_OFFSET
     ELSE /\ j < MAX_JIFFY_OFFSET
          /\ IF t[1] > sec THEN t[2] = 0 /\ nsec > Second - tick ELSE t[1] = sec /\ t[2] - nsec \in 0 .. tick - 1

(* There and back, for what does not saturate (time.h:44-49).              *)
ComesBack(j) ==
  LET t == jiffies_to_timespec(j)
  IN timespec_to_jiffies(t[1], t[2]) = IF t[1] < MAX_JIFFY_OFFSET \div HZ THEN j ELSE MAX_JIFFY_OFFSET

IsLeap(y) == y % 4 = 0 /\ (y % 100 # 0 \/ y % 400 = 0)
MonthLength(y, m) ==
  IF m = 2 THEN IF IsLeap(y) THEN 29 ELSE 28 ELSE IF m \in {4, 6, 9, 11} THEN 30 ELSE 31

NextDay(y, m, d) ==
  IF d < MonthLength(y, m) THEN <<y, m, d + 1>> ELSE IF m < 12 THEN <<y, m + 1, 1>> ELSE <<y + 1, 1, 1>>

(* Midnight is a second after 23:59:59, on every day of the Gregorian      *)
(* calendar, and 1970 begins at 0 (time.h:52-83).                          *)
CountsSeconds(y, m, d) ==
  LET next == NextDay(y, m, d)
  IN /\ mktime(next[1], next[2], next[3], 0, 0, 0) = mktime(y, m, d, 23, 59, 59) + 1
     /\ mktime(y, m, d, 23, 59, 59) = mktime(y, m, d, 0, 0, 0) + 86399
     /\ <<y, m, d>> = <<1970, 1, 1>> => mktime(y, m, d, 0, 0, 0) = 0

(* The load moves towards the number of running tasks and never past it,   *)
(* at most one rounding below (sched.h:57-71).                             *)
Approaches(load, n) ==
  \A exp \in {EXP_1, EXP_5, EXP_15} :
    LET next == CALC_LOAD(load, exp, n)
    IN IF load <= n THEN next \in load .. n ELSE next \in n .. load - 1

(* Ticks as seconds and microseconds are the same time (sched.h:73-74).    *)
SameTime(x) == CT_TO_SECS(x) * HZ + CT_TO_USECS(x) \div (1000000 \div HZ) = x

(* All of the above, for a job of its kind.                                *)
Agrees(job) ==
  CASE job.of = "timespec" -> WaitsLongEnough(job.arg[1], job.arg[2])
    [] job.of = "jiffies" -> ComesBack(job.arg)
    [] job.of = "date" -> CountsSeconds(job.arg[1], job.arg[2], job.arg[3])
    [] job.of = "load" -> Approaches(job.arg[1], job.arg[2])
    [] job.of = "ticks" -> SameTime(job.arg)
=============================================================================
