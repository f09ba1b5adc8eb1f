-------------------------------- MODULE Time --------------------------------
(***************************************************************************)
(* The clock arithmetic of src/utilities/util.cpp, on which every timeout  *)
(* of the framework rests.  A deadline is a reading of the clock plus an   *)
(* interval (time_add_ms); it has passed when time_cmp(now, deadline) = 1. *)
(* The two units are parameters, so that small instances can be checked:   *)
(* in the code a second has 1000 ms and a millisecond 10^6 ns.             *)
(***************************************************************************)
EXTENDS Integers

CONSTANTS MS,    \* milliseconds in a second
          NS     \* nanoseconds in a millisecond

ASSUME UnitAssumption == MS \in Nat \ {0} /\ NS \in Nat \ {0}

SECOND == MS * NS

timespec == [tv_sec: Int, tv_nsec: Int]

(* What clock_gettime returns.                                             *)
Reading == [tv_sec: Nat, tv_nsec: 0..(SECOND - 1)]

time_add_ms_NoCarry(t, ms) ==        \* mutant: the second that is full is lost
  LET nsec == t.tv_nsec + (ms % MS) * NS IN
  [tv_sec |-> t.tv_sec + ms \div MS,
   tv_nsec |-> IF nsec > SECOND THEN nsec - SECOND ELSE nsec]

(* A sum of exactly one second is not carried ("> 1e9").                   *)
time_add_ms(t, ms) ==
  LET sec == t.tv_sec + ms \div MS
      nsec == t.tv_nsec + (ms % MS) * NS
  IN  IF nsec > SECOND
      THEN [tv_sec |-> sec + 1, tv_nsec |-> nsec - SECOND]
      ELSE [tv_sec |-> sec, tv_nsec |-> nsec]

time_cmp(t1, t2) ==
  CASE t1.tv_sec > t2.tv_sec -> 1
    [] t1.tv_sec < t2.tv_sec -> -1
    [] t1.tv_sec = t2.tv_sec /\ t1.tv_nsec > t2.tv_nsec -> 1
    [] t1.tv_sec = t2.tv_sec /\ t1.tv_nsec < t2.tv_nsec -> -1
    [] t1.tv_sec = t2.tv_sec /\ t1.tv_nsec = t2.tv_nsec -> 0

Passed(now, deadline) == time_cmp(now, deadline) = 1

-----------------------------------------------------------------------------
Total(t) == t.tv_sec * SECOND + t.tv_nsec

(* The deadline t + ms is never seen early and never missed: at a reading  *)
(* before it, it has not passed, at a reading after it, it has.  (At the   *)
(* very moment it may go either way, because of the missing carry.)        *)
DeadlineRight(t, ms, now) ==
  /\ Total(now) < Total(t) + ms * NS => ~Passed(now, time_add_ms(t, ms))
  /\ Total(now) > Total(t) + ms * NS => Passed(now, time_add_ms(t, ms))
=============================================================================
