------------------------------- MODULE Backoff -------------------------------
(***************************************************************************)
(* backoffTime and the two loops that sleep for as long as it says, with   *)
(* Go's arithmetic: uint wraps around, a shift by the width or more is 0,  *)
(* int and Duration are two's complement.  The code's width is 64 bits and *)
(* its second 10^9 nanoseconds; a second is even, and the longest delay    *)
(* fits into a Duration.                                                   *)
(***************************************************************************)
EXTENDS Integers

CONSTANTS
  Width,          \* bits of uint, int and time.Duration
  Second,         \* units of time.Duration in a second
  BaseDelay,      \* ReplicationBackoffBaseDelay, in seconds
  MaxDelay,       \* ReplicationBackoffMaxDelay, in seconds
  MaxFailures     \* bound on the failures looked at

VARIABLES
  failures,       \* failed attempts so far
  delay           \* what was slept after the last of them

vars == <<failures, delay>>

Unsigned(n) == n % 2 ^ Width
Signed(n) == IF Unsigned(n) < 2 ^ (Width - 1) THEN Unsigned(n)
             ELSE Unsigned(n) - 2 ^ Width

ShiftLeft(n, by) == IF by >= Width THEN 0 ELSE Signed(n * 2 ^ by)

\* The delays there can be after n failures: from the second on, half of the
\* doubled delay and a random part of the other half.
BackoffTime(n) ==
  IF n < 2 THEN {BaseDelay * Second}
  ELSE LET doubled == Signed(BaseDelay * ShiftLeft(2, Unsigned(n - 3)))
           half == doubled \div 2
       IN IF doubled <= 1 THEN {Signed(doubled * Second)}
          ELSE IF half > MaxDelay THEN {MaxDelay * Second}
          ELSE {IF d > MaxDelay THEN MaxDelay * Second ELSE d * Second :
                  d \in half..(half + half - 1)}

Init == failures = 0 /\ delay = 0

\* replicateFile or sendFileListUntilSuccessful fails once more and sleeps;
\* time.Sleep returns at once when it is given a negative time.
Fail ==
  /\ failures < MaxFailures
  /\ failures' = failures + 1
  /\ \E d \in BackoffTime(failures + 1) : delay' = IF d > 0 THEN d ELSE 0

Next == Fail

Spec == Init /\ [][Next]_vars

-----------------------------------------------------------------------------

\* A retry waits for the base delay at least, however often the last ones have
\* failed.  Left out is the one after the second failure, which waits for
\* nothing, so that what is shown is the delay that is lost for good.
BackoffHolds == failures > 2 => delay >= BaseDelay * Second
=============================================================================
