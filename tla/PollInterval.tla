---------------------------- MODULE PollInterval ----------------------------
(***************************************************************************)
(* The arithmetic of the poll interval of env-injector: the default for a  *)
(* missing value in main() and jitteredInterval.  Durations are in         *)
(* nanoseconds.  rand.N panics when its argument is not positive, and so   *)
(* does time.NewTicker.                                                    *)
(*                                                                         *)
(* A value without a unit ("120") is cast to nanoseconds: it is positive   *)
(* and so is no missing value.  What follows holds for it as well.         *)
(***************************************************************************)
EXTENDS Integers, TLAPS

Second == 1000 * 1000 * 1000

\* Up to 2^48 ns, three days, the float64 product below is off by less than a
\* tenth, so that it is cut to the right integer or to the one below where the
\* exact product is an integer.
Longest == 2^48

\* cast.ToDuration of the variable, and the default for what is not positive.
secretPollInterval(value) == IF value <= 0 THEN 120 * Second ELSE value

\* time.Duration(float64(interval) * jitterFraction)
MaxSkew(interval, skew) == 10 * skew <= 3 * interval /\ 3 * interval <= 10 * skew + 10

\* rand.N(2 * maxSkew)
Drawn(skew, n) == n >= 0 /\ n < 2 * skew

\* d is an interval jitteredInterval may return.
jitteredInterval(interval, d) ==
  \E skew \in Int :
    /\ MaxSkew(interval, skew)
    /\ IF skew <= 0 THEN d = interval
       ELSE \E n \in Int : Drawn(skew, n) /\ d = interval - skew + n

-----------------------------------------------------------------------------
\* The random number is asked for with a positive bound, smaller than the
\* interval: rand.N in main.go:165 does not panic, and nothing overflows.
THEOREM DrawIsDefined ==
    ASSUME NEW interval \in Int, interval >= 1, interval <= Longest,
           NEW skew \in Int, MaxSkew(interval, skew), ~(skew <= 0)
    PROVE  2 * skew > 0 /\ 2 * skew < interval
  BY DEF MaxSkew

\* Whatever the value of VAULT_ENV_SECRET_POLL_INTERVAL, the ticker is made
\* with a positive interval, within 30% of the one asked for (main.go:150-151).
THEOREM PollsWithinJitter ==
    ASSUME NEW value \in Int, value <= Longest, NEW d \in Int,
           jitteredInterval(secretPollInterval(value), d)
    PROVE  /\ d > 0
           /\ 7 * secretPollInterval(value) <= 10 * d
           /\ 10 * d <= 13 * secretPollInterval(value)
  <1> DEFINE i == secretPollInterval(value)
  <1>1. i \in Int /\ i >= 1
    BY DEF secretPollInterval, Second
  <1>2. PICK skew \in Int :
          /\ MaxSkew(i, skew)
          /\ IF skew <= 0 THEN d = i
             ELSE \E n \in Int : Drawn(skew, n) /\ d = i - skew + n
    BY DEF jitteredInterval
  <1> HIDE DEF i
  <1>3. CASE skew <= 0
    BY <1>1, <1>2, <1>3 DEF i
  <1>4. CASE ~(skew <= 0)
    <2>1. PICK n \in Int : Drawn(skew, n) /\ d = i - skew + n
      BY <1>2, <1>4
    <2>2. 10 * skew <= 3 * i /\ 0 <= n /\ n < 2 * skew
      BY <1>2, <2>1 DEF MaxSkew, Drawn
    <2>3. d > 0 /\ 7 * i <= 10 * d /\ 10 * d <= 13 * i
      BY <1>1, <1>4, <2>1, <2>2
    <2>4. QED
      BY <2>3 DEF i
  <1>5. QED
    BY <1>3, <1>4
=============================================================================
