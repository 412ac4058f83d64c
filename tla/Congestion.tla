----------------------------- MODULE Congestion -----------------------------
(***************************************************************************)
(* CongestionController (src/scanengine/congestion.cpp): the number of     *)
(* probes an adaptive scheduler may have outstanding.  It grows by one     *)
(* after RecoveryThreshold consecutive responses and is scaled down by the *)
(* backoff factor after TimeoutThreshold consecutive timeouts.             *)
(*                                                                         *)
(* The operators act on the controller's state as a value, so the          *)
(* schedulers that own a controller use them on a variable of their own.   *)
(* The EWMA of the drop rate and the response, timeout and backoff totals  *)
(* are reported and never read back by the controller: they are left out.  *)
(***************************************************************************)
EXTENDS Integers

CONSTANTS
  MinParallelism, MaxParallelism, InitialParallelism,
  TimeoutThreshold, RecoveryThreshold,
  BackoffNum, BackoffDen        \* backoff_factor as the fraction Num / Den

(***************************************************************************)
(* CongestionController::valid and the parallelism part of                 *)
(* TimingProfile::validate: a scheduler refuses any other configuration.   *)
(***************************************************************************)
ASSUME CongestionAssumption ==
  /\ MinParallelism \in Nat \ {0}
  /\ MaxParallelism \in Nat /\ MinParallelism <= MaxParallelism
  /\ InitialParallelism \in MinParallelism..MaxParallelism
  /\ TimeoutThreshold \in Nat \ {0}
  /\ RecoveryThreshold \in Nat \ {0}
  /\ BackoffNum \in Nat \ {0} /\ BackoffDen \in Nat /\ BackoffNum < BackoffDen

CongestionState ==
  [current_parallelism : MinParallelism..MaxParallelism,
   consecutive_timeouts : 0..(TimeoutThreshold - 1),
   consecutive_successes : 0..(RecoveryThreshold - 1)]

clamp_parallelism(n) ==
  IF n < MinParallelism THEN MinParallelism
  ELSE IF n > MaxParallelism THEN MaxParallelism ELSE n

InitialCongestion ==
  [current_parallelism |-> clamp_parallelism(InitialParallelism),
   consecutive_timeouts |-> 0, consecutive_successes |-> 0]

(***************************************************************************)
(* Faulty variant, for the sensitivity of the checks: the success streak   *)
(* is not restarted when it widens the window.                             *)
(***************************************************************************)
response_keeps_streak(c) ==
  LET recovered == c.consecutive_successes + 1 >= RecoveryThreshold
  IN  [current_parallelism |->
         clamp_parallelism(IF recovered THEN c.current_parallelism + 1
                                        ELSE c.current_parallelism),
       consecutive_timeouts |-> 0,
       consecutive_successes |-> c.consecutive_successes + 1]

(***************************************************************************)
(* on_response(): a success resets the timeout streak; the streak that     *)
(* reaches the threshold widens the window by one and starts over.         *)
(***************************************************************************)
on_response(c) ==
  LET recovered == c.consecutive_successes + 1 >= RecoveryThreshold
      widened == IF recovered /\ c.current_parallelism < MaxParallelism
                   THEN c.current_parallelism + 1 ELSE c.current_parallelism
  IN  [current_parallelism |-> clamp_parallelism(widened),
       consecutive_timeouts |-> 0,
       consecutive_successes |-> IF recovered THEN 0 ELSE c.consecutive_successes + 1]

(***************************************************************************)
(* current_parallelism * backoff_factor, truncated, but never below one.   *)
(***************************************************************************)
Scaled(n) ==
  LET scaled == (n * BackoffNum) \div BackoffDen
  IN  IF scaled < 1 THEN 1 ELSE scaled

on_timeout(c) ==
  LET exhausted == c.consecutive_timeouts + 1 >= TimeoutThreshold
      next == Scaled(c.current_parallelism)
      narrowed == IF exhausted
                    THEN IF next < MinParallelism THEN MinParallelism ELSE next
                    ELSE c.current_parallelism
  IN  [current_parallelism |-> clamp_parallelism(narrowed),
       consecutive_timeouts |-> IF exhausted THEN 0 ELSE c.consecutive_timeouts + 1,
       consecutive_successes |-> 0]

=============================================================================
