---------------------------- MODULE CounterDelta ----------------------------
(***************************************************************************)
(* The byte counters RouterOS keeps per peer, and how the panel turns two  *)
(* readings of one counter into a number of bytes (calculateDelta).        *)
(*                                                                         *)
(* A counter counts modulo MaxCounter (2^32 in the code) and returns to    *)
(* zero when the router restarts.  A reading below the previous one is     *)
(* therefore ambiguous; calculateDelta resolves it by the size of the      *)
(* step back.                                                              *)
(***************************************************************************)
EXTENDS Integers

CONSTANT MaxCounter   (* one more than the largest value of a counter      *)

ASSUME MaxCounterAssumption == MaxCounter \in Nat \ {0}

Counter == 0 .. MaxCounter - 1

(* The largest step back that is taken for a restart rather than a wrap.   *)
HalfRange == MaxCounter \div 2

calculateDelta_NoWrap(prev, current) ==          \* mutant: any step back is a restart
    IF current >= prev THEN current - prev ELSE current

(* Bytes attributed to the step from reading prev to reading current.      *)
(* Beyond MaxCounter the counter is not a 32-bit one and any step back is  *)
(* a restart.                                                              *)
calculateDelta(prev, current) ==
    IF current >= prev THEN current - prev
    ELSE IF prev > MaxCounter \/ current > MaxCounter THEN current
    ELSE IF prev - current > HalfRange THEN (MaxCounter - prev) + current
    ELSE current

(* The router's side: a counter at c after n more bytes.                   *)
Wrap(c, n) == IF c + n >= MaxCounter THEN c + n - MaxCounter ELSE c + n

(* Counter c is u bytes ahead of reading prev, with at most one wrap and   *)
(* no restart in between.                                                  *)
Ahead(prev, c, u) == c = prev + u \/ c = prev + u - MaxCounter

(* A counter that moved fewer bytes than this since the last reading is    *)
(* never mistaken for a restarted one.                                     *)
ExactWindow == MaxCounter - HalfRange

(* The most a restarted counter can be overestimated by: the restart is    *)
(* mistaken for a wrap when the last reading was above HalfRange.          *)
RestartSlop == MaxCounter - HalfRange - 1
=============================================================================
