------------------------------ MODULE ScreenBase ----------------------------
(***************************************************************************)
(* What the modules of single screens (src/ui/src/features) share.  Each   *)
(* of them is a component of the web interface on its own, between the     *)
(* administrator and the answers it waits for; a behaviour is about one.   *)
(***************************************************************************)
EXTENDS Naturals, FiniteSets, SequencesExt

CONSTANT Null      \* JavaScript's null and undefined

VARIABLE screen    \* the component this behaviour is about

(* A set of positions in the order of a comparison, a set of pairs; those it   *)
(* does not tell apart stay as they were.                                      *)
Before(S, less, i) == {j \in S : <<j, i>> \in less \/ (<<i, j>> \notin less /\ j < i)}
StableSort(S, less) ==
    [k \in 1 .. Cardinality(S) |-> CHOOSE i \in S : Cardinality(Before(S, less, i)) = k - 1]
=============================================================================
