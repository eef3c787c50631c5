----------------------------- MODULE UsageLedger -----------------------------
(***************************************************************************)
(* What metering promises.  Every byte a peer forwards is pending until it *)
(* is counted; it is counted once; a reset drops what is counted, with     *)
(* some of what is pending, and nothing else loses or invents a byte.      *)
(***************************************************************************)
EXTENDS Integers

CONSTANTS Peer, Dir

VARIABLES
    arrived,   (* bytes forwarded so far                                   *)
    counted,   (* the usage shown and held against the limit               *)
    pending,   (* forwarded and not counted yet                            *)
    dropped    (* forgotten by a reset                                     *)

ledger == <<arrived, counted, pending, dropped>>

Zeros == [p \in Peer |-> [d \in Dir |-> 0]]

Init == arrived = Zeros /\ counted = Zeros /\ pending = Zeros /\ dropped = Zeros

Others(p) ==
    \A q \in Peer \ {p} : /\ arrived'[q] = arrived[q] /\ counted'[q] = counted[q]
                          /\ pending'[q] = pending[q] /\ dropped'[q] = dropped[q]

Arrive(p) ==
    /\ \A d \in Dir : /\ arrived'[p][d] >= arrived[p][d]
                      /\ arrived'[p][d] - pending'[p][d] = arrived[p][d] - pending[p][d]
    /\ counted'[p] = counted[p] /\ dropped'[p] = dropped[p]
    /\ Others(p)

Count(p) ==
    /\ \A d \in Dir : /\ counted'[p][d] >= counted[p][d]
                      /\ counted'[p][d] + pending'[p][d] = counted[p][d] + pending[p][d]
                      /\ pending'[p][d] >= 0
    /\ arrived'[p] = arrived[p] /\ dropped'[p] = dropped[p]
    /\ Others(p)

Reset(p) ==
    /\ \A d \in Dir : /\ counted'[p][d] = 0
                      /\ dropped'[p][d] >= dropped[p][d] + counted[p][d]
                      /\ dropped'[p][d] + pending'[p][d] = arrived[p][d]
                      /\ pending'[p][d] >= 0
    /\ arrived'[p] = arrived[p]
    /\ Others(p)

Next == \E p \in Peer : Arrive(p) \/ Count(p) \/ Reset(p)

Spec == Init /\ [][Next]_ledger
=============================================================================
