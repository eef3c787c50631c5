------------------------------ MODULE MCServices ------------------------------
(***************************************************************************)
(* An instance of Services.                                                *)
(***************************************************************************)
EXTENDS Services, TLC

CONSTANTS c1, c2, p1, p2        \* chats and the peers they are linked to
CONSTANTS i1, w1, w2, n1, n2, a1, a2, port     \* a router's objects

Sent(c, kind, p, named) == [chat |-> c, kind |-> kind, peer |-> p, named |-> named]

(* Every kind of update: one chat has no username and links two peers; the *)
(* other links and unlinks the first.                                      *)
Updates ==
    { Sent(c1, "link", p1, FALSE), Sent(c1, "link", p2, FALSE),
      Sent(c1, "name", NoAnswer, FALSE), Sent(c1, "notify", NoAnswer, FALSE),
      Sent(c1, "skip", NoAnswer, FALSE),
      Sent(c2, "link", p1, TRUE), Sent(c2, "start", NoAnswer, TRUE),
      Sent(c2, "notify", p1, TRUE), Sent(c2, "unlink", p1, TRUE), Sent(c2, "show", p1, TRUE) }

(* Addresses of two octets with three values, so that one and two octets   *)
(* wrap.  A pool that starts where an octet wraps, one within a block, and *)
(* one that ends before it starts.                                         *)
At(hi, lo) == <<hi, lo>>

PoolsInUse ==
    { [start |-> At(1, 0), end |-> At(2, 0)], [start |-> At(0, 1), end |-> At(1, 1)],
      [start |-> At(2, 1), end |-> At(1, 2)] }

GivenInUse ==
    { [ip |-> a, mask |-> "32"] : a \in {At(0, 2), At(1, 0), At(1, 1)} } \cup
    { [ip |-> At(1, 1), mask |-> "24"] }

(* An interface and two peers of it; it may be renamed, and made or lost   *)
(* while a synchronisation runs.                                           *)
Ifaces == i1 :> [name |-> n1, off |-> FALSE, port |-> port]
Peers == (w1 :> [iface |-> i1, addr |-> a1, off |-> FALSE, keyed |-> TRUE]) @@
         (w2 :> [iface |-> i1, addr |-> a2, off |-> FALSE, keyed |-> TRUE])
=============================================================================
