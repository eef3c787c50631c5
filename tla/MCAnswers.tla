------------------------------- MODULE MCAnswers ------------------------------
(***************************************************************************)
(* An instance of Answers.                                                 *)
(***************************************************************************)
EXTENDS Answers, MCConsole

CONSTANTS c1, c2, p1

Sent(c, kind, p, named) == [chat |-> c, kind |-> kind, peer |-> p, named |-> named]

(* What decides who is alerted. *)
Subscriptions ==
    { Sent(c1, "link", p1, FALSE), Sent(c1, "notify", NoAnswer, FALSE),
      Sent(c2, "link", p1, TRUE), Sent(c2, "unlink", p1, TRUE) }
=============================================================================
