------------------------------ MODULE MCConsole -----------------------------
(***************************************************************************)
(* Instances of Console.                                         *)
(***************************************************************************)
EXTENDS Console

Visit(pages, rows, slots, changes, dialogs) ==
    [pages |-> pages, rows |-> rows, slots |-> slots, changes |-> changes, dialogs |-> dialogs, session |-> FALSE]

Session(pages, slots, changes) == [Visit(pages, 0, slots, changes, {}) EXCEPT !.session = TRUE]

(* Every page with every kind of dialog, switches and forms that overlap, a    *)
(* page left with a request on its way, and sessions that end while requests   *)
(* of theirs, or of an earlier one, are on their way.                          *)
AllTours ==
    { Visit({"/peers"}, 1, {1}, 0, {"add", "share", "sync"}),
      Visit({"/peers"}, 1, {1}, 0, {"delete"}),
      Visit({"/peers"}, 2, {1}, 1, {"edit"}),
      Visit({"/interfaces"}, 0, {1, 2}, 2, {"add", "sync"}),
      Visit({"/interfaces"}, 2, {1}, 0, {"edit", "delete"}),
      Visit({"/pools"}, 1, {1}, 1, {"add", "edit", "delete"}),
      Visit({"/servers"}, 2, {1, 2}, 0, {"edit"}),
      Visit({"/servers"}, 2, {1}, 0, {"add", "delete"}),
      Visit({"/servers"}, 2, {1, 2}, 2, {}),
      Visit({"/pools", "/servers"}, 0, {1}, 1, {"add"}),
      Session({"/sign-in", "/", "/settings/account"}, {1}, 1),
      Session({"/sign-in", "/"}, {1, 2}, 0) }

FewTours ==
    { Visit({"/servers"}, 2, {1, 2}, 1, {}),
      Visit({"/pools"}, 1, {1}, 1, {"add"}),
      Session({"/sign-in", "/"}, {1}, 0) }
=============================================================================
