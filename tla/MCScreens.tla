------------------------------ MODULE MCScreens -----------------------------
(***************************************************************************)
(* An instance of Screens.                                                 *)
(***************************************************************************)
EXTENDS Screens

InterfaceOf_Two == [p \in RouterPeer |-> IF p = 1 THEN "wg1" ELSE "wg2"]

(* 10.2 comes before 10.10, and 9.12 before both. *)
Address_Three == <<<<10, 2>>, <<9, 12>>, <<10, 10>>>>

Zones == {-5, 0, 3}
=============================================================================
