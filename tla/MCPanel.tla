------------------------------- MODULE MCPanel -------------------------------
(***************************************************************************)
(* Instances of Panel.                                           *)
(***************************************************************************)
EXTENDS Panel

Down(n) == [d \in Dir |-> IF d = "down" THEN n ELSE 0]

Step3 == {Down(3)}

Ask(disabled, limit, expire, bw) ==
    [ disabled |-> disabled, limit |-> limit, expire |-> expire, bw |-> bw ]

(* An edit that keeps a past expiry; edits that remove or move the expiry  *)
(* and the bandwidth, and switch off; one that does not say whether the    *)
(* peer is on.                                                             *)
Extend == {Ask(FALSE, 9, 1, "same")}
Several == {Ask(FALSE, 9, 1, "same"), Ask(FALSE, 0, Never, "none"),
            Ask(TRUE, 2, 2, "new"), Ask(FALSE, 2, Never, "new")}
NotSaid == {Ask(Unset, 9, Never, "new")}
Partial == Several \cup NotSaid \cup {Ask(FALSE, 2, 0, "same")}

(* Nothing reads the totals. *)
PanelView == <<stateVars, mu, thr, serviceVars>>
=============================================================================
