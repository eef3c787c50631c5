---------------------------- MODULE DialogState -----------------------------
(***************************************************************************)
(* The dialogs of a page.  The context of a page holds which dialog is     *)
(* open and the row it was opened on.  setOpen TOGGLES: asked for the      *)
(* dialog that is open it closes it, asked for any other it opens that     *)
(* one.  handleClose(d) is setOpen(d) and a timer that clears the row half *)
(* a second later, while the dialog fades out; the timer is not cancelled  *)
(* when another dialog opens meanwhile, and an answer that comes late      *)
(* calls handleClose although the administrator has closed the dialog.     *)
(***************************************************************************)
EXTENDS ConsoleState

CONSTANT MaxFades      \* bound on the timers that run at the same time

ASSUME FadesAssumption == MaxFades \in Nat \ {0}

(* The requests that a dialog, or the cell of a switch, waits for.           *)
OpOf(d) == CASE d = "edit" -> "update" [] d = "add" -> "create" [] d = "delete" -> "delete"
             [] d = "sync" -> "sync" [] OTHER -> "none"

InFlight(s, op) == net[s] # Null /\ net[s].op = op /\ net[s].waiting

(* A form, and the delete dialog, disable their button while the request of   *)
(* this instance of them is on its way.                                     *)
Pending(d) == \E s \in Slot : InFlight(s, OpOf(d)) /\ net[s].form = "open"

(* The form is unmounted and its dialog closed, or the dialog is gone as well.  *)
Orphaned(ops, form) ==
    [s \in Slot |-> IF net[s] # Null /\ net[s].op \in ops /\ net[s].form # "gone"
                     THEN [net[s] EXCEPT !.form = form] ELSE net[s]]

(* Plausible bugs: the dialog is set, not toggled; its row is never cleared.    *)
setOpen_Sets(d) == d
handleClose_KeepsRow(d) == open' = (IF open = d THEN Null ELSE d) /\ UNCHANGED <<fades, row>>

setOpen(d) == IF open = d THEN Null ELSE d

fading == IF fades < MaxFades THEN fades + 1 ELSE fades

handleClose(d) ==
    /\ open' = setOpen(d)
    /\ fades' = fading
    /\ UNCHANGED row

(* An entry of a row's menu: the row is copied, then the dialog is opened.    *)
(* A dialog that is still fading out keeps what was typed into it.           *)
OpenOn(list, d, r) ==
    /\ NoDialog /\ d \in tour.dialogs
    /\ r \in Listed(Shown(list))
    /\ row' = [id |-> r, was |-> Shown(list)[r]]
    /\ open' = setOpen(d)
    /\ typed' = IF row = Null THEN Null ELSE typed
    /\ retyped' = FALSE
    /\ hasty' = (hasty \/ fades > 0)
    /\ UNCHANGED <<fades, serverVars, queryVars, net, authVars, path, tour>>

(* A button above the table.                                                *)
OpenPlain(d) ==
    /\ NoDialog /\ d \in tour.dialogs
    /\ open' = setOpen(d)
    /\ UNCHANGED <<row, fades, typed, retyped, hasty, serverVars, queryVars, net, authVars, path, tour>>

(* Escape, the cross, a click beside the dialog: it closes although a request *)
(* is on its way.  The form in it is unmounted.                             *)
Dismiss(d) ==
    /\ OnScreen(d)
    /\ CASE d \in RowDialog -> handleClose(d)
         [] d = "add" -> open' = setOpen("add") /\ UNCHANGED <<row, fades>>
         [] OTHER -> open' = setOpen(Null) /\ UNCHANGED <<row, fades>>
    /\ net' = Orphaned(IF d \in {"edit", "add"} THEN {OpOf(d)} ELSE {}, "closed")
    /\ hasty' = (hasty \/ \E s \in Slot : InFlight(s, OpOf(d)) /\ net[s].here)
    /\ UNCHANGED <<typed, retyped, serverVars, queryVars, authVars, path, tour>>

(* The timer: the row goes, and with it every dialog of a row.               *)
FadeOut ==
    /\ fades > 0
    /\ fades' = fades - 1
    /\ row' = Null /\ typed' = Null /\ retyped' = FALSE
    /\ net' = Orphaned({"update", "delete"}, "gone")
    /\ UNCHANGED <<open, hasty, serverVars, queryVars, authVars, path, tour>>

(* The delete dialog: its button works once the row's name is typed.          *)
TypeName ==
    /\ OnScreen("delete")
    /\ typed' = row.id /\ retyped' = TRUE
    /\ <<typed', retyped'>> # <<typed, retyped>>
    /\ UNCHANGED <<open, row, fades, hasty, serverVars, queryVars, net, authVars, path, tour>>

(* The page's context is gone with its page.                                *)
ClosedWithPage ==
    /\ open' = Null /\ row' = Null /\ fades' = 0 /\ typed' = Null /\ retyped' = FALSE
    /\ UNCHANGED hasty

=============================================================================
