-------------------------- MODULE ConsoleRequests ---------------------------
(***************************************************************************)
(* The requests an administrator makes: sent by a handler, carried out or  *)
(* refused by the server, answered; or given up after thirty seconds, when *)
(* the server may still carry them out.  A mutation is described by what   *)
(* it asks for, the list that changes, and the lists its onSuccess          *)
(* invalidates.  The answer runs onSuccess and then what the handler does  *)
(* after its await: closing the dialog, wherever the dialogs are by then.  *)
(***************************************************************************)
EXTENDS QueryClient, DialogState

Mutation(op, list, lists) == [op |-> op, list |-> list, lists |-> lists, rewrites |-> FALSE]
Rewriting(m) == [m EXCEPT !.rewrites = TRUE]

Free == {s \in tour.slots : net[s] = Null}
Lowest(S) == CHOOSE s \in S : \A t \in S : s <= t

(* The axios instance reads the cookie when the request is made.             *)
NewRequest(m, id, was, at, sure) ==
    [op |-> m.op, list |-> m.list, lists |-> m.lists, rewrites |-> m.rewrites,
     id |-> id, was |-> was, at |-> at, sure |-> sure, with |-> token,
     phase |-> "sent", waiting |-> TRUE, here |-> TRUE, form |-> "open"]

Post(m, id, was, at, sure) ==
    /\ Free # {}
    /\ net' = [net EXCEPT ![Lowest(Free)] = NewRequest(m, id, was, at, sure)]
    /\ UNCHANGED <<serverVars, queryVars, authVars, path, open, row, fades, typed, retyped, tour>>

Send(m, id, was, at, sure) == Post(m, id, was, at, sure) /\ UNCHANGED hasty

(* The switch of a row: disabled while a request of its cell is on its way.   *)
Switch(m, r) ==
    /\ NoDialog
    /\ r \in Listed(Shown(m.list))
    /\ LET at == Position(Shown(m.list), r) IN
         /\ ~\E s \in Slot : InFlight(s, "status") /\ net[s].list = m.list /\ net[s].here /\ net[s].at = at
         /\ Send(m, r, Shown(m.list)[r], at, TRUE)

(* Save changes, and the delete button once the name is typed.               *)
Save(m, d) ==
    /\ OnScreen(d) /\ ~Pending(d)
    /\ IF d = "edit" THEN Send(m, row.id, row.was, 0, TRUE) ELSE Send(m, 0, "on", 0, TRUE)

handleDelete(m) ==
    /\ OnScreen("delete") /\ typed = row.id /\ ~Pending("delete")
    /\ Send(m, row.id, row.was, 0, retyped)

(* Sync Selected: not disabled while an earlier one is on its way, and each   *)
(* closes whatever dialog is open when it is done.                           *)
SyncSelected(m) ==
    /\ OnScreen("sync") /\ Post(m, 0, "on", 0, TRUE)
    /\ hasty' = (hasty \/ \E s \in Slot : InFlight(s, "sync") /\ net[s].here)

(* What the server does with a list when it carries a request out.           *)
Carried(rq, rows) ==
    CASE rq.op = "status" -> {[rows EXCEPT ![rq.id] = IF @ = "on" THEN "off" ELSE "on"]}
      [] rq.op = "update" -> {IF rq.rewrites THEN [rows EXCEPT ![rq.id] = rq.was] ELSE rows}
      [] rq.op = "delete" -> {[rows EXCEPT ![rq.id] = "none"]}
      [] rq.op = "create" -> {[rows EXCEPT ![r] = "on"] : r \in Id \ Listed(rows)}
      [] rq.op = "sync" -> {rows} \cup {[rows EXCEPT ![r] = "on"] : r \in Id \ Listed(rows)}
      [] OTHER -> {rows}

Possible(rq) == rq.op \in {"status", "update", "delete"} => table[rq.list][rq.id] # "none"

Changes ==
    version["device_data"] + version["peers_list"] + version["interfaces_list"]
      + version["ip_pools_list"] + version["servers_list"]

Answered(s, phase) == IF net[s].waiting THEN [net EXCEPT ![s].phase = phase] ELSE [net EXCEPT ![s] = Null]

ServeChange(s) ==
    /\ net[s] # Null /\ net[s].phase = "sent" /\ net[s].op \notin {"login", "profile"}
    /\ net[s].with \in live
    /\ Possible(net[s]) /\ Changes < tour.changes
    /\ \E rows \in Carried(net[s], table[net[s].list]) :
         table' = [table EXCEPT ![net[s].list] = rows]
    /\ version' = [version EXCEPT ![net[s].list] = @ + 1]
    /\ net' = Answered(s, "ok")
    /\ UNCHANGED <<live, issued, queryVars, authVars, path, dialogVars, tour>>

(* 404 for a login with a wrong name or password, 401 without a live token.    *)
RefusalOf_401(rq) == IF rq.op = "login" \/ rq.with \notin live THEN "denied" ELSE "failed"
RefusalOf(rq) == IF rq.op = "login" \/ rq.with \in live THEN "failed" ELSE "denied"

ServeRefusal(s) ==
    /\ net[s] # Null /\ net[s].phase = "sent"
    /\ net' = Answered(s, RefusalOf(net[s]))
    /\ UNCHANGED <<serverVars, queryVars, authVars, path, dialogVars, tour>>

(* Somebody else changes a list: a job, the router, another administrator.     *)
OthersChange(list) ==
    /\ Changes < tour.changes
    /\ \E r \in Id, status \in Status :
         /\ table[list][r] # status
         /\ table' = [table EXCEPT ![list][r] = status]
    /\ version' = [version EXCEPT ![list] = @ + 1]
    /\ UNCHANGED <<live, issued, queryVars, net, authVars, path, dialogVars, tour>>

(* A request is done with.  The forms of interfaces, pools and servers set      *)
(* their dialog's pending state in a finally clause: the one of a form that was *)
(* closed meanwhile enables the button of the form now open in that dialog.     *)
SameDialog(s, t) ==
    /\ net[t] # Null /\ net[t].op = net[s].op /\ net[s].op \in {"create", "update"}
    /\ net[s].list # "peers_list" /\ net[s].form # "gone" /\ net[t].form # "gone"

Settled(s) ==
    [t \in Slot |-> IF t = s THEN Null
                    ELSE IF SameDialog(s, t) THEN [net[t] EXCEPT !.form = "closed"] ELSE net[t]]

GiveUp_Never(s) == FALSE /\ UNCHANGED vars

(* Thirty seconds without an answer: to the handler an error like any other.   *)
GiveUp(s) ==
    /\ net[s] # Null /\ net[s].phase = "sent" /\ net[s].waiting
    /\ net' = [Settled(s) EXCEPT ![s] = [net[s] EXCEPT !.waiting = FALSE, !.here = FALSE, !.form = "gone"]]
    /\ UNCHANGED <<serverVars, queryVars, authVars, path, dialogVars, tour>>

(* An error: a message, and the button works again.  The dialog stays open.    *)
Failed(s) ==
    /\ net[s] # Null /\ (net[s].phase = "failed" \/ (net[s].phase = "denied" /\ net[s].op = "sync"))
    /\ net' = Settled(s)
    /\ UNCHANGED <<serverVars, queryVars, authVars, path, dialogVars, tour>>

(* onSuccess invalidates; then the handler closes its dialog.                  *)
Succeeded(s) ==
    /\ net[s] # Null /\ net[s].phase = "ok" /\ net[s].op \notin {"login", "profile", "sync"}
    /\ invalid' = Invalidated(net[s].lists)
    /\ fetch' = MarkedReads(net[s].lists)
    /\ due' = DueAfter(net[s].lists)
    /\ net' = Settled(s)
    /\ IF net[s].here /\ net[s].op \in {"update", "delete"}
       THEN handleClose(IF net[s].op = "update" THEN "edit" ELSE "delete")
       ELSE /\ open' = IF net[s].here /\ net[s].op = "create" THEN setOpen("add") ELSE open
            /\ UNCHANGED <<row, fades>>
    /\ UNCHANGED <<typed, retyped, hasty, serverVars, cache, authVars, path, tour>>

(* A synchronisation waits for the list to be read again before it closes.     *)
Synced(s) ==
    /\ net[s] # Null /\ net[s].phase = "ok" /\ net[s].op = "sync"
    /\ invalid' = Invalidated(net[s].lists)
    /\ fetch' = MarkedReads(net[s].lists)
    /\ due' = DueAfter(net[s].lists)
    /\ net' = [net EXCEPT ![s].phase = "reading"]
    /\ UNCHANGED <<serverVars, cache, authVars, path, dialogVars, tour>>

SyncClosed(s) ==
    /\ net[s] # Null /\ net[s].phase = "reading"
    /\ \A list \in net[s].lists \cap Mounted(path) : fetch[list] = Null
    /\ net' = [net EXCEPT ![s] = Null]
    /\ open' = IF net[s].here THEN setOpen(Null) ELSE open
    /\ UNCHANGED <<row, fades, typed, retyped, hasty, serverVars, queryVars, authVars, path, tour>>

=============================================================================
