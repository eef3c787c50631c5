------------------------------- MODULE Console ------------------------------
(***************************************************************************)
(* The web interface: its pages over one cache, one session and one set of *)
(* requests.  A behaviour begins where an administrator opens it, signed   *)
(* in or not, and walks through the pages of one tour.                     *)
(***************************************************************************)
EXTENDS Pages

(* The dashboard: resetting the totals invalidates what it shows.              *)
useResetTotalTrafficMutation == Mutation("reset", "device_data", {"device_data"})
Dashboard ==
    /\ path = "/"
    /\ ~\E s \in Slot : InFlight(s, "reset") /\ net[s].here
    /\ Send(useResetTotalTrafficMutation, 0, "on", 0, TRUE)

(* The first row is on, the others are off; the dashboard has one record.      *)
Initially(list) ==
    [r \in Id |-> IF r > (IF list = "device_data" THEN 1 ELSE tour.rows) THEN "none"
                  ELSE IF r = 1 THEN "on" ELSE "off"]

ConsoleInit ==
    /\ tour \in Tours /\ path \in tour.pages
    /\ table = [list \in List |-> Initially(list)]
    /\ version = [list \in List |-> 0]
    /\ \E signed \in {TRUE, ~tour.session} :
         /\ issued = IF signed THEN {1} ELSE {}
         /\ token = IF signed THEN 1 ELSE Null
         /\ user = token
    /\ live = issued
    /\ cache = [list \in List |-> Null]
    /\ invalid = [list \in List |-> FALSE]
    /\ fetch = [list \in List |-> IF list \in Mounted(path) THEN NewRead(token) ELSE Null]
    /\ due = [list \in List |-> 0]
    /\ net = [s \in Slot |-> Null]
    /\ open = Null /\ row = Null /\ fades = 0 /\ typed = Null
    /\ retyped = FALSE /\ hasty = FALSE

Visited == UNION {Mounted(page) : page \in tour.pages}

Administrator ==
    \/ Peers \/ Interfaces \/ Pools \/ Servers \/ Dashboard
    \/ UserAuthForm \/ AccountForm \/ LogOut
    \/ \E page \in Page : Navigate(page)
    \/ WindowFocus

Server ==
    \/ \E list \in List : ServeRead(list)
    \/ \E s \in Slot : ServeChange(s) \/ ServeRefusal(s) \/ ServeLogin(s) \/ ServeProfile(s)
    \/ \E list \in Visited : OthersChange(list)
    \/ \E t \in Token : TokenExpires(t)

Arrive(s) ==
    \/ Succeeded(s) \/ Synced(s) \/ SyncClosed(s) \/ Failed(s)
    \/ SignedIn(s) \/ ProfileUpdated(s) \/ RequestDenied(s)

Browser ==
    \/ \E list \in List : ReadDone(list) \/ ReadFailed(list) \/ ReadDenied(list)
    \/ \E s \in Slot : Arrive(s) \/ GiveUp(s)
    \/ FadeOut

ConsoleNext == Administrator \/ Server \/ Browser
ConsoleSpec == ConsoleInit /\ [][ConsoleNext]_vars

(* The browser delivers an answer it has, runs its timers, and gives a request *)
(* up after thirty seconds; neither the server nor an administrator owes a step.*)
ConsoleFairness ==
    /\ \A list \in List : WF_vars(ReadDone(list) \/ ReadFailed(list) \/ ReadDenied(list))
    /\ \A s \in Slot : WF_vars(Arrive(s)) /\ WF_vars(GiveUp(s))
    /\ WF_vars(FadeOut)

-----------------------------------------------------------------------------
(* What the web interface must do whatever the order in which clicks,      *)
(* answers and timers come                                                 *)

(* The types of the variables. *)
Request == [op : {"status", "create", "update", "delete", "sync", "reset", "login", "profile"},
            list : List, lists : SUBSET List, rewrites : BOOLEAN,
            id : 0 .. MaxId \cup Token, was : {"on", "off"}, at : 0 .. MaxId, sure : BOOLEAN,
            with : Token \cup {Null},
            phase : {"sent", "ok", "failed", "denied", "reading"},
            waiting : BOOLEAN, here : BOOLEAN, form : {"open", "closed", "gone"}]

ConsoleTypeOK ==
    /\ table \in [List -> [Id -> Status]] /\ version \in [List -> 0 .. MaxChanges]
    /\ live \subseteq issued /\ issued \subseteq Token
    /\ cache \in [List -> Kept \cup {Null}]
    /\ invalid \in [List -> BOOLEAN]
    /\ fetch \in [List -> Read \cup {Null}]
    /\ due \in [List -> 0 .. MaxChanges]
    /\ net \in [Slot -> Request \cup {Null}]
    /\ token \in issued \cup {Null} /\ user \in issued \cup {Null}
    /\ path \in tour.pages \cup {"/", "/sign-in"}
    /\ open \in Dialog \cup {Null}
    /\ row \in [id : Id, was : {"on", "off"}] \cup {Null}
    /\ fades \in 0 .. MaxFades
    /\ typed \in Id \cup {Null}
    /\ retyped \in BOOLEAN /\ hasty \in BOOLEAN

(* A list the interface believes to be current shows every change its own     *)
(* administrator has made to it: a read of a list on the screen that was on   *)
(* its way when the change was carried out never lands after it               *)
(* (invalidateQueries in the onSuccess of the hooks).  Excused is the answer   *)
(* of the one read that nothing restarts, of a list never loaded before or of *)
(* a page that was left: until the list is read again, it may lack the change.*)
OwnWritesShown ==
    \A list \in List :
        cache[list] # Null /\ ~invalid[list] /\ ~cache[list].overtaken => cache[list].asof >= due[list]

(* A dialog that the context says is open is on the screen: the click that     *)
(* opened it was not lost to a late timer or a late answer (handleClose in     *)
(* *-dialogs.tsx), as long as nobody opens a dialog while another fades,       *)
(* closes one whose request is on its way, or synchronises twice.             *)
OpenIsShown == ~hasty => NoDialog <=> open = Null

(* A dialog closes because its administrator dismisses it, because its own     *)
(* request was carried out, or because its page is left: never by the answer   *)
(* to a request made from another page or another dialog.                     *)
OwnRequestDone(d) ==
    \E s \in Slot :
        /\ net[s] # Null /\ net'[s] = Null
        /\ net[s].op = OpOf(d) /\ net[s].phase \in {"ok", "reading"}
        /\ net[s].list \in Mounted(path)
        /\ d \in {"edit", "delete"} => net[s].id = row.id

ClosesForAReason ==
    [][\A d \in Dialog :
          OnScreen(d) /\ ~OnScreen(d)' => hasty' \/ path' # path \/ Dismiss(d) \/ OwnRequestDone(d)]_vars

(* Whatever is deleted was named: the name of the row was typed into the       *)
(* dialog since it was opened on that row (delete-entity-dialog.tsx).          *)
DeleteIsConfirmed ==
    \A s \in Slot : net[s] # Null /\ net[s].op = "delete" => net[s].sure \/ hasty

(* A session whose token the server still accepts ends only because the        *)
(* administrator logs out, because a new user name or password was saved, or   *)
(* because of a 401 to a request sent without this token (handleGlobalHttpError *)
(* resets whatever token there is by then).                                   *)
DeniedAnother ==
    \/ \E s \in Slot : net[s] # Null /\ net[s].phase = "denied" /\ net[s].with # token
    \/ \E list \in List : fetch[list] # Null /\ fetch[list].phase = "denied" /\ fetch[list].with # token

SessionEndsForAReason ==
    [][(token \in live /\ token' = Null)
          => (LogOut \/ (\E s \in Slot : ProfileUpdated(s)) \/ DeniedAnother)]_vars

(* A button or a switch that was disabled by a request works again, whatever   *)
(* becomes of the request (the timeout of axios-instance.ts).                  *)
ButtonsComeBack == \A s \in Slot : (net[s] # Null /\ net[s].waiting) ~> (net[s] = Null \/ ~net[s].waiting)

(* The skeleton, and the spinner of Refresh, do not turn for ever.             *)
ReadsEnd == \A list \in List : (fetch[list] # Null) ~> (fetch[list] = Null)

(* Nothing waits for ever for a server that never answers.                     *)
NothingHangs == ButtonsComeBack /\ ReadsEnd
=============================================================================
