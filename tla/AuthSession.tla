----------------------------- MODULE AuthSession ----------------------------
(***************************************************************************)
(* The sign-in: the access_token cookie, who sets it and who drops it, and *)
(* the pages an administrator walks through.  No page checks that there is *)
(* a token: a page opened without one sends its reads and is sent away by  *)
(* their 401.                                                              *)
(***************************************************************************)
EXTENDS ConsoleRequests

(* A plausible bug: what a handler does after its await reaches the new page.  *)
Abandoned_Not(requests) == requests

(* A page is left for another: the requests of its dialogs and cells go on     *)
(* for nobody, its dialogs are gone, and the new page's lists are read when    *)
(* they are missing, invalid or stale.  Going where one is changes nothing.    *)
Abandoned(requests) ==
    [s \in Slot |-> IF requests[s] = Null THEN Null
                    ELSE [requests[s] EXCEPT !.here = FALSE, !.form = "gone"]]

GoTo(page, reads, bad, with, requests) ==
    /\ path' = page
    /\ IF page = path
       THEN fetch' = reads /\ net' = requests /\ UNCHANGED dialogVars
       ELSE /\ \E stale \in SUBSET Mounted(page) : fetch' = ReadsOnMount(reads, bad, page, stale, with)
            /\ net' = Abandoned(requests)
            /\ ClosedWithPage

(* By a link, or by the browser's own buttons although a dialog is open.       *)
Navigate(page) ==
    /\ page \in tour.pages \ {path}
    /\ GoTo(page, fetch, invalid, token, net)
    /\ UNCHANGED <<serverVars, cache, invalid, due, authVars, tour>>

(* The sign-in form; its button is disabled while its request is on its way.   *)
UserAuthForm ==
    /\ path = "/sign-in"
    /\ ~\E s \in Slot : InFlight(s, "login") /\ net[s].form = "open"
    /\ Send(Mutation("login", "device_data", {"device_data"}), 0, "on", 0, TRUE)

(* A plausible bug: the answer does not carry the token.                       *)
ServeLogin_NoToken(s) ==
    /\ net[s] # Null /\ net[s].phase = "sent" /\ net[s].op = "login"
    /\ \E t \in Token :
         /\ \A u \in Token : u < t <=> u \in issued
         /\ live' = live \cup {t} /\ issued' = issued \cup {t}
         /\ net' = Answered(s, "ok")
    /\ UNCHANGED <<table, version, queryVars, authVars, path, dialogVars, tour>>

(* The server accepts it and issues a token.                                  *)
ServeLogin(s) ==
    /\ net[s] # Null /\ net[s].phase = "sent" /\ net[s].op = "login"
    /\ \E t \in Token :
         /\ \A u \in Token : u < t <=> u \in issued
         /\ live' = live \cup {t} /\ issued' = issued \cup {t}
         /\ net' = IF net[s].waiting
                   THEN [net EXCEPT ![s].phase = "ok", ![s].id = t] ELSE [net EXCEPT ![s] = Null]
    /\ UNCHANGED <<table, version, queryVars, authVars, path, dialogVars, tour>>

(* onSuccess invalidates the dashboard's data, still with the old cookie; then *)
(* the cookies are set and the dashboard opens, from whichever page is shown.  *)
SignedIn(s) ==
    /\ net[s] # Null /\ net[s].phase = "ok" /\ net[s].op = "login"
    /\ invalid' = Invalidated(net[s].lists)
    /\ due' = DueAfter(net[s].lists)
    /\ token' = net[s].id /\ user' = net[s].id
    /\ GoTo("/", MarkedReads(net[s].lists), invalid', token', Settled(s))
    /\ UNCHANGED <<serverVars, cache, tour>>

(* resetAccessToken: the cookie goes, the name stays; the cache stays too.     *)
resetAccessToken(requests) ==
    /\ token' = Null /\ UNCHANGED user
    /\ GoTo("/sign-in", fetch, invalid, Null, requests)
    /\ UNCHANGED <<serverVars, cache, invalid, due, tour>>

LogOut == tour.session /\ path # "/sign-in" /\ NoDialog /\ resetAccessToken(net)

(* The account form: its button is never disabled.  When its request succeeds  *)
(* the session ends, wherever the administrator is by then.                   *)
AccountForm ==
    /\ path = "/settings/account"
    /\ Send(Mutation("profile", "device_data", {}), 0, "on", 0, TRUE)

ServeProfile(s) ==
    /\ net[s] # Null /\ net[s].phase = "sent" /\ net[s].op = "profile" /\ net[s].with \in live
    /\ net' = Answered(s, "ok")
    /\ UNCHANGED <<serverVars, queryVars, authVars, path, dialogVars, tour>>

ProfileUpdated(s) ==
    /\ net[s] # Null /\ net[s].phase = "ok" /\ net[s].op = "profile"
    /\ resetAccessToken(Settled(s))

(* handleGlobalHttpError: 401 ends whatever session there is by now.           *)
reset(reads, requests) ==
    /\ token' = Null /\ user' = Null
    /\ GoTo("/sign-in", reads, invalid, Null, requests)
    /\ UNCHANGED <<serverVars, cache, invalid, due, tour>>

ReadDenied(list) ==
    /\ fetch[list] # Null /\ fetch[list].phase = "denied"
    /\ reset([fetch EXCEPT ![list] = Null], net)

RequestDenied(s) ==
    /\ net[s] # Null /\ net[s].phase = "denied" /\ net[s].op # "sync"
    /\ reset(fetch, Settled(s))

(* The token's time is up at the server; the cookie does not know.             *)
TokenExpires(t) ==
    /\ tour.session /\ t \in live
    /\ live' = live \ {t}
    /\ UNCHANGED <<table, version, issued, queryVars, net, authVars, path, dialogVars, tour>>

=============================================================================
