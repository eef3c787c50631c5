---------------------------- MODULE QueryClient -----------------------------
(***************************************************************************)
(* The cache of the server's lists: the QueryClient of main.tsx with the   *)
(* library behaviour the pages rely on.  A list is read when a page that   *)
(* shows it mounts and the answer is missing, invalid or older than ten    *)
(* seconds; a mutation that succeeded invalidates lists, which restarts    *)
(* the read of a list that is mounted and has been loaded.  A first read,  *)
(* and the read of a list whose page was left, goes on, and its answer     *)
(* counts as current.  A read is never retried.                            *)
(***************************************************************************)
EXTENDS ConsoleState

NewRead(with) == [with |-> with, phase |-> "sent", answer |-> Null, overtaken |-> FALSE]

(* The reads after a page has mounted: stale is which of its answers are    *)
(* older than staleTime.  A read already on its way is joined.              *)
ReadsOnMount(reads, bad, page, stale, with) ==
    [list \in List |->
        IF list \in Mounted(page) /\ reads[list] = Null
           /\ (cache[list] = Null \/ bad[list] \/ list \in stale)
        THEN NewRead(with) ELSE reads[list]]

Restarted(list, page) == list \in Mounted(page) /\ (cache[list] # Null \/ fetch[list] = Null)

(* invalidateQueries: the lists are marked, those on the screen read again.  *)
Invalidated(lists) == [list \in List |-> invalid[list] \/ list \in lists]

(* A plausible bug: a read on its way is joined, whatever it will show.       *)
ReadsAfter_Join(lists) ==
    [list \in List |->
        IF list \in lists /\ list \in Mounted(path) /\ fetch[list] = Null
        THEN NewRead(token) ELSE fetch[list]]

ReadsAfter(lists) ==
    [list \in List |-> IF list \in lists /\ Restarted(list, path) THEN NewRead(token) ELSE fetch[list]]

(* History: the reads a change of our own overtakes, since they are not of    *)
(* a list on the screen that has been loaded, and the version that shows it.   *)
Overtaken(lists) ==
    {list \in lists : fetch[list] # Null /\ (list \notin Mounted(path) \/ cache[list] = Null)}

MarkedReads(lists) ==
    [list \in List |-> IF list \in Overtaken(lists) THEN [ReadsAfter(lists)[list] EXCEPT !.overtaken = TRUE]
                       ELSE ReadsAfter(lists)[list]]

DueAfter(lists) == [list \in List |-> IF list \in lists THEN version[list] ELSE due[list]]

(* The server answers a read: with the list, an error, or 401.               *)
ServeRead(list) ==
    /\ fetch[list] # Null /\ fetch[list].phase = "sent"
    /\ \E phase \in {"ok", "failed", "denied"} :
         /\ phase = "denied" <=> fetch[list].with \notin live
         /\ fetch' = [fetch EXCEPT ![list].phase = phase,
                        ![list].answer = IF phase = "ok"
                            THEN [rows |-> table[list], asof |-> version[list]] ELSE Null]
    /\ UNCHANGED <<serverVars, cache, invalid, due, net, authVars, path, dialogVars, tour>>

(* The answer arrives.  A table that got shorter unmounts its last cells:     *)
(* the requests they were waiting for answer to nobody.                      *)
CellsLeft(list, rows) ==
    [s \in Slot |->
        IF net[s] # Null /\ net[s].op = "status" /\ net[s].list = list
           /\ net[s].at > Cardinality(Listed(rows))
        THEN [net[s] EXCEPT !.here = FALSE] ELSE net[s]]

Landed(read) == [rows |-> read.answer.rows, asof |-> read.answer.asof, overtaken |-> read.overtaken]

ReadDone(list) ==
    /\ fetch[list] # Null /\ fetch[list].phase = "ok"
    /\ cache' = [cache EXCEPT ![list] = Landed(fetch[list])]
    /\ invalid' = [invalid EXCEPT ![list] = FALSE]
    /\ fetch' = [fetch EXCEPT ![list] = Null]
    /\ net' = CellsLeft(list, fetch[list].answer.rows)
    /\ UNCHANGED <<serverVars, due, authVars, path, dialogVars, tour>>

(* It failed, or thirty seconds have passed (axios-instance.ts): the answer    *)
(* shown stays, and nobody is told but for 401 and 403.                       *)
ReadFailed(list) ==
    /\ fetch[list] # Null /\ fetch[list].phase \in {"sent", "failed"}
    /\ fetch' = [fetch EXCEPT ![list] = Null]
    /\ UNCHANGED <<serverVars, cache, invalid, due, net, authVars, path, dialogVars, tour>>

(* The window gets the focus back: mounted lists that are stale are read again. *)
WindowFocus ==
    /\ \E stale \in SUBSET Mounted(path) :
         fetch' = ReadsOnMount(fetch, invalid, path, stale, token)
    /\ fetch' # fetch
    /\ UNCHANGED <<serverVars, cache, invalid, due, net, authVars, path, dialogVars, tour>>

(* The Refresh button of a page, disabled while a read again is on its way:    *)
(* the first read of a list does not disable it, and is then joined.          *)
Refresh(list) ==
    /\ list \in Mounted(path) /\ NoDialog
    /\ fetch[list] = Null
    /\ fetch' = [fetch EXCEPT ![list] = NewRead(token)]
    /\ UNCHANGED <<serverVars, cache, invalid, due, net, authVars, path, dialogVars, tour>>

=============================================================================
