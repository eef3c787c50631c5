------------------------------- MODULE ShareDialog --------------------------
(***************************************************************************)
(* The dialog that shares a peer (peers-share-dialog.tsx), with the        *)
(* service's TogglePeerShareStatus and UpdatePeerShareExpireTime: the      *)
(* button says Start or Stop, the request only says toggle.                *)
(***************************************************************************)
EXTENDS ScreenBase

CONSTANTS ShareDay, ShareSlot, MaxToggles

Sent == [phase |-> "sent"]
Failed == [phase |-> "failed"]
Share == [shared : BOOLEAN, expire : ShareDay \cup {Null}]

ShareRequest == [kind : {"status", "expire"}, start : BOOLEAN, day : ShareDay \cup {Null},
                 answer : {"due", "ok", "lost", "failed"}, here : BOOLEAN]

ASSUME ShareDialogAssumption == Null \notin Share /\ Null \notin ShareRequest /\ Null \notin {Sent, Failed}

VARIABLES
    shServer,    \* server: [shared, expire]
    shToggles,   \* bound on what happens to the server
    shOpen,      \* the dialog is on the screen
    shInvalid,   \* the answer last had is known to be out of date
    shData,      \* the answer last had, or Null
    shRead,      \* the read on its way: Null, Sent, Failed, or the answer
    shAsked,     \* [ShareSlot -> a request on its way, or Null]
    shTrusted    \* history: nobody else shared it, no answer was lost, no dialog was left waiting
shVars == <<shServer, shToggles, shOpen, shInvalid, shData, shRead, shAsked, shTrusted>>

SHInit ==
    /\ shServer = [shared |-> FALSE, expire |-> Null] /\ shToggles = 0
    /\ shOpen = FALSE /\ shInvalid = FALSE /\ shData = Null /\ shRead = Null
    /\ shAsked = [s \in ShareSlot |-> Null] /\ shTrusted = TRUE

Waiting(s) == shAsked[s] # Null /\ shAsked[s].here

(* Opened: the answer kept is shown at once; it is read when missing or stale.  *)
ShareOpened ==
    /\ ~shOpen /\ shOpen' = TRUE
    /\ \E stale \in BOOLEAN : shRead' = IF shRead = Null /\ (shData = Null \/ shInvalid \/ stale) THEN Sent ELSE shRead
    /\ UNCHANGED <<shServer, shToggles, shInvalid, shData, shAsked, shTrusted>>

(* Closed, and half a second later unmounted: what it waits for is forgotten,    *)
(* unless it is opened again before that.                                     *)
ShareClosed ==
    /\ shOpen /\ shOpen' = FALSE
    /\ \E kept \in BOOLEAN :
         shAsked' = [s \in ShareSlot |->
            IF shAsked[s] = Null THEN Null ELSE [shAsked[s] EXCEPT !.here = @ /\ kept]]
    /\ shTrusted' = (shTrusted /\ \A s \in ShareSlot : shAsked[s] = Null)
    /\ UNCHANGED <<shServer, shToggles, shInvalid, shData, shRead>>

ServeShareRead ==
    /\ shRead = Sent
    /\ \/ shRead' = [shServer EXCEPT !.expire = IF shServer.shared THEN @ ELSE Null]
       \/ shRead' = Failed
    /\ UNCHANGED <<shServer, shToggles, shOpen, shInvalid, shData, shAsked, shTrusted>>

(* A read that fails leaves the answer there was on the screen, or none: then   *)
(* the button says Start.                                                    *)
ShareReadDone ==
    /\ shRead \notin {Null, Sent}
    /\ IF shRead = Failed THEN shTrusted' = FALSE /\ UNCHANGED <<shData, shInvalid>>
       ELSE shData' = shRead /\ shInvalid' = FALSE /\ UNCHANGED shTrusted
    /\ shRead' = Null
    /\ UNCHANGED <<shServer, shToggles, shOpen, shAsked>>

isShared == shData # Null /\ shData.shared

Ask(kind, day) ==
    /\ \E s \in ShareSlot : shAsked[s] = Null
    /\ LET s == CHOOSE s \in ShareSlot : shAsked[s] = Null IN
         shAsked' = [shAsked EXCEPT ![s] =
            [kind |-> kind, start |-> ~isShared, day |-> day, answer |-> "due", here |-> TRUE]]
    /\ UNCHANGED <<shServer, shToggles, shOpen, shInvalid, shData, shRead, shTrusted>>

(* While the share is read the dialog shows a skeleton.  The buttons wait for   *)
(* the requests of the dialog; the calendar does not.                         *)
Ready_Always == shOpen /\ shRead = Null
Ready == shOpen /\ shRead = Null /\ \A s \in ShareSlot : ~Waiting(s)

handleToggleStatus == Ready /\ Ask("status", Null)

handleExpireDateChange ==
    /\ shOpen /\ shRead = Null /\ isShared
    /\ \E day \in ShareDay \cup {Null} : Ask("expire", day)

TogglePeerShareStatus(s) ==
    /\ shAsked[s].kind = "status"
    /\ shServer' = [shServer EXCEPT !.shared = ~@]

UpdatePeerShareExpireTime(s) ==
    /\ shAsked[s].kind = "expire" /\ shServer.shared
    /\ shServer' = [shServer EXCEPT !.expire = shAsked[s].day]

ServeShare(s) ==
    /\ shAsked[s] # Null /\ shAsked[s].answer = "due" /\ shToggles < MaxToggles
    /\ \/ /\ TogglePeerShareStatus(s) \/ UpdatePeerShareExpireTime(s)
          /\ \E lost \in BOOLEAN : shAsked' = [shAsked EXCEPT ![s].answer = IF lost THEN "lost" ELSE "ok"]
       \/ shAsked' = [shAsked EXCEPT ![s].answer = "failed"] /\ UNCHANGED shServer
    /\ shToggles' = shToggles + 1
    /\ UNCHANGED <<shOpen, shInvalid, shData, shRead, shTrusted>>

(* Success invalidates every share: a read on its way is begun again once there *)
(* is an answer to show.  An error changes nothing, even when the request was    *)
(* carried out.                                                               *)
ShareAnswered(s) ==
    /\ shAsked[s] # Null /\ shAsked[s].answer # "due"
    /\ shAsked' = [shAsked EXCEPT ![s] = Null]
    /\ shRead' = IF shAsked[s].answer = "ok" /\ shOpen /\ (shRead = Null \/ shData # Null) THEN Sent ELSE shRead
    /\ shInvalid' = (shInvalid \/ shAsked[s].answer = "ok")
    /\ shTrusted' = (shTrusted /\ shAsked[s].answer # "lost")
    /\ UNCHANGED <<shServer, shToggles, shOpen, shData>>

OthersShare ==
    /\ shToggles < MaxToggles
    /\ shServer' = [shServer EXCEPT !.shared = ~@]
    /\ shToggles' = shToggles + 1 /\ shTrusted' = FALSE
    /\ UNCHANGED <<shOpen, shInvalid, shData, shRead, shAsked>>

SHNext ==
    \/ ShareOpened \/ ShareClosed \/ ServeShareRead \/ ShareReadDone
    \/ handleToggleStatus \/ handleExpireDateChange
    \/ \E s \in ShareSlot : ServeShare(s) \/ ShareAnswered(s)
    \/ OthersShare

(* A click on Stop Sharing stops it and a click on Start starts it, although     *)
(* both only toggle: as long as nobody else does, no answer is lost and no read  *)
(* failed, and nobody leaves the dialog before it is done (isMutating).          *)
ToggleDoesWhatItSaid ==
    [][\A s \in ShareSlot :
          ServeShare(s) /\ shServer'.shared # shServer.shared /\ shTrusted
             => shServer'.shared = shAsked[s].start]_shVars

=============================================================================
