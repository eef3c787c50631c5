----------------------------- MODULE PeerSessions ---------------------------
(***************************************************************************)
(* The connection history of a peer: the job that keeps it                 *)
(* (jobs/sessions.go), the service that reads it (peer_sessions.go) and    *)
(* the dialog that shows it (peers-sessions-dialog.tsx).  Time is counted  *)
(* in ticks; a session's bytes and end points are left out.                *)
(***************************************************************************)
EXTENDS ScreenBase, Integers

CONSTANTS
    MaxClock,         \* bound: the last moment
    MaxSessions,      \* bound: the sessions kept
    SessionPass,      \* passes of the job that may overlap
    OnlineTimeout,    \* PeerOnlineHandshakeTimeout
    HistoryLimit,     \* peerSessionHistoryLimit
    TickSeconds       \* seconds in a tick

(* What one pass has read (observePeerSession).                               *)
Observation == [has : BOOLEAN, age : Int, online : BOOLEAN, now : Int, opens : SUBSET Int]

ASSUME SessionsAssumption ==
    /\ OnlineTimeout \in Nat /\ HistoryLimit \in Nat \ {0} /\ TickSeconds \in Nat
    /\ Null \notin Int /\ Null \notin SessionPass /\ Null \notin Observation

VARIABLES
    psClock,
    psRouter,    \* the router: [on, handshake, listed]; handshake is a moment or Null
    psRows,      \* the sessions in the database, in the order of their ids: [from, to]
    psPass,      \* what each pass of the job has read, or Null
    psLone,      \* history: the pass no other has overlapped so far, or Null
    psMerged,    \* history: no passes have overlapped since one that did not ended well
    psTrusted,   \* history: no passes ever overlapped, the router never lost the peer, and
                 \* a peer switched on had no handshake
    psOpen,
    psData,      \* the sessions last listed, or Null
    psError      \* isError
jobVars == <<psPass, psLone, psMerged>>
serverVars == <<psRouter, psRows, jobVars, psTrusted>>
dialogVars == <<psOpen, psData, psError>>
psVars == <<psClock, serverVars, dialogVars>>

PSInit ==
    /\ psClock = 0
    /\ psRouter = [on |-> TRUE, handshake |-> Null, listed |-> TRUE]
    /\ psRows = <<>> /\ psTrusted = TRUE
    /\ psPass = [k \in SessionPass |-> Null] /\ psLone = Null /\ psMerged = TRUE
    /\ psOpen = FALSE /\ psData = Null /\ psError = FALSE

(* ------------------------------ the router ------------------------------ *)
Tick ==
    /\ psClock < MaxClock /\ psClock' = psClock + 1
    /\ UNCHANGED <<serverVars, dialogVars>>

Handshake ==
    /\ psRouter.on /\ psRouter' = [psRouter EXCEPT !.handshake = psClock]
    /\ UNCHANGED <<psClock, psRows, jobVars, psTrusted, dialogVars>>

SwitchPeer ==
    /\ psRouter' \in {[psRouter EXCEPT !.on = ~@], [psRouter EXCEPT !.on = ~@, !.handshake = Null],
                      [psRouter EXCEPT !.listed = ~@]}
    /\ psTrusted' = (psTrusted /\ psRouter'.listed /\ (psRouter'.on => psRouter.on \/ psRouter'.handshake = Null))
    /\ UNCHANGED <<psClock, psRows, jobVars, dialogVars>>

(* -------------------------------- the job ------------------------------- *)
observePeerSession ==
    LET has == psRouter.listed /\ psRouter.handshake # Null
        age == IF has THEN psClock - psRouter.handshake ELSE 0 IN
    [has |-> has, age |-> age, online |-> has /\ psRouter.on /\ age < OnlineTimeout,
     now |-> psClock, opens |-> {i \in DOMAIN psRows : psRows[i].to = Null}]

(* The router and the open sessions are read, then the peer is brought up to   *)
(* date with what was read.  The scheduler starts a pass every thirty seconds   *)
(* and the job takes no mutex: a slow pass is overtaken by the next.            *)
TrackPeerSessions(k) ==
    /\ psPass[k] = Null /\ psPass' = [psPass EXCEPT ![k] = observePeerSession]
    /\ LET alone == \A other \in SessionPass : psPass[other] = Null IN
         /\ psLone' = IF alone THEN k ELSE Null
         /\ psMerged' = (psMerged /\ alone)
         /\ psTrusted' = (psTrusted /\ alone)
    /\ UNCHANGED <<psClock, psRouter, psRows, dialogVars>>

estimateDisconnectAt(obs, connectedAt) ==
    LET at == IF obs.has /\ obs.age > OnlineTimeout THEN obs.now - (obs.age - OnlineTimeout) ELSE obs.now
    IN IF at < connectedAt THEN connectedAt ELSE at

Opens_AnyHandshake(obs) == obs.has /\ obs.opens = {}
Opens(obs) == obs.online /\ obs.opens = {}

(* Of several open sessions the newest goes on, or ends when the peer is off    *)
(* line; the others, which passes that overlapped opened, end now, but for      *)
(* those whose statement fails.                                                *)
Ends(obs, i, newest) ==
    IF i # newest THEN obs.now
    ELSE IF obs.online THEN Null ELSE estimateDisconnectAt(obs, psRows[i].from)

(* A session another pass has ended meanwhile is ended again.                  *)
EndSessions(obs, newest, failed) ==
    [i \in DOMAIN psRows |->
        IF i \in obs.opens \ failed /\ Ends(obs, i, newest) # Null
        THEN [psRows[i] EXCEPT !.to = Ends(obs, i, newest)]
        ELSE psRows[i]]

syncPeerSession(k) ==
    /\ psPass[k] # Null
    /\ LET obs == psPass[k] IN
       \/ /\ Opens(obs) /\ Len(psRows) < MaxSessions
          /\ psRows' = Append(psRows, [from |-> obs.now - obs.age, to |-> Null])
          /\ psMerged' = (psMerged \/ psLone = k)
       \/ /\ obs.opens = {} /\ ~Opens(obs)
          /\ psMerged' = (psMerged \/ psLone = k) /\ UNCHANGED psRows
       \/ \E newest \in obs.opens, failed \in SUBSET obs.opens :
            /\ \A i \in obs.opens : psRows[i].from <= psRows[newest].from
            /\ psRows' = EndSessions(obs, newest, failed)
            /\ psMerged' = (psMerged \/ (psLone = k /\ failed = {}))
    /\ psPass' = [psPass EXCEPT ![k] = Null]
    /\ psLone' = IF psLone = k THEN Null ELSE psLone
    /\ UNCHANGED <<psClock, psRouter, psTrusted, dialogVars>>

(* What was to be read or written is left to the next pass.                    *)
SyncFailed(k) ==
    /\ psPass[k] # Null
    /\ psPass' = [psPass EXCEPT ![k] = Null]
    /\ psLone' = IF psLone = k THEN Null ELSE psLone
    /\ UNCHANGED <<psClock, psRouter, psRows, psMerged, psTrusted, dialogVars>>

(* ------------------------------ the service ----------------------------- *)
Status(session) == IF session.to = Null THEN "ongoing" ELSE "ended"
Ongoing(sessions) == Cardinality({i \in DOMAIN sessions : Status(sessions[i]) = "ongoing"})

(* Order("connected_at DESC").Limit(...)                                         *)
Newest_ById(rows) == rows
Newest(rows) ==
    LET order == StableSort(DOMAIN rows, {p \in {<<i, j>> : i, j \in DOMAIN rows} : rows[p[1]].from > rows[p[2]].from})
    IN [k \in DOMAIN rows |-> rows[order[k]]]
History == SubSeq(Newest(psRows), 1, Min({HistoryLimit, Len(psRows)}))

(* ------------------------------ the dialog ------------------------------ *)
(* Asked when the dialog opens and every ten seconds while it is open; the time *)
(* the answer takes is left out, and the totals, which are a query of their own. *)
GetPeerSessions ==
    /\ psOpen
    /\ psData' = History /\ psError' = FALSE
    /\ UNCHANGED <<psClock, serverVars, psOpen>>

PollFailed ==
    /\ psOpen /\ psError' = TRUE
    /\ UNCHANGED <<psClock, serverVars, psOpen, psData>>

SessionsToggled ==
    /\ psOpen' = ~psOpen
    /\ UNCHANGED <<psClock, serverVars, psData, psError>>

(* The seconds of a session on the browser's clock, which is a second behind at  *)
(* most (setNow), and how they are written.                                    *)
sessionSeconds(session) ==
    LET end == IF session.to = Null THEN psClock ELSE session.to
    IN IF end < session.from THEN 0 ELSE (end - session.from) * TickSeconds

formatDuration(seconds) ==
    [d |-> seconds \div 86400, h |-> (seconds % 86400) \div 3600, m |-> (seconds % 3600) \div 60, s |-> seconds % 60]

(* The rows on the screen (of the tab "All"): a failed poll hides the answer      *)
(* there was.                                                                  *)
ShownSessions == IF ~psOpen \/ psData = Null \/ psError THEN <<>> ELSE psData

JobNext ==
    \/ Tick \/ Handshake \/ SwitchPeer
    \/ \E k \in SessionPass : TrackPeerSessions(k) \/ syncPeerSession(k) \/ SyncFailed(k)

DialogNext == GetPeerSessions \/ PollFailed \/ SessionsToggled

PSNext == JobNext \/ DialogNext

(* An action that takes one pass at a time.                                    *)
OnePass == LET first == CHOOSE k \in SessionPass : TRUE IN
    \A k \in SessionPass \ {first} : psPass'[k] = Null

(* No two sessions of a peer cover the same moment, and only the last may be   *)
(* open: a connection the job noticed late, or whose end it had to estimate,    *)
(* is counted once.  Passes that overlap may open a session each; the next one  *)
(* that is not overlapped, and whose statements succeed, leaves one of them     *)
(* open (sessions.go).                                                         *)
SessionsDoNotOverlap ==
    /\ psTrusted =>
        \A i, j \in DOMAIN psRows : i < j => psRows[i].to # Null /\ psRows[i].to <= psRows[j].from
    /\ psMerged => Ongoing(psRows) <= 1

(* However long the history is, the session that goes on is at the top of what  *)
(* the service returns of it (peerSessionHistoryLimit), or one that began in the *)
(* same second.                                                                *)
OngoingIsListed ==
    [][GetPeerSessions /\ psTrusted /\ Ongoing(psRows) > 0
          => \E i \in DOMAIN psRows : psRows[i].to = Null /\ psData'[1].from = psRows[i].from]_psVars

(* The duration written beside a session is its duration: the parts are in      *)
(* range and add up, at a day and beyond.                                      *)
DurationAddsUp ==
    \A i \in DOMAIN ShownSessions :
        LET seconds == sessionSeconds(ShownSessions[i])
            shown == formatDuration(seconds) IN
        /\ shown.h < 24 /\ shown.m < 60 /\ shown.s < 60
        /\ 86400 * shown.d + 3600 * shown.h + 60 * shown.m + shown.s = seconds
=============================================================================
