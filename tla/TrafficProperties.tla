-------------------------- MODULE TrafficProperties --------------------------
(***************************************************************************)
(* What the traffic, expiry and reset code must do whatever the order in   *)
(* which the jobs, the requests and the router take their steps.           *)
(***************************************************************************)
EXTENDS TrafficCalculator

(* A thread at a peer holds its copy of the row. *)
AtPeer ==
    \A t \in Thread : thr[t].pc \in {"notify", "limit", "persist", "queue", "mark"} =>
        thr[t].id \in Peer /\ thr[t].rows[thr[t].id] # NoRow

(* A row, with what the next reading of ctr will add to its usage, charges *)
(* no more than f - from bytes and an overestimate of s.                   *)
Covered(row, ctr, f, from, s) ==
    \A d \in Dir :
        row.usage[d] + calculateDelta(row.last[d], ctr[d]) <= f[d] - from[d] + s

(* The usage of a row, with what the next reading will add to it, never    *)
(* exceeds what the peer forwarded since its last reset, except by half a  *)
(* counter range for each restart of the counters that calculateDelta can  *)
(* take for a wrap (processPeerTraffic, ResetPeerUsage under the mutex).   *)
NeverOvercharged ==
    \A p \in Peer : db[p] # NoRow =>
        Covered(db[p], router[p].ctr, fwd[p], base[p], slop[p])

(* What makes it inductive: only the holder of the mutex is in a run, so   *)
(* that the rows a run holds are still those of the table, or, once a      *)
(* reset has read the counters, those the table is about to have.          *)
MutexHeld == \A t \in Thread : thr[t].pc # "idle" => mu = t

CopiesCovered ==
    \A t \in Thread, p \in Peer : thr[t].rows[p] # NoRow =>
        /\ thr[t].pc \in {"scan", "notify", "limit", "persist", "fetch"} =>
             Covered(thr[t].rows[p], router[p].ctr, fwd[p], base[p], slop[p])
        /\ thr[t].pc = "save" =>
             Covered(thr[t].rows[p], router[p].ctr, fwd[p], thr[t].at[p], slop[p])

ChargeInv == AtPeer /\ MutexHeld /\ NeverOvercharged /\ CopiesCovered

(* A flag that silences an alert is only set when that alert was sent      *)
(* since the flags were last cleared (notifyThreshold, ResetPeerUsage).    *)
FlagMeansAlerted ==
    \A p \in Peer : db[p] # NoRow => db[p].notified \subseteq told[p]

(* No alert goes out twice between two resets (notifyThreshold), when      *)
(* neither a crash nor a database error keeps the flag from being stored.  *)
AlertedOnce ==
    \A t \in Thread : thr[t].pc = "notify" =>
        DueAlerts(thr[t].rows[thr[t].id]) \cap told[thr[t].id] = {}

(* A row over its limit is marked disabled by the very write that stored   *)
(* the usage, and the router was told first (applyPeerTrafficLimit before  *)
(* persistPeerTraffic).                                                    *)
OverLimitIsOff ==
    \A p \in Peer : db[p] # NoRow /\ OverLimit(db[p]) =>
        /\ db[p].disabled
        /\ "router" \notin Faults => router[p].wg # "on"

(* The jobs and the resets never enable a peer again, in the table or on   *)
(* the router: ResetPeerUsage saves a whole row it read earlier, and would *)
(* undo a disable stored in between.                                       *)
NeverReenables ==
    [][\A p \in Peer :
         /\ db[p] # NoRow /\ db[p].disabled => db'[p] # NoRow /\ db'[p].disabled
         /\ router[p].wg = "off" => router'[p].wg = "off"]_vars

(* total_usage is what the usage columns received since it was zero, when  *)
(* nothing fails and no run is under way (accumulateTotalTraffic).         *)
TotalExact == mu = NoThread => total = charged

-----------------------------------------------------------------------------
(* Under a window on the traffic between two stored readings, and without  *)
(* restarts, metering is the ledger.                                       *)

Ledger == INSTANCE UsageLedger WITH
    arrived <- fwd,
    counted <- [p \in Peer |-> IF db[p] = NoRow THEN Zero ELSE db[p].usage],
    pending <- [p \in Peer |-> [d \in Dir |-> fwd[p][d] - seen[p][d]]],
    dropped <- base

(* Every byte is counted exactly once, through wraps of the counters,      *)
(* overlapping runs, skipped peers, failed writes and crashes.             *)
MeteringIsALedger == Ledger!Spec

-----------------------------------------------------------------------------
(* Liveness.  The job scheduler starts every job again and again, and Go's *)
(* mutex does not starve a waiter; a run that holds the mutex goes on (a   *)
(* router call returns within five seconds, with an error at the latest).  *)
(* The router answers in the end: of infinitely many reads or patches of a *)
(* peer some succeed.  Nothing is assumed of the requests, of the traffic  *)
(* or of the calendar.                                                     *)

Begin(t) ==
    \/ t \in TrafficJob /\ TrafficStart(t)
    \/ t \in ExpireJob /\ ExpireStart(t)

Proceed(t) ==
    /\ thr[t].pc # "idle"
    /\ \/ t \in TrafficJob /\ Traffic(t)
       \/ t \in ExpireJob /\ Expire(t)
       \/ t \in ResetCall /\ Reset(t)

RouterAnswers(t, p) ==
    /\ SF_vars(TrafficFetch(t, p))
    /\ SF_vars(TrafficLimit(t) /\ thr[t].id = p /\ OverLimit(thr[t].rows[p])
                               /\ router'[p].wg # "on")
    /\ SF_vars(ExpirePeer(t, p) /\ thr'[t].id = p)

Fairness ==
    /\ \A t \in Thread : SF_vars(Begin(t)) /\ WF_vars(Proceed(t))
    /\ \A t \in Thread, p \in Peer : RouterAnswers(t, p)

FairSpec == Spec /\ Fairness

(* A peer over its limit that is still on at the router is switched off in *)
(* the end, however often the router fails the call: the limit is applied  *)
(* again at every run (applyPeerTrafficLimit).  A reset may come first.    *)
OverLimitCut ==
    \A p \in Peer :
        (db[p] # NoRow /\ OverLimit(db[p]) /\ router[p].wg = "on")
            ~> (router[p].wg # "on" \/ db[p] = NoRow \/ ~OverLimit(db[p]))

(* A peer past its expiry day is switched off in the end, even when the    *)
(* router's own scheduler is off or missed its day (ExpireOverduePeers).   *)
(* Its expiry may be extended first.                                       *)
ExpiredCut ==
    \A p \in Peer :
        (db[p] # NoRow /\ ~db[p].disabled /\ IsPeerExpired(db[p]))
            ~> (router[p].wg # "on" \/ db[p] = NoRow \/ ~IsPeerExpired(db[p]))
=============================================================================
