-------------------------- MODULE TrafficCalculator --------------------------
(***************************************************************************)
(* The Calculator: the jobs that read the router's counters into the peers *)
(* table and expire peers, and the requests that reset usage.  Each takes  *)
(* the Calculator's mutex for the whole of its run; a thread runs one of   *)
(* them again and again, and the job scheduler starts a job on time even   *)
(* when its previous run has not ended, so a job may have several threads. *)
(***************************************************************************)
EXTENDS PanelState

CONSTANTS
    TrafficJob,   (* threads that run CalculatePeerTraffic                 *)
    ExpireJob,    (* threads that run ExpireOverduePeers                   *)
    ResetCall,    (* threads of reset requests                             *)
    NoThread      (* the mutex is free                                     *)

Thread == TrafficJob \cup ExpireJob \cup ResetCall

ASSUME ThreadAssumption ==
    /\ NoThread \notin Thread
    /\ TrafficJob \cap ExpireJob = {}
    /\ TrafficJob \cap ResetCall = {}
    /\ ExpireJob \cap ResetCall = {}

VARIABLES
    mu,      (* Calculator.mu: the thread that holds it                    *)
    thr,     (* the locals of each thread                                  *)
    total,   (* total_usage of the TotalTrafficUsage row                   *)
    charged  (* history: bytes added to usage columns since total was zero *)

vars == <<stateVars, mu, thr, total, charged>>

(* The locals of a run: rows[p] is the thread's copy of a row it has yet   *)
(* to finish with, id the peer it is at.                                   *)
Local == [ pc   : {"idle", "scan", "notify", "limit", "persist",
                   "expire", "queue", "mark", "fetch", "save"},
           rows : [Peer -> Row \cup {NoRow}],
           id   : Peer \cup {NoPeer},
           sent : SUBSET Thresholds,     \* flags set in updates
           cut  : BOOLEAN,               \* updates["disabled"] is set
           delta : Nat,                  \* history: bytes added to usage
           at   : [Peer -> [Dir -> Nat]] ] \* history: fwd when counters were read

NoRows == [p \in Peer |-> NoRow]
NoReads == [p \in Peer |-> Zero]

Idle == [ pc |-> "idle", rows |-> NoRows, id |-> NoPeer, sent |-> {},
          cut |-> FALSE, delta |-> 0, at |-> NoReads ]

TypeOK ==
    /\ StateTypeOK
    /\ mu \in Thread \cup {NoThread}
    /\ thr \in [Thread -> Local]
    /\ total \in Nat
    /\ charged \in Nat

CalculatorInit ==
    /\ mu = NoThread
    /\ thr = [t \in Thread |-> Idle]
    /\ total = 0
    /\ charged = 0

Init == StateInit(Peer) /\ CalculatorInit

-----------------------------------------------------------------------------
(* The mutex.  Every run starts by taking it and reading the rows it will  *)
(* work on in one query, and ends by releasing it.                         *)

Lock_Unguarded(t) == mu' = t                     \* mutant: no mutual exclusion

Lock(t) == mu = NoThread /\ mu' = t
Unlock(t) == mu' = NoThread

Start(t, pc, rows) ==
    /\ thr[t].pc = "idle"
    /\ Lock(t)
    /\ thr' = [thr EXCEPT ![t] = [Idle EXCEPT !.pc = pc, !.rows = rows]]
    /\ UNCHANGED <<stateVars, total, charged>>

(* The loop has no row left, or a reset request returns early. *)
Finish(t) ==
    /\ thr[t].pc \in {"scan", "expire", "save"}
    /\ thr[t].rows = NoRows
    /\ Unlock(t)
    /\ thr' = [thr EXCEPT ![t] = Idle]
    /\ UNCHANGED <<stateVars, total, charged>>

(* Done with row p, back to the head of the loop. *)
Without(t, p, pc) ==
    [Idle EXCEPT !.pc = pc, !.rows = [thr[t].rows EXCEPT ![p] = NoRow]]

-----------------------------------------------------------------------------
(* CalculatePeerTraffic *)

TrafficStart(t) == Start(t, "scan", db)

(* FetchWgPeer fails: processPeerTraffic gives this peer up. *)
TrafficSkip(t, p) ==
    /\ thr[t].pc = "scan" /\ thr[t].rows[p] # NoRow
    /\ router[p].wg = "none" \/ "router" \in Faults
    /\ thr' = [thr EXCEPT ![t] = Without(t, p, "scan")]
    /\ UNCHANGED <<stateVars, mu, total, charged>>

Deltas_Plain(row, ctr) == [d \in Dir |-> ctr[d] - row.last[d]]  \* mutant: no wrap

Deltas(row, ctr) == [d \in Dir |-> calculateDelta(row.last[d], ctr[d])]

accumulateTotal_Overwrite(n) == total' = n       \* mutant: assigns, adds nothing

(* An increment in the database; an error is only logged. *)
accumulateTotal(n) ==
    \/ total' = total + n
    \/ MayFailDb /\ UNCHANGED total

(* FetchWgPeer succeeds: the deltas go to total_usage at once, and to the  *)
(* thread's copy of the row.                                               *)
TrafficFetch(t, p) ==
    LET row == thr[t].rows[p]
        delta == Deltas(row, router[p].ctr)
        sum == delta["down"] + delta["up"]
    IN
    /\ thr[t].pc = "scan" /\ row # NoRow
    /\ router[p].wg # "none"
    /\ thr' = [thr EXCEPT ![t] =
         [@ EXCEPT !.pc = "notify", !.id = p, !.delta = sum,
                   !.rows[p] = [row EXCEPT !.usage = [d \in Dir |-> row.usage[d] + delta[d]],
                                           !.last = router[p].ctr],
                   !.at[p] = fwd[p]]]
    /\ accumulateTotal(sum)
    /\ UNCHANGED <<stateVars, mu, charged>>

(* Thresholds the copy of the row has reached and not yet been alerted at. *)
DueAlerts(row) ==
    IF row.limit = NoLimit \/ row.limit = 0 THEN {}
    ELSE {x \in Thresholds \ row.notified : (Total(row) * 100) \div row.limit >= x}

(* Alerts are sent in turn; the flag of one that cannot be sent stays off. *)
TrafficNotify(t) ==
    LET p == thr[t].id
        due == DueAlerts(thr[t].rows[p])
    IN
    /\ thr[t].pc = "notify"
    /\ \E sent \in IF "notify" \in Faults THEN SUBSET due ELSE {due} :
         /\ thr' = [thr EXCEPT ![t] = [@ EXCEPT !.pc = "limit", !.sent = sent]]
         /\ told' = [told EXCEPT ![p] = @ \cup sent]
    /\ UNCHANGED <<db, router, today, fwd, base, seen, slop, mu, total, charged>>

(* Mutant: a peer the table already has as disabled is left alone. *)
TrafficLimit_OnlyOnce(t) ==
    LET p == thr[t].id
        cut == OverLimit(thr[t].rows[p]) /\ ~thr[t].rows[p].disabled
    IN
    /\ thr[t].pc = "limit"
    /\ thr' = [thr EXCEPT ![t] = [@ EXCEPT !.pc = "persist", !.cut = cut]]
    /\ IF cut THEN \E ok \in BOOLEAN : PatchPeer(p, "off", ok) ELSE UNCHANGED router
    /\ UNCHANGED <<db, today, history, mu, total, charged>>

(* Over the limit the peer is disabled on the router; whether that worked, *)
(* the row is to be marked disabled.                                       *)
TrafficLimit(t) ==
    LET p == thr[t].id IN
    /\ thr[t].pc = "limit"
    /\ \/ /\ ~OverLimit(thr[t].rows[p])
          /\ thr' = [thr EXCEPT ![t] = [@ EXCEPT !.pc = "persist"]]
          /\ UNCHANGED router
       \/ /\ OverLimit(thr[t].rows[p])
          /\ thr' = [thr EXCEPT ![t] = [@ EXCEPT !.pc = "persist", !.cut = TRUE]]
          /\ \E ok \in BOOLEAN : PatchPeer(p, "off", ok)
    /\ UNCHANGED <<db, today, history, mu, total, charged>>

(* What Updates writes: the counters always, a flag or disabled only when  *)
(* this run set it.  It changes nothing when the row is gone.              *)
Updated_NoFlags(row, self) ==                    \* mutant: flags are not stored
    [row EXCEPT !.usage = self.rows[self.id].usage,
                !.last = self.rows[self.id].last,
                !.disabled = @ \/ self.cut]

Updated_NoDisable(row, self) ==                  \* mutant: disabled is not stored
    [row EXCEPT !.usage = self.rows[self.id].usage,
                !.last = self.rows[self.id].last,
                !.notified = @ \cup self.sent]

Updated(row, self) ==
    [row EXCEPT !.usage = self.rows[self.id].usage,
                !.last = self.rows[self.id].last,
                !.notified = @ \cup self.sent,
                !.disabled = @ \/ self.cut]

TrafficPersist(t) ==
    LET p == thr[t].id IN
    /\ thr[t].pc = "persist"
    /\ \/ /\ db[p] # NoRow
          /\ db' = [db EXCEPT ![p] = Updated(@, thr[t])]
          /\ seen' = [seen EXCEPT ![p] = thr[t].at[p]]
          /\ charged' = charged + thr[t].delta
       \/ /\ db[p] = NoRow \/ MayFailDb
          /\ UNCHANGED <<db, seen, charged>>
    /\ thr' = [thr EXCEPT ![t] = Without(t, p, "scan")]
    /\ UNCHANGED <<router, today, fwd, base, slop, told, mu, total>>

-----------------------------------------------------------------------------
(* ExpireOverduePeers *)

peersDueForExpiry_After ==                       \* mutant: not on the day itself
    [p \in Peer |-> IF /\ db[p] # NoRow /\ ~db[p].disabled
                       /\ IsPeerExpired(db[p]) /\ db[p].expire # today
                    THEN db[p] ELSE NoRow]

peersDueForExpiry ==
    [p \in Peer |-> IF db[p] # NoRow /\ ~db[p].disabled /\ IsPeerExpired(db[p])
                    THEN db[p] ELSE NoRow]

ExpireStart(t) == Start(t, "expire", peersDueForExpiry)

ExpirePeer(t, p) ==
    LET row == thr[t].rows[p] IN
    /\ thr[t].pc = "expire" /\ row # NoRow
    /\ \E ok \in BOOLEAN :
         /\ PatchPeer(p, "off", ok)
         /\ thr' = [thr EXCEPT ![t] =
              IF ok THEN [@ EXCEPT !.pc = IF row.queue THEN "queue" ELSE "mark", !.id = p]
              ELSE Without(t, p, "expire")]
    /\ UNCHANGED <<db, today, history, mu, total, charged>>

(* An error of the queue call is only logged. *)
ExpireQueue(t) ==
    /\ thr[t].pc = "queue"
    /\ \E ok \in BOOLEAN : PatchQueue(thr[t].id, "off", ok)
    /\ thr' = [thr EXCEPT ![t].pc = "mark"]
    /\ UNCHANGED <<db, today, history, mu, total, charged>>

ExpireMark(t) ==
    LET p == thr[t].id IN
    /\ thr[t].pc = "mark"
    /\ \/ db[p] # NoRow /\ db' = [db EXCEPT ![p].disabled = TRUE]
       \/ (db[p] = NoRow \/ MayFailDb) /\ UNCHANGED db
    /\ thr' = [thr EXCEPT ![t] = Without(t, p, "expire")]
    /\ UNCHANGED <<router, today, history, mu, total, charged>>

-----------------------------------------------------------------------------
(* ResetPeerUsage, ResetPeerUsages and ResetTotalTrafficUsage *)

(* ResetPeerUsage works on the row of one peer, ResetPeerUsages on all. *)
ResetStart(t, scope) ==
    Start(t, "fetch", [p \in Peer |-> IF p \in scope THEN db[p] ELSE NoRow])

(* The rows as they will be saved: every column as read from the database, *)
(* but for the usage, the last readings and the alert flags.               *)
ResetRow_KeepsFlags(row, ctr) ==                 \* mutant: flags stay set
    [row EXCEPT !.usage = Zero, !.last = ctr]

ResetRow(row, ctr) ==
    [row EXCEPT !.usage = Zero, !.last = ctr, !.notified = {}]

(* One read of the router.  Rows the router does not know are left out; on *)
(* an error, none are left and the request ends.                           *)
ResetFetch(t) ==
    /\ thr[t].pc = "fetch"
    /\ \E found \in {{p \in Peer : router[p].wg # "none"}}
                    \cup (IF "router" \in Faults THEN {{}} ELSE {}) :
         thr' = [thr EXCEPT ![t] =
           [@ EXCEPT !.pc = "save",
                     !.rows = [p \in Peer |-> IF thr[t].rows[p] # NoRow /\ p \in found
                                            THEN ResetRow(thr[t].rows[p], router[p].ctr)
                                            ELSE NoRow],
                     !.at = [p \in Peer |-> IF thr[t].rows[p] # NoRow /\ p \in found
                                          THEN fwd[p] ELSE Zero]]]
    /\ UNCHANGED <<stateVars, mu, total, charged>>

(* Save writes every column, and inserts the row when it is gone. *)
ResetSave(t, p) ==
    /\ thr[t].pc = "save" /\ thr[t].rows[p] # NoRow
    /\ db' = [db EXCEPT ![p] = thr[t].rows[p]]
    /\ base' = [base EXCEPT ![p] = thr[t].at[p]]
    /\ seen' = [seen EXCEPT ![p] = thr[t].at[p]]
    /\ told' = [told EXCEPT ![p] = {}]
    /\ thr' = [thr EXCEPT ![t] = [@ EXCEPT !.rows[p] = NoRow, !.at[p] = Zero]]
    /\ UNCHANGED <<router, today, fwd, slop, mu, total, charged>>

(* Save fails: the request ends, the rest is not reset. *)
ResetFail(t) ==
    /\ MayFailDb
    /\ thr[t].pc = "save" /\ thr[t].rows # NoRows
    /\ thr' = [thr EXCEPT ![t] = [Idle EXCEPT !.pc = "save"]]
    /\ UNCHANGED <<stateVars, mu, total, charged>>

ResetTotalTrafficUsage(t) ==
    /\ thr[t].pc = "idle"
    /\ mu = NoThread
    /\ total' = 0
    /\ charged' = 0
    /\ UNCHANGED <<stateVars, mu, thr>>

-----------------------------------------------------------------------------
(* The process stops and is started again: what is not in the database or  *)
(* on the router is lost.                                                  *)
Crash ==
    /\ "crash" \in Faults
    /\ mu # NoThread
    /\ mu' = NoThread
    /\ thr' = [t \in Thread |-> Idle]
    /\ UNCHANGED <<stateVars, total, charged>>

Traffic(t) ==
    \/ TrafficStart(t)
    \/ \E p \in Peer : TrafficSkip(t, p) \/ TrafficFetch(t, p)
    \/ TrafficNotify(t) \/ TrafficLimit(t) \/ TrafficPersist(t)
    \/ Finish(t)

Expire(t) ==
    \/ ExpireStart(t)
    \/ \E p \in Peer : ExpirePeer(t, p)
    \/ ExpireQueue(t) \/ ExpireMark(t)
    \/ Finish(t)

Reset(t) ==
    \/ \E p \in Peer : db[p] # NoRow /\ ResetStart(t, {p})
    \/ ResetStart(t, Peer)
    \/ ResetFetch(t)
    \/ \E p \in Peer : ResetSave(t, p)
    \/ ResetFail(t)
    \/ Finish(t)
    \/ ResetTotalTrafficUsage(t)

CalculatorNext ==
    \/ \E t \in TrafficJob : Traffic(t)
    \/ \E t \in ExpireJob : Expire(t)
    \/ \E t \in ResetCall : Reset(t)

EnvironmentStep == Environment /\ UNCHANGED <<mu, thr, total, charged>>

Next == CalculatorNext \/ Crash \/ EnvironmentStep

Spec == Init /\ [][Next]_vars
=============================================================================
