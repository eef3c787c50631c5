----------------------------- MODULE PolicyProofs ----------------------------
(***************************************************************************)
(* Limits, expiry and alerts: what is stored for good, for every set of    *)
(* peers and threads and every combination of faults.                      *)
(***************************************************************************)
EXTENDS TrafficProofs

(* A run works on copies; this is what it may rely on.  The table has each *)
(* row it holds, with the same limit, and disabled no more than the copy.  *)
RowAgrees(copy, row) ==
    /\ row # NoRow
    /\ row.disabled => copy.disabled
    /\ copy.limit = row.limit

RunAgrees(self, table, R, alerted) ==
    /\ \A p \in Peer : self.rows[p] # NoRow =>
         /\ RowAgrees(self.rows[p], table[p])
         /\ self.pc = "save" => self.rows[p].usage = Zero /\ self.rows[p].notified = {}
    /\ self.pc \in {"limit", "persist"} => self.sent \subseteq alerted[self.id]
    /\ self.pc = "persist" /\ OverLimit(self.rows[self.id]) =>
         self.cut /\ ("router" \notin Faults => R[self.id].wg # "on")

CopiesAgree == \A t \in Thread : thr[t].pc # "idle" => RunAgrees(thr[t], db, router, told)

PolicyInv == FlagMeansAlerted /\ OverLimitIsOff /\ CopiesAgree

(* The first half of NeverReenables. *)
RowsStayOff == \A p \in Peer : db[p] # NoRow /\ db[p].disabled => db'[p] # NoRow /\ db'[p].disabled

(* No step switches a peer on at the router. *)
OnlyOff == \A p \in Peer : router'[p].wg \in {router[p].wg, "off"}

-----------------------------------------------------------------------------
LEMMA PatchOnlyOff ==
    ASSUME StateTypeOK, NEW q \in Peer, NEW s \in Switch, NEW ok \in BOOLEAN,
           PatchPeer(q, "off", ok) \/ PatchQueue(q, s, ok)
    PROVE  OnlyOff
  <1>1. [router[q] EXCEPT !.wg = "off"].wg = "off"
    BY DEF StateTypeOK, RouterPeer
  <1>2. [router[q] EXCEPT !.queue = s].wg = router[q].wg
    BY DEF StateTypeOK, RouterPeer
  <1>3. CASE router' = router
    BY <1>3 DEF OnlyOff
  <1>4. CASE router' = [router EXCEPT ![q] = [router[q] EXCEPT !.wg = "off"]]
    BY <1>1, <1>4 DEF OnlyOff, StateTypeOK
  <1>5. CASE router' = [router EXCEPT ![q] = [router[q] EXCEPT !.queue = s]]
    BY <1>2, <1>5 DEF OnlyOff, StateTypeOK
  <1>6. QED
    BY <1>3, <1>4, <1>5 DEF PatchPeer, PatchQueue, RouterCall

(* A call that cannot fail leaves a peer that is not on. *)
LEMMA PatchSwitchesOff ==
    ASSUME StateTypeOK, NEW q \in Peer, NEW ok \in BOOLEAN, PatchPeer(q, "off", ok),
           "router" \notin Faults
    PROVE  router'[q].wg # "on"
  <1>1. [router[q] EXCEPT !.wg = "off"].wg = "off"
    BY DEF StateTypeOK, RouterPeer
  <1>2. QED
    BY <1>1 DEF PatchPeer, RouterCall, StateTypeOK

LEMMA EnvironmentOnlyOff ==
    ASSUME StateTypeOK, Environment
    PROVE  OnlyOff
  <1>1. ASSUME NEW q \in Peer, NEW b \in Bursts, Forward(q, b)
        PROVE  OnlyOff
    <2>1. PICK ctr : router' = [router EXCEPT ![q] = [router[q] EXCEPT !.ctr = ctr]]
      BY <1>1 DEF Forward
    <2>2. [router[q] EXCEPT !.ctr = ctr].wg = router[q].wg
      BY DEF StateTypeOK, RouterPeer
    <2>3. QED
      BY <2>1, <2>2 DEF OnlyOff, StateTypeOK
  <1>2. ASSUME NEW q \in Peer, RestartCounters(q)
        PROVE  OnlyOff
    <2>1. router' = [router EXCEPT ![q] = [router[q] EXCEPT !.ctr = Zero]]
      BY <1>2 DEF RestartCounters
    <2>2. [router[q] EXCEPT !.ctr = Zero].wg = router[q].wg
      BY DEF StateTypeOK, RouterPeer
    <2>3. QED
      BY <2>1, <2>2 DEF OnlyOff, StateTypeOK
  <1>3. CASE Midnight
    <2>1. PICK run : router' = [p \in Peer |-> IF p \in run /\ router[p].wg = "on"
                                               THEN [router[p] EXCEPT !.wg = "off", !.next = Never]
                                               ELSE router[p]]
      BY <1>3 DEF Midnight
    <2>2. \A p \in Peer : [router[p] EXCEPT !.wg = "off", !.next = Never].wg = "off"
      BY DEF StateTypeOK, RouterPeer
    <2>3. QED
      BY <2>1, <2>2 DEF OnlyOff
  <1>4. QED
    BY <1>1, <1>2, <1>3 DEF Environment

(* A step of a run keeps the invariant when table and locals it leaves do. *)
LEMMA PolicyStep ==
    ASSUME TypeInv, ChargeInv, NEW t \in Thread, NEW self,
           thr' = [thr EXCEPT ![t] = self],
           thr[t].pc # "idle" \/ mu = NoThread,
           mu' = t \/ (mu' = mu /\ thr[t].pc # "idle") \/ self.pc = "idle",
           FlagMeansAlerted', OverLimitIsOff',
           self.pc # "idle" => RunAgrees(self, db', router', told')
    PROVE  PolicyInv'
  <1>1. thr'[t] = self /\ \A u \in Thread : u # t => thr'[u].pc = "idle"
    BY MutexStep DEF ChargeInv
  <1>2. CopiesAgree'
    <2> SUFFICES ASSUME NEW u \in Thread, thr'[u].pc # "idle"
                 PROVE  RunAgrees(thr'[u], db', router', told')
      BY DEF CopiesAgree
    <2>1. u = t
      BY <1>1
    <2>2. QED
      BY <1>1, <2>1
  <1>3. QED
    BY <1>2 DEF PolicyInv

(* Steps that leave the table alone keep it right. *)
LEMMA TableKept ==
    ASSUME PolicyInv, UNCHANGED db, OnlyOff,
           \A p \in Peer : told[p] \subseteq told'[p]
    PROVE  FlagMeansAlerted' /\ OverLimitIsOff' /\ RowsStayOff
  <1>1. FlagMeansAlerted'
    BY DEF PolicyInv, FlagMeansAlerted
  <1>2. OverLimitIsOff'
    BY DEF PolicyInv, OverLimitIsOff, OnlyOff, OverLimit, Total
  <1>3. RowsStayOff
    BY DEF RowsStayOff
  <1>4. QED
    BY <1>1, <1>2, <1>3

(* The same of a run that goes on with rows it had. *)
LEMMA CopiesKept ==
    ASSUME PolicyInv, NEW t \in Thread, NEW self, thr[t].pc # "idle",
           \A p \in Peer : self.rows[p] # NoRow => /\ self.rows[p] = thr[t].rows[p]
                                                   /\ db'[p] = db[p],
           self.pc \notin {"limit", "persist", "save"}
    PROVE  RunAgrees(self, db', router', told')
  BY DEF PolicyInv, CopiesAgree, RunAgrees

LEMMA StartPolicy ==
    ASSUME TypeInv, ChargeInv, PolicyInv, NEW t \in Thread,
           NEW pc \in {"scan", "expire", "fetch"}, NEW rows,
           \A p \in Peer : rows[p] # NoRow => rows[p] = db[p],
           Start(t, pc, rows)
    PROVE  PolicyInv' /\ RowsStayOff
  <1> DEFINE self == [Idle EXCEPT !.pc = pc, !.rows = rows]
  <1>1. self.pc = pc /\ self.rows = rows
    BY DEF Idle
  <1>2. thr' = [thr EXCEPT ![t] = self] /\ mu = NoThread /\ mu' = t /\ UNCHANGED stateVars
    BY DEF Start, Lock
  <1> HIDE DEF self
  <1>3. OnlyOff
    BY <1>2 DEF OnlyOff, stateVars
  <1>4. FlagMeansAlerted' /\ OverLimitIsOff' /\ RowsStayOff
    BY <1>2, <1>3, TableKept DEF stateVars
  <1>5. RunAgrees(self, db', router', told')
    BY <1>1, <1>2 DEF RunAgrees, RowAgrees, stateVars
  <1>6. QED
    BY <1>2, <1>4, <1>5, PolicyStep

LEMMA FinishPolicy ==
    ASSUME TypeInv, ChargeInv, PolicyInv, NEW t \in Thread, Finish(t)
    PROVE  PolicyInv' /\ RowsStayOff
  <1>1. thr' = [thr EXCEPT ![t] = Idle] /\ thr[t].pc # "idle" /\ UNCHANGED stateVars
    BY DEF Finish
  <1>2. Idle.pc = "idle"
    BY DEF Idle
  <1>3. OnlyOff
    BY <1>1 DEF OnlyOff, stateVars
  <1>4. FlagMeansAlerted' /\ OverLimitIsOff' /\ RowsStayOff
    BY <1>1, <1>3, TableKept DEF stateVars
  <1>5. QED
    BY <1>1, <1>2, <1>4, PolicyStep

LEMMA TrafficPolicy ==
    ASSUME TypeInv, ChargeInv, PolicyInv, NEW t \in TrafficJob, Traffic(t)
    PROVE  PolicyInv' /\ RowsStayOff
  <1> t \in Thread
    BY DEF Thread
  <1> thr[t] \in Local /\ StateTypeOK
    BY DEF TypeInv, TypeOK
  <1>1. CASE TrafficStart(t)
    BY <1>1, StartPolicy DEF TrafficStart
  <1>2. ASSUME NEW p \in Peer, TrafficSkip(t, p)
        PROVE  PolicyInv' /\ RowsStayOff
    <2> DEFINE self == Without(t, p, "scan")
    <2>1. /\ thr' = [thr EXCEPT ![t] = self] /\ thr[t].pc = "scan"
          /\ mu' = mu /\ UNCHANGED stateVars
      BY <1>2 DEF TrafficSkip
    <2>2. self.pc = "scan" /\ \A q \in Peer : self.rows[q] # NoRow => self.rows[q] = thr[t].rows[q]
      BY WithoutFacts
    <2> HIDE DEF self
    <2>3. OnlyOff
      BY <2>1 DEF OnlyOff, stateVars
    <2>4. FlagMeansAlerted' /\ OverLimitIsOff' /\ RowsStayOff
      BY <2>1, <2>3, TableKept DEF stateVars
    <2>5. RunAgrees(self, db', router', told')
      BY <2>1, <2>2, CopiesKept DEF stateVars
    <2>6. QED
      BY <2>1, <2>4, <2>5, PolicyStep
  <1>3. ASSUME NEW p \in Peer, TrafficFetch(t, p)
        PROVE  PolicyInv' /\ RowsStayOff
    <2> DEFINE row == thr[t].rows[p]
               delta == Deltas(row, router[p].ctr)
               read == [row EXCEPT !.usage = [d \in Dir |-> row.usage[d] + delta[d]],
                                   !.last = router[p].ctr]
               self == [thr[t] EXCEPT !.pc = "notify", !.id = p,
                            !.delta = delta["down"] + delta["up"],
                            !.rows[p] = read, !.at[p] = fwd[p]]
    <2>1. /\ row \in Row /\ thr[t].pc = "scan" /\ UNCHANGED stateVars /\ mu' = mu
          /\ thr' = [thr EXCEPT ![t] = self]
      BY <1>3 DEF TrafficFetch, Local
    <2>2. read.disabled = row.disabled /\ read.limit = row.limit
      BY <2>1 DEF Row
    <2> HIDE DEF read, delta
    <2>3. /\ self.pc = "notify" /\ self.rows[p] = read
          /\ \A q \in Peer : q # p => self.rows[q] = thr[t].rows[q]
      BY DEF Local
    <2> HIDE DEF self
    <2>4. OnlyOff
      BY <2>1 DEF OnlyOff, stateVars
    <2>5. FlagMeansAlerted' /\ OverLimitIsOff' /\ RowsStayOff
      BY <2>1, <2>4, TableKept DEF stateVars
    <2>6. \A q \in Peer : thr[t].rows[q] # NoRow => RowAgrees(thr[t].rows[q], db[q])
      BY <2>1 DEF PolicyInv, CopiesAgree, RunAgrees
    <2>7. RowAgrees(read, db[p])
      BY <2>1, <2>2, <2>6, StateAssumption DEF RowAgrees
    <2>8. RunAgrees(self, db', router', told')
      BY <2>1, <2>3, <2>6, <2>7 DEF RunAgrees, stateVars
    <2>9. QED
      BY <2>1, <2>5, <2>8, PolicyStep
  <1>4. CASE TrafficNotify(t)
    <2>1. PICK sent : /\ thr' = [thr EXCEPT ![t] = [thr[t] EXCEPT !.pc = "limit", !.sent = sent]]
                      /\ told' = [told EXCEPT ![thr[t].id] = @ \cup sent]
      BY <1>4 DEF TrafficNotify
    <2> DEFINE self == [thr[t] EXCEPT !.pc = "limit", !.sent = sent]
    <2>2. self.pc = "limit" /\ self.rows = thr[t].rows /\ self.sent = sent /\ self.id = thr[t].id
      BY DEF Local
    <2>3. /\ thr' = [thr EXCEPT ![t] = self] /\ thr[t].pc = "notify"
          /\ mu' = mu /\ UNCHANGED <<db, router>>
      BY <1>4, <2>1 DEF TrafficNotify
    <2> HIDE DEF self
    <2>4. thr[t].id \in Peer
      BY <2>3 DEF TypeInv, AtPeer
    <2>5. sent \subseteq told'[thr[t].id] /\ \A p \in Peer : told[p] \subseteq told'[p]
      BY <2>1, <2>4 DEF StateTypeOK
    <2>6. OnlyOff
      BY <2>3 DEF OnlyOff
    <2>7. FlagMeansAlerted' /\ OverLimitIsOff' /\ RowsStayOff
      BY <2>3, <2>5, <2>6, TableKept
    <2>8. RunAgrees(self, db', router', told')
      BY <2>2, <2>3, <2>5 DEF PolicyInv, CopiesAgree, RunAgrees
    <2>9. QED
      BY <2>3, <2>7, <2>8, PolicyStep
  <1>5. CASE TrafficLimit(t)
    <2> DEFINE p == thr[t].id
    <2>1. thr[t].pc = "limit" /\ mu' = mu /\ UNCHANGED <<db, told>>
      BY <1>5 DEF TrafficLimit, history
    <2>2. p \in Peer /\ thr[t].rows[p] # NoRow
      BY <2>1 DEF TypeInv, AtPeer
    <2>3. \A q \in Peer : thr[t].rows[q] # NoRow => RowAgrees(thr[t].rows[q], db[q])
      BY <2>1 DEF PolicyInv, CopiesAgree, RunAgrees
    <2>4. thr[t].sent \subseteq told[p]
      BY <2>1 DEF PolicyInv, CopiesAgree, RunAgrees
    <2>5. CASE ~OverLimit(thr[t].rows[p])
      <3> DEFINE self == [thr[t] EXCEPT !.pc = "persist"]
      <3>1. thr' = [thr EXCEPT ![t] = self] /\ UNCHANGED router
        BY <1>5, <2>5 DEF TrafficLimit
      <3>2. self.pc = "persist" /\ self.rows = thr[t].rows /\ self.sent = thr[t].sent /\ self.id = p
        BY DEF Local
      <3> HIDE DEF self
      <3>3. OnlyOff
        BY <3>1 DEF OnlyOff
      <3>4. FlagMeansAlerted' /\ OverLimitIsOff' /\ RowsStayOff
        BY <2>1, <3>3, TableKept
      <3>5. RunAgrees(self, db', router', told')
        BY <2>1, <2>3, <2>4, <2>5, <3>2 DEF RunAgrees
      <3>6. QED
        BY <2>1, <3>1, <3>4, <3>5, PolicyStep
    <2>6. CASE OverLimit(thr[t].rows[p])
      <3> DEFINE self == [thr[t] EXCEPT !.pc = "persist", !.cut = TRUE]
      <3>1. PICK ok \in BOOLEAN : PatchPeer(p, "off", ok)
        BY <1>5, <2>6 DEF TrafficLimit
      <3>2. thr' = [thr EXCEPT ![t] = self]
        BY <1>5, <2>6 DEF TrafficLimit
      <3>3. /\ self.pc = "persist" /\ self.rows = thr[t].rows /\ self.sent = thr[t].sent
            /\ self.id = p /\ self.cut
        BY DEF Local
      <3> HIDE DEF self
      <3>4. OnlyOff
        BY <2>2, <3>1, PatchOnlyOff DEF Switch
      <3>5. "router" \notin Faults => router'[p].wg # "on"
        BY <2>2, <3>1, PatchSwitchesOff
      <3>6. FlagMeansAlerted' /\ OverLimitIsOff' /\ RowsStayOff
        BY <2>1, <3>4, TableKept
      <3>7. RunAgrees(self, db', router', told')
        BY <2>1, <2>3, <2>4, <3>3, <3>5 DEF RunAgrees
      <3>8. QED
        BY <2>1, <3>2, <3>6, <3>7, PolicyStep
    <2>7. QED
      BY <2>5, <2>6
  <1>6. CASE TrafficPersist(t)
    <2> DEFINE p == thr[t].id
               self == Without(t, p, "scan")
    <2>1. /\ thr' = [thr EXCEPT ![t] = self] /\ thr[t].pc = "persist"
          /\ mu' = mu /\ UNCHANGED <<router, told>>
      BY <1>6 DEF TrafficPersist
    <2>2. p \in Peer /\ thr[t].rows[p] \in Row /\ thr[t].rows[p] # NoRow
      BY <2>1 DEF TypeInv, AtPeer, Local
    <2>3. self.pc = "scan" /\ \A q \in Peer : self.rows[q] # NoRow => self.rows[q] = thr[t].rows[q]
      BY <2>2, WithoutFacts
    <2>4. self.rows[p] = NoRow
      BY <2>2 DEF Without, Idle, Local
    <2> HIDE DEF self
    <2>5. OnlyOff
      BY <2>1 DEF OnlyOff
    <2>6. CASE UNCHANGED db
      <3>1. FlagMeansAlerted' /\ OverLimitIsOff' /\ RowsStayOff
        BY <2>1, <2>5, <2>6, TableKept
      <3>2. RunAgrees(self, db', router', told')
        BY <2>1, <2>3, <2>6, CopiesKept
      <3>3. QED
        BY <2>1, <3>1, <3>2, PolicyStep
    <2>7. CASE db[p] # NoRow /\ db' = [db EXCEPT ![p] = Updated(@, thr[t])]
      <3>1. /\ db[p] \in Row /\ db'[p] = Updated(db[p], thr[t])
            /\ \A q \in Peer : q # p => db'[q] = db[q]
        BY <2>2, <2>7 DEF StateTypeOK
      <3>2. /\ db'[p].usage = thr[t].rows[p].usage /\ db'[p].limit = db[p].limit
            /\ db'[p].notified = db[p].notified \cup thr[t].sent
            /\ db'[p].disabled = (db[p].disabled \/ thr[t].cut)
            /\ db'[p] # NoRow
        <4>1. Updated(db[p], thr[t]) \in Row
          BY <2>2, <3>1 DEF Updated, Row, Local
        <4>2. QED
          BY <3>1, <4>1, StateAssumption DEF Updated, Row
      <3>3. /\ thr[t].rows[p].limit = db[p].limit /\ thr[t].sent \subseteq told[p]
            /\ OverLimit(thr[t].rows[p]) => thr[t].cut /\ ("router" \notin Faults => router[p].wg # "on")
        BY <2>1, <2>2 DEF PolicyInv, CopiesAgree, RunAgrees, RowAgrees
      <3>4. FlagMeansAlerted'
        <4>1. db[p].notified \subseteq told[p]
          BY <2>2, <2>7 DEF PolicyInv, FlagMeansAlerted
        <4>2. QED
          BY <2>1, <3>1, <3>2, <3>3, <4>1 DEF PolicyInv, FlagMeansAlerted
      <3>5. OverLimitIsOff'
        <4>1. OverLimit(db'[p]) => OverLimit(thr[t].rows[p])
          BY <3>2, <3>3 DEF OverLimit, Total
        <4>2. OverLimit(db'[p]) => db'[p].disabled /\ ("router" \notin Faults => router[p].wg # "on")
          BY <3>2, <3>3, <4>1
        <4> SUFFICES ASSUME NEW q \in Peer, db'[q] # NoRow, OverLimit(db'[q])
                     PROVE  db'[q].disabled /\ ("router" \notin Faults => router[q].wg # "on")
          BY <2>1 DEF OverLimitIsOff, OverLimit, Total
        <4>3. CASE q = p
          BY <4>2, <4>3
        <4>4. CASE q # p
          BY <3>1, <4>4 DEF PolicyInv, OverLimitIsOff
        <4>5. QED
          BY <4>3, <4>4
      <3>6. RowsStayOff
        BY <3>1, <3>2 DEF RowsStayOff
      <3>7. RunAgrees(self, db', router', told')
        BY <2>1, <2>3, <2>4, <3>1, CopiesKept
      <3>8. QED
        BY <2>1, <3>4, <3>5, <3>6, <3>7, PolicyStep
    <2>8. QED
      BY <1>6, <2>6, <2>7 DEF TrafficPersist
  <1>7. CASE Finish(t)
    BY <1>7, FinishPolicy
  <1>8. QED
    BY <1>1, <1>2, <1>3, <1>4, <1>5, <1>6, <1>7 DEF Traffic

LEMMA ExpirePolicy ==
    ASSUME TypeInv, ChargeInv, PolicyInv, NEW t \in ExpireJob, Expire(t)
    PROVE  PolicyInv' /\ RowsStayOff
  <1> t \in Thread
    BY DEF Thread
  <1> thr[t] \in Local /\ StateTypeOK
    BY DEF TypeInv, TypeOK
  <1>1. CASE ExpireStart(t)
    <2>1. \A p \in Peer : peersDueForExpiry[p] # NoRow => peersDueForExpiry[p] = db[p]
      BY DEF peersDueForExpiry
    <2>2. QED
      BY <1>1, <2>1, StartPolicy DEF ExpireStart
  <1>2. ASSUME NEW p \in Peer, ExpirePeer(t, p)
        PROVE  PolicyInv' /\ RowsStayOff
    <2>1. PICK ok \in BOOLEAN :
            /\ PatchPeer(p, "off", ok)
            /\ thr' = [thr EXCEPT ![t] =
                 IF ok THEN [@ EXCEPT !.pc = IF thr[t].rows[p].queue THEN "queue" ELSE "mark",
                                      !.id = p]
                 ELSE Without(t, p, "expire")]
      BY <1>2 DEF ExpirePeer
    <2> DEFINE self == IF ok THEN [thr[t] EXCEPT !.pc = IF thr[t].rows[p].queue
                                                      THEN "queue" ELSE "mark", !.id = p]
                       ELSE Without(t, p, "expire")
    <2>2. /\ self.pc \in {"expire", "queue", "mark"}
          /\ \A q \in Peer : self.rows[q] # NoRow => self.rows[q] = thr[t].rows[q]
      BY WithoutFacts DEF Local
    <2>3. thr' = [thr EXCEPT ![t] = self]
      BY <2>1
    <2>4. /\ thr[t].pc = "expire" /\ mu' = mu /\ UNCHANGED <<db, told>>
      BY <1>2 DEF ExpirePeer, history
    <2> HIDE DEF self
    <2>5. OnlyOff
      BY <2>1, PatchOnlyOff DEF Switch
    <2>6. FlagMeansAlerted' /\ OverLimitIsOff' /\ RowsStayOff
      BY <2>4, <2>5, TableKept
    <2>7. RunAgrees(self, db', router', told')
      BY <2>2, <2>4, CopiesKept
    <2>8. QED
      BY <2>3, <2>4, <2>6, <2>7, PolicyStep
  <1>3. CASE ExpireQueue(t)
    <2> DEFINE self == [thr[t] EXCEPT !.pc = "mark"]
    <2>1. /\ thr' = [thr EXCEPT ![t] = self] /\ thr[t].pc = "queue"
          /\ mu' = mu /\ UNCHANGED <<db, told>>
      BY <1>3 DEF ExpireQueue, history
    <2>2. self.pc = "mark" /\ self.rows = thr[t].rows
      BY DEF Local
    <2>3. thr[t].id \in Peer
      BY <2>1 DEF TypeInv, AtPeer
    <2> HIDE DEF self
    <2>4. OnlyOff
      BY <1>3, <2>3, PatchOnlyOff DEF ExpireQueue, Switch
    <2>5. FlagMeansAlerted' /\ OverLimitIsOff' /\ RowsStayOff
      BY <2>1, <2>4, TableKept
    <2>6. RunAgrees(self, db', router', told')
      BY <2>1, <2>2, CopiesKept
    <2>7. QED
      BY <2>1, <2>5, <2>6, PolicyStep
  <1>4. CASE ExpireMark(t)
    <2> DEFINE p == thr[t].id
               self == Without(t, p, "expire")
    <2>1. /\ thr' = [thr EXCEPT ![t] = self] /\ thr[t].pc = "mark"
          /\ mu' = mu /\ UNCHANGED <<router, told>>
      BY <1>4 DEF ExpireMark, history
    <2>2. p \in Peer
      BY <2>1 DEF TypeInv, AtPeer
    <2>3. self.pc = "expire" /\ \A q \in Peer : self.rows[q] # NoRow => self.rows[q] = thr[t].rows[q]
      BY <2>2, WithoutFacts
    <2>4. self.rows[p] = NoRow
      BY <2>2 DEF Without, Idle, Local
    <2> HIDE DEF self
    <2>5. OnlyOff
      BY <2>1 DEF OnlyOff
    <2>6. CASE UNCHANGED db
      <3>1. FlagMeansAlerted' /\ OverLimitIsOff' /\ RowsStayOff
        BY <2>1, <2>5, <2>6, TableKept
      <3>2. RunAgrees(self, db', router', told')
        BY <2>1, <2>3, <2>6, CopiesKept
      <3>3. QED
        BY <2>1, <3>1, <3>2, PolicyStep
    <2>7. CASE db[p] # NoRow /\ db' = [db EXCEPT ![p].disabled = TRUE]
      <3>1. /\ db[p] \in Row /\ db'[p] = [db[p] EXCEPT !.disabled = TRUE]
            /\ \A q \in Peer : q # p => db'[q] = db[q]
        BY <2>2, <2>7 DEF StateTypeOK
      <3>2. /\ db'[p].usage = db[p].usage /\ db'[p].limit = db[p].limit
            /\ db'[p].notified = db[p].notified /\ db'[p].disabled
        BY <3>1 DEF Row
      <3>3. db'[p] # NoRow
        BY <3>1, StateAssumption DEF Row
      <3>4. FlagMeansAlerted'
        BY <2>1, <2>7, <3>1, <3>2 DEF PolicyInv, FlagMeansAlerted
      <3>5. OverLimitIsOff'
        <4> SUFFICES ASSUME NEW q \in Peer, db'[q] # NoRow, OverLimit(db'[q])
                     PROVE  db'[q].disabled /\ ("router" \notin Faults => router[q].wg # "on")
          BY <2>1 DEF OverLimitIsOff, OverLimit, Total
        <4>1. CASE q = p
          BY <2>7, <3>2, <4>1 DEF PolicyInv, OverLimitIsOff, OverLimit, Total
        <4>2. CASE q # p
          BY <3>1, <4>2 DEF PolicyInv, OverLimitIsOff
        <4>3. QED
          BY <4>1, <4>2
      <3>6. RowsStayOff
        BY <3>1, <3>2, <3>3 DEF RowsStayOff
      <3>7. RunAgrees(self, db', router', told')
        BY <2>1, <2>3, <2>4, <3>1, CopiesKept
      <3>8. QED
        BY <2>1, <3>4, <3>5, <3>6, <3>7, PolicyStep
    <2>8. QED
      BY <1>4, <2>6, <2>7 DEF ExpireMark
  <1>5. CASE Finish(t)
    BY <1>5, FinishPolicy
  <1>6. QED
    BY <1>1, <1>2, <1>3, <1>4, <1>5 DEF Expire

LEMMA ResetPolicy ==
    ASSUME TypeInv, ChargeInv, PolicyInv, NEW t \in ResetCall, Reset(t)
    PROVE  PolicyInv' /\ RowsStayOff
  <1> t \in Thread
    BY DEF Thread
  <1> thr[t] \in Local /\ StateTypeOK
    BY DEF TypeInv, TypeOK
  <1>1. ASSUME NEW scope \in SUBSET Peer, ResetStart(t, scope)
        PROVE  PolicyInv' /\ RowsStayOff
    <2> DEFINE rows == [p \in Peer |-> IF p \in scope THEN db[p] ELSE NoRow]
    <2>1. \A p \in Peer : rows[p] # NoRow => rows[p] = db[p]
      OBVIOUS
    <2>2. Start(t, "fetch", rows)
      BY <1>1 DEF ResetStart
    <2> HIDE DEF rows
    <2>3. QED
      BY <2>1, <2>2, StartPolicy
  <1>2. CASE ResetFetch(t)
    <2> DEFINE rows(found) == [p \in Peer |->
                  IF thr[t].rows[p] # NoRow /\ p \in found
                  THEN ResetRow(thr[t].rows[p], router[p].ctr) ELSE NoRow]
               at(found) == [p \in Peer |->
                  IF thr[t].rows[p] # NoRow /\ p \in found THEN fwd[p] ELSE Zero]
    <2>1. PICK found : thr' = [thr EXCEPT ![t] =
            [thr[t] EXCEPT !.pc = "save", !.rows = rows(found), !.at = at(found)]]
      BY <1>2 DEF ResetFetch
    <2> DEFINE self == [thr[t] EXCEPT !.pc = "save", !.rows = rows(found), !.at = at(found)]
    <2>2. /\ UNCHANGED stateVars /\ mu' = mu /\ thr[t].pc = "fetch"
      BY <1>2, Zenon DEF ResetFetch
    <2>3. \A p \in Peer : rows(found)[p] # NoRow =>
             /\ RowAgrees(rows(found)[p], db[p])
             /\ rows(found)[p].usage = Zero /\ rows(found)[p].notified = {}
      <3> SUFFICES ASSUME NEW p \in Peer, rows(found)[p] # NoRow
                   PROVE  /\ RowAgrees(rows(found)[p], db[p])
                          /\ rows(found)[p].usage = Zero /\ rows(found)[p].notified = {}
        OBVIOUS
      <3>1. thr[t].rows[p] # NoRow /\ rows(found)[p] = ResetRow(thr[t].rows[p], router[p].ctr)
        OBVIOUS
      <3>2. thr[t].rows[p] \in Row /\ RowAgrees(thr[t].rows[p], db[p])
        BY <2>2, <3>1 DEF Local, PolicyInv, CopiesAgree, RunAgrees
      <3> HIDE DEF rows
      <3>3. /\ rows(found)[p].disabled = thr[t].rows[p].disabled
            /\ rows(found)[p].limit = thr[t].rows[p].limit
            /\ rows(found)[p].usage = Zero /\ rows(found)[p].notified = {}
        BY <3>1, <3>2 DEF ResetRow, Row
      <3>4. QED
        BY <3>2, <3>3 DEF RowAgrees
    <2> HIDE DEF rows, at
    <2>4. self.pc = "save" /\ self.rows = rows(found)
      BY DEF Local
    <2>5. thr' = [thr EXCEPT ![t] = self]
      BY <2>1
    <2> HIDE DEF self
    <2>6. OnlyOff
      BY <2>2 DEF OnlyOff, stateVars
    <2>7. FlagMeansAlerted' /\ OverLimitIsOff' /\ RowsStayOff
      BY <2>2, <2>6, TableKept DEF stateVars
    <2>8. RunAgrees(self, db', router', told')
      BY <2>2, <2>3, <2>4 DEF RunAgrees, stateVars
    <2>9. QED
      BY <2>2, <2>5, <2>7, <2>8, PolicyStep
  <1>3. ASSUME NEW p \in Peer, ResetSave(t, p)
        PROVE  PolicyInv' /\ RowsStayOff
    <2> DEFINE self == [thr[t] EXCEPT !.rows[p] = NoRow, !.at[p] = Zero]
    <2>1. /\ thr' = [thr EXCEPT ![t] = self] /\ mu' = mu
          /\ thr[t].pc = "save" /\ thr[t].rows[p] # NoRow
          /\ db' = [db EXCEPT ![p] = thr[t].rows[p]]
          /\ told' = [told EXCEPT ![p] = {}]
          /\ UNCHANGED router
      BY <1>3 DEF ResetSave
    <2>2. /\ self.pc = "save" /\ self.rows[p] = NoRow
          /\ \A q \in Peer : q # p => self.rows[q] = thr[t].rows[q]
      BY <2>1 DEF Local
    <2> HIDE DEF self
    <2>3. /\ db'[p] = thr[t].rows[p]
          /\ \A q \in Peer : q # p => db'[q] = db[q] /\ told'[q] = told[q]
      BY <2>1 DEF StateTypeOK
    <2>4. \A q \in Peer : thr[t].rows[q] # NoRow =>
             /\ RowAgrees(thr[t].rows[q], db[q])
             /\ thr[t].rows[q].usage = Zero /\ thr[t].rows[q].notified = {}
      BY <2>1 DEF PolicyInv, CopiesAgree, RunAgrees
    <2>5. FlagMeansAlerted'
      BY <2>1, <2>3, <2>4 DEF PolicyInv, FlagMeansAlerted
    <2>6. ~OverLimit(db'[p])
      <3>1. db'[p].usage = Zero /\ db'[p].limit \in Nat \cup {NoLimit}
        BY <2>1, <2>3, <2>4 DEF Local, Row
      <3>2. Zero["down"] + Zero["up"] = 0
        BY DEF Zero, Dir
      <3>3. QED
        BY <3>1, <3>2 DEF OverLimit, Total
    <2>7. OverLimitIsOff'
      <3> SUFFICES ASSUME NEW q \in Peer, db'[q] # NoRow, OverLimit(db'[q])
                   PROVE  db'[q].disabled /\ ("router" \notin Faults => router[q].wg # "on")
        BY <2>1 DEF OverLimitIsOff, OverLimit, Total
      <3>1. QED
        BY <2>3, <2>6 DEF PolicyInv, OverLimitIsOff
    <2>8. RowsStayOff
      BY <2>1, <2>3, <2>4 DEF RowsStayOff, RowAgrees
    <2>9. RunAgrees(self, db', router', told')
      BY <2>2, <2>3, <2>4 DEF RunAgrees
    <2>10. QED
      BY <2>1, <2>5, <2>7, <2>8, <2>9, PolicyStep
  <1>4. CASE ResetFail(t)
    <2> DEFINE self == [Idle EXCEPT !.pc = "save"]
    <2>1. self.rows = NoRows /\ self.pc = "save"
      BY DEF Idle
    <2>2. thr' = [thr EXCEPT ![t] = self] /\ thr[t].pc = "save" /\ mu' = mu /\ UNCHANGED stateVars
      BY <1>4 DEF ResetFail
    <2> HIDE DEF self
    <2>3. OnlyOff
      BY <2>2 DEF OnlyOff, stateVars
    <2>4. FlagMeansAlerted' /\ OverLimitIsOff' /\ RowsStayOff
      BY <2>2, <2>3, TableKept DEF stateVars
    <2>5. RunAgrees(self, db', router', told')
      BY <2>1 DEF RunAgrees, NoRows
    <2>6. QED
      BY <2>2, <2>4, <2>5, PolicyStep
  <1>5. CASE Finish(t)
    BY <1>5, FinishPolicy
  <1>6. CASE ResetTotalTrafficUsage(t)
    BY <1>6, Zenon DEF ResetTotalTrafficUsage, PolicyInv, FlagMeansAlerted, OverLimitIsOff,
                CopiesAgree, RunAgrees, RowAgrees, OverLimit, Total, RowsStayOff, stateVars
  <1>7. QED
    BY <1>1, <1>2, <1>3, <1>4, <1>5, <1>6 DEF Reset

-----------------------------------------------------------------------------
LEMMA InitPolicy == Init => PolicyInv
  <1> SUFFICES ASSUME Init PROVE PolicyInv
    OBVIOUS
  <1>1. CopiesAgree
    BY DEF Init, CalculatorInit, Idle, CopiesAgree
  <1>2. \A p \in Peer : db[p].notified = {} /\ db[p].usage = Zero
    BY DEF Init, StateInit, FreshRow
  <1>3. FlagMeansAlerted
    BY <1>2 DEF FlagMeansAlerted
  <1>4. \A p \in Peer : db[p] # NoRow => db[p].limit \in Nat \cup {NoLimit}
    BY InitType DEF TypeInv, TypeOK, StateTypeOK, Row
  <1>5. Zero["down"] + Zero["up"] = 0
    BY DEF Zero, Dir
  <1>6. OverLimitIsOff
    BY <1>2, <1>4, <1>5 DEF OverLimitIsOff, OverLimit, Total
  <1>7. QED
    BY <1>1, <1>3, <1>6 DEF PolicyInv

LEMMA NextPolicy == TypeInv /\ ChargeInv /\ PolicyInv /\ [Next]_vars => PolicyInv' /\ RowsStayOff
  <1> SUFFICES ASSUME TypeInv, ChargeInv, PolicyInv, [Next]_vars PROVE PolicyInv' /\ RowsStayOff
    OBVIOUS
  <1>1. CASE Crash
    <2>1. CopiesAgree'
      BY <1>1 DEF Crash, Idle, CopiesAgree
    <2>2. OnlyOff /\ UNCHANGED <<db, told>>
      BY <1>1 DEF Crash, OnlyOff, stateVars
    <2>3. QED
      BY <2>1, <2>2, TableKept DEF PolicyInv
  <1>2. CASE EnvironmentStep
    <2>1. StateTypeOK /\ Environment /\ UNCHANGED <<mu, thr>>
      BY <1>2 DEF EnvironmentStep, TypeInv, TypeOK
    <2>2. UNCHANGED <<db, told>>
      BY <2>1, Zenon DEF Environment, Forward, RestartCounters, Midnight, history
    <2>3. OnlyOff
      BY <2>1, EnvironmentOnlyOff
    <2>4. CopiesAgree'
      <3> SUFFICES ASSUME NEW t \in Thread, thr[t].pc # "idle"
                   PROVE  RunAgrees(thr[t], db, router', told)
        BY <2>1, <2>2 DEF CopiesAgree
      <3>1. RunAgrees(thr[t], db, router, told)
        BY DEF PolicyInv, CopiesAgree
      <3>2. thr[t].pc = "persist" => thr[t].id \in Peer
        BY DEF TypeInv, AtPeer
      <3>3. QED
        BY <2>3, <3>1, <3>2 DEF RunAgrees, OnlyOff
    <2>5. QED
      BY <2>2, <2>3, <2>4, TableKept DEF PolicyInv
  <1>3. CASE UNCHANGED vars
    <2>1. PolicyInv'
      BY <1>3, Zenon DEF vars, stateVars, PolicyInv, FlagMeansAlerted, OverLimitIsOff,
                         CopiesAgree, RunAgrees, RowAgrees, OverLimit, Total
    <2>2. QED
      BY <1>3, <2>1 DEF vars, stateVars, RowsStayOff
  <1>4. QED
    BY <1>1, <1>2, <1>3, TrafficPolicy, ExpirePolicy, ResetPolicy DEF Next, CalculatorNext

(* No step of the panel, of the router or of the calendar switches a peer   *)
(* on.                                                                      *)
LEMMA NextOnlyOff == TypeInv /\ [Next]_vars => OnlyOff
  <1> SUFFICES ASSUME TypeInv, [Next]_vars PROVE OnlyOff
    OBVIOUS
  <1> StateTypeOK
    BY DEF TypeInv, TypeOK
  <1>1. ASSUME UNCHANGED router PROVE OnlyOff
    BY <1>1 DEF OnlyOff
  <1>2. ASSUME NEW t \in Thread, TrafficLimit(t) PROVE OnlyOff
    <2>1. thr[t].id \in Peer
      BY <1>2 DEF TrafficLimit, TypeInv, AtPeer
    <2>2. QED
      BY <1>1, <1>2, <2>1, PatchOnlyOff DEF TrafficLimit, Switch
  <1>3. ASSUME NEW t \in Thread, NEW p \in Peer, ExpirePeer(t, p) PROVE OnlyOff
    BY <1>3, PatchOnlyOff DEF ExpirePeer, Switch
  <1>4. ASSUME NEW t \in Thread, ExpireQueue(t) PROVE OnlyOff
    <2>1. thr[t].id \in Peer
      BY <1>4 DEF ExpireQueue, TypeInv, AtPeer
    <2>2. QED
      BY <1>4, <2>1, PatchOnlyOff DEF ExpireQueue, Switch
  <1>5. ASSUME NEW t \in TrafficJob, Traffic(t) PROVE OnlyOff
    <2>1. CASE TrafficLimit(t)
      BY <1>2, <2>1 DEF Thread
    <2>2. CASE ~TrafficLimit(t)
      BY <1>1, <1>5, <2>2, Zenon DEF Traffic, TrafficStart, Start, TrafficSkip, TrafficFetch,
                TrafficNotify, TrafficPersist, Finish, stateVars
    <2>3. QED
      BY <2>1, <2>2
  <1>6. ASSUME NEW t \in ExpireJob, Expire(t) PROVE OnlyOff
    <2>1. CASE ExpireQueue(t) \/ \E p \in Peer : ExpirePeer(t, p)
      BY <1>3, <1>4, <2>1 DEF Thread
    <2>2. CASE ~(ExpireQueue(t) \/ \E p \in Peer : ExpirePeer(t, p))
      BY <1>1, <1>6, <2>2, Zenon DEF Expire, ExpireStart, Start, ExpireMark, Finish, stateVars
    <2>3. QED
      BY <2>1, <2>2
  <1>7. ASSUME NEW t \in ResetCall, Reset(t) PROVE OnlyOff
    BY <1>1, <1>7, Zenon DEF Reset, ResetStart, Start, ResetFetch, ResetSave, ResetFail, Finish,
              ResetTotalTrafficUsage, stateVars
  <1>8. CASE EnvironmentStep
    BY <1>8, EnvironmentOnlyOff DEF EnvironmentStep
  <1>9. CASE Crash \/ UNCHANGED vars
    BY <1>1, <1>9, Zenon DEF Crash, vars, stateVars
  <1>10. QED
    BY <1>5, <1>6, <1>7, <1>8, <1>9 DEF Next, CalculatorNext

LEMMA PolicyInductive ==
    /\ Init => TypeInv /\ ChargeInv /\ PolicyInv
    /\ TypeInv /\ ChargeInv /\ PolicyInv /\ [Next]_vars => (TypeInv /\ ChargeInv /\ PolicyInv)'
  BY InitType, InitCharge, InitPolicy, NextType, NextCharge, NextPolicy

(* No alert is silenced that was not sent, whatever fails or crashes between *)
(* sending it and storing its flag.                                         *)
THEOREM FlagMeansAlertedHolds == Spec => []FlagMeansAlerted
  <1>1. PolicyInv => FlagMeansAlerted
    BY DEF PolicyInv
  <1>2. QED
    BY <1>1, PolicyInductive, PTL DEF Spec

(* Whatever fails, a row over its limit is marked disabled, and off at the   *)
(* router when the router does not fail.                                    *)
THEOREM OverLimitIsOffHolds == Spec => []OverLimitIsOff
  <1>1. PolicyInv => OverLimitIsOff
    BY DEF PolicyInv
  <1>2. QED
    BY <1>1, PolicyInductive, PTL DEF Spec

(* No job and no reset, in any order and with any copies, enables a peer    *)
(* again, in the table or at the router.                                    *)
THEOREM NeverReenablesHolds == Spec => NeverReenables
  <1> DEFINE Stays == \A p \in Peer :
                 /\ db[p] # NoRow /\ db[p].disabled => db'[p] # NoRow /\ db'[p].disabled
                 /\ router[p].wg = "off" => router'[p].wg = "off"
  <1>1. TypeInv /\ ChargeInv /\ PolicyInv /\ [Next]_vars => [Stays]_vars
    BY NextPolicy, NextOnlyOff DEF RowsStayOff, OnlyOff
  <1> HIDE DEF Stays
  <1>2. Spec => [][Stays]_vars
    BY <1>1, PolicyInductive, PTL DEF Spec
  <1>3. QED
    BY <1>2 DEF Stays, NeverReenables

-----------------------------------------------------------------------------
(* Alerts and totals, when no statement fails and the process does not      *)
(* stop: whatever the router and the notifier do.                           *)

(* A run that counts still has the flags of the table in its copies, and    *)
(* the total is ahead of the table by the bytes the run has yet to store.   *)
RunExact(self, table, tot, stored) ==
    /\ self.pc \in {"scan", "notify", "limit", "persist"} =>
         \A p \in Peer : self.rows[p] # NoRow => self.rows[p].notified = table[p].notified
    /\ tot = stored + (IF self.pc \in {"notify", "limit", "persist"} THEN self.delta ELSE 0)

(* The alert x of p is sent and its flag yet to be stored. *)
Unsaved(self, p, x) == self.pc \in {"limit", "persist"} /\ self.id = p /\ x \in self.sent

TotalKept == mu = NoThread => total = charged

ExactInv ==
    /\ \A p \in Peer : db[p] # NoRow
    /\ TotalKept
    /\ \A t \in Thread : thr[t].pc # "idle" => RunExact(thr[t], db, total, charged)
    /\ \A p \in Peer : \A x \in told[p] :
         x \in db[p].notified \/ \E t \in Thread : Unsaved(thr[t], p, x)

(* While t is in a run, or none is, only t can have an alert to store. *)
LEMMA OnlyMine ==
    ASSUME TypeInv, MutexHeld, ExactInv, NEW t \in Thread,
           thr[t].pc # "idle" \/ mu = NoThread
    PROVE  \A p \in Peer : \A x \in told[p] :
             x \in db[p].notified \/ Unsaved(thr[t], p, x)
  <1>1. \A u \in Thread : u # t => thr[u].pc = "idle"
    BY ThreadAssumption DEF MutexHeld, TypeInv, TypeOK
  <1>2. QED
    BY <1>1 DEF ExactInv, Unsaved

LEMMA ExactStep ==
    ASSUME TypeInv, ChargeInv, NEW t \in Thread, NEW self,
           thr' = [thr EXCEPT ![t] = self],
           thr[t].pc # "idle" \/ mu = NoThread,
           mu' = t \/ (mu' = mu /\ thr[t].pc # "idle") \/ self.pc = "idle",
           \A p \in Peer : db'[p] # NoRow,
           TotalKept',
           self.pc # "idle" => RunExact(self, db', total', charged'),
           \A p \in Peer : \A x \in told'[p] : x \in db'[p].notified \/ Unsaved(self, p, x)
    PROVE  ExactInv'
  <1>1. thr'[t] = self /\ \A u \in Thread : u # t => thr'[u].pc = "idle"
    BY MutexStep DEF ChargeInv
  <1>2. \A u \in Thread : thr'[u].pc # "idle" => RunExact(thr'[u], db', total', charged')
    BY <1>1
  <1>3. QED
    BY <1>1, <1>2 DEF ExactInv

(* Steps of a run that neither send nor store: the copies it keeps are      *)
(* still those of the table.                                                *)
LEMMA ExactKept ==
    ASSUME TypeInv, ChargeInv, ExactInv, NEW t \in Thread, NEW self,
           thr' = [thr EXCEPT ![t] = self],
           mu' = t \/ (mu' = mu /\ thr[t].pc # "idle") \/ (self.pc = "idle" /\ mu' = NoThread),
           \/ thr[t].pc # "idle" /\ thr[t].pc \notin {"notify", "limit", "persist"}
           \/ mu = NoThread,
           UNCHANGED <<total, charged, told>>,
           \A p \in Peer : db'[p] # NoRow /\ db'[p].notified = db[p].notified,
           self.pc \notin {"notify", "limit", "persist"},
           self.pc = "scan" => \A p \in Peer : self.rows[p] # NoRow =>
               \/ thr[t].pc = "scan" /\ self.rows[p] = thr[t].rows[p]
               \/ self.rows[p] = db[p]
    PROVE  ExactInv'
  <1>1. total = charged
    <2>1. CASE mu = NoThread
      BY <2>1 DEF ExactInv, TotalKept
    <2>2. CASE mu # NoThread
      <3>1. RunExact(thr[t], db, total, charged) /\ charged \in Nat
        BY <2>2 DEF ExactInv, TypeInv, TypeOK
      <3>2. QED
        BY <2>2, <3>1 DEF RunExact
    <2>3. QED
      BY <2>1, <2>2
  <1>2. thr[t].pc \notin {"notify", "limit", "persist"}
    BY ThreadAssumption DEF ChargeInv, MutexHeld
  <1>3. \A p \in Peer : \A x \in told'[p] : x \in db'[p].notified
    BY <1>2, OnlyMine DEF ChargeInv, Unsaved
  <1>4. self.pc # "idle" => RunExact(self, db', total', charged')
    <2>1. charged \in Nat
      BY DEF TypeInv, TypeOK
    <2>2. \A p \in Peer : self.pc = "scan" /\ self.rows[p] # NoRow =>
             self.rows[p].notified = db[p].notified
      BY DEF ExactInv, RunExact
    <2>3. QED
      BY <1>1, <2>1, <2>2 DEF RunExact
  <1>5. TotalKept'
    BY <1>1 DEF TotalKept
  <1>6. QED
    BY <1>3, <1>4, <1>5, ExactStep

LEMMA TrafficExact ==
    ASSUME TypeInv, ChargeInv, ExactInv, "db" \notin Faults, NEW t \in TrafficJob, Traffic(t)
    PROVE  ExactInv'
  <1> t \in Thread
    BY DEF Thread
  <1> thr[t] \in Local /\ StateTypeOK /\ MutexHeld
    BY DEF TypeInv, TypeOK, ChargeInv
  <1> \A p \in Peer : db[p] # NoRow
    BY DEF ExactInv
  <1>1. ASSUME thr[t].pc # "idle"
        PROVE  RunExact(thr[t], db, total, charged) /\ mu = t
    BY <1>1 DEF ExactInv, MutexHeld
  <1>2. ASSUME mu' = mu, thr[t].pc # "idle"
        PROVE  TotalKept'
    BY <1>1, <1>2, ThreadAssumption DEF TotalKept
  <1>3. CASE TrafficStart(t)
    <2> DEFINE self == [Idle EXCEPT !.pc = "scan", !.rows = db]
    <2>1. self.pc = "scan" /\ self.rows = db
      BY DEF Idle
    <2>2. /\ thr' = [thr EXCEPT ![t] = self] /\ mu = NoThread /\ mu' = t
          /\ UNCHANGED <<stateVars, total, charged>>
      BY <1>3 DEF TrafficStart, Start, Lock
    <2> HIDE DEF self
    <2>3. QED
      BY <2>1, <2>2, ExactKept DEF stateVars
  <1>4. ASSUME NEW p \in Peer, TrafficSkip(t, p)
        PROVE  ExactInv'
    <2> DEFINE self == Without(t, p, "scan")
    <2>1. /\ thr' = [thr EXCEPT ![t] = self] /\ thr[t].pc = "scan"
          /\ mu' = mu /\ UNCHANGED <<stateVars, total, charged>>
      BY <1>4 DEF TrafficSkip
    <2>2. self.pc = "scan" /\ \A q \in Peer : self.rows[q] # NoRow => self.rows[q] = thr[t].rows[q]
      BY WithoutFacts
    <2> HIDE DEF self
    <2>3. QED
      BY <2>1, <2>2, ExactKept DEF stateVars
  <1>5. ASSUME NEW p \in Peer, TrafficFetch(t, p)
        PROVE  ExactInv'
    <2> DEFINE row == thr[t].rows[p]
               delta == Deltas(row, router[p].ctr)
               sum == delta["down"] + delta["up"]
               read == [row EXCEPT !.usage = [d \in Dir |-> row.usage[d] + delta[d]],
                                   !.last = router[p].ctr]
               self == [thr[t] EXCEPT !.pc = "notify", !.id = p, !.delta = sum,
                            !.rows[p] = read, !.at[p] = fwd[p]]
    <2>1. /\ row # NoRow /\ row \in Row /\ thr[t].pc = "scan" /\ UNCHANGED <<stateVars, charged>>
          /\ mu' = mu /\ thr' = [thr EXCEPT ![t] = self] /\ total' = total + sum
      BY <1>5 DEF TrafficFetch, Local, accumulateTotal, MayFailDb
    <2>2. read.notified = row.notified
      BY <2>1 DEF Row
    <2>3. delta \in [Dir -> Nat]
      BY <2>1, DeltasType DEF StateTypeOK, RouterPeer
    <2>4. sum \in Nat
      BY <2>3 DEF Dir
    <2> HIDE DEF read, delta, sum, row
    <2>5. /\ self.pc = "notify" /\ self.rows[p] = read /\ self.delta = sum
          /\ \A q \in Peer : q # p => self.rows[q] = thr[t].rows[q]
      BY DEF Local
    <2> HIDE DEF self
    <2>6. total = charged /\ \A q \in Peer : thr[t].rows[q] # NoRow =>
             thr[t].rows[q].notified = db[q].notified
      BY <1>1, <2>1 DEF RunExact, TypeInv, TypeOK
    <2>7. RunExact(self, db', total', charged')
      <3>1. total' = charged' + self.delta
        BY <2>1, <2>5, <2>6
      <3>2. \A q \in Peer : self.rows[q] # NoRow => self.rows[q].notified = db'[q].notified
        BY <2>1, <2>2, <2>5, <2>6 DEF stateVars, row
      <3>3. QED
        BY <2>5, <3>1, <3>2 DEF RunExact
    <2>8. \A q \in Peer : \A x \in told'[q] : x \in db'[q].notified \/ Unsaved(self, q, x)
      BY <2>1, OnlyMine DEF Unsaved, stateVars
    <2>9. TotalKept'
      BY <1>2, <2>1
    <2>10. QED
      BY <2>1, <2>7, <2>8, <2>9, ExactStep DEF stateVars
  <1>6. CASE TrafficNotify(t)
    <2>1. PICK sent : /\ thr' = [thr EXCEPT ![t] = [thr[t] EXCEPT !.pc = "limit", !.sent = sent]]
                      /\ told' = [told EXCEPT ![thr[t].id] = @ \cup sent]
      BY <1>6, Zenon DEF TrafficNotify
    <2> DEFINE self == [thr[t] EXCEPT !.pc = "limit", !.sent = sent]
    <2>2. /\ self.pc = "limit" /\ self.rows = thr[t].rows /\ self.sent = sent
          /\ self.id = thr[t].id /\ self.delta = thr[t].delta
      BY DEF Local
    <2>3. /\ thr' = [thr EXCEPT ![t] = self] /\ thr[t].pc = "notify"
          /\ mu' = mu /\ UNCHANGED <<db, total, charged>>
      BY <1>6, <2>1 DEF TrafficNotify
    <2> HIDE DEF self
    <2>4. thr[t].id \in Peer
      BY <2>3 DEF TypeInv, AtPeer
    <2>5. RunExact(self, db', total', charged')
      BY <1>1, <2>2, <2>3 DEF RunExact
    <2>6. \A q \in Peer : \A x \in told'[q] : x \in db'[q].notified \/ Unsaved(self, q, x)
      <3>1. \A q \in Peer : \A x \in told[q] : x \in db[q].notified
        BY <2>3, OnlyMine DEF Unsaved
      <3>2. \A q \in Peer : told'[q] = IF q = thr[t].id THEN told[q] \cup sent ELSE told[q]
        BY <2>1, <2>4 DEF StateTypeOK
      <3>3. QED
        BY <2>2, <2>3, <3>1, <3>2 DEF Unsaved
    <2>7. TotalKept'
      BY <1>2, <2>3
    <2>8. QED
      BY <2>3, <2>5, <2>6, <2>7, ExactStep
  <1>7. CASE TrafficLimit(t)
    <2>1. PICK self :
            /\ thr' = [thr EXCEPT ![t] = self] /\ self.pc = "persist" /\ self.rows = thr[t].rows
            /\ self.sent = thr[t].sent /\ self.id = thr[t].id /\ self.delta = thr[t].delta
      <3> DEFINE kept == [thr[t] EXCEPT !.pc = "persist"]
                 over == [thr[t] EXCEPT !.pc = "persist", !.cut = TRUE]
      <3>1. \A self \in {kept, over} :
              /\ self.pc = "persist" /\ self.rows = thr[t].rows
              /\ self.sent = thr[t].sent /\ self.id = thr[t].id /\ self.delta = thr[t].delta
        BY DEF Local
      <3>2. thr' = [thr EXCEPT ![t] = kept] \/ thr' = [thr EXCEPT ![t] = over]
        BY <1>7 DEF TrafficLimit
      <3> HIDE DEF kept, over
      <3>3. QED
        BY <3>1, <3>2
    <2>2. thr[t].pc = "limit" /\ mu' = mu /\ UNCHANGED <<db, told, total, charged>>
      BY <1>7 DEF TrafficLimit, history
    <2>3. RunExact(self, db', total', charged')
      BY <1>1, <2>1, <2>2 DEF RunExact
    <2>4. \A q \in Peer : \A x \in told'[q] : x \in db'[q].notified \/ Unsaved(self, q, x)
      BY <2>1, <2>2, OnlyMine DEF Unsaved
    <2>5. TotalKept'
      BY <1>2, <2>2
    <2>6. QED
      BY <2>1, <2>2, <2>3, <2>4, <2>5, ExactStep
  <1>8. CASE TrafficPersist(t)
    <2> DEFINE p == thr[t].id
               self == Without(t, p, "scan")
    <2>1. /\ thr' = [thr EXCEPT ![t] = self] /\ thr[t].pc = "persist"
          /\ mu' = mu /\ UNCHANGED <<told, total>>
      BY <1>8 DEF TrafficPersist
    <2>2. p \in Peer /\ thr[t].rows[p] \in Row
      BY <2>1 DEF TypeInv, AtPeer, Local
    <2>3. self.pc = "scan" /\ \A q \in Peer : self.rows[q] # NoRow => self.rows[q] = thr[t].rows[q]
      BY <2>2, WithoutFacts
    <2>4. self.rows[p] = NoRow
      BY <2>2 DEF Without, Idle, Local
    <2> HIDE DEF self
    <2>5. db' = [db EXCEPT ![p] = Updated(@, thr[t])] /\ charged' = charged + thr[t].delta
      BY <1>8, <2>2 DEF TrafficPersist, MayFailDb
    <2>6. /\ db'[p] = Updated(db[p], thr[t]) /\ db[p] \in Row
          /\ \A q \in Peer : q # p => db'[q] = db[q]
      BY <2>2, <2>5 DEF StateTypeOK
    <2>7. db'[p] # NoRow /\ db'[p].notified = db[p].notified \cup thr[t].sent
      <3>1. Updated(db[p], thr[t]) \in Row
        BY <2>2, <2>6 DEF Updated, Row, Local
      <3>2. Updated(db[p], thr[t]).notified = db[p].notified \cup thr[t].sent
        BY <2>6 DEF Updated, Row
      <3>3. QED
        BY <2>6, <3>1, <3>2, StateAssumption
    <2>8. RunExact(self, db', total', charged')
      <3>1. total' = charged'
        BY <1>1, <2>1, <2>5 DEF RunExact
      <3>2. charged' \in Nat
        BY <2>5 DEF TypeInv, TypeOK, Local
      <3>3. \A q \in Peer : self.rows[q] # NoRow => self.rows[q].notified = db'[q].notified
        BY <1>1, <2>1, <2>3, <2>4, <2>6 DEF RunExact
      <3>4. \A n \in Nat : n + 0 = n
        OBVIOUS
      <3>5. QED
        BY <2>3, <3>1, <3>2, <3>3, <3>4, Zenon DEF RunExact
    <2>9. \A q \in Peer : \A x \in told'[q] : x \in db'[q].notified
      BY <2>1, <2>6, <2>7, OnlyMine DEF Unsaved
    <2>10. TotalKept'
      BY <1>2, <2>1
    <2>11. \A q \in Peer : db'[q] # NoRow
      BY <2>6, <2>7
    <2>12. QED
      BY <2>1, <2>8, <2>9, <2>10, <2>11, ExactStep
  <1>9. CASE Finish(t)
    <2>1. /\ thr' = [thr EXCEPT ![t] = Idle] /\ thr[t].pc \in {"scan", "expire", "save"}
          /\ mu' = NoThread /\ UNCHANGED <<stateVars, total, charged>>
      BY <1>9 DEF Finish, Unlock
    <2>2. Idle.pc = "idle"
      BY DEF Idle
    <2>3. QED
      BY <2>1, <2>2, ExactKept DEF stateVars
  <1>10. QED
    BY <1>3, <1>4, <1>5, <1>6, <1>7, <1>8, <1>9 DEF Traffic

LEMMA ExpireExact ==
    ASSUME TypeInv, ChargeInv, ExactInv, NEW t \in ExpireJob, Expire(t)
    PROVE  ExactInv'
  <1> t \in Thread
    BY DEF Thread
  <1> thr[t] \in Local /\ StateTypeOK
    BY DEF TypeInv, TypeOK
  <1> \A p \in Peer : db[p] # NoRow
    BY DEF ExactInv
  <1>1. CASE ExpireStart(t)
    <2> DEFINE self == [Idle EXCEPT !.pc = "expire", !.rows = peersDueForExpiry]
    <2>1. self.pc = "expire"
      BY DEF Idle
    <2>2. /\ thr' = [thr EXCEPT ![t] = self] /\ mu = NoThread /\ mu' = t
          /\ UNCHANGED <<stateVars, total, charged>>
      BY <1>1 DEF ExpireStart, Start, Lock
    <2> HIDE DEF self
    <2>3. QED
      BY <2>1, <2>2, ExactKept DEF stateVars
  <1>2. ASSUME NEW p \in Peer, ExpirePeer(t, p)
        PROVE  ExactInv'
    <2> DEFINE next == [thr[t] EXCEPT !.pc = IF thr[t].rows[p].queue THEN "queue" ELSE "mark",
                                      !.id = p]
    <2>1. PICK self : self \in {next, Without(t, p, "expire")} /\ thr' = [thr EXCEPT ![t] = self]
      BY <1>2, Zenon DEF ExpirePeer
    <2>2. self.pc \in {"expire", "queue", "mark"}
      <3>1. next.pc \in {"queue", "mark"}
        BY DEF Local
      <3>2. Without(t, p, "expire").pc = "expire"
        BY WithoutFacts
      <3> HIDE DEF next
      <3>3. QED
        BY <2>1, <3>1, <3>2
    <2>3. /\ thr[t].pc = "expire" /\ mu' = mu /\ UNCHANGED <<db, told, total, charged>>
      BY <1>2 DEF ExpirePeer, history
    <2> HIDE DEF next
    <2>4. QED
      BY <2>1, <2>2, <2>3, ExactKept
  <1>3. CASE ExpireQueue(t)
    <2> DEFINE self == [thr[t] EXCEPT !.pc = "mark"]
    <2>1. /\ thr' = [thr EXCEPT ![t] = self] /\ thr[t].pc = "queue" /\ self.pc = "mark"
          /\ mu' = mu /\ UNCHANGED <<db, told, total, charged>>
      BY <1>3 DEF ExpireQueue, history, Local
    <2> HIDE DEF self
    <2>2. QED
      BY <2>1, ExactKept
  <1>4. CASE ExpireMark(t)
    <2> DEFINE p == thr[t].id
               self == Without(t, p, "expire")
    <2>1. /\ thr' = [thr EXCEPT ![t] = self] /\ thr[t].pc = "mark"
          /\ mu' = mu /\ UNCHANGED <<told, total, charged>>
      BY <1>4 DEF ExpireMark, history
    <2>2. p \in Peer
      BY <2>1 DEF TypeInv, AtPeer
    <2>3. self.pc = "expire"
      BY <2>2, WithoutFacts
    <2>4. \A q \in Peer : db'[q] # NoRow /\ db'[q].notified = db[q].notified
      <3>1. CASE UNCHANGED db
        BY <3>1
      <3>2. CASE db' = [db EXCEPT ![p].disabled = TRUE]
        <4>1. db[p] \in Row /\ db'[p] = [db[p] EXCEPT !.disabled = TRUE]
          BY <2>2, <3>2 DEF StateTypeOK
        <4>2. db'[p].notified = db[p].notified /\ db'[p] \in Row
          BY <4>1 DEF Row
        <4>3. QED
          BY <2>2, <3>2, <4>2, StateAssumption DEF StateTypeOK
      <3>3. QED
        BY <1>4, <3>1, <3>2 DEF ExpireMark
    <2> HIDE DEF self
    <2>5. QED
      BY <2>1, <2>3, <2>4, ExactKept
  <1>5. CASE Finish(t)
    <2>1. /\ thr' = [thr EXCEPT ![t] = Idle] /\ thr[t].pc \in {"scan", "expire", "save"}
          /\ mu' = NoThread /\ UNCHANGED <<stateVars, total, charged>>
      BY <1>5 DEF Finish, Unlock
    <2>2. Idle.pc = "idle"
      BY DEF Idle
    <2>3. QED
      BY <2>1, <2>2, ExactKept DEF stateVars
  <1>6. QED
    BY <1>1, <1>2, <1>3, <1>4, <1>5 DEF Expire

LEMMA ResetExact ==
    ASSUME TypeInv, ChargeInv, PolicyInv, ExactInv, "db" \notin Faults,
           NEW t \in ResetCall, Reset(t)
    PROVE  ExactInv'
  <1> t \in Thread
    BY DEF Thread
  <1> thr[t] \in Local /\ StateTypeOK /\ MutexHeld
    BY DEF TypeInv, TypeOK, ChargeInv
  <1> \A p \in Peer : db[p] # NoRow
    BY DEF ExactInv
  <1>1. ASSUME NEW rows, Start(t, "fetch", rows)
        PROVE  ExactInv'
    <2> DEFINE self == [Idle EXCEPT !.pc = "fetch", !.rows = rows]
    <2>1. self.pc = "fetch"
      BY DEF Idle
    <2>2. /\ thr' = [thr EXCEPT ![t] = self] /\ mu = NoThread /\ mu' = t
          /\ UNCHANGED <<stateVars, total, charged>>
      BY <1>1 DEF Start, Lock
    <2> HIDE DEF self
    <2>3. QED
      BY <2>1, <2>2, ExactKept DEF stateVars
  <1>2. CASE ResetFetch(t)
    <2> DEFINE rows(found) == [p \in Peer |->
                  IF thr[t].rows[p] # NoRow /\ p \in found
                  THEN ResetRow(thr[t].rows[p], router[p].ctr) ELSE NoRow]
               at(found) == [p \in Peer |->
                  IF thr[t].rows[p] # NoRow /\ p \in found THEN fwd[p] ELSE Zero]
    <2>1. PICK found : thr' = [thr EXCEPT ![t] =
            [thr[t] EXCEPT !.pc = "save", !.rows = rows(found), !.at = at(found)]]
      BY <1>2, Zenon DEF ResetFetch
    <2> DEFINE self == [thr[t] EXCEPT !.pc = "save", !.rows = rows(found), !.at = at(found)]
    <2> HIDE DEF rows, at
    <2>2. self.pc = "save"
      BY DEF Local
    <2>3. /\ UNCHANGED stateVars /\ mu' = mu /\ thr[t].pc = "fetch"
          /\ UNCHANGED <<total, charged>>
      BY <1>2, Zenon DEF ResetFetch
    <2>4. thr' = [thr EXCEPT ![t] = self]
      BY <2>1
    <2> HIDE DEF self
    <2>5. QED
      BY <2>2, <2>3, <2>4, ExactKept DEF stateVars
  <1>3. ASSUME NEW p \in Peer, ResetSave(t, p)
        PROVE  ExactInv'
    <2> DEFINE self == [thr[t] EXCEPT !.rows[p] = NoRow, !.at[p] = Zero]
    <2>1. /\ thr' = [thr EXCEPT ![t] = self] /\ mu' = mu
          /\ thr[t].pc = "save" /\ thr[t].rows[p] # NoRow
          /\ db' = [db EXCEPT ![p] = thr[t].rows[p]]
          /\ told' = [told EXCEPT ![p] = {}]
          /\ UNCHANGED <<total, charged>>
      BY <1>3 DEF ResetSave
    <2>2. self.pc = "save"
      BY <2>1 DEF Local
    <2> HIDE DEF self
    <2>3. /\ db'[p] = thr[t].rows[p] /\ told'[p] = {}
          /\ \A q \in Peer : q # p => db'[q] = db[q] /\ told'[q] = told[q]
      BY <2>1 DEF StateTypeOK
    <2>4. \A q \in Peer : db'[q] # NoRow
      BY <2>1, <2>3
    <2>5. RunExact(thr[t], db, total, charged) /\ charged \in Nat
      BY <2>1 DEF ExactInv, TypeInv, TypeOK
    <2>6. total = charged
      BY <2>1, <2>5 DEF RunExact
    <2>7. RunExact(self, db', total', charged') /\ TotalKept'
      BY <2>1, <2>2, <2>5, <2>6 DEF RunExact, TotalKept
    <2>8. \A q \in Peer : \A x \in told'[q] : x \in db'[q].notified
      BY <2>1, <2>3, OnlyMine DEF Unsaved
    <2>9. QED
      BY <2>1, <2>4, <2>7, <2>8, ExactStep
  <1>4. CASE ResetFail(t)
    BY <1>4 DEF ResetFail, MayFailDb
  <1>5. CASE Finish(t)
    <2>1. /\ thr' = [thr EXCEPT ![t] = Idle] /\ thr[t].pc \in {"scan", "expire", "save"}
          /\ mu' = NoThread /\ UNCHANGED <<stateVars, total, charged>>
      BY <1>5 DEF Finish, Unlock
    <2>2. Idle.pc = "idle"
      BY DEF Idle
    <2>3. QED
      BY <2>1, <2>2, ExactKept DEF stateVars
  <1>6. CASE ResetTotalTrafficUsage(t)
    <2>1. mu = NoThread /\ total' = 0 /\ charged' = 0 /\ UNCHANGED <<db, told, mu, thr>>
      BY <1>6 DEF ResetTotalTrafficUsage, stateVars
    <2>2. \A u \in Thread : thr[u].pc = "idle"
      BY <2>1, ThreadAssumption DEF MutexHeld
    <2>3. QED
      BY <2>1, <2>2 DEF ExactInv, TotalKept, Unsaved
  <1>7. QED
    BY <1>1, <1>2, <1>3, <1>4, <1>5, <1>6 DEF Reset, ResetStart

LEMMA InitExact == Init => ExactInv
  <1> SUFFICES ASSUME Init PROVE ExactInv
    OBVIOUS
  <1>1. TypeInv
    BY InitType
  <1>2. \A p \in Peer : db[p] # NoRow
    <2>1. PICK l \in [Peer -> Limits], e \in [Peer -> Expiries] :
            db = [p \in Peer |-> FreshRow(l[p], e[p])]
      BY DEF Init, StateInit
    <2>2. \A p \in Peer : FreshRow(l[p], e[p]) \in Row
      BY StateAssumption, MaxCounterAssumption DEF FreshRow, Row, Zero, Counter
    <2>3. QED
      BY <2>1, <2>2, StateAssumption
  <1>3. QED
    BY <1>2 DEF Init, CalculatorInit, Idle, StateInit, HistoryInit, ExactInv, TotalKept

LEMMA NextExact ==
    ASSUME TypeInv, ChargeInv, PolicyInv, ExactInv, Faults \cap {"db", "crash"} = {}, [Next]_vars
    PROVE  ExactInv'
  <1>1. CASE Crash
    BY <1>1 DEF Crash
  <1>2. CASE EnvironmentStep
    <2>1. Environment /\ UNCHANGED <<mu, thr, total, charged>>
      BY <1>2 DEF EnvironmentStep
    <2>2. UNCHANGED <<db, told>>
      BY <2>1, Zenon DEF Environment, Forward, RestartCounters, Midnight, history
    <2>3. QED
      BY <2>1, <2>2, Zenon DEF ExactInv, TotalKept, RunExact, Unsaved
  <1>3. CASE UNCHANGED vars
    BY <1>3, Zenon DEF vars, stateVars, ExactInv, TotalKept, RunExact, Unsaved
  <1>4. QED
    BY <1>1, <1>2, <1>3, TrafficExact, ExpireExact, ResetExact DEF Next, CalculatorNext

LEMMA ExactInductive ==
    ASSUME Faults \cap {"db", "crash"} = {}
    PROVE  /\ Init => TypeInv /\ ChargeInv /\ PolicyInv /\ ExactInv
           /\ TypeInv /\ ChargeInv /\ PolicyInv /\ ExactInv /\ [Next]_vars
                => (TypeInv /\ ChargeInv /\ PolicyInv /\ ExactInv)'
  BY PolicyInductive, InitExact, NextExact

(* Unless a statement fails or the process stops, no threshold's alert goes *)
(* out twice between two resets, however many jobs overlap and whatever     *)
(* the router and the notifier fail at: the copy a run decides by has every *)
(* flag whose alert was sent.                                               *)
THEOREM AlertedOnceHolds ==
    ASSUME Faults \cap {"db", "crash"} = {}
    PROVE  Spec => []AlertedOnce
  <1>1. TypeInv /\ ChargeInv /\ ExactInv => AlertedOnce
    <2> SUFFICES ASSUME TypeInv, ChargeInv, ExactInv,
                        NEW t \in Thread, thr[t].pc = "notify",
                        NEW x \in DueAlerts(thr[t].rows[thr[t].id]), x \in told[thr[t].id]
                 PROVE  FALSE
      BY DEF AlertedOnce
    <2>1. thr[t].id \in Peer /\ thr[t].rows[thr[t].id] # NoRow
      BY DEF TypeInv, AtPeer
    <2>2. x \in db[thr[t].id].notified
      BY <2>1, OnlyMine DEF Unsaved, ChargeInv
    <2>3. thr[t].rows[thr[t].id].notified = db[thr[t].id].notified
      BY <2>1 DEF ExactInv, RunExact
    <2>4. x \notin thr[t].rows[thr[t].id].notified
      BY DEF DueAlerts
    <2>5. QED
      BY <2>2, <2>3, <2>4
  <1>2. QED
    BY <1>1, ExactInductive, PTL DEF Spec

(* Under the same assumptions total_usage is, whenever no run is under way, *)
(* exactly what the usage columns received.                                 *)
THEOREM TotalExactHolds ==
    ASSUME Faults \cap {"db", "crash"} = {}
    PROVE  Spec => []TotalExact
  <1>1. ExactInv => TotalExact
    BY DEF ExactInv, TotalKept, TotalExact
  <1>2. QED
    BY <1>1, ExactInductive, PTL DEF Spec
=============================================================================
