---------------------------- MODULE TrafficProofs ----------------------------
(***************************************************************************)
(* Proofs about the Calculator for every set of peers and threads, every   *)
(* counter width and every combination of faults.                          *)
(***************************************************************************)
EXTENDS TrafficProperties, TLAPS

-----------------------------------------------------------------------------
(* Facts about two readings of one counter, for every counter width. *)

(* Half of the counter's range is a number of bytes within the range. *)
LEMMA HalfRangeBounds == HalfRange \in Nat /\ HalfRange < MaxCounter
  BY MaxCounterAssumption, SMT DEF HalfRange

(* RestartSlop is a number of bytes. *)
LEMMA SlopIsNat == RestartSlop \in Nat /\ ExactWindow = RestartSlop + 1
  BY HalfRangeBounds, MaxCounterAssumption, SMT DEF RestartSlop, ExactWindow

(* calculateDelta never attributes a negative number of bytes. *)
LEMMA DeltaIsNat ==
    \A prev, c \in Counter : calculateDelta(prev, c) \in Nat
  BY MaxCounterAssumption, SMT DEF Counter, calculateDelta

(* A second reading at once attributes nothing. *)
LEMMA DeltaSame == \A c \in Counter : calculateDelta(c, c) = 0
  BY MaxCounterAssumption, SMT DEF Counter, calculateDelta

(* Forwarding bytes leaves a counter within its range. *)
LEMMA WrapIsCounter ==
    \A c \in Counter, n \in 0 .. MaxCounter : Wrap(c, n) \in Counter
  BY MaxCounterAssumption, SMT DEF Counter, Wrap

(* calculateDelta after n more bytes exceeds calculateDelta before them by *)
(* at most n, whatever it took the readings for.                           *)
LEMMA DeltaForward ==
    \A prev, c \in Counter, n \in 0 .. MaxCounter :
        calculateDelta(prev, Wrap(c, n)) <= calculateDelta(prev, c) + n
  <1> SUFFICES ASSUME NEW prev \in Counter, NEW c \in Counter,
                      NEW n \in 0 .. MaxCounter
               PROVE  calculateDelta(prev, Wrap(c, n)) <= calculateDelta(prev, c) + n
    OBVIOUS
  <1>1. prev \in Int /\ c \in Int /\ n \in Int /\ MaxCounter \in Int /\ HalfRange \in Int
    BY MaxCounterAssumption, HalfRangeBounds DEF Counter
  <1>2. 0 <= prev /\ prev < MaxCounter /\ 0 <= c /\ c < MaxCounter
        /\ 0 <= n /\ n <= MaxCounter
    BY MaxCounterAssumption DEF Counter
  <1>3. CASE c + n >= MaxCounter
    BY <1>1, <1>2, <1>3, SMT DEF Wrap, calculateDelta
  <1>4. CASE c + n < MaxCounter
    BY <1>1, <1>2, <1>4, SMT DEF Wrap, calculateDelta
  <1>5. QED
    BY <1>1, <1>3, <1>4

(* A restarted counter is overestimated by at most RestartSlop. *)
LEMMA DeltaRestart ==
    \A prev \in Counter : calculateDelta(prev, 0) <= RestartSlop
  BY MaxCounterAssumption, HalfRangeBounds, SMT DEF Counter, calculateDelta, RestartSlop

(* Ahead follows the counter as long as it does not lap the last reading. *)
LEMMA AheadForward ==
    \A prev, c \in Counter, u \in Nat, n \in 0 .. MaxCounter :
        Ahead(prev, c, u) /\ u + n < MaxCounter => Ahead(prev, Wrap(c, n), u + n)
  BY MaxCounterAssumption, SMT DEF Counter, Ahead, Wrap

(* Within ExactWindow, calculateDelta attributes exactly the bytes         *)
(* forwarded, whether the counter wrapped or not.                          *)
THEOREM AheadExact ==
    \A prev, c \in Counter, u \in Nat :
        Ahead(prev, c, u) /\ u < ExactWindow => calculateDelta(prev, c) = u
  BY MaxCounterAssumption, HalfRangeBounds, SMT DEF Counter, Ahead, calculateDelta, ExactWindow

-----------------------------------------------------------------------------
(* Type correctness. *)

(* The outcomes of a router call keep the router's entries well formed. *)
LEMMA RouterCallType ==
    ASSUME StateTypeOK, NEW p \in Peer, NEW possible \in BOOLEAN,
           NEW entry \in RouterPeer, NEW ok \in BOOLEAN,
           RouterCall(p, possible, entry, ok)
    PROVE  router' \in [Peer -> RouterPeer]
  BY DEF RouterCall, StateTypeOK

(* PATCH of a peer or of a queue does. *)
LEMMA PatchType ==
    ASSUME StateTypeOK, NEW p \in Peer, NEW s \in Switch, NEW ok \in BOOLEAN,
           PatchPeer(p, s, ok) \/ PatchQueue(p, s, ok)
    PROVE  router' \in [Peer -> RouterPeer]
  <1>1. router[p] \in RouterPeer
    BY DEF StateTypeOK
  <1>2. [router[p] EXCEPT !.wg = s] \in RouterPeer
    BY <1>1 DEF RouterPeer
  <1>3. [router[p] EXCEPT !.queue = s] \in RouterPeer
    BY <1>1 DEF RouterPeer
  <1>4. QED
    BY <1>2, <1>3, RouterCallType DEF PatchPeer, PatchQueue

(* The environment keeps the shared state well formed. *)
LEMMA EnvironmentType ==
    ASSUME StateTypeOK, Environment
    PROVE  StateTypeOK'
  <1>1. ASSUME NEW p \in Peer, NEW b \in Bursts, Forward(p, b)
        PROVE  StateTypeOK'
    <2>1. router[p] \in RouterPeer /\ b \in [Dir -> 0 .. MaxCounter]
      BY StateAssumption DEF StateTypeOK
    <2>2. [d \in Dir |-> Wrap(router[p].ctr[d], b[d])] \in [Dir -> Counter]
      BY <2>1, WrapIsCounter DEF RouterPeer
    <2>3. [router[p] EXCEPT !.ctr = [d \in Dir |-> Wrap(router[p].ctr[d], b[d])]]
            \in RouterPeer
      BY <2>1, <2>2 DEF RouterPeer
    <2>4. router' \in [Peer -> RouterPeer]
      BY <1>1, <2>3 DEF Forward, StateTypeOK
    <2>5. fwd' \in [Peer -> [Dir -> Nat]]
      BY <1>1, <2>1, MaxCounterAssumption DEF Forward, StateTypeOK
    <2>6. QED
      BY <1>1, <2>4, <2>5 DEF Forward, StateTypeOK
  <1>2. ASSUME NEW p \in Peer, RestartCounters(p)
        PROVE  StateTypeOK'
    <2>1. Zero \in [Dir -> Counter]
      BY MaxCounterAssumption DEF Zero, Counter
    <2>2. [router[p] EXCEPT !.ctr = Zero] \in RouterPeer
      BY <2>1 DEF RouterPeer, StateTypeOK
    <2>3. router' \in [Peer -> RouterPeer]
      BY <1>2, <2>2 DEF RestartCounters, StateTypeOK
    <2>4. slop' \in [Peer -> Nat]
      BY <1>2, SlopIsNat DEF RestartCounters, StateTypeOK
    <2>5. QED
      BY <1>2, <2>3, <2>4 DEF RestartCounters, StateTypeOK
  <1>3. ASSUME Midnight
        PROVE  StateTypeOK'
    <2>1. \A p \in Peer : [router[p] EXCEPT !.wg = "off", !.next = Never] \in RouterPeer
      BY DEF RouterPeer, StateTypeOK, Switch
    <2>2. PICK run : router' = [p \in Peer |->
                        IF p \in run /\ router[p].wg = "on"
                        THEN [router[p] EXCEPT !.wg = "off", !.next = Never]
                        ELSE router[p]]
      BY <1>3, Zenon DEF Midnight
    <2>3. \A p \in Peer : router[p] \in RouterPeer
      BY DEF StateTypeOK
    <2>4. router' \in [Peer -> RouterPeer]
      BY <2>1, <2>2, <2>3, Zenon
    <2>5. today' = today + 1 /\ UNCHANGED <<db, history>>
      BY <1>3, Zenon DEF Midnight
    <2>6. QED
      BY <2>4, <2>5 DEF StateTypeOK, history
  <1>4. QED
    BY <1>1, <1>2, <1>3 DEF Environment
(* The locals of a run between two peers, with fewer rows, and of no run. *)
LEMMA LocalTypes ==
    /\ Idle \in Local
    /\ \A pc \in {"idle", "scan", "expire", "fetch", "save"},
          rows \in [Peer -> Row \cup {NoRow}] :
          [Idle EXCEPT !.pc = pc, !.rows = rows] \in Local
  <1>1. NoRows \in [Peer -> Row \cup {NoRow}] /\ NoReads \in [Peer -> [Dir -> Nat]]
    BY DEF NoRows, NoReads, Zero
  <1>2. Idle \in Local
    BY <1>1 DEF Idle, Local
  <1>3. QED
    BY <1>1, <1>2 DEF Idle, Local

(* Type correctness is not inductive alone: a run that stores a row must   *)
(* hold one.                                                               *)
TypeInv == TypeOK /\ AtPeer

(* Starting and ending a run. *)
LEMMA StartType ==
    ASSUME TypeInv, NEW t \in Thread, NEW pc \in {"scan", "expire", "fetch"},
           NEW rows \in [Peer -> Row \cup {NoRow}], Start(t, pc, rows)
    PROVE  TypeInv'
  <1>1. [Idle EXCEPT !.pc = pc, !.rows = rows] \in Local
    BY LocalTypes
  <1>2. TypeOK'
    BY <1>1 DEF Start, Lock, TypeInv, TypeOK, StateTypeOK, stateVars
  <1>3. thr' = [thr EXCEPT ![t] = [Idle EXCEPT !.pc = pc, !.rows = rows]]
    BY DEF Start
  <1>4. [Idle EXCEPT !.pc = pc, !.rows = rows].pc = pc
    BY DEF Idle
  <1>5. AtPeer'
    BY <1>3, <1>4 DEF AtPeer, TypeInv, TypeOK
  <1>6. QED
    BY <1>2, <1>5 DEF TypeInv

LEMMA FinishType ==
    ASSUME TypeInv, NEW t \in Thread, Finish(t)
    PROVE  TypeInv'
  <1>1. TypeOK'
    BY LocalTypes DEF Finish, Unlock, TypeInv, TypeOK, StateTypeOK, stateVars
  <1>2. AtPeer'
    BY DEF Finish, AtPeer, TypeInv, TypeOK, Idle
  <1>3. QED
    BY <1>1, <1>2 DEF TypeInv

(* Dropping a row from the copy. *)
LEMMA WithoutType ==
    ASSUME TypeInv, NEW t \in Thread, NEW p \in Peer, NEW pc \in {"scan", "expire"}
    PROVE  Without(t, p, pc) \in Local /\ Without(t, p, pc).pc = pc
  <1>1. [thr[t].rows EXCEPT ![p] = NoRow] \in [Peer -> Row \cup {NoRow}]
    BY DEF TypeInv, TypeOK, Local
  <1>2. QED
    BY <1>1, LocalTypes DEF Without, Idle

(* A step that replaces the locals of one thread keeps AtPeer when the new *)
(* locals satisfy it.                                                      *)
LEMMA AtPeerStep ==
    ASSUME TypeInv, NEW t \in Thread, NEW self \in Local,
           thr' = [thr EXCEPT ![t] = self],
           self.pc \in {"notify", "limit", "persist", "queue", "mark"} =>
               self.id \in Peer /\ self.rows[self.id] # NoRow
    PROVE  AtPeer' /\ thr' \in [Thread -> Local]
  BY DEF AtPeer, TypeInv, TypeOK

(* The deltas of a row are numbers of bytes. *)
LEMMA DeltasType ==
    ASSUME NEW row \in Row, NEW ctr \in [Dir -> Counter]
    PROVE  Deltas(row, ctr) \in [Dir -> Nat]
  BY DeltaIsNat DEF Deltas, Row

(* The job's copy of a row after a reading. *)
LEMMA ReadRowType ==
    ASSUME NEW row \in Row, NEW ctr \in [Dir -> Counter], NEW delta \in [Dir -> Nat]
    PROVE  [row EXCEPT !.usage = [d \in Dir |-> row.usage[d] + delta[d]], !.last = ctr] \in Row
  <1>1. [d \in Dir |-> row.usage[d] + delta[d]] \in [Dir -> Nat]
    BY DEF Row
  <1>2. QED
    BY <1>1 DEF Row

LEMMA TrafficType ==
    ASSUME TypeInv, NEW t \in TrafficJob, Traffic(t)
    PROVE  TypeInv'
  <1> t \in Thread
    BY DEF Thread
  <1> thr[t] \in Local /\ StateTypeOK
    BY DEF TypeInv, TypeOK
  <1>1. CASE TrafficStart(t)
    BY <1>1, StartType DEF TrafficStart, StateTypeOK
  <1>2. ASSUME NEW p \in Peer, TrafficSkip(t, p)
        PROVE  TypeInv'
    <2>1. AtPeer' /\ thr' \in [Thread -> Local]
      BY <1>2, WithoutType, AtPeerStep DEF TrafficSkip
    <2>2. QED
      BY <1>2, <2>1 DEF TrafficSkip, TypeInv, TypeOK, StateTypeOK, stateVars
  <1>3. ASSUME NEW p \in Peer, TrafficFetch(t, p)
        PROVE  TypeInv'
    <2> DEFINE row == thr[t].rows[p]
               delta == Deltas(row, router[p].ctr)
               read == [row EXCEPT !.usage = [d \in Dir |-> row.usage[d] + delta[d]],
                                   !.last = router[p].ctr]
               self == [thr[t] EXCEPT !.pc = "notify", !.id = p,
                            !.delta = delta["down"] + delta["up"],
                            !.rows[p] = read, !.at[p] = fwd[p]]
    <2>1. row \in Row /\ router[p].ctr \in [Dir -> Counter] /\ fwd[p] \in [Dir -> Nat]
      BY <1>3 DEF TrafficFetch, StateTypeOK, Local, RouterPeer
    <2>2. delta \in [Dir -> Nat]
      BY <2>1, DeltasType
    <2>3. read \in Row /\ read # NoRow
      <3>1. read \in Row
        BY <2>1, <2>2, ReadRowType
      <3>2. QED
        BY <3>1, StateAssumption
    <2>4. delta["down"] + delta["up"] \in Nat
      BY <2>2 DEF Dir
    <2> HIDE DEF delta, read, row
    <2>5. self \in Local /\ self.id = p /\ self.rows[p] = read
      BY <2>1, <2>3, <2>4 DEF Local
    <2>6. thr' = [thr EXCEPT ![t] = self]
      BY <1>3 DEF TrafficFetch, row, delta, read
    <2>7. AtPeer' /\ thr' \in [Thread -> Local]
      BY <2>3, <2>5, <2>6, AtPeerStep
    <2>8. total' \in Nat
      BY <1>3, <2>4 DEF TrafficFetch, accumulateTotal, TypeInv, TypeOK, row, delta
    <2>9. QED
      BY <1>3, <2>7, <2>8 DEF TrafficFetch, TypeInv, TypeOK, StateTypeOK, stateVars
  <1>4. CASE TrafficNotify(t)
    <2>1. PICK sent \in SUBSET Thresholds :
            /\ thr' = [thr EXCEPT ![t] = [thr[t] EXCEPT !.pc = "limit", !.sent = sent]]
            /\ told' = [told EXCEPT ![thr[t].id] = @ \cup sent]
      BY <1>4 DEF TrafficNotify, DueAlerts
    <2>2. [thr[t] EXCEPT !.pc = "limit", !.sent = sent] \in Local
      BY DEF Local
    <2>3. thr[t].id \in Peer /\ thr[t].rows[thr[t].id] # NoRow
      BY <1>4 DEF TrafficNotify, TypeInv, AtPeer
    <2>4. AtPeer' /\ thr' \in [Thread -> Local]
      BY <2>1, <2>2, <2>3, AtPeerStep DEF Local
    <2>5. told' \in [Peer -> SUBSET Thresholds]
      BY <2>1 DEF StateTypeOK
    <2>6. QED
      BY <1>4, <2>4, <2>5 DEF TrafficNotify, TypeInv, TypeOK, StateTypeOK
  <1>5. CASE TrafficLimit(t)
    <2>1. thr[t].id \in Peer /\ thr[t].rows[thr[t].id] # NoRow
      BY <1>5 DEF TrafficLimit, TypeInv, AtPeer
    <2>2. PICK cut \in BOOLEAN :
            thr' = [thr EXCEPT ![t] = [thr[t] EXCEPT !.pc = "persist", !.cut = cut]]
      <3>1. thr[t].cut \in BOOLEAN
        BY DEF Local
      <3>2. [thr[t] EXCEPT !.pc = "persist"]
              = [thr[t] EXCEPT !.pc = "persist", !.cut = thr[t].cut]
        BY DEF Local
      <3>3. QED
        BY <1>5, <3>1, <3>2 DEF TrafficLimit
    <2>3. [thr[t] EXCEPT !.pc = "persist", !.cut = cut] \in Local
      BY DEF Local
    <2>4. AtPeer' /\ thr' \in [Thread -> Local]
      BY <2>1, <2>2, <2>3, AtPeerStep DEF Local
    <2>5. router' \in [Peer -> RouterPeer]
      BY <1>5, <2>1, PatchType DEF TrafficLimit, Switch, StateTypeOK
    <2>6. QED
      BY <1>5, <2>4, <2>5 DEF TrafficLimit, TypeInv, TypeOK, StateTypeOK, history
  <1>6. CASE TrafficPersist(t)
    <2> DEFINE p == thr[t].id
    <2>1. p \in Peer /\ thr[t].rows[p] \in Row
      BY <1>6 DEF TrafficPersist, TypeInv, AtPeer, Local
    <2>2. db[p] # NoRow => Updated(db[p], thr[t]) \in Row
      BY <2>1 DEF Updated, Row, Local, StateTypeOK
    <2>3. thr[t].at[p] \in [Dir -> Nat] /\ thr[t].delta \in Nat
      BY <2>1 DEF Local
    <2>4. AtPeer' /\ thr' \in [Thread -> Local]
      BY <1>6, <2>1, WithoutType, AtPeerStep DEF TrafficPersist
    <2>5. db' \in [Peer -> Row \cup {NoRow}]
      BY <1>6, <2>2 DEF TrafficPersist, StateTypeOK
    <2>6. seen' \in [Peer -> [Dir -> Nat]]
      BY <1>6, <2>3 DEF TrafficPersist, StateTypeOK
    <2>7. charged' \in Nat
      BY <1>6, <2>3 DEF TrafficPersist, TypeInv, TypeOK
    <2>8. QED
      BY <1>6, <2>4, <2>5, <2>6, <2>7 DEF TrafficPersist, TypeInv, TypeOK, StateTypeOK
  <1>7. CASE Finish(t)
    BY <1>7, FinishType
  <1>8. QED
    BY <1>1, <1>2, <1>3, <1>4, <1>5, <1>6, <1>7 DEF Traffic

LEMMA ExpireType ==
    ASSUME TypeInv, NEW t \in ExpireJob, Expire(t)
    PROVE  TypeInv'
  <1> t \in Thread
    BY DEF Thread
  <1> thr[t] \in Local /\ StateTypeOK
    BY DEF TypeInv, TypeOK
  <1>1. CASE ExpireStart(t)
    <2>1. peersDueForExpiry \in [Peer -> Row \cup {NoRow}]
      BY DEF peersDueForExpiry, StateTypeOK
    <2>2. QED
      BY <1>1, <2>1, StartType DEF ExpireStart
  <1>2. ASSUME NEW p \in Peer, ExpirePeer(t, p)
        PROVE  TypeInv'
    <2> DEFINE row == thr[t].rows[p]
               next == [thr[t] EXCEPT !.pc = IF row.queue THEN "queue" ELSE "mark", !.id = p]
    <2>1. PICK ok \in BOOLEAN :
            /\ PatchPeer(p, "off", ok)
            /\ thr' = [thr EXCEPT ![t] = IF ok THEN next ELSE Without(t, p, "expire")]
      BY <1>2 DEF ExpirePeer
    <2>2. row # NoRow
      BY <1>2 DEF ExpirePeer
    <2>3. next \in Local /\ next.id = p /\ next.rows[p] = row
      BY DEF Local
    <2> HIDE DEF next, row
    <2>4. AtPeer' /\ thr' \in [Thread -> Local]
      <3>1. CASE ok
        BY <3>1, <2>1, <2>2, <2>3, AtPeerStep
      <3>2. CASE ~ok
        BY <3>2, <2>1, WithoutType, AtPeerStep
      <3>3. QED
        BY <3>1, <3>2
    <2>5. router' \in [Peer -> RouterPeer]
      BY <2>1, PatchType DEF Switch
    <2>6. QED
      BY <1>2, <2>4, <2>5 DEF ExpirePeer, TypeInv, TypeOK, StateTypeOK, history
  <1>3. CASE ExpireQueue(t)
    <2>1. thr[t].id \in Peer /\ thr[t].rows[thr[t].id] # NoRow
      BY <1>3 DEF ExpireQueue, TypeInv, AtPeer
    <2>2. [thr[t] EXCEPT !.pc = "mark"] \in Local
      BY DEF Local
    <2>3. thr' = [thr EXCEPT ![t] = [thr[t] EXCEPT !.pc = "mark"]]
      BY <1>3 DEF ExpireQueue
    <2>4. AtPeer' /\ thr' \in [Thread -> Local]
      BY <2>1, <2>2, <2>3, AtPeerStep DEF Local
    <2>5. router' \in [Peer -> RouterPeer]
      BY <1>3, <2>1, PatchType DEF ExpireQueue, Switch
    <2>6. QED
      BY <1>3, <2>4, <2>5 DEF ExpireQueue, TypeInv, TypeOK, StateTypeOK, history
  <1>4. CASE ExpireMark(t)
    <2> DEFINE p == thr[t].id
    <2>1. p \in Peer
      BY <1>4 DEF ExpireMark, TypeInv, AtPeer
    <2>2. db[p] # NoRow => [db[p] EXCEPT !.disabled = TRUE] \in Row
      BY <2>1 DEF Row, StateTypeOK
    <2>3. db' \in [Peer -> Row \cup {NoRow}]
      BY <1>4, <2>1, <2>2 DEF ExpireMark, StateTypeOK
    <2>4. AtPeer' /\ thr' \in [Thread -> Local]
      BY <1>4, <2>1, WithoutType, AtPeerStep DEF ExpireMark
    <2>5. QED
      BY <1>4, <2>3, <2>4 DEF ExpireMark, TypeInv, TypeOK, StateTypeOK, history
  <1>5. CASE Finish(t)
    BY <1>5, FinishType
  <1>6. QED
    BY <1>1, <1>2, <1>3, <1>4, <1>5 DEF Expire

LEMMA ResetType ==
    ASSUME TypeInv, NEW t \in ResetCall, Reset(t)
    PROVE  TypeInv'
  <1> t \in Thread
    BY DEF Thread
  <1> thr[t] \in Local /\ StateTypeOK
    BY DEF TypeInv, TypeOK
  <1>1. ASSUME NEW scope \in SUBSET Peer, ResetStart(t, scope)
        PROVE  TypeInv'
    <2>1. [p \in Peer |-> IF p \in scope THEN db[p] ELSE NoRow]
            \in [Peer -> Row \cup {NoRow}]
      BY DEF StateTypeOK
    <2>2. QED
      BY <1>1, <2>1, StartType DEF ResetStart
  <1>2. CASE ResetFetch(t)
    <2> DEFINE rows(found) == [p \in Peer |->
                  IF thr[t].rows[p] # NoRow /\ p \in found
                  THEN ResetRow(thr[t].rows[p], router[p].ctr) ELSE NoRow]
               at(found) == [p \in Peer |->
                  IF thr[t].rows[p] # NoRow /\ p \in found THEN fwd[p] ELSE Zero]
    <2>1. PICK found : thr' = [thr EXCEPT ![t] =
            [thr[t] EXCEPT !.pc = "save", !.rows = rows(found), !.at = at(found)]]
      BY <1>2 DEF ResetFetch
    <2>2. \A p \in Peer : thr[t].rows[p] # NoRow =>
             ResetRow(thr[t].rows[p], router[p].ctr) \in Row
      <3> SUFFICES ASSUME NEW p \in Peer, thr[t].rows[p] # NoRow
                   PROVE  ResetRow(thr[t].rows[p], router[p].ctr) \in Row
        OBVIOUS
      <3>1. thr[t].rows[p] \in Row /\ router[p].ctr \in [Dir -> Counter]
        BY DEF Local, StateTypeOK, RouterPeer
      <3>2. Zero \in [Dir -> Nat]
        BY DEF Zero
      <3>3. QED
        BY <3>1, <3>2 DEF ResetRow, Row
    <2>3. rows(found) \in [Peer -> Row \cup {NoRow}]
      BY <2>2
    <2>4. at(found) \in [Peer -> [Dir -> Nat]]
      BY DEF Zero, StateTypeOK
    <2> HIDE DEF rows, at
    <2>5. [thr[t] EXCEPT !.pc = "save", !.rows = rows(found), !.at = at(found)] \in Local
      BY <2>3, <2>4 DEF Local
    <2>6. AtPeer' /\ thr' \in [Thread -> Local]
      BY <2>1, <2>5, AtPeerStep DEF Local
    <2>7. UNCHANGED <<stateVars, mu, total, charged>>
      BY <1>2, Zenon DEF ResetFetch
    <2>8. QED
      BY <2>6, <2>7 DEF TypeInv, TypeOK, StateTypeOK, stateVars
  <1>3. ASSUME NEW p \in Peer, ResetSave(t, p)
        PROVE  TypeInv'
    <2>1. thr[t].rows[p] \in Row /\ thr[t].at[p] \in [Dir -> Nat]
      BY <1>3 DEF ResetSave, Local
    <2>2. [thr[t] EXCEPT !.rows[p] = NoRow, !.at[p] = Zero] \in Local
      BY DEF Local, Zero
    <2>3. thr' = [thr EXCEPT ![t] = [thr[t] EXCEPT !.rows[p] = NoRow, !.at[p] = Zero]]
          /\ thr[t].pc = "save"
      BY <1>3 DEF ResetSave
    <2>4. AtPeer' /\ thr' \in [Thread -> Local]
      BY <2>2, <2>3, AtPeerStep DEF Local
    <2>5. /\ db' \in [Peer -> Row \cup {NoRow}]
          /\ base' \in [Peer -> [Dir -> Nat]]
          /\ seen' \in [Peer -> [Dir -> Nat]]
          /\ told' \in [Peer -> SUBSET Thresholds]
      BY <1>3, <2>1 DEF ResetSave, StateTypeOK
    <2>6. QED
      BY <1>3, <2>4, <2>5 DEF ResetSave, TypeInv, TypeOK, StateTypeOK
  <1>4. CASE ResetFail(t)
    <2>1. [Idle EXCEPT !.pc = "save"] \in Local /\ [Idle EXCEPT !.pc = "save"].pc = "save"
      BY LocalTypes DEF Idle, Local
    <2>2. AtPeer' /\ thr' \in [Thread -> Local]
      BY <1>4, <2>1, AtPeerStep DEF ResetFail
    <2>3. QED
      BY <1>4, <2>2 DEF ResetFail, TypeInv, TypeOK, StateTypeOK, stateVars
  <1>5. CASE Finish(t)
    BY <1>5, FinishType
  <1>6. CASE ResetTotalTrafficUsage(t)
    BY <1>6 DEF ResetTotalTrafficUsage, TypeInv, TypeOK, StateTypeOK, AtPeer, stateVars
  <1>7. QED
    BY <1>1, <1>2, <1>3, <1>4, <1>5, <1>6 DEF Reset

LEMMA InitType == Init => TypeInv
  <1> SUFFICES ASSUME Init PROVE TypeInv
    OBVIOUS
  <1>1. Zero \in [Dir -> Nat] /\ Zero \in [Dir -> Counter]
    BY MaxCounterAssumption DEF Zero, Counter
  <1>2. \A l \in Limits, e \in Expiries : FreshRow(l, e) \in Row
    BY <1>1, StateAssumption DEF FreshRow, Row
  <1>3. \A e \in Expiries, s \in Switch : FreshRouterPeer(e, s) \in RouterPeer
    BY <1>1, StateAssumption DEF FreshRouterPeer, RouterPeer, Switch
  <1>4. db \in [Peer -> Row \cup {NoRow}] /\ router \in [Peer -> RouterPeer]
    BY <1>2, <1>3 DEF Init, CalculatorInit, StateInit
  <1>5. StateTypeOK
    BY <1>1, <1>4 DEF Init, CalculatorInit, StateInit, HistoryInit, StateTypeOK
  <1>6. thr \in [Thread -> Local] /\ \A t \in Thread : thr[t].pc = "idle"
    BY LocalTypes DEF Init, CalculatorInit, Idle
  <1>7. QED
    BY <1>5, <1>6 DEF Init, CalculatorInit, TypeInv, TypeOK, AtPeer

LEMMA NextType == TypeInv /\ [Next]_vars => TypeInv'
  <1> SUFFICES ASSUME TypeInv, [Next]_vars PROVE TypeInv'
    OBVIOUS
  <1>1. CASE Crash
    <2>1. thr' \in [Thread -> Local] /\ \A t \in Thread : thr'[t].pc = "idle"
      BY <1>1, LocalTypes DEF Crash, Idle
    <2>2. QED
      BY <1>1, <2>1 DEF Crash, TypeInv, TypeOK, StateTypeOK, AtPeer, stateVars
  <1>2. CASE EnvironmentStep
    <2>1. StateTypeOK'
      BY <1>2, EnvironmentType DEF EnvironmentStep, TypeInv, TypeOK
    <2>2. QED
      BY <1>2, <2>1 DEF EnvironmentStep, TypeInv, TypeOK, AtPeer
  <1>3. CASE UNCHANGED vars
    BY <1>3 DEF vars, stateVars, TypeInv, TypeOK, StateTypeOK, AtPeer
  <1>4. QED
    BY <1>1, <1>2, <1>3, TrafficType, ExpireType, ResetType DEF Next, CalculatorNext

(* Every table row, router entry, counter and thread of the Calculator     *)
(* keeps its type; in particular usage never becomes negative.             *)
THEOREM TypeCorrect == Spec => []TypeOK
  <1>1. TypeInv => TypeOK
    BY DEF TypeInv
  <1>2. QED
    BY <1>1, InitType, NextType, PTL DEF Spec

-----------------------------------------------------------------------------
(* Nothing is charged that was not forwarded. *)

(* Only usage and last of a row matter to Covered. *)
LEMMA CoveredSame ==
    ASSUME NEW r1, NEW r2, NEW ctr, NEW f, NEW from, NEW s,
           r1.usage = r2.usage, r1.last = r2.last,
           Covered(r1, ctr, f, from, s)
    PROVE  Covered(r2, ctr, f, from, s)
  BY DEF Covered

(* What the environment does keeps every row covered: forwarding adds as   *)
(* much to the bytes as to the next delta, a restart at most RestartSlop.  *)
LEMMA EnvironmentCovers ==
    ASSUME StateTypeOK, Environment, NEW p \in Peer
    PROVE  \A row \in Row, from \in [Dir -> Nat] :
             Covered(row, router[p].ctr, fwd[p], from, slop[p])
               => Covered(row, router'[p].ctr, fwd'[p], from, slop'[p])
  <1> SUFFICES ASSUME NEW row \in Row, NEW from \in [Dir -> Nat],
                      Covered(row, router[p].ctr, fwd[p], from, slop[p]), NEW d \in Dir
               PROVE  row.usage[d] + calculateDelta(row.last[d], router'[p].ctr[d])
                        <= fwd'[p][d] - from[d] + slop'[p]
    BY DEF Covered
  <1>1. /\ row.usage[d] \in Nat /\ row.last[d] \in Counter
        /\ router[p] \in RouterPeer /\ router[p].ctr[d] \in Counter
        /\ fwd[p][d] \in Nat /\ slop[p] \in Nat /\ from[d] \in Nat
    BY DEF StateTypeOK, Row, RouterPeer
  <1>2. row.usage[d] + calculateDelta(row.last[d], router[p].ctr[d])
          <= fwd[p][d] - from[d] + slop[p]
    BY DEF Covered
  <1>3. calculateDelta(row.last[d], router[p].ctr[d]) \in Nat
    BY <1>1, DeltaIsNat
  <1>4. ASSUME NEW q \in Peer, NEW b \in Bursts, Forward(q, b)
        PROVE  row.usage[d] + calculateDelta(row.last[d], router'[p].ctr[d])
                 <= fwd'[p][d] - from[d] + slop'[p]
    <2>1. CASE p # q
      <3>1. router'[p] = router[p] /\ fwd'[p] = fwd[p] /\ slop'[p] = slop[p]
        BY <1>4, <2>1 DEF Forward, StateTypeOK
      <3>2. QED
        BY <3>1, <1>2
    <2>2. CASE p = q
      <3>1. b[d] \in 0 .. MaxCounter
        BY StateAssumption
      <3>2. /\ router'[p].ctr[d] = Wrap(router[p].ctr[d], b[d])
            /\ fwd'[p][d] = fwd[p][d] + b[d] /\ slop'[p] = slop[p]
        BY <1>1, <1>4, <2>2 DEF Forward, StateTypeOK, RouterPeer
      <3>3. Wrap(router[p].ctr[d], b[d]) \in Counter
        BY <1>1, <3>1, WrapIsCounter
      <3>4. calculateDelta(row.last[d], router'[p].ctr[d]) \in Nat
        BY <1>1, <3>2, <3>3, DeltaIsNat
      <3>5. calculateDelta(row.last[d], router'[p].ctr[d])
              <= calculateDelta(row.last[d], router[p].ctr[d]) + b[d]
        BY <1>1, <3>1, <3>2, DeltaForward
      <3>6. b[d] \in Nat
        BY <3>1, MaxCounterAssumption
      <3>7. QED
        BY <1>1, <1>2, <1>3, <3>2, <3>4, <3>5, <3>6, SMT
    <2>3. QED
      BY <2>1, <2>2
  <1>5. ASSUME NEW q \in Peer, RestartCounters(q)
        PROVE  row.usage[d] + calculateDelta(row.last[d], router'[p].ctr[d])
                 <= fwd'[p][d] - from[d] + slop'[p]
    <2>1. CASE p # q
      <3>1. router'[p] = router[p] /\ fwd'[p] = fwd[p] /\ slop'[p] = slop[p]
        BY <1>5, <2>1 DEF RestartCounters, StateTypeOK
      <3>2. QED
        BY <3>1, <1>2
    <2>2. CASE p = q
      <3>1. /\ router'[p].ctr[d] = 0
            /\ fwd'[p][d] = fwd[p][d] /\ slop'[p] = slop[p] + RestartSlop
        BY <1>1, <1>5, <2>2 DEF RestartCounters, StateTypeOK, RouterPeer, Zero
      <3>2. calculateDelta(row.last[d], 0) <= RestartSlop
        BY <1>1, DeltaRestart
      <3>3. 0 \in Counter
        BY MaxCounterAssumption DEF Counter
      <3>4. calculateDelta(row.last[d], 0) \in Nat
        BY <1>1, <3>3, DeltaIsNat
      <3>5. QED
        BY <1>1, <1>2, <1>3, <3>1, <3>2, <3>4, SlopIsNat, SMT
    <2>3. QED
      BY <2>1, <2>2
  <1>6. CASE Midnight
    <2>1. PICK run : router' = [q \in Peer |->
                        IF q \in run /\ router[q].wg = "on"
                        THEN [router[q] EXCEPT !.wg = "off", !.next = Never]
                        ELSE router[q]]
      BY <1>6, Zenon DEF Midnight
    <2>2. UNCHANGED history
      BY <1>6, Zenon DEF Midnight
    <2>3. router'[p].ctr = router[p].ctr
      BY <1>1, <2>1 DEF RouterPeer
    <2>4. QED
      BY <1>2, <2>2, <2>3 DEF history
  <1>7. QED
    BY <1>4, <1>5, <1>6 DEF Environment

(* A router call made by the panel leaves the counters alone. *)
LEMMA PatchKeepsCounters ==
    ASSUME StateTypeOK, NEW q \in Peer, NEW s \in Switch, NEW ok \in BOOLEAN,
           PatchPeer(q, s, ok) \/ PatchQueue(q, s, ok)
    PROVE  \A p \in Peer : router'[p].ctr = router[p].ctr
  <1>1. [router[q] EXCEPT !.wg = s].ctr = router[q].ctr
    BY DEF StateTypeOK, RouterPeer
  <1>2. [router[q] EXCEPT !.queue = s].ctr = router[q].ctr
    BY DEF StateTypeOK, RouterPeer
  <1>3. PICK entry : /\ entry.ctr = router[q].ctr
                     /\ router' = router \/ router' = [router EXCEPT ![q] = entry]
    BY <1>1, <1>2 DEF PatchPeer, PatchQueue, RouterCall
  <1>4. QED
    BY <1>3 DEF StateTypeOK

(* A step of a thread inside a run, or one that starts a run, leaves every *)
(* other thread idle.                                                      *)
LEMMA MutexStep ==
    ASSUME TypeInv, MutexHeld, NEW t \in Thread, NEW self,
           thr' = [thr EXCEPT ![t] = self],
           thr[t].pc # "idle" \/ mu = NoThread,
           mu' = t \/ (mu' = mu /\ thr[t].pc # "idle") \/ self.pc = "idle"
    PROVE  /\ MutexHeld'
           /\ thr'[t] = self
           /\ \A u \in Thread : u # t => thr'[u].pc = "idle"
  <1>1. mu = t \/ mu = NoThread
    BY DEF MutexHeld
  <1>2. \A u \in Thread : u # t => thr'[u] = thr[u] /\ thr[u].pc = "idle"
    BY <1>1, ThreadAssumption DEF MutexHeld, TypeInv, TypeOK
  <1>3. thr'[t] = self
    BY DEF TypeInv, TypeOK
  <1>4. QED
    BY <1>2, <1>3 DEF MutexHeld

(* The part of CopiesCovered about one run. *)
RunCovered(self, R, f, b, s) ==
    \A p \in Peer : self.rows[p] # NoRow =>
        /\ self.pc \in {"scan", "notify", "limit", "persist", "fetch"} =>
             Covered(self.rows[p], R[p].ctr, f[p], b[p], s[p])
        /\ self.pc = "save" =>
             Covered(self.rows[p], R[p].ctr, f[p], self.at[p], s[p])

(* A step of a thread keeps ChargeInv when the table and the locals it     *)
(* leaves behind are covered.                                              *)
LEMMA ChargeStep ==
    ASSUME TypeInv, TypeInv', ChargeInv, NEW t \in Thread, NEW self,
           thr' = [thr EXCEPT ![t] = self],
           thr[t].pc # "idle" \/ mu = NoThread,
           mu' = t \/ (mu' = mu /\ thr[t].pc # "idle") \/ self.pc = "idle",
           NeverOvercharged',
           RunCovered(self, router', fwd', base', slop')
    PROVE  ChargeInv'
  <1>1. MutexHeld' /\ thr'[t] = self /\ \A u \in Thread : u # t => thr'[u].pc = "idle"
    BY MutexStep DEF ChargeInv
  <1>2. CopiesCovered'
    <2> SUFFICES ASSUME NEW u \in Thread, NEW p \in Peer, (thr[u].rows[p] # NoRow)'
                 PROVE  (/\ thr[u].pc \in {"scan", "notify", "limit", "persist", "fetch"} =>
                             Covered(thr[u].rows[p], router[p].ctr, fwd[p], base[p], slop[p])
                         /\ thr[u].pc = "save" =>
                             Covered(thr[u].rows[p], router[p].ctr, fwd[p], thr[u].at[p], slop[p]))'
      BY DEF CopiesCovered
    <2>1. CASE u = t
      BY <1>1, <2>1 DEF RunCovered
    <2>2. CASE u # t
      BY <1>1, <2>2
    <2>3. QED
      BY <2>1, <2>2
  <1>3. QED
    BY <1>1, <1>2 DEF ChargeInv, TypeInv

(* A step that changes neither the bytes, nor the counters, nor the        *)
(* columns that matter keeps the table covered.                            *)
LEMMA TableStep ==
    ASSUME NeverOvercharged, UNCHANGED <<fwd, slop, base>>,
           \A p \in Peer : router'[p].ctr = router[p].ctr,
           \A p \in Peer : db'[p] # NoRow =>
               db[p] # NoRow /\ db'[p].usage = db[p].usage /\ db'[p].last = db[p].last
    PROVE  NeverOvercharged'
  <1> SUFFICES ASSUME NEW p \in Peer, db'[p] # NoRow
               PROVE  Covered(db'[p], router'[p].ctr, fwd'[p], base'[p], slop'[p])
    BY DEF NeverOvercharged
  <1>1. Covered(db[p], router[p].ctr, fwd[p], base[p], slop[p])
    BY DEF NeverOvercharged
  <1>2. Covered(db'[p], router[p].ctr, fwd[p], base[p], slop[p])
    BY <1>1, CoveredSame
  <1>3. QED
    BY <1>2

(* A step that moves no bytes keeps the rows a run still holds covered,    *)
(* as long as the run stays on the same side of its reading.               *)
LEMMA CopyStep ==
    ASSUME ChargeInv, NEW t \in Thread, NEW self,
           UNCHANGED <<fwd, slop, base>>,
           \A p \in Peer : router'[p].ctr = router[p].ctr,
           \A p \in Peer : self.rows[p] # NoRow =>
               /\ self.rows[p] = thr[t].rows[p]
               /\ self.pc = "save" => self.at[p] = thr[t].at[p],
           \/ self.pc \notin {"scan", "notify", "limit", "persist", "fetch", "save"}
           \/ self.pc = "save" /\ thr[t].pc = "save"
           \/ /\ self.pc \in {"scan", "notify", "limit", "persist", "fetch"}
              /\ thr[t].pc \in {"scan", "notify", "limit", "persist", "fetch"}
    PROVE  RunCovered(self, router', fwd', base', slop')
  BY DEF ChargeInv, CopiesCovered, RunCovered

(* Starting a run copies covered rows; ending one holds none. *)
LEMMA StartCharge ==
    ASSUME TypeInv, TypeInv', ChargeInv, NEW t \in Thread,
           NEW pc \in {"scan", "expire", "fetch"}, NEW rows,
           \A p \in Peer : rows[p] # NoRow => rows[p] = db[p],
           Start(t, pc, rows)
    PROVE  ChargeInv'
  <1> DEFINE self == [Idle EXCEPT !.pc = pc, !.rows = rows]
  <1>1. self.pc = pc /\ self.rows = rows
    BY DEF Idle
  <1>2. thr' = [thr EXCEPT ![t] = self] /\ mu = NoThread /\ mu' = t /\ UNCHANGED stateVars
    BY DEF Start, Lock
  <1> HIDE DEF self
  <1>3. NeverOvercharged'
    BY <1>2 DEF ChargeInv, NeverOvercharged, stateVars
  <1>4. RunCovered(self, router', fwd', base', slop')
    BY <1>1, <1>2 DEF RunCovered, ChargeInv, NeverOvercharged, stateVars
  <1>5. QED
    BY <1>2, <1>3, <1>4, ChargeStep

LEMMA FinishCharge ==
    ASSUME TypeInv, TypeInv', ChargeInv, NEW t \in Thread, Finish(t)
    PROVE  ChargeInv'
  <1>1. thr' = [thr EXCEPT ![t] = Idle] /\ thr[t].pc # "idle" /\ UNCHANGED stateVars
    BY DEF Finish
  <1>2. Idle.pc = "idle"
    BY DEF Idle
  <1>3. NeverOvercharged'
    BY <1>1 DEF ChargeInv, NeverOvercharged, stateVars
  <1>4. RunCovered(Idle, router', fwd', base', slop')
    BY <1>2 DEF RunCovered
  <1>5. QED
    BY <1>1, <1>2, <1>3, <1>4, ChargeStep

(* Moving the next delta of a row to its usage charges no more. *)
LEMMA ReadCovered ==
    ASSUME NEW row \in Row, NEW ctr \in [Dir -> Counter], NEW f, NEW from, NEW s,
           Covered(row, ctr, f, from, s)
    PROVE  Covered([row EXCEPT !.usage = [d \in Dir |-> row.usage[d] + Deltas(row, ctr)[d]],
                               !.last = ctr], ctr, f, from, s)
  <1> DEFINE read == [row EXCEPT !.usage = [d \in Dir |-> row.usage[d] + Deltas(row, ctr)[d]],
                                 !.last = ctr]
  <1> SUFFICES ASSUME NEW d \in Dir
               PROVE  read.usage[d] + calculateDelta(read.last[d], ctr[d]) <= f[d] - from[d] + s
    BY DEF Covered
  <1>1. read.usage[d] = row.usage[d] + calculateDelta(row.last[d], ctr[d]) /\ read.last = ctr
    BY DEF Deltas, Row
  <1>2. calculateDelta(ctr[d], ctr[d]) = 0
    BY DeltaSame
  <1>3. row.usage[d] \in Nat /\ calculateDelta(row.last[d], ctr[d]) \in Nat
    BY DeltaIsNat DEF Row
  <1>4. read.usage[d] + calculateDelta(read.last[d], ctr[d]) = read.usage[d]
    BY <1>1, <1>2, <1>3
  <1>5. QED
    BY <1>1, <1>4 DEF Covered

(* The locals after a row is dropped. *)
LEMMA WithoutFacts ==
    ASSUME TypeInv, NEW t \in Thread, NEW p \in Peer, NEW pc \in {"scan", "expire"}
    PROVE  /\ Without(t, p, pc).pc = pc
           /\ \A q \in Peer : Without(t, p, pc).rows[q] # NoRow
                 => Without(t, p, pc).rows[q] = thr[t].rows[q]
  BY DEF Without, Idle, TypeInv, TypeOK, Local

LEMMA TrafficCharge ==
    ASSUME TypeInv, TypeInv', ChargeInv, NEW t \in TrafficJob, Traffic(t)
    PROVE  ChargeInv'
  <1> t \in Thread
    BY DEF Thread
  <1> thr[t] \in Local /\ StateTypeOK /\ NeverOvercharged
    BY DEF TypeInv, TypeOK, ChargeInv
  <1>1. CASE TrafficStart(t)
    BY <1>1, StartCharge DEF TrafficStart
  <1>2. ASSUME NEW p \in Peer, TrafficSkip(t, p)
        PROVE  ChargeInv'
    <2> DEFINE self == Without(t, p, "scan")
    <2>1. /\ thr' = [thr EXCEPT ![t] = self] /\ thr[t].pc = "scan"
          /\ mu' = mu /\ UNCHANGED stateVars
      BY <1>2 DEF TrafficSkip
    <2>2. self.pc = "scan" /\ \A q \in Peer : self.rows[q] # NoRow => self.rows[q] = thr[t].rows[q]
      BY WithoutFacts
    <2> HIDE DEF self
    <2>3. NeverOvercharged'
      BY <2>1 DEF NeverOvercharged, stateVars
    <2>4. RunCovered(self, router', fwd', base', slop')
      BY <2>1, <2>2, CopyStep DEF stateVars
    <2>5. QED
      BY <2>1, <2>3, <2>4, ChargeStep
  <1>3. ASSUME NEW p \in Peer, TrafficFetch(t, p)
        PROVE  ChargeInv'
    <2> DEFINE row == thr[t].rows[p]
               delta == Deltas(row, router[p].ctr)
               read == [row EXCEPT !.usage = [d \in Dir |-> row.usage[d] + delta[d]],
                                   !.last = router[p].ctr]
               self == [thr[t] EXCEPT !.pc = "notify", !.id = p,
                            !.delta = delta["down"] + delta["up"],
                            !.rows[p] = read, !.at[p] = fwd[p]]
    <2>1. /\ row \in Row /\ router[p].ctr \in [Dir -> Counter] /\ thr[t].pc = "scan"
          /\ UNCHANGED stateVars /\ mu' = mu /\ thr' = [thr EXCEPT ![t] = self]
      BY <1>3 DEF TrafficFetch, StateTypeOK, Local, RouterPeer
    <2>2. Covered(row, router[p].ctr, fwd[p], base[p], slop[p])
      BY <2>1, StateAssumption DEF ChargeInv, CopiesCovered
    <2>3. Covered(read, router[p].ctr, fwd[p], base[p], slop[p])
      BY <2>1, <2>2, ReadCovered
    <2> HIDE DEF read, delta
    <2>4. /\ self.pc = "notify" /\ self.rows[p] = read
          /\ \A q \in Peer : q # p => self.rows[q] = thr[t].rows[q]
      BY DEF Local
    <2> HIDE DEF self
    <2>5. NeverOvercharged'
      BY <2>1 DEF NeverOvercharged, stateVars
    <2>6. RunCovered(self, router', fwd', base', slop')
      <3> SUFFICES ASSUME NEW q \in Peer, self.rows[q] # NoRow
                   PROVE  Covered(self.rows[q], router[q].ctr, fwd[q], base[q], slop[q])
        BY <2>1, <2>4 DEF RunCovered, stateVars
      <3>1. CASE q = p
        BY <2>3, <2>4, <3>1
      <3>2. CASE q # p
        BY <2>1, <2>4, <3>2 DEF ChargeInv, CopiesCovered
      <3>3. QED
        BY <3>1, <3>2
    <2>7. QED
      BY <2>1, <2>5, <2>6, ChargeStep
  <1>4. CASE TrafficNotify(t)
    <2>1. PICK sent : thr' = [thr EXCEPT ![t] = [thr[t] EXCEPT !.pc = "limit", !.sent = sent]]
      BY <1>4 DEF TrafficNotify
    <2> DEFINE self == [thr[t] EXCEPT !.pc = "limit", !.sent = sent]
    <2>2. self.pc = "limit" /\ self.rows = thr[t].rows /\ self.at = thr[t].at
      BY DEF Local
    <2>3. /\ thr' = [thr EXCEPT ![t] = self] /\ thr[t].pc = "notify"
          /\ mu' = mu /\ UNCHANGED <<db, router, fwd, slop, base>>
      BY <1>4, <2>1 DEF TrafficNotify
    <2> HIDE DEF self
    <2>4. NeverOvercharged'
      BY <2>3 DEF NeverOvercharged
    <2>5. RunCovered(self, router', fwd', base', slop')
      BY <2>2, <2>3, CopyStep
    <2>6. QED
      BY <2>3, <2>4, <2>5, ChargeStep
  <1>5. CASE TrafficLimit(t)
    <2>1. PICK cut \in BOOLEAN :
            thr' = [thr EXCEPT ![t] = [thr[t] EXCEPT !.pc = "persist", !.cut = cut]]
      <3>1. thr[t].cut \in BOOLEAN /\ [thr[t] EXCEPT !.pc = "persist"]
                     = [thr[t] EXCEPT !.pc = "persist", !.cut = thr[t].cut]
        BY DEF Local
      <3>2. CASE thr' = [thr EXCEPT ![t] = [@ EXCEPT !.pc = "persist"]]
        BY <3>1, <3>2
      <3>3. CASE thr' = [thr EXCEPT ![t] = [@ EXCEPT !.pc = "persist", !.cut = TRUE]]
        BY <3>3
      <3>4. QED
        BY <1>5, <3>2, <3>3 DEF TrafficLimit
    <2> DEFINE self == [thr[t] EXCEPT !.pc = "persist", !.cut = cut]
    <2>2. self.pc = "persist" /\ self.rows = thr[t].rows /\ self.at = thr[t].at
      BY DEF Local
    <2>3. /\ thr' = [thr EXCEPT ![t] = self] /\ thr[t].pc = "limit"
          /\ mu' = mu /\ UNCHANGED <<db, fwd, slop, base>>
      BY <1>5, <2>1 DEF TrafficLimit, history
    <2>4. thr[t].id \in Peer
      BY <2>3 DEF TypeInv, AtPeer
    <2>5. \A p \in Peer : router'[p].ctr = router[p].ctr
      BY <1>5, <2>4, PatchKeepsCounters DEF TrafficLimit, Switch
    <2> HIDE DEF self
    <2>6. NeverOvercharged'
      BY <2>3, <2>5, TableStep
    <2>7. RunCovered(self, router', fwd', base', slop')
      BY <2>2, <2>3, <2>5, CopyStep
    <2>8. QED
      BY <2>3, <2>6, <2>7, ChargeStep
  <1>6. CASE TrafficPersist(t)
    <2> DEFINE p == thr[t].id
               self == Without(t, p, "scan")
    <2>1. /\ thr' = [thr EXCEPT ![t] = self] /\ thr[t].pc = "persist"
          /\ mu' = mu /\ UNCHANGED <<router, fwd, slop, base>>
      BY <1>6 DEF TrafficPersist
    <2>2. p \in Peer /\ thr[t].rows[p] # NoRow
      BY <2>1 DEF TypeInv, AtPeer
    <2>3. self.pc = "scan" /\ \A q \in Peer : self.rows[q] # NoRow => self.rows[q] = thr[t].rows[q]
      BY <2>2, WithoutFacts
    <2>4. NeverOvercharged'
      <3>1. CASE UNCHANGED db
        BY <2>1, <3>1, TableStep
      <3>2. CASE db[p] # NoRow /\ db' = [db EXCEPT ![p] = Updated(@, thr[t])]
        <4>1. db[p] \in Row /\ db'[p] = Updated(db[p], thr[t])
          BY <2>2, <3>2 DEF StateTypeOK
        <4>2. db'[p].usage = thr[t].rows[p].usage /\ db'[p].last = thr[t].rows[p].last
          BY <4>1 DEF Updated, Row
        <4>3. Covered(thr[t].rows[p], router[p].ctr, fwd[p], base[p], slop[p])
          BY <2>1, <2>2 DEF ChargeInv, CopiesCovered
        <4>4. Covered(db'[p], router[p].ctr, fwd[p], base[p], slop[p])
          BY <4>2, <4>3, CoveredSame
        <4>5. \A q \in Peer : q # p => db'[q] = db[q]
          BY <3>2 DEF StateTypeOK
        <4> SUFFICES ASSUME NEW q \in Peer, db'[q] # NoRow
                     PROVE  Covered(db'[q], router[q].ctr, fwd[q], base[q], slop[q])
          BY <2>1 DEF NeverOvercharged
        <4>6. QED
          BY <4>4, <4>5 DEF NeverOvercharged
      <3>3. QED
        BY <1>6, <3>1, <3>2 DEF TrafficPersist
    <2> HIDE DEF self
    <2>5. RunCovered(self, router', fwd', base', slop')
      BY <2>1, <2>3, CopyStep
    <2>6. QED
      BY <2>1, <2>4, <2>5, ChargeStep
  <1>7. CASE Finish(t)
    BY <1>7, FinishCharge
  <1>8. QED
    BY <1>1, <1>2, <1>3, <1>4, <1>5, <1>6, <1>7 DEF Traffic

(* An expiry run touches neither bytes, counters nor usage.                *)
LEMMA ExpireChargeStep ==
    ASSUME TypeInv, TypeInv', ChargeInv, NEW t \in Thread, NEW self,
           thr' = [thr EXCEPT ![t] = self],
           thr[t].pc # "idle", mu' = mu,
           self.pc \in {"expire", "queue", "mark"},
           UNCHANGED <<fwd, slop, base>>,
           \A p \in Peer : router'[p].ctr = router[p].ctr,
           \A p \in Peer : db'[p] # NoRow =>
               db[p] # NoRow /\ db'[p].usage = db[p].usage /\ db'[p].last = db[p].last
    PROVE  ChargeInv'
  <1>1. NeverOvercharged'
    BY TableStep DEF ChargeInv
  <1>2. RunCovered(self, router', fwd', base', slop')
    BY DEF RunCovered
  <1>3. QED
    BY <1>1, <1>2, ChargeStep

LEMMA ExpireCharge ==
    ASSUME TypeInv, TypeInv', ChargeInv, NEW t \in ExpireJob, Expire(t)
    PROVE  ChargeInv'
  <1> t \in Thread
    BY DEF Thread
  <1> thr[t] \in Local /\ StateTypeOK
    BY DEF TypeInv, TypeOK
  <1>1. CASE ExpireStart(t)
    <2>1. \A p \in Peer : peersDueForExpiry[p] # NoRow => peersDueForExpiry[p] = db[p]
      BY DEF peersDueForExpiry
    <2>2. QED
      BY <1>1, <2>1, StartCharge DEF ExpireStart
  <1>2. ASSUME NEW p \in Peer, ExpirePeer(t, p)
        PROVE  ChargeInv'
    <2>1. PICK ok \in BOOLEAN :
            /\ PatchPeer(p, "off", ok)
            /\ thr' = [thr EXCEPT ![t] =
                 IF ok THEN [@ EXCEPT !.pc = IF thr[t].rows[p].queue THEN "queue" ELSE "mark",
                                      !.id = p]
                 ELSE Without(t, p, "expire")]
      BY <1>2 DEF ExpirePeer
    <2> DEFINE self == IF ok THEN [thr[t] EXCEPT !.pc = IF thr[t].rows[p].queue
                                                      THEN "queue" ELSE "mark", !.id = p]
                       ELSE Without(t, p, "expire")
    <2>2. self.pc \in {"expire", "queue", "mark"}
      BY WithoutFacts DEF Local
    <2>3. thr' = [thr EXCEPT ![t] = self]
      BY <2>1
    <2>4. /\ thr[t].pc = "expire" /\ mu' = mu /\ UNCHANGED <<db, fwd, slop, base>>
      BY <1>2 DEF ExpirePeer, history
    <2>5. \A q \in Peer : router'[q].ctr = router[q].ctr
      BY <2>1, PatchKeepsCounters DEF Switch
    <2> HIDE DEF self
    <2>6. QED
      BY <2>2, <2>3, <2>4, <2>5, ExpireChargeStep
  <1>3. CASE ExpireQueue(t)
    <2> DEFINE self == [thr[t] EXCEPT !.pc = "mark"]
    <2>1. /\ thr' = [thr EXCEPT ![t] = self] /\ self.pc = "mark" /\ thr[t].pc = "queue"
          /\ mu' = mu /\ UNCHANGED <<db, fwd, slop, base>>
      BY <1>3 DEF ExpireQueue, history, Local
    <2>2. thr[t].id \in Peer
      BY <2>1 DEF TypeInv, AtPeer
    <2>3. \A q \in Peer : router'[q].ctr = router[q].ctr
      BY <1>3, <2>2, PatchKeepsCounters DEF ExpireQueue, Switch
    <2> HIDE DEF self
    <2>4. QED
      BY <2>1, <2>3, ExpireChargeStep
  <1>4. CASE ExpireMark(t)
    <2> DEFINE p == thr[t].id
               self == Without(t, p, "expire")
    <2>1. /\ thr' = [thr EXCEPT ![t] = self] /\ thr[t].pc = "mark"
          /\ mu' = mu /\ UNCHANGED <<router, fwd, slop, base>>
      BY <1>4 DEF ExpireMark, history
    <2>2. p \in Peer
      BY <2>1 DEF TypeInv, AtPeer
    <2>3. self.pc = "expire"
      BY <2>2, WithoutFacts
    <2>4. \A q \in Peer : db'[q] # NoRow =>
             db[q] # NoRow /\ db'[q].usage = db[q].usage /\ db'[q].last = db[q].last
      <3>1. CASE UNCHANGED db
        BY <3>1
      <3>2. CASE db[p] # NoRow /\ db' = [db EXCEPT ![p].disabled = TRUE]
        <4>1. db[p] \in Row /\ db'[p] = [db[p] EXCEPT !.disabled = TRUE]
          BY <2>2, <3>2 DEF StateTypeOK
        <4>2. db'[p].usage = db[p].usage /\ db'[p].last = db[p].last
          BY <4>1 DEF Row
        <4>3. \A q \in Peer : q # p => db'[q] = db[q]
          BY <3>2 DEF StateTypeOK
        <4>4. QED
          BY <3>2, <4>2, <4>3
      <3>3. QED
        BY <1>4, <3>1, <3>2 DEF ExpireMark
    <2> HIDE DEF self, p
    <2>5. QED
      BY <2>1, <2>3, <2>4, ExpireChargeStep
  <1>5. CASE Finish(t)
    BY <1>5, FinishCharge
  <1>6. QED
    BY <1>1, <1>2, <1>3, <1>4, <1>5 DEF Expire

(* A reset row is covered from the moment its counters were read. *)
LEMMA ResetCovered ==
    ASSUME NEW row \in Row, NEW ctr \in [Dir -> Counter], NEW f \in [Dir -> Nat],
           NEW s \in Nat
    PROVE  Covered(ResetRow(row, ctr), ctr, f, f, s)
  <1>1. ResetRow(row, ctr).usage = Zero /\ ResetRow(row, ctr).last = ctr
    BY DEF ResetRow, Row
  <1>2. QED
    BY <1>1, DeltaSame DEF Covered, Zero

LEMMA ResetCharge ==
    ASSUME TypeInv, TypeInv', ChargeInv, NEW t \in ResetCall, Reset(t)
    PROVE  ChargeInv'
  <1> t \in Thread
    BY DEF Thread
  <1> thr[t] \in Local /\ StateTypeOK /\ NeverOvercharged
    BY DEF TypeInv, TypeOK, ChargeInv
  <1>1. ASSUME NEW scope \in SUBSET Peer, ResetStart(t, scope)
        PROVE  ChargeInv'
    <2> DEFINE rows == [p \in Peer |-> IF p \in scope THEN db[p] ELSE NoRow]
    <2>1. \A p \in Peer : rows[p] # NoRow => rows[p] = db[p]
      OBVIOUS
    <2>2. Start(t, "fetch", rows)
      BY <1>1 DEF ResetStart
    <2> HIDE DEF rows
    <2>3. QED
      BY <2>1, <2>2, StartCharge
  <1>2. CASE ResetFetch(t)
    <2> DEFINE rows(found) == [p \in Peer |->
                  IF thr[t].rows[p] # NoRow /\ p \in found
                  THEN ResetRow(thr[t].rows[p], router[p].ctr) ELSE NoRow]
               at(found) == [p \in Peer |->
                  IF thr[t].rows[p] # NoRow /\ p \in found THEN fwd[p] ELSE Zero]
    <2>1. PICK found : thr' = [thr EXCEPT ![t] =
            [thr[t] EXCEPT !.pc = "save", !.rows = rows(found), !.at = at(found)]]
      BY <1>2 DEF ResetFetch
    <2> DEFINE self == [thr[t] EXCEPT !.pc = "save", !.rows = rows(found), !.at = at(found)]
    <2>2. \A p \in Peer : rows(found)[p] # NoRow =>
             Covered(rows(found)[p], router[p].ctr, fwd[p], at(found)[p], slop[p])
      <3> SUFFICES ASSUME NEW p \in Peer, rows(found)[p] # NoRow
                   PROVE  Covered(rows(found)[p], router[p].ctr, fwd[p], at(found)[p], slop[p])
        OBVIOUS
      <3>1. thr[t].rows[p] \in Row /\ router[p].ctr \in [Dir -> Counter]
            /\ fwd[p] \in [Dir -> Nat] /\ slop[p] \in Nat
        BY DEF Local, StateTypeOK, RouterPeer
      <3>2. rows(found)[p] = ResetRow(thr[t].rows[p], router[p].ctr) /\ at(found)[p] = fwd[p]
        OBVIOUS
      <3> HIDE DEF rows, at
      <3>3. QED
        BY <3>1, <3>2, ResetCovered
    <2> HIDE DEF rows, at
    <2>3. self.pc = "save" /\ self.rows = rows(found) /\ self.at = at(found)
      BY DEF Local
    <2>4. /\ UNCHANGED stateVars /\ mu' = mu /\ thr[t].pc = "fetch"
      BY <1>2, Zenon DEF ResetFetch
    <2>5. thr' = [thr EXCEPT ![t] = self]
      BY <2>1
    <2> HIDE DEF self
    <2>6. NeverOvercharged'
      BY <2>4 DEF NeverOvercharged, stateVars
    <2>7. RunCovered(self, router', fwd', base', slop')
      BY <2>2, <2>3, <2>4 DEF RunCovered, stateVars
    <2>8. QED
      BY <2>4, <2>5, <2>6, <2>7, ChargeStep
  <1>3. ASSUME NEW p \in Peer, ResetSave(t, p)
        PROVE  ChargeInv'
    <2> DEFINE self == [thr[t] EXCEPT !.rows[p] = NoRow, !.at[p] = Zero]
    <2>1. /\ thr' = [thr EXCEPT ![t] = self] /\ mu' = mu
          /\ thr[t].pc = "save" /\ thr[t].rows[p] # NoRow
          /\ db' = [db EXCEPT ![p] = thr[t].rows[p]]
          /\ base' = [base EXCEPT ![p] = thr[t].at[p]]
          /\ UNCHANGED <<router, fwd, slop>>
      BY <1>3 DEF ResetSave
    <2>2. /\ self.pc = "save" /\ self.rows[p] = NoRow
          /\ \A q \in Peer : q # p => self.rows[q] = thr[t].rows[q] /\ self.at[q] = thr[t].at[q]
      BY <2>1 DEF Local
    <2> HIDE DEF self
    <2>3. /\ db'[p] = thr[t].rows[p] /\ base'[p] = thr[t].at[p]
          /\ \A q \in Peer : q # p => db'[q] = db[q] /\ base'[q] = base[q]
      BY <2>1 DEF StateTypeOK
    <2>4. \A q \in Peer : thr[t].rows[q] # NoRow =>
             Covered(thr[t].rows[q], router[q].ctr, fwd[q], thr[t].at[q], slop[q])
      BY <2>1 DEF ChargeInv, CopiesCovered
    <2>5. NeverOvercharged'
      BY <2>1, <2>3, <2>4 DEF NeverOvercharged
    <2>6. RunCovered(self, router', fwd', base', slop')
      BY <2>1, <2>2, <2>4 DEF RunCovered
    <2>7. QED
      BY <2>1, <2>5, <2>6, ChargeStep
  <1>4. CASE ResetFail(t)
    <2> DEFINE self == [Idle EXCEPT !.pc = "save"]
    <2>1. self.rows = NoRows
      BY DEF Idle
    <2>2. thr' = [thr EXCEPT ![t] = self] /\ thr[t].pc = "save" /\ mu' = mu /\ UNCHANGED stateVars
      BY <1>4 DEF ResetFail
    <2> HIDE DEF self
    <2>3. NeverOvercharged'
      BY <2>2 DEF NeverOvercharged, stateVars
    <2>4. RunCovered(self, router', fwd', base', slop')
      BY <2>1 DEF RunCovered, NoRows
    <2>5. QED
      BY <2>2, <2>3, <2>4, ChargeStep
  <1>5. CASE Finish(t)
    BY <1>5, FinishCharge
  <1>6. CASE ResetTotalTrafficUsage(t)
    BY <1>6, Zenon DEF ResetTotalTrafficUsage, ChargeInv, AtPeer, MutexHeld, NeverOvercharged,
                CopiesCovered, stateVars
  <1>7. QED
    BY <1>1, <1>2, <1>3, <1>4, <1>5, <1>6 DEF Reset

LEMMA InitCharge == Init => ChargeInv
  <1> SUFFICES ASSUME Init PROVE ChargeInv
    OBVIOUS
  <1>1. TypeInv
    BY InitType
  <1>2. \A t \in Thread : thr[t].pc = "idle" /\ thr[t].rows = NoRows
    BY DEF Init, CalculatorInit, Idle
  <1>3. MutexHeld /\ CopiesCovered
    BY <1>2 DEF MutexHeld, CopiesCovered, NoRows
  <1>4. NeverOvercharged
    <2> SUFFICES ASSUME NEW p \in Peer, NEW d \in Dir
                 PROVE  db[p].usage[d] + calculateDelta(db[p].last[d], router[p].ctr[d])
                          <= fwd[p][d] - base[p][d] + slop[p]
      BY DEF NeverOvercharged, Covered
    <2>1. db[p].usage = Zero /\ db[p].last = Zero /\ router[p].ctr = Zero
      BY DEF Init, CalculatorInit, StateInit, FreshRow, FreshRouterPeer
    <2>2. fwd[p] = Zero /\ base[p] = Zero /\ slop[p] = 0
      BY DEF Init, CalculatorInit, StateInit, HistoryInit
    <2>3. calculateDelta(0, 0) = 0
      BY DeltaSame, MaxCounterAssumption DEF Counter
    <2>4. QED
      BY <2>1, <2>2, <2>3 DEF Zero
  <1>5. QED
    BY <1>1, <1>3, <1>4 DEF ChargeInv, TypeInv

LEMMA NextCharge == TypeInv /\ ChargeInv /\ [Next]_vars => ChargeInv'
  <1> SUFFICES ASSUME TypeInv, ChargeInv, [Next]_vars PROVE ChargeInv'
    OBVIOUS
  <1>1. TypeInv'
    BY NextType
  <1>2. CASE Crash
    <2>1. \A t \in Thread : thr'[t].pc = "idle" /\ thr'[t].rows = NoRows
      BY <1>2 DEF Crash, Idle
    <2>2. MutexHeld' /\ CopiesCovered'
      BY <2>1 DEF MutexHeld, CopiesCovered, NoRows
    <2>3. NeverOvercharged'
      BY <1>2 DEF Crash, ChargeInv, NeverOvercharged, stateVars
    <2>4. QED
      BY <1>1, <2>2, <2>3 DEF ChargeInv, TypeInv
  <1>3. CASE EnvironmentStep
    <2>1. StateTypeOK /\ Environment /\ UNCHANGED <<mu, thr>>
      BY <1>3 DEF EnvironmentStep, TypeInv, TypeOK
    <2>2. UNCHANGED <<db, base>>
      BY <2>1, Zenon DEF Environment, Forward, RestartCounters, Midnight, history
    <2>3. NeverOvercharged'
      <3> SUFFICES ASSUME NEW p \in Peer, db[p] # NoRow
                   PROVE  Covered(db[p], router'[p].ctr, fwd'[p], base[p], slop'[p])
        BY <2>2 DEF NeverOvercharged
      <3>1. db[p] \in Row /\ base[p] \in [Dir -> Nat]
        BY <2>1 DEF StateTypeOK
      <3>2. Covered(db[p], router[p].ctr, fwd[p], base[p], slop[p])
        BY DEF ChargeInv, NeverOvercharged
      <3>3. QED
        BY <2>1, <3>1, <3>2, EnvironmentCovers
    <2>4. CopiesCovered'
      <3> SUFFICES ASSUME NEW t \in Thread, NEW p \in Peer, thr[t].rows[p] # NoRow
                   PROVE  /\ thr[t].pc \in {"scan", "notify", "limit", "persist", "fetch"} =>
                               Covered(thr[t].rows[p], router'[p].ctr, fwd'[p], base[p], slop'[p])
                          /\ thr[t].pc = "save" =>
                               Covered(thr[t].rows[p], router'[p].ctr, fwd'[p], thr[t].at[p], slop'[p])
        BY <2>1, <2>2 DEF CopiesCovered
      <3>1. /\ thr[t].rows[p] \in Row /\ base[p] \in [Dir -> Nat]
            /\ thr[t].at[p] \in [Dir -> Nat]
        BY <2>1 DEF StateTypeOK, TypeInv, TypeOK, Local
      <3>2. QED
        BY <2>1, <3>1, EnvironmentCovers DEF ChargeInv, CopiesCovered
    <2>5. AtPeer' /\ MutexHeld'
      BY <1>1, <2>1 DEF TypeInv, ChargeInv, MutexHeld
    <2>6. QED
      BY <2>3, <2>4, <2>5 DEF ChargeInv
  <1>4. CASE UNCHANGED vars
    BY <1>4, Zenon DEF vars, stateVars, ChargeInv, AtPeer, MutexHeld, NeverOvercharged, CopiesCovered
  <1>5. QED
    BY <1>1, <1>2, <1>3, <1>4, TrafficCharge, ExpireCharge, ResetCharge DEF Next, CalculatorNext

(* Whatever jobs, resets, crashes, failed calls, wraps and restarts are    *)
(* interleaved, a peer's usage never exceeds what it forwarded since its   *)
(* last reset by more than half a counter range per restart.               *)
THEOREM NeverOverchargedHolds == Spec => []NeverOvercharged
  <1>1. Init => TypeInv /\ ChargeInv
    BY InitType, InitCharge
  <1>2. TypeInv /\ ChargeInv /\ [Next]_vars => (TypeInv /\ ChargeInv)'
    BY NextType, NextCharge
  <1>3. ChargeInv => NeverOvercharged
    BY DEF ChargeInv
  <1>4. QED
    BY <1>1, <1>2, <1>3, PTL DEF Spec
=============================================================================
