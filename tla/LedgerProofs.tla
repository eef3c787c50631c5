----------------------------- MODULE LedgerProofs ----------------------------
(***************************************************************************)
(* The calculator implements the ledger of its users' bytes, for every set *)
(* of peers and threads and every counter width, as long as the router     *)
(* does not restart and fewer bytes than ExactWindow pass between two      *)
(* stored readings.                                                        *)
(***************************************************************************)
EXTENDS TrafficProofs

ExactReadings == "restart" \notin Faults /\ MaxUnread < ExactWindow

(* A row whose last reading was made when s bytes had been forwarded: it   *)
(* counts them all since the reset at b, and the counter is as far ahead   *)
(* as the bytes forwarded since.                                           *)
Metered(row, ctr, f, b, s) ==
    \A d \in Dir : /\ row.usage[d] = s[d] - b[d]
                   /\ b[d] <= s[d] /\ s[d] <= f[d] /\ f[d] - s[d] <= MaxUnread
                   /\ Ahead(row.last[d], ctr[d], f[d] - s[d])

SameMeter(copy, row) == copy.usage = row.usage /\ copy.last = row.last

NotBefore(at, s) == \A d \in Dir : s[d] <= at[d]

TableMetered == \A p \in Peer : db[p] # NoRow /\ Metered(db[p], router[p].ctr, fwd[p], base[p], seen[p])

(* Rows not yet read are those of the table, as nobody else stores any; the *)
(* row that was read counts up to its reading, and so do rows about to be   *)
(* reset, from their own reading on.                                       *)
RunMetered(self, table, R, f, b, s) ==
    \A p \in Peer : self.rows[p] # NoRow =>
        /\ self.pc = "scan" \/ (self.pc \in {"notify", "limit", "persist"} /\ p # self.id)
             => SameMeter(self.rows[p], table[p])
        /\ self.pc \in {"notify", "limit", "persist"} /\ p = self.id
             => Metered(self.rows[p], R[p].ctr, f[p], b[p], self.at[p]) /\ NotBefore(self.at[p], s[p])
        /\ self.pc = "save"
             => Metered(self.rows[p], R[p].ctr, f[p], self.at[p], self.at[p]) /\ NotBefore(self.at[p], s[p])

CopiesMetered ==
    \A t \in Thread : thr[t].pc # "idle" => RunMetered(thr[t], db, router, fwd, base, seen)

LedgerInv == TableMetered /\ CopiesMetered

-----------------------------------------------------------------------------
(* Only usage and last of a row matter to Metered. *)
LEMMA MeteredSame ==
    ASSUME NEW r1, NEW r2, NEW ctr, NEW f, NEW b, NEW s,
           SameMeter(r1, r2), Metered(r2, ctr, f, b, s)
    PROVE  Metered(r1, ctr, f, b, s)
  BY DEF SameMeter, Metered

(* A reading moves exactly the bytes forwarded since the last one. *)
LEMMA ReadMetered ==
    ASSUME ExactReadings, NEW row \in Row, NEW ctr \in [Dir -> Counter],
           NEW f \in [Dir -> Nat], NEW b \in [Dir -> Nat], NEW s \in [Dir -> Nat],
           Metered(row, ctr, f, b, s)
    PROVE  Metered([row EXCEPT !.usage = [d \in Dir |-> row.usage[d] + Deltas(row, ctr)[d]],
                               !.last = ctr], ctr, f, b, f)
  <1> DEFINE read == [row EXCEPT !.usage = [d \in Dir |-> row.usage[d] + Deltas(row, ctr)[d]],
                                 !.last = ctr]
  <1> SUFFICES ASSUME NEW d \in Dir
               PROVE  /\ read.usage[d] = f[d] - b[d]
                      /\ b[d] <= f[d] /\ f[d] <= f[d] /\ f[d] - f[d] <= MaxUnread
                      /\ Ahead(read.last[d], ctr[d], f[d] - f[d])
    BY DEF Metered
  <1>1. read.usage[d] = row.usage[d] + calculateDelta(row.last[d], ctr[d]) /\ read.last = ctr
    BY DEF Deltas, Row
  <1>2. /\ row.last[d] \in Counter /\ ctr[d] \in Counter /\ row.usage[d] \in Nat
        /\ f[d] \in Nat /\ b[d] \in Nat /\ s[d] \in Nat
    BY DEF Row
  <1>3. /\ row.usage[d] = s[d] - b[d] /\ b[d] <= s[d] /\ s[d] <= f[d]
        /\ f[d] - s[d] <= MaxUnread /\ Ahead(row.last[d], ctr[d], f[d] - s[d])
    BY DEF Metered
  <1>4. f[d] - s[d] \in Nat /\ f[d] - s[d] < ExactWindow
    BY <1>2, <1>3, SlopIsNat, StateAssumption DEF ExactReadings
  <1>5. calculateDelta(row.last[d], ctr[d]) = f[d] - s[d]
    BY <1>2, <1>3, <1>4, AheadExact
  <1> HIDE DEF read
  <1>6. Ahead(ctr[d], ctr[d], 0)
    BY <1>2 DEF Ahead, Counter
  <1>7. read.usage[d] = f[d] - b[d]
    BY <1>1, <1>2, <1>3, <1>5
  <1>8. QED
    BY <1>1, <1>2, <1>3, <1>6, <1>7, StateAssumption

(* A reset row counts from its own reading on. *)
LEMMA ResetMetered ==
    ASSUME NEW row \in Row, NEW ctr \in [Dir -> Counter], NEW f \in [Dir -> Nat]
    PROVE  Metered(ResetRow(row, ctr), ctr, f, f, f)
  <1>1. ResetRow(row, ctr).usage = Zero /\ ResetRow(row, ctr).last = ctr
    BY DEF ResetRow, Row
  <1>2. \A d \in Dir : Ahead(ctr[d], ctr[d], 0) /\ f[d] \in Nat /\ Zero[d] = 0
    BY DEF Ahead, Counter, Zero
  <1>3. QED
    BY <1>1, <1>2, StateAssumption DEF Metered

(* Forwarding keeps metered whatever was read no earlier than the table's   *)
(* reading; nothing else of the environment touches bytes and counters.     *)
LEMMA EnvironmentMeters ==
    ASSUME ExactReadings, StateTypeOK, Environment, NEW p \in Peer, NEW row \in Row,
           NEW b \in [Dir -> Nat], NEW s \in [Dir -> Nat], NotBefore(s, seen[p]),
           Metered(row, router[p].ctr, fwd[p], b, s)
    PROVE  Metered(row, router'[p].ctr, fwd'[p], b, s)
  <1>1. ASSUME NEW q \in Peer, NEW n \in Bursts, Forward(q, n)
        PROVE  Metered(row, router'[p].ctr, fwd'[p], b, s)
    <2>1. CASE q = p
      <3>1. /\ fwd'[p] = [d \in Dir |-> fwd[p][d] + n[d]]
            /\ router'[p].ctr = [d \in Dir |-> Wrap(router[p].ctr[d], n[d])]
        BY <1>1, <2>1 DEF Forward, StateTypeOK, RouterPeer
      <3> SUFFICES ASSUME NEW d \in Dir
                   PROVE  /\ row.usage[d] = s[d] - b[d]
                          /\ b[d] <= s[d] /\ s[d] <= fwd'[p][d] /\ fwd'[p][d] - s[d] <= MaxUnread
                          /\ Ahead(row.last[d], router'[p].ctr[d], fwd'[p][d] - s[d])
        BY DEF Metered
      <3>2. /\ fwd'[p][d] = fwd[p][d] + n[d] /\ router'[p].ctr[d] = Wrap(router[p].ctr[d], n[d])
            /\ n[d] \in 0 .. MaxCounter /\ fwd[p][d] \in Nat /\ seen[p][d] \in Nat
            /\ router[p].ctr[d] \in Counter /\ row.last[d] \in Counter
            /\ s[d] \in Nat /\ b[d] \in Nat
        BY <3>1, StateAssumption DEF StateTypeOK, RouterPeer, Row
      <3>3. fwd[p][d] + n[d] - seen[p][d] <= MaxUnread
        BY <1>1, <2>1 DEF Forward
      <3>4. /\ row.usage[d] = s[d] - b[d] /\ b[d] <= s[d] /\ s[d] <= fwd[p][d] /\ seen[p][d] <= s[d]
            /\ Ahead(row.last[d], router[p].ctr[d], fwd[p][d] - s[d])
        BY DEF Metered, NotBefore
      <3>5. MaxCounter \in Nat /\ ExactWindow \in Int /\ ExactWindow <= MaxCounter /\ MaxUnread \in Nat
        BY MaxCounterAssumption, HalfRangeBounds, StateAssumption DEF ExactWindow
      <3>6. fwd[p][d] - s[d] \in Nat /\ fwd[p][d] - s[d] + n[d] < MaxCounter
        BY <3>2, <3>3, <3>4, <3>5 DEF ExactReadings
      <3>7. Ahead(row.last[d], Wrap(router[p].ctr[d], n[d]), fwd[p][d] - s[d] + n[d])
        BY <3>2, <3>4, <3>6, AheadForward
      <3>8. fwd'[p][d] - s[d] = fwd[p][d] - s[d] + n[d]
        BY <3>2
      <3>9. QED
        BY <3>2, <3>3, <3>4, <3>5, <3>7, <3>8
    <2>2. CASE q # p
      <3>1. fwd'[p] = fwd[p] /\ router'[p] = router[p]
        BY <1>1, <2>2 DEF Forward, StateTypeOK
      <3>2. QED
        BY <3>1
    <2>3. QED
      BY <2>1, <2>2
  <1>2. ASSUME NEW q \in Peer, RestartCounters(q)
        PROVE  Metered(row, router'[p].ctr, fwd'[p], b, s)
    BY <1>2 DEF RestartCounters, ExactReadings
  <1>3. CASE Midnight
    <2>1. fwd' = fwd
      BY <1>3 DEF Midnight, history
    <2>2. PICK run : router' = [r \in Peer |-> IF r \in run /\ router[r].wg = "on"
                                               THEN [router[r] EXCEPT !.wg = "off", !.next = Never]
                                               ELSE router[r]]
      BY <1>3 DEF Midnight
    <2>3. [router[p] EXCEPT !.wg = "off", !.next = Never].ctr = router[p].ctr
      BY DEF StateTypeOK, RouterPeer
    <2>4. router'[p].ctr = router[p].ctr
      BY <2>2, <2>3
    <2>5. QED
      BY <2>1, <2>4
  <1>4. QED
    BY <1>1, <1>2, <1>3 DEF Environment

-----------------------------------------------------------------------------
(* The steps, as steps of the ledger. *)

LedgerStep == [Ledger!Next]_(Ledger!ledger)

Counted(table) == [p \in Peer |-> IF table[p] = NoRow THEN Zero ELSE table[p].usage]
Pending(f, s) == [p \in Peer |-> [d \in Dir |-> f[p][d] - s[p][d]]]

(* A step that moves no bytes is none of the ledger's, and keeps the table. *)
LEMMA Stutters ==
    ASSUME TableMetered, UNCHANGED <<fwd, base, seen>>,
           \A p \in Peer : router'[p].ctr = router[p].ctr,
           \A p \in Peer : db'[p] # NoRow /\ SameMeter(db'[p], db[p])
    PROVE  TableMetered' /\ LedgerStep
  <1>1. TableMetered'
    BY MeteredSame DEF TableMetered
  <1>2. Counted(db') = Counted(db)
    BY DEF Counted, SameMeter, TableMetered
  <1>3. UNCHANGED Ledger!ledger
    BY <1>2 DEF Ledger!ledger, Counted
  <1>4. QED
    BY <1>1, <1>3 DEF LedgerStep

(* Storing a reading counts, as it was read no earlier than the last one.   *)
LEMMA Counts ==
    ASSUME TypeInv, TypeInv', TableMetered, NEW p \in Peer,
           UNCHANGED <<fwd, base>>,
           \A q \in Peer : router'[q].ctr = router[q].ctr,
           \A q \in Peer \ {p} : db'[q] = db[q] /\ seen'[q] = seen[q],
           db'[p] # NoRow, Metered(db'[p], router[p].ctr, fwd[p], base[p], seen'[p]),
           NotBefore(seen'[p], seen[p])
    PROVE  TableMetered' /\ LedgerStep
  <1>1. TableMetered'
    BY DEF TableMetered
  <1>2. /\ Counted(db)[p] = db[p].usage /\ Counted(db')[p] = db'[p].usage
        /\ \A q \in Peer \ {p} : Counted(db')[q] = Counted(db)[q]
    BY DEF Counted, TableMetered
  <1>3. /\ \A q \in Peer, d \in Dir : Pending(fwd, seen)[q][d] = fwd[q][d] - seen[q][d]
        /\ \A q \in Peer, d \in Dir : Pending(fwd', seen')[q][d] = fwd[q][d] - seen'[q][d]
        /\ \A q \in Peer \ {p} : Pending(fwd', seen')[q] = Pending(fwd, seen)[q]
    BY DEF Pending
  <1>4. ASSUME NEW d \in Dir
        PROVE  /\ Counted(db')[p][d] >= Counted(db)[p][d]
               /\ Counted(db')[p][d] + Pending(fwd', seen')[p][d]
                    = Counted(db)[p][d] + Pending(fwd, seen)[p][d]
               /\ Pending(fwd', seen')[p][d] >= 0
    <2>1. /\ fwd[p][d] \in Nat /\ base[p][d] \in Nat /\ seen[p][d] \in Nat /\ seen'[p][d] \in Nat
      BY DEF TypeInv, TypeOK, StateTypeOK
    <2>2. /\ db[p].usage[d] = seen[p][d] - base[p][d]
          /\ db'[p].usage[d] = seen'[p][d] - base[p][d] /\ seen'[p][d] <= fwd[p][d]
          /\ seen[p][d] <= seen'[p][d]
      BY DEF TableMetered, Metered, NotBefore
    <2>3. QED
      BY <1>2, <1>3, <2>1, <2>2
  <1>5. Ledger!Count(p)
    BY <1>2, <1>3, <1>4 DEF Ledger!Count, Ledger!Others, Counted, Pending
  <1>6. QED
    BY <1>1, <1>5 DEF LedgerStep, Ledger!Next

(* Storing a reset row forgets what was forwarded until its reading.        *)
LEMMA Resets ==
    ASSUME TypeInv, TypeInv', TableMetered, NEW p \in Peer,
           fwd' = fwd, \A q \in Peer : router'[q].ctr = router[q].ctr,
           \A q \in Peer \ {p} : db'[q] = db[q] /\ seen'[q] = seen[q] /\ base'[q] = base[q],
           db'[p] # NoRow, base'[p] = seen'[p],
           Metered(db'[p], router[p].ctr, fwd[p], seen'[p], seen'[p]),
           NotBefore(seen'[p], seen[p])
    PROVE  TableMetered' /\ LedgerStep
  <1>1. TableMetered'
    BY DEF TableMetered
  <1>2. /\ Counted(db)[p] = db[p].usage /\ Counted(db')[p] = db'[p].usage
        /\ \A q \in Peer \ {p} : Counted(db')[q] = Counted(db)[q]
    BY DEF Counted, TableMetered
  <1>3. /\ \A q \in Peer, d \in Dir : Pending(fwd', seen')[q][d] = fwd[q][d] - seen'[q][d]
        /\ \A q \in Peer \ {p} : Pending(fwd', seen')[q] = Pending(fwd, seen)[q]
    BY DEF Pending
  <1>4. ASSUME NEW d \in Dir
        PROVE  /\ Counted(db')[p][d] = 0
               /\ base'[p][d] >= base[p][d] + Counted(db)[p][d]
               /\ base'[p][d] + Pending(fwd', seen')[p][d] = fwd[p][d]
               /\ Pending(fwd', seen')[p][d] >= 0
    <2>1. /\ fwd[p][d] \in Nat /\ base[p][d] \in Nat /\ seen[p][d] \in Nat /\ seen'[p][d] \in Nat
      BY DEF TypeInv, TypeOK, StateTypeOK
    <2>2. /\ db[p].usage[d] = seen[p][d] - base[p][d]
          /\ db'[p].usage[d] = seen'[p][d] - seen'[p][d] /\ seen'[p][d] <= fwd[p][d]
          /\ seen[p][d] <= seen'[p][d]
      BY DEF TableMetered, Metered, NotBefore
    <2>3. QED
      BY <1>2, <1>3, <2>1, <2>2
  <1>5. Ledger!Reset(p)
    BY <1>2, <1>3, <1>4 DEF Ledger!Reset, Ledger!Others, Counted, Pending
  <1>6. QED
    BY <1>1, <1>5 DEF LedgerStep, Ledger!Next

(* What the environment does is an arrival, or nothing.                     *)
LEMMA Arrives ==
    ASSUME ExactReadings, TypeInv, TableMetered, Environment
    PROVE  TableMetered' /\ LedgerStep
  <1> StateTypeOK
    BY DEF TypeInv, TypeOK
  <1>1. UNCHANGED <<db, base, seen>>
    BY Zenon DEF Environment, Forward, RestartCounters, Midnight, history
  <1>2. TableMetered'
    <2> SUFFICES ASSUME NEW p \in Peer
                 PROVE  db[p] # NoRow /\ Metered(db[p], router'[p].ctr, fwd'[p], base[p], seen[p])
      BY <1>1 DEF TableMetered
    <2>1. db[p] \in Row /\ base[p] \in [Dir -> Nat] /\ seen[p] \in [Dir -> Nat] /\ NotBefore(seen[p], seen[p])
      BY DEF StateTypeOK, TableMetered, NotBefore
    <2>2. QED
      BY <2>1, EnvironmentMeters DEF TableMetered
  <1>3. ASSUME NEW p \in Peer, NEW n \in Bursts, Forward(p, n)
        PROVE  LedgerStep
    <2>1. /\ fwd'[p] = [d \in Dir |-> fwd[p][d] + n[d]]
          /\ \A q \in Peer \ {p} : fwd'[q] = fwd[q]
      BY <1>3 DEF Forward, StateTypeOK
    <2>2. \A d \in Dir : fwd[p][d] \in Nat /\ seen[p][d] \in Nat /\ n[d] \in Nat
      BY StateAssumption, MaxCounterAssumption DEF StateTypeOK
    <2>3. /\ \A d \in Dir : Pending(fwd, seen)[p][d] = fwd[p][d] - seen[p][d]
          /\ \A d \in Dir : Pending(fwd', seen')[p][d] = fwd'[p][d] - seen[p][d]
          /\ \A q \in Peer \ {p} : Pending(fwd', seen')[q] = Pending(fwd, seen)[q]
      BY <1>1, <2>1 DEF Pending
    <2>4. \A d \in Dir : /\ fwd'[p][d] >= fwd[p][d]
                         /\ fwd'[p][d] - Pending(fwd', seen')[p][d] = fwd[p][d] - Pending(fwd, seen)[p][d]
      BY <2>1, <2>2, <2>3
    <2>5. Counted(db') = Counted(db)
      BY <1>1
    <2>6. Ledger!Arrive(p)
      BY <1>1, <2>1, <2>3, <2>4, <2>5 DEF Ledger!Arrive, Ledger!Others, Counted, Pending
    <2>7. QED
      BY <2>6 DEF LedgerStep, Ledger!Next
  <1>4. ASSUME fwd' = fwd
        PROVE  LedgerStep
    BY <1>1, <1>4 DEF LedgerStep, Ledger!ledger
  <1>5. QED
    BY <1>2, <1>3, <1>4 DEF Environment, RestartCounters, Midnight, history, ExactReadings

-----------------------------------------------------------------------------
(* The steps of the threads. *)

LEMMA MeterStep ==
    ASSUME TypeInv, ChargeInv, NEW t \in Thread, NEW self,
           thr' = [thr EXCEPT ![t] = self],
           thr[t].pc # "idle" \/ mu = NoThread,
           mu' = t \/ (mu' = mu /\ thr[t].pc # "idle") \/ self.pc = "idle",
           TableMetered',
           self.pc # "idle" => RunMetered(self, db', router', fwd', base', seen')
    PROVE  LedgerInv'
  <1>1. thr'[t] = self /\ \A u \in Thread : u # t => thr'[u].pc = "idle"
    BY MutexStep DEF ChargeInv
  <1>2. CopiesMetered'
    <2> SUFFICES ASSUME NEW u \in Thread, thr'[u].pc # "idle"
                 PROVE  RunMetered(thr'[u], db', router', fwd', base', seen')
      BY DEF CopiesMetered
    <2>1. u = t
      BY <1>1
    <2>2. QED
      BY <1>1, <2>1
  <1>3. QED
    BY <1>2 DEF LedgerInv

(* A step of a run that moves no bytes, and no row but one it drops.        *)
LEMMA QuietStep ==
    ASSUME TypeInv, ChargeInv, LedgerInv, NEW t \in Thread, NEW self,
           thr' = [thr EXCEPT ![t] = self], thr[t].pc # "idle", mu' = mu,
           UNCHANGED <<fwd, base, seen>>,
           \A p \in Peer : router'[p].ctr = router[p].ctr,
           \A p \in Peer : db'[p] # NoRow /\ SameMeter(db'[p], db[p]),
           \A p \in Peer : self.rows[p] # NoRow =>
               self.rows[p] = thr[t].rows[p] /\ self.at[p] = thr[t].at[p],
           \/ self.pc \in {"expire", "queue", "mark"}
           \/ self.pc = thr[t].pc
           \/ thr[t].pc \in {"notify", "limit"} /\ self.id = thr[t].id /\ self.pc \in {"limit", "persist"},
           self.pc \in {"notify", "limit", "persist"} => self.id = thr[t].id
    PROVE  LedgerInv' /\ LedgerStep
  <1>1. TableMetered' /\ LedgerStep
    BY Stutters DEF LedgerInv
  <1>2. RunMetered(thr[t], db, router, fwd, base, seen)
    BY DEF LedgerInv, CopiesMetered
  <1>3. RunMetered(self, db', router', fwd', base', seen')
    BY <1>2 DEF RunMetered, SameMeter
  <1>4. QED
    BY <1>1, <1>3, MeterStep

LEMMA NoRowChanges ==
    ASSUME TableMetered
    PROVE  \A p \in Peer : db[p] # NoRow /\ SameMeter(db[p], db[p])
  BY DEF TableMetered, SameMeter

LEMMA StartMeters ==
    ASSUME TypeInv, ChargeInv, LedgerInv, NEW t \in Thread,
           NEW pc \in {"scan", "expire", "fetch"}, NEW rows,
           \A p \in Peer : rows[p] # NoRow => rows[p] = db[p],
           Start(t, pc, rows)
    PROVE  LedgerInv' /\ LedgerStep
  <1> DEFINE self == [Idle EXCEPT !.pc = pc, !.rows = rows]
  <1>1. self.pc = pc /\ self.rows = rows
    BY DEF Idle
  <1>2. thr' = [thr EXCEPT ![t] = self] /\ mu = NoThread /\ mu' = t /\ UNCHANGED stateVars
    BY DEF Start, Lock
  <1> HIDE DEF self
  <1>3. TableMetered' /\ LedgerStep
    BY <1>2, NoRowChanges, Stutters DEF LedgerInv, stateVars
  <1>4. RunMetered(self, db', router', fwd', base', seen')
    BY <1>1, <1>2 DEF RunMetered, SameMeter, stateVars
  <1>5. QED
    BY <1>2, <1>3, <1>4, MeterStep

LEMMA FinishMeters ==
    ASSUME TypeInv, ChargeInv, LedgerInv, NEW t \in Thread, Finish(t)
    PROVE  LedgerInv' /\ LedgerStep
  <1>1. thr' = [thr EXCEPT ![t] = Idle] /\ thr[t].pc # "idle" /\ UNCHANGED stateVars
    BY DEF Finish
  <1>2. Idle.pc = "idle"
    BY DEF Idle
  <1>3. TableMetered' /\ LedgerStep
    BY <1>1, NoRowChanges, Stutters DEF LedgerInv, stateVars
  <1>4. QED
    BY <1>1, <1>2, <1>3, MeterStep

LEMMA TrafficMeters ==
    ASSUME ExactReadings, TypeInv, TypeInv', ChargeInv, LedgerInv, NEW t \in TrafficJob, Traffic(t)
    PROVE  LedgerInv' /\ LedgerStep
  <1> t \in Thread
    BY DEF Thread
  <1> thr[t] \in Local /\ StateTypeOK /\ TableMetered
    BY DEF TypeInv, TypeOK, LedgerInv
  <1>1. CASE TrafficStart(t)
    BY <1>1, StartMeters DEF TrafficStart
  <1>2. ASSUME NEW p \in Peer, TrafficSkip(t, p)
        PROVE  LedgerInv' /\ LedgerStep
    <2> DEFINE self == Without(t, p, "scan")
    <2>1. /\ thr' = [thr EXCEPT ![t] = self] /\ thr[t].pc = "scan"
          /\ mu' = mu /\ UNCHANGED stateVars
      BY <1>2 DEF TrafficSkip
    <2>2. self.pc = "scan" /\ \A q \in Peer : self.rows[q] # NoRow => self.rows[q] = thr[t].rows[q]
      BY WithoutFacts
    <2> HIDE DEF self
    <2>3. TableMetered' /\ LedgerStep
      BY <2>1, NoRowChanges, Stutters DEF stateVars
    <2>4. RunMetered(self, db', router', fwd', base', seen')
      BY <2>1, <2>2 DEF LedgerInv, CopiesMetered, RunMetered, stateVars
    <2>5. QED
      BY <2>1, <2>3, <2>4, MeterStep
  <1>3. ASSUME NEW p \in Peer, TrafficFetch(t, p)
        PROVE  LedgerInv' /\ LedgerStep
    <2> DEFINE row == thr[t].rows[p]
               delta == Deltas(row, router[p].ctr)
               read == [row EXCEPT !.usage = [d \in Dir |-> row.usage[d] + delta[d]],
                                   !.last = router[p].ctr]
               self == [thr[t] EXCEPT !.pc = "notify", !.id = p,
                            !.delta = delta["down"] + delta["up"],
                            !.rows[p] = read, !.at[p] = fwd[p]]
    <2>1. /\ row \in Row /\ row # NoRow /\ router[p].ctr \in [Dir -> Counter] /\ thr[t].pc = "scan"
          /\ fwd[p] \in [Dir -> Nat] /\ base[p] \in [Dir -> Nat] /\ seen[p] \in [Dir -> Nat]
          /\ UNCHANGED stateVars /\ mu' = mu /\ thr' = [thr EXCEPT ![t] = self]
      BY <1>3 DEF TrafficFetch, StateTypeOK, Local, RouterPeer
    <2>2. \A q \in Peer : thr[t].rows[q] # NoRow => SameMeter(thr[t].rows[q], db[q])
      BY <2>1 DEF LedgerInv, CopiesMetered, RunMetered
    <2>3. Metered(row, router[p].ctr, fwd[p], base[p], seen[p])
      BY <2>1, <2>2, MeteredSame DEF TableMetered
    <2>4. Metered(read, router[p].ctr, fwd[p], base[p], fwd[p])
      BY <2>1, <2>3, ReadMetered
    <2>5. NotBefore(fwd[p], seen[p])
      BY DEF TableMetered, Metered, NotBefore
    <2> HIDE DEF read, delta
    <2>6. /\ self.pc = "notify" /\ self.id = p /\ self.rows[p] = read /\ self.at[p] = fwd[p]
          /\ \A q \in Peer : q # p => self.rows[q] = thr[t].rows[q]
      BY DEF Local
    <2> HIDE DEF self
    <2>7. TableMetered' /\ LedgerStep
      BY <2>1, NoRowChanges, Stutters DEF stateVars
    <2>8. RunMetered(self, db', router', fwd', base', seen')
      BY <2>1, <2>2, <2>4, <2>5, <2>6 DEF RunMetered, stateVars
    <2>9. QED
      BY <2>1, <2>7, <2>8, MeterStep
  <1>4. CASE TrafficNotify(t)
    <2>1. PICK sent : thr' = [thr EXCEPT ![t] = [thr[t] EXCEPT !.pc = "limit", !.sent = sent]]
      BY <1>4 DEF TrafficNotify
    <2> DEFINE self == [thr[t] EXCEPT !.pc = "limit", !.sent = sent]
    <2>2. self.pc = "limit" /\ self.rows = thr[t].rows /\ self.at = thr[t].at /\ self.id = thr[t].id
      BY DEF Local
    <2>3. /\ thr' = [thr EXCEPT ![t] = self] /\ thr[t].pc = "notify"
          /\ mu' = mu /\ UNCHANGED <<db, router, fwd, base, seen>>
      BY <1>4, <2>1 DEF TrafficNotify
    <2> HIDE DEF self
    <2>4. QED
      BY <2>2, <2>3, NoRowChanges, QuietStep
  <1>5. CASE TrafficLimit(t)
    <2>1. thr[t].id \in Peer /\ thr[t].pc = "limit" /\ mu' = mu /\ UNCHANGED <<db, fwd, base, seen>>
      BY <1>5 DEF TrafficLimit, history, TypeInv, AtPeer
    <2>2. \A p \in Peer : router'[p].ctr = router[p].ctr
      BY <1>5, <2>1, PatchKeepsCounters DEF TrafficLimit, Switch
    <2>3. ASSUME NEW self, thr' = [thr EXCEPT ![t] = self], self.pc = "persist",
                 self.rows = thr[t].rows, self.at = thr[t].at, self.id = thr[t].id
          PROVE  LedgerInv' /\ LedgerStep
      BY <2>1, <2>2, <2>3, NoRowChanges, QuietStep
    <2>4. CASE ~OverLimit(thr[t].rows[thr[t].id])
      <3> DEFINE self == [thr[t] EXCEPT !.pc = "persist"]
      <3>1. thr' = [thr EXCEPT ![t] = self]
        BY <1>5, <2>4 DEF TrafficLimit
      <3>2. self.pc = "persist" /\ self.rows = thr[t].rows /\ self.at = thr[t].at /\ self.id = thr[t].id
        BY DEF Local
      <3> HIDE DEF self
      <3>3. QED
        BY <2>3, <3>1, <3>2
    <2>5. CASE OverLimit(thr[t].rows[thr[t].id])
      <3> DEFINE self == [thr[t] EXCEPT !.pc = "persist", !.cut = TRUE]
      <3>1. thr' = [thr EXCEPT ![t] = self]
        BY <1>5, <2>5 DEF TrafficLimit
      <3>2. self.pc = "persist" /\ self.rows = thr[t].rows /\ self.at = thr[t].at /\ self.id = thr[t].id
        BY DEF Local
      <3> HIDE DEF self
      <3>3. QED
        BY <2>3, <3>1, <3>2
    <2>6. QED
      BY <2>4, <2>5
  <1>6. CASE TrafficPersist(t)
    <2> DEFINE p == thr[t].id
               self == Without(t, p, "scan")
    <2>1. /\ thr' = [thr EXCEPT ![t] = self] /\ thr[t].pc = "persist"
          /\ mu' = mu /\ UNCHANGED <<router, fwd, base>>
      BY <1>6 DEF TrafficPersist
    <2>2. p \in Peer /\ thr[t].rows[p] \in Row /\ thr[t].rows[p] # NoRow
      BY <2>1 DEF TypeInv, AtPeer, Local
    <2>3. self.pc = "scan" /\ \A q \in Peer : self.rows[q] # NoRow => self.rows[q] = thr[t].rows[q]
      BY <2>2, WithoutFacts
    <2>4. self.rows[p] = NoRow
      BY <2>2 DEF Without, Idle, Local
    <2>5. /\ \A q \in Peer \ {p} : thr[t].rows[q] # NoRow => SameMeter(thr[t].rows[q], db[q])
          /\ Metered(thr[t].rows[p], router[p].ctr, fwd[p], base[p], thr[t].at[p])
          /\ NotBefore(thr[t].at[p], seen[p])
      BY <2>1, <2>2 DEF LedgerInv, CopiesMetered, RunMetered
    <2> HIDE DEF self
    <2>6. ASSUME \A q \in Peer \ {p} : db'[q] = db[q]
          PROVE  RunMetered(self, db', router', fwd', base', seen')
      BY <2>3, <2>4, <2>5, <2>6 DEF RunMetered
    <2>7. CASE UNCHANGED <<db, seen>>
      <3>1. TableMetered' /\ LedgerStep
        BY <2>1, <2>7, NoRowChanges, Stutters
      <3>2. QED
        BY <2>1, <2>6, <2>7, <3>1, MeterStep
    <2>8. CASE /\ db[p] # NoRow /\ db' = [db EXCEPT ![p] = Updated(@, thr[t])]
               /\ seen' = [seen EXCEPT ![p] = thr[t].at[p]]
      <3>1. /\ db[p] \in Row /\ db'[p] = Updated(db[p], thr[t]) /\ seen'[p] = thr[t].at[p]
            /\ \A q \in Peer \ {p} : db'[q] = db[q] /\ seen'[q] = seen[q]
        BY <2>2, <2>8 DEF StateTypeOK
      <3>2. SameMeter(db'[p], thr[t].rows[p])
        BY <3>1 DEF Updated, Row, SameMeter
      <3>3. db'[p] # NoRow
        <4>1. Updated(db[p], thr[t]) \in Row
          BY <2>2, <3>1 DEF Updated, Row, Local
        <4>2. QED
          BY <3>1, <4>1, StateAssumption
      <3>4. Metered(db'[p], router[p].ctr, fwd[p], base[p], seen'[p])
        BY <2>5, <3>1, <3>2, MeteredSame
      <3>5. TableMetered' /\ LedgerStep
        BY <2>1, <2>2, <2>5, <3>1, <3>3, <3>4, Counts
      <3>6. QED
        BY <2>1, <2>6, <3>1, <3>5, MeterStep
    <2>9. QED
      BY <1>6, <2>7, <2>8 DEF TrafficPersist
  <1>7. CASE Finish(t)
    BY <1>7, FinishMeters
  <1>8. QED
    BY <1>1, <1>2, <1>3, <1>4, <1>5, <1>6, <1>7 DEF Traffic

LEMMA ExpireMeters ==
    ASSUME ExactReadings, TypeInv, ChargeInv, LedgerInv, NEW t \in ExpireJob, Expire(t)
    PROVE  LedgerInv' /\ LedgerStep
  <1> t \in Thread
    BY DEF Thread
  <1> thr[t] \in Local /\ StateTypeOK /\ TableMetered
    BY DEF TypeInv, TypeOK, LedgerInv
  <1>1. CASE ExpireStart(t)
    <2>1. \A p \in Peer : peersDueForExpiry[p] # NoRow => peersDueForExpiry[p] = db[p]
      BY DEF peersDueForExpiry
    <2>2. QED
      BY <1>1, <2>1, StartMeters DEF ExpireStart
  <1>2. ASSUME NEW self, thr' = [thr EXCEPT ![t] = self],
               self.pc \in {"expire", "queue", "mark"},
               thr[t].pc # "idle", mu' = mu, UNCHANGED <<fwd, base, seen>>,
               \A p \in Peer : router'[p].ctr = router[p].ctr,
               \A p \in Peer : db'[p] # NoRow /\ SameMeter(db'[p], db[p])
        PROVE  LedgerInv' /\ LedgerStep
    <2>1. TableMetered' /\ LedgerStep
      BY <1>2, Stutters
    <2>2. RunMetered(self, db', router', fwd', base', seen')
      BY <1>2 DEF RunMetered
    <2>3. QED
      BY <1>2, <2>1, <2>2, MeterStep
  <1>3. ASSUME NEW p \in Peer, ExpirePeer(t, p)
        PROVE  LedgerInv' /\ LedgerStep
    <2>1. PICK ok \in BOOLEAN :
            /\ PatchPeer(p, "off", ok)
            /\ thr' = [thr EXCEPT ![t] =
                 IF ok THEN [@ EXCEPT !.pc = IF thr[t].rows[p].queue THEN "queue" ELSE "mark",
                                      !.id = p]
                 ELSE Without(t, p, "expire")]
      BY <1>3 DEF ExpirePeer
    <2> DEFINE self == IF ok THEN [thr[t] EXCEPT !.pc = IF thr[t].rows[p].queue
                                                      THEN "queue" ELSE "mark", !.id = p]
                       ELSE Without(t, p, "expire")
    <2>2. self.pc \in {"expire", "queue", "mark"}
      BY WithoutFacts DEF Local
    <2>3. thr' = [thr EXCEPT ![t] = self]
      BY <2>1
    <2>4. thr[t].pc = "expire" /\ mu' = mu /\ UNCHANGED <<db, fwd, base, seen>>
      BY <1>3 DEF ExpirePeer, history
    <2>5. \A q \in Peer : router'[q].ctr = router[q].ctr
      BY <2>1, PatchKeepsCounters DEF Switch
    <2> HIDE DEF self
    <2>6. QED
      BY <1>2, <2>2, <2>3, <2>4, <2>5, NoRowChanges
  <1>4. CASE ExpireQueue(t)
    <2> DEFINE self == [thr[t] EXCEPT !.pc = "mark"]
    <2>1. /\ thr' = [thr EXCEPT ![t] = self] /\ self.pc = "mark" /\ thr[t].pc = "queue"
          /\ mu' = mu /\ UNCHANGED <<db, fwd, base, seen>>
      BY <1>4 DEF ExpireQueue, history, Local
    <2>2. thr[t].id \in Peer
      BY <2>1 DEF TypeInv, AtPeer
    <2>3. \A q \in Peer : router'[q].ctr = router[q].ctr
      BY <1>4, <2>2, PatchKeepsCounters DEF ExpireQueue, Switch
    <2> HIDE DEF self
    <2>4. QED
      BY <1>2, <2>1, <2>3, NoRowChanges
  <1>5. CASE ExpireMark(t)
    <2> DEFINE p == thr[t].id
               self == Without(t, p, "expire")
    <2>1. /\ thr' = [thr EXCEPT ![t] = self] /\ thr[t].pc = "mark"
          /\ mu' = mu /\ UNCHANGED <<router, fwd, base, seen>>
      BY <1>5 DEF ExpireMark, history
    <2>2. p \in Peer
      BY <2>1 DEF TypeInv, AtPeer
    <2>3. self.pc = "expire"
      BY <2>2, WithoutFacts
    <2>4. \A q \in Peer : db'[q] # NoRow /\ SameMeter(db'[q], db[q])
      <3>1. CASE UNCHANGED db
        BY <3>1, NoRowChanges
      <3>2. CASE db[p] # NoRow /\ db' = [db EXCEPT ![p].disabled = TRUE]
        <4>1. /\ db[p] \in Row /\ db'[p] = [db[p] EXCEPT !.disabled = TRUE]
              /\ \A q \in Peer : q # p => db'[q] = db[q]
          BY <2>2, <3>2 DEF StateTypeOK
        <4>2. SameMeter(db'[p], db[p]) /\ db'[p] \in Row
          BY <4>1 DEF Row, SameMeter
        <4>3. QED
          BY <4>1, <4>2, NoRowChanges, StateAssumption
      <3>3. QED
        BY <1>5, <3>1, <3>2 DEF ExpireMark
    <2> HIDE DEF self, p
    <2>5. QED
      BY <1>2, <2>1, <2>3, <2>4
  <1>6. CASE Finish(t)
    BY <1>6, FinishMeters
  <1>7. QED
    BY <1>1, <1>3, <1>4, <1>5, <1>6 DEF Expire

LEMMA CopiesStay ==
    ASSUME LedgerInv, UNCHANGED <<stateVars, thr>>
    PROVE  CopiesMetered'
  <1> SUFFICES ASSUME NEW t \in Thread, thr[t].pc # "idle"
               PROVE  RunMetered(thr[t], db', router', fwd', base', seen')
    BY DEF CopiesMetered
  <1>1. RunMetered(thr[t], db, router, fwd, base, seen)
    BY DEF LedgerInv, CopiesMetered
  <1>2. QED
    BY <1>1 DEF stateVars

LEMMA ResetMeters ==
    ASSUME ExactReadings, TypeInv, TypeInv', ChargeInv, LedgerInv, NEW t \in ResetCall, Reset(t)
    PROVE  LedgerInv' /\ LedgerStep
  <1> t \in Thread
    BY DEF Thread
  <1> thr[t] \in Local /\ StateTypeOK /\ TableMetered
    BY DEF TypeInv, TypeOK, LedgerInv
  <1>1. ASSUME NEW scope \in SUBSET Peer, ResetStart(t, scope)
        PROVE  LedgerInv' /\ LedgerStep
    <2> DEFINE rows == [p \in Peer |-> IF p \in scope THEN db[p] ELSE NoRow]
    <2>1. \A p \in Peer : rows[p] # NoRow => rows[p] = db[p]
      OBVIOUS
    <2>2. Start(t, "fetch", rows)
      BY <1>1 DEF ResetStart
    <2> HIDE DEF rows
    <2>3. QED
      BY <2>1, <2>2, StartMeters
  <1>2. CASE ResetFetch(t)
    <2> DEFINE rows(found) == [p \in Peer |->
                  IF thr[t].rows[p] # NoRow /\ p \in found
                  THEN ResetRow(thr[t].rows[p], router[p].ctr) ELSE NoRow]
               at(found) == [p \in Peer |->
                  IF thr[t].rows[p] # NoRow /\ p \in found THEN fwd[p] ELSE Zero]
    <2>1. PICK found : thr' = [thr EXCEPT ![t] =
            [thr[t] EXCEPT !.pc = "save", !.rows = rows(found), !.at = at(found)]]
      BY <1>2 DEF ResetFetch
    <2> DEFINE self == [thr[t] EXCEPT !.pc = "save", !.rows = rows(found), !.at = at(found)]
    <2>2. \A p \in Peer : rows(found)[p] # NoRow =>
             /\ Metered(rows(found)[p], router[p].ctr, fwd[p], at(found)[p], at(found)[p])
             /\ NotBefore(at(found)[p], seen[p])
      <3> SUFFICES ASSUME NEW p \in Peer, rows(found)[p] # NoRow
                   PROVE  /\ Metered(rows(found)[p], router[p].ctr, fwd[p], at(found)[p], at(found)[p])
                          /\ NotBefore(at(found)[p], seen[p])
        OBVIOUS
      <3>1. thr[t].rows[p] \in Row /\ router[p].ctr \in [Dir -> Counter] /\ fwd[p] \in [Dir -> Nat]
        BY DEF Local, StateTypeOK, RouterPeer
      <3>2. rows(found)[p] = ResetRow(thr[t].rows[p], router[p].ctr) /\ at(found)[p] = fwd[p]
        OBVIOUS
      <3>3. NotBefore(fwd[p], seen[p])
        BY DEF TableMetered, Metered, NotBefore
      <3> HIDE DEF rows, at
      <3>4. QED
        BY <3>1, <3>2, <3>3, ResetMetered
    <2> HIDE DEF rows, at
    <2>3. self.pc = "save" /\ self.rows = rows(found) /\ self.at = at(found)
      BY DEF Local
    <2>4. /\ UNCHANGED stateVars /\ mu' = mu /\ thr[t].pc = "fetch"
      BY <1>2, Zenon DEF ResetFetch
    <2>5. thr' = [thr EXCEPT ![t] = self]
      BY <2>1
    <2> HIDE DEF self
    <2>6. TableMetered' /\ LedgerStep
      BY <2>4, NoRowChanges, Stutters DEF stateVars
    <2>7. RunMetered(self, db', router', fwd', base', seen')
      BY <2>2, <2>3, <2>4 DEF RunMetered, stateVars
    <2>8. QED
      BY <2>4, <2>5, <2>6, <2>7, MeterStep
  <1>3. ASSUME NEW p \in Peer, ResetSave(t, p)
        PROVE  LedgerInv' /\ LedgerStep
    <2> DEFINE self == [thr[t] EXCEPT !.rows[p] = NoRow, !.at[p] = Zero]
    <2>1. /\ thr' = [thr EXCEPT ![t] = self] /\ mu' = mu
          /\ thr[t].pc = "save" /\ thr[t].rows[p] # NoRow
          /\ db' = [db EXCEPT ![p] = thr[t].rows[p]]
          /\ base' = [base EXCEPT ![p] = thr[t].at[p]]
          /\ seen' = [seen EXCEPT ![p] = thr[t].at[p]]
          /\ UNCHANGED <<router, fwd>>
      BY <1>3 DEF ResetSave
    <2>2. /\ self.pc = "save" /\ self.rows[p] = NoRow
          /\ \A q \in Peer : q # p => self.rows[q] = thr[t].rows[q] /\ self.at[q] = thr[t].at[q]
      BY <2>1 DEF Local
    <2> HIDE DEF self
    <2>3. /\ db'[p] = thr[t].rows[p] /\ base'[p] = thr[t].at[p] /\ seen'[p] = thr[t].at[p]
          /\ \A q \in Peer \ {p} : db'[q] = db[q] /\ base'[q] = base[q] /\ seen'[q] = seen[q]
      BY <2>1 DEF StateTypeOK
    <2>4. \A q \in Peer : thr[t].rows[q] # NoRow =>
             /\ Metered(thr[t].rows[q], router[q].ctr, fwd[q], thr[t].at[q], thr[t].at[q])
             /\ NotBefore(thr[t].at[q], seen[q])
      BY <2>1 DEF LedgerInv, CopiesMetered, RunMetered
    <2>5. TableMetered' /\ LedgerStep
      BY <2>1, <2>3, <2>4, Resets
    <2>6. RunMetered(self, db', router', fwd', base', seen')
      BY <2>1, <2>2, <2>3, <2>4 DEF RunMetered
    <2>7. QED
      BY <2>1, <2>5, <2>6, MeterStep
  <1>4. CASE ResetFail(t)
    <2> DEFINE self == [Idle EXCEPT !.pc = "save"]
    <2>1. self.rows = NoRows
      BY DEF Idle
    <2>2. thr' = [thr EXCEPT ![t] = self] /\ thr[t].pc = "save" /\ mu' = mu /\ UNCHANGED stateVars
      BY <1>4 DEF ResetFail
    <2> HIDE DEF self
    <2>3. TableMetered' /\ LedgerStep
      BY <2>2, NoRowChanges, Stutters DEF stateVars
    <2>4. RunMetered(self, db', router', fwd', base', seen')
      BY <2>1 DEF RunMetered, NoRows
    <2>5. QED
      BY <2>2, <2>3, <2>4, MeterStep
  <1>5. CASE Finish(t)
    BY <1>5, FinishMeters
  <1>6. CASE ResetTotalTrafficUsage(t)
    <2>1. UNCHANGED <<stateVars, thr>>
      BY <1>6 DEF ResetTotalTrafficUsage
    <2>2. TableMetered' /\ LedgerStep
      BY <2>1, NoRowChanges, Stutters DEF stateVars
    <2>3. CopiesMetered'
      BY <2>1, CopiesStay
    <2>4. QED
      BY <2>2, <2>3 DEF LedgerInv
  <1>7. QED
    BY <1>1, <1>2, <1>3, <1>4, <1>5, <1>6 DEF Reset

-----------------------------------------------------------------------------
LEMMA InitMeters == Init => LedgerInv /\ Ledger!Init
  <1> SUFFICES ASSUME Init PROVE LedgerInv /\ Ledger!Init
    OBVIOUS
  <1>1. /\ fwd = [p \in Peer |-> Zero] /\ base = [p \in Peer |-> Zero] /\ seen = [p \in Peer |-> Zero]
    BY DEF Init, StateInit, HistoryInit
  <1>2. \A p \in Peer : /\ db[p].usage = Zero /\ db[p].last = Zero /\ router[p].ctr = Zero
                        /\ db[p] # NoRow
    <2>1. \A l \in Limits, e \in Expiries : FreshRow(l, e) \in Row
      <3>1. Zero \in [Dir -> Nat] /\ Zero \in [Dir -> Counter]
        BY MaxCounterAssumption DEF Zero, Counter
      <3>2. QED
        BY <3>1, StateAssumption DEF FreshRow, Row
    <2>2. PICK l \in [Peer -> Limits], e \in [Peer -> Expiries], s \in [Peer -> Switch] :
             /\ db = [p \in Peer |-> FreshRow(l[p], e[p])]
             /\ router = [p \in Peer |-> FreshRouterPeer(e[p], s[p])]
      BY DEF Init, StateInit
    <2>3. \A p \in Peer : db[p] \in Row
      BY <2>1, <2>2
    <2>4. \A p \in Peer : db[p].usage = Zero /\ db[p].last = Zero /\ router[p].ctr = Zero
      BY <2>2 DEF FreshRow, FreshRouterPeer
    <2>5. QED
      BY <2>3, <2>4, StateAssumption
  <1>3. TableMetered
    <2>1. \A d \in Dir : Zero[d] = 0 /\ Ahead(0, 0, 0)
      BY DEF Zero, Ahead
    <2>2. QED
      BY <1>1, <1>2, <2>1, StateAssumption DEF TableMetered, Metered
  <1>4. CopiesMetered
    BY DEF Init, CalculatorInit, Idle, CopiesMetered
  <1>5. Ledger!Init
    <2>1. Ledger!Zeros = [p \in Peer |-> Zero]
      BY DEF Ledger!Zeros, Zero
    <2>2. Counted(db) = [p \in Peer |-> Zero]
      BY <1>2 DEF Counted
    <2>3. Pending(fwd, seen) = [p \in Peer |-> Zero]
      BY <1>1 DEF Pending, Zero
    <2>4. QED
      BY <1>1, <2>1, <2>2, <2>3 DEF Ledger!Init, Counted, Pending
  <1>6. QED
    BY <1>3, <1>4, <1>5 DEF LedgerInv

LEMMA NextMeters ==
    ASSUME ExactReadings, TypeInv, ChargeInv, LedgerInv, [Next]_vars
    PROVE  LedgerInv' /\ LedgerStep
  <1>1. TypeInv' /\ StateTypeOK /\ TableMetered
    BY NextType DEF TypeInv, TypeOK, LedgerInv
  <1>2. CASE Crash
    <2>1. CopiesMetered'
      BY <1>2 DEF Crash, Idle, CopiesMetered
    <2>2. TableMetered' /\ LedgerStep
      BY <1>1, <1>2, NoRowChanges, Stutters DEF Crash, stateVars
    <2>3. QED
      BY <2>1, <2>2 DEF LedgerInv
  <1>3. CASE EnvironmentStep
    <2>1. Environment /\ UNCHANGED <<mu, thr>>
      BY <1>3 DEF EnvironmentStep
    <2>2. UNCHANGED <<db, base, seen>>
      BY <2>1, Zenon DEF Environment, Forward, RestartCounters, Midnight, history
    <2>3. TableMetered' /\ LedgerStep
      BY <1>1, <2>1, Arrives
    <2>4. CopiesMetered'
      <3> SUFFICES ASSUME NEW t \in Thread, thr[t].pc # "idle", NEW p \in Peer, thr[t].rows[p] # NoRow
                   PROVE  /\ thr[t].pc \in {"notify", "limit", "persist"} /\ p = thr[t].id
                              => Metered(thr[t].rows[p], router'[p].ctr, fwd'[p], base[p], thr[t].at[p])
                          /\ thr[t].pc = "save"
                              => Metered(thr[t].rows[p], router'[p].ctr, fwd'[p], thr[t].at[p], thr[t].at[p])
        BY <2>1, <2>2 DEF LedgerInv, CopiesMetered, RunMetered
      <3>1. thr[t].rows[p] \in Row /\ base[p] \in [Dir -> Nat] /\ thr[t].at[p] \in [Dir -> Nat]
        BY <1>1 DEF StateTypeOK, TypeInv, TypeOK, Local
      <3>2. QED
        BY <1>1, <2>1, <3>1, EnvironmentMeters DEF LedgerInv, CopiesMetered, RunMetered
    <2>5. QED
      BY <2>3, <2>4 DEF LedgerInv
  <1>4. CASE UNCHANGED vars
    <2>1. UNCHANGED <<stateVars, thr>>
      BY <1>4 DEF vars
    <2>2. TableMetered' /\ LedgerStep
      BY <1>1, <2>1, NoRowChanges, Stutters DEF stateVars
    <2>3. CopiesMetered'
      BY <2>1, CopiesStay
    <2>4. QED
      BY <2>2, <2>3 DEF LedgerInv
  <1>5. QED
    BY <1>1, <1>2, <1>3, <1>4, TrafficMeters, ExpireMeters, ResetMeters DEF Next, CalculatorNext

(* As long as the router does not restart and the job reads the counters    *)
(* before half a range has passed, every byte is counted exactly once: each *)
(* step of the jobs, the resets and the router is a step of the ledger or   *)
(* none of its business, through wraps, overlapping runs, failed calls and  *)
(* crashes.                                                                *)
THEOREM MeteringRefines == ASSUME ExactReadings PROVE Spec => MeteringIsALedger
  <1>1. Init => TypeInv /\ ChargeInv /\ LedgerInv /\ Ledger!Init
    BY InitType, InitCharge, InitMeters
  <1>2. TypeInv /\ ChargeInv /\ LedgerInv /\ [Next]_vars
           => (TypeInv /\ ChargeInv /\ LedgerInv)' /\ LedgerStep
    BY NextType, NextCharge, NextMeters
  <1>3. QED
    BY <1>1, <1>2, PTL DEF Spec, MeteringIsALedger, Ledger!Spec, LedgerStep
=============================================================================
