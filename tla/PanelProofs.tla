----------------------------- MODULE PanelProofs -----------------------------
(***************************************************************************)
(* Requests beside the jobs and resets: what the table and the router hold *)
(* whatever the order, for every set of peers, threads and requests.       *)
(***************************************************************************)
EXTENDS Panel, TrafficProofs

-----------------------------------------------------------------------------
(* Type correctness.  A request works on the peer and the row it read, and *)
(* some of its steps on fields that not every request has.                 *)

Pcs == {"idle", "ok", "failed",
        "add", "addSched", "addQueue", "insert", "conf", "qr",
        "patch", "sched", "queue", "write", "reread",
        "off", "offQueue", "mark",
        "switch", "switchSched", "switchQueue", "flip",
        "dropSched", "dropQueue", "dropPeer", "dropQR", "dropConf",
        "dropSessions", "dropRow"}

WithoutRow == {"idle", "ok", "failed", "add", "addSched", "addQueue", "insert"}
Toggling == {"switch", "switchSched", "switchQueue", "flip"}

CallFacts(c) ==
    /\ c.pc # "idle" => c.p \in Peer
    /\ c.pc \notin WithoutRow => c.row # NoRow
    /\ c.pc = "addSched" => c.want.expire # Never
    /\ c.pc \in Toggling => c.want.disabled # Unset

CallInv == \A q \in Request : CallFacts(call[q])

PanelInv == TypeInv /\ ServiceTypeOK /\ CallInv

(* A request goes on: its locals are replaced by c. *)
LEMMA CallStep ==
    ASSUME ServiceTypeOK, CallInv, NEW q \in Request, NEW c \in CallType, CallFacts(c),
           call' = [call EXCEPT ![q] = c]
    PROVE  /\ call' \in [Request -> CallType] /\ CallInv'
           /\ call'[q] = c /\ \A r \in Request : r # q => call'[r] = call[r]
  BY DEF ServiceTypeOK, CallInv

LEMMA GoStep ==
    ASSUME ServiceTypeOK, CallInv, NEW q \in Request, NEW pc \in Pcs,
           CallFacts([call[q] EXCEPT !.pc = pc]), Go(q, pc)
    PROVE  /\ call' \in [Request -> CallType] /\ CallInv'
           /\ call'[q] = [call[q] EXCEPT !.pc = pc]
           /\ \A r \in Request : r # q => call'[r] = call[r]
  <1>1. [call[q] EXCEPT !.pc = pc] \in CallType
    BY DEF ServiceTypeOK, CallType, Pcs
  <1>2. call' = [call EXCEPT ![q] = [call[q] EXCEPT !.pc = pc]]
    BY DEF Go
  <1>3. QED
    BY <1>1, <1>2, CallStep

(* What a router call of a request leaves. *)
LEMMA MustCallStep ==
    ASSUME ServiceTypeOK, NEW q \in Request, NEW possible \in BOOLEAN, NEW entry, NEW next,
           MustCall(q, possible, entry, next)
    PROVE  /\ router' \in {router, [router EXCEPT ![call[q].p] = entry]}
           /\ \E pc \in {next, "failed"} : Go(q, pc)
  BY DEF MustCall, RouterCall

LEMMA RequestCallType ==
    ASSUME PanelInv, NEW q \in Request, call[q].pc # "idle",
           NEW possible \in BOOLEAN, NEW entry \in RouterPeer, NEW next \in Pcs,
           CallFacts([call[q] EXCEPT !.pc = next]),
           MustCall(q, possible, entry, next) \/ MayCall(q, possible, entry, next)
    PROVE  /\ router' \in [Peer -> RouterPeer]
           /\ call' \in [Request -> CallType] /\ CallInv'
  <1>1. call[q] \in CallType /\ CallFacts(call[q]) /\ router \in [Peer -> RouterPeer]
    BY DEF PanelInv, ServiceTypeOK, CallInv, TypeInv, TypeOK, StateTypeOK
  <1>2. call[q].p \in Peer
    BY <1>1 DEF CallFacts
  <1>3. CallFacts([call[q] EXCEPT !.pc = "failed"])
    BY <1>1, <1>2 DEF CallFacts, CallType, WithoutRow, Toggling
  <1>4. \E pc \in {next, "failed"} : Go(q, pc)
    BY DEF MustCall, MayCall
  <1>5. router' \in {router, [router EXCEPT ![call[q].p] = entry]}
    BY DEF MustCall, MayCall, RouterCall
  <1>6. call' \in [Request -> CallType] /\ CallInv'
    BY <1>3, <1>4, GoStep DEF PanelInv, Pcs
  <1>7. QED
    BY <1>1, <1>2, <1>5, <1>6

LEMMA EntryType ==
    ASSUME PanelInv, NEW q \in Request, call[q].pc # "idle"
    PROVE  Entry(q) \in RouterPeer
  <1>1. call[q].p \in Peer
    BY DEF PanelInv, CallInv, CallFacts
  <1>2. QED
    BY <1>1 DEF PanelInv, TypeInv, TypeOK, StateTypeOK, Entry

LEMMA SwitchTypes ==
    /\ "none" \in Switch /\ "on" \in Switch /\ "off" \in Switch
    /\ \A b \in BOOLEAN : SwitchOf(b) \in Switch
  BY DEF Switch, SwitchOf

LEMMA NextRunType ==
    ASSUME NEW e \in Nat PROVE NextRun(e) \in Nat \cup {Never}
  BY DEF NextRun

(* A request that calls the router, or only moves on, leaves the table and *)
(* the files alone.                                                        *)
LEMMA CallOnlyType ==
    ASSUME PanelInv, UNCHANGED <<db, today, history, files, fresh, calculatorVars>>,
           router' \in [Peer -> RouterPeer], call' \in [Request -> CallType], CallInv'
    PROVE  PanelInv'
  <1>1. StateTypeOK' /\ ServiceTypeOK'
    BY DEF PanelInv, TypeInv, TypeOK, StateTypeOK, ServiceTypeOK, history
  <1>2. TypeInv'
    BY <1>1 DEF PanelInv, TypeInv, TypeOK, AtPeer, calculatorVars
  <1>3. QED
    BY <1>1, <1>2 DEF PanelInv

(* A request that writes the table keeps the rows of others.               *)
LEMMA WriteType ==
    ASSUME PanelInv, UNCHANGED <<router, today, fwd, base, seen, slop, files, fresh, calculatorVars>>,
           db' \in [Peer -> Row \cup {NoRow}], told' \in [Peer -> SUBSET Thresholds],
           call' \in [Request -> CallType], CallInv'
    PROVE  PanelInv'
  <1>1. StateTypeOK' /\ ServiceTypeOK'
    BY DEF PanelInv, TypeInv, TypeOK, StateTypeOK, ServiceTypeOK
  <1>2. TypeInv'
    BY <1>1 DEF PanelInv, TypeInv, TypeOK, AtPeer, calculatorVars
  <1>3. QED
    BY <1>1, <1>2 DEF PanelInv

(* A request that writes files, or nothing. *)
LEMMA FilesType ==
    ASSUME PanelInv, UNCHANGED <<stateVars, calculatorVars>>,
           files' \in [Peer -> SUBSET Files], fresh' \subseteq Peer,
           call' \in [Request -> CallType], CallInv'
    PROVE  PanelInv'
  <1>1. StateTypeOK' /\ ServiceTypeOK'
    BY DEF PanelInv, TypeInv, TypeOK, StateTypeOK, ServiceTypeOK, stateVars
  <1>2. TypeInv'
    BY <1>1 DEF PanelInv, TypeInv, TypeOK, AtPeer, calculatorVars
  <1>3. QED
    BY <1>1, <1>2 DEF PanelInv

(* The same, of a step that makes a router call whose entry is well formed. *)
LEMMA RouterStepType ==
    ASSUME PanelInv, NEW q \in Request, call[q].pc # "idle",
           NEW possible \in BOOLEAN, NEW entry \in RouterPeer, NEW next \in Pcs,
           CallFacts([call[q] EXCEPT !.pc = next]),
           MustCall(q, possible, entry, next) \/ MayCall(q, possible, entry, next),
           UNCHANGED <<db, today, history, files, fresh, calculatorVars>>
    PROVE  PanelInv'
  BY RequestCallType, CallOnlyType

(* No call, no write: the request only goes on. *)
LEMMA SkipType ==
    ASSUME PanelInv, NEW q \in Request, NEW pc \in Pcs,
           CallFacts([call[q] EXCEPT !.pc = pc]), Go(q, pc),
           UNCHANGED <<stateVars, files, fresh, calculatorVars>>
    PROVE  PanelInv'
  <1>1. call' \in [Request -> CallType] /\ CallInv'
    BY GoStep DEF PanelInv
  <1>2. files' \in [Peer -> SUBSET Files] /\ fresh' \subseteq Peer
    BY DEF PanelInv, ServiceTypeOK
  <1>3. QED
    BY <1>1, <1>2, FilesType

(* Moving on to a step that needs no more than the one before. *)
LEMMA MoveFacts ==
    ASSUME PanelInv, NEW q \in Request, call[q].pc # "idle", NEW pc \in Pcs,
           pc \notin WithoutRow => call[q].row # NoRow,
           pc = "addSched" => call[q].want.expire # Never,
           pc \in Toggling => call[q].want.disabled # Unset
    PROVE  CallFacts([call[q] EXCEPT !.pc = pc])
  BY DEF PanelInv, CallInv, CallFacts, ServiceTypeOK, CallType

(* A request begins. *)
LEMMA EnterType ==
    ASSUME PanelInv, NEW q \in Request, NEW pc \in Pcs, NEW p \in Peer, NEW row \in Row \cup {NoRow},
           NEW want \in Want, Enter(q, pc, p, row, want), fresh' \subseteq fresh,
           pc \notin WithoutRow => row # NoRow,
           pc # "addSched", pc \in Toggling => want.disabled # Unset,
           UNCHANGED calculatorVars
    PROVE  PanelInv'
  <1> DEFINE c == [pc |-> pc, p |-> p, row |-> row, want |-> want]
  <1>1. c \in CallType /\ CallFacts(c)
    BY DEF CallType, CallFacts, Pcs
  <1>2. call' = [call EXCEPT ![q] = c] /\ UNCHANGED <<stateVars, files>>
    BY DEF Enter
  <1> HIDE DEF c
  <1>3. call' \in [Request -> CallType] /\ CallInv'
    BY <1>1, <1>2, CallStep DEF PanelInv
  <1>4. files' \in [Peer -> SUBSET Files] /\ fresh' \subseteq Peer
    BY <1>2 DEF PanelInv, ServiceTypeOK
  <1>5. QED
    BY <1>2, <1>3, <1>4, FilesType

LEMMA FreshRowType ==
    ASSUME NEW l \in Nat \cup {NoLimit}, NEW e \in Nat \cup {Never}
    PROVE  FreshRow(l, e) \in Row
  BY MaxCounterAssumption DEF FreshRow, Row, Zero, Counter

LEMMA CreateType ==
    ASSUME PanelInv, NEW q \in Request, Create(q), UNCHANGED calculatorVars
    PROVE  PanelInv'
  <1>1. call[q] \in CallType /\ CallFacts(call[q]) /\ router \in [Peer -> RouterPeer]
    BY DEF PanelInv, ServiceTypeOK, CallInv, TypeInv, TypeOK, StateTypeOK
  <1>2. CASE CreateBegin(q)
    <2>1. PICK p \in fresh, limit \in Limits, expire \in Expiries :
            /\ Enter(q, "add", p, NoRow, [Blank EXCEPT !.limit = limit, !.expire = expire])
            /\ fresh' = fresh \ {p}
      BY <1>2, Zenon DEF CreateBegin
    <2>2. [Blank EXCEPT !.limit = limit, !.expire = expire] \in Want
      BY StateAssumption DEF Blank, Want
    <2>3. p \in Peer
      BY DEF PanelInv, ServiceTypeOK
    <2>4. QED
      BY <2>1, <2>2, <2>3, EnterType DEF Pcs, WithoutRow, Toggling
  <1>3. CASE CreateAdd(q)
    <2> DEFINE next == IF call[q].want.expire = Never THEN "addQueue" ELSE "addSched"
    <2>1. call[q].pc = "add" /\ next \in Pcs
      BY <1>3 DEF CreateAdd, At, Pcs
    <2>2. CallFacts([call[q] EXCEPT !.pc = next])
      BY <2>1, MoveFacts DEF WithoutRow, Toggling
    <2>3. [Entry(q) EXCEPT !.wg = "on"] \in RouterPeer
      BY <2>1, EntryType, SwitchTypes DEF RouterPeer
    <2>4. MustCall(q, Entry(q).wg = "none", [Entry(q) EXCEPT !.wg = "on"], next)
      BY <1>3 DEF CreateAdd
    <2> HIDE DEF next
    <2>5. QED
      BY <1>3, <2>1, <2>2, <2>3, <2>4, RouterStepType DEF CreateAdd
  <1>4. CASE CreateSched(q)
    <2> DEFINE n == NextRun(call[q].want.expire)
    <2>1. call[q].pc = "addSched" /\ call[q].want.expire \in Nat
      BY <1>1, <1>4 DEF CreateSched, At, CallFacts, CallType, Want
    <2>2. CallFacts([call[q] EXCEPT !.pc = "addQueue"])
      BY <2>1, MoveFacts DEF WithoutRow, Toggling, Pcs
    <2>3. n \in Nat \cup {Never}
      BY <2>1, NextRunType
    <2>4. [Entry(q) EXCEPT !.sched = "on", !.next = n] \in RouterPeer
      BY <2>1, <2>3, EntryType, SwitchTypes DEF RouterPeer
    <2>5. MustCall(q, Entry(q).sched = "none", [Entry(q) EXCEPT !.sched = "on", !.next = n], "addQueue")
      BY <1>4 DEF CreateSched, createScheduler
    <2> HIDE DEF n
    <2>6. QED
      BY <1>4, <2>1, <2>2, <2>4, <2>5, RouterStepType DEF CreateSched, Pcs
  <1>5. CASE CreateQueue(q)
    <2>1. call[q].pc = "addQueue"
      BY <1>5 DEF CreateQueue, At
    <2>2. CallFacts([call[q] EXCEPT !.pc = "insert"])
      BY <2>1, MoveFacts DEF WithoutRow, Toggling, Pcs
    <2>3. [Entry(q) EXCEPT !.queue = "on"] \in RouterPeer
      BY <2>1, EntryType, SwitchTypes DEF RouterPeer
    <2>4. QED
      BY <1>5, <2>1, <2>2, <2>3, RouterStepType DEF CreateQueue, createQueue, Pcs
  <1>6. CASE CreateInsert(q)
    <2> DEFINE p == call[q].p
               row == FreshRow(call[q].want.limit, call[q].want.expire)
               c == [call[q] EXCEPT !.pc = "conf", !.row = row]
    <2>1. call[q].pc = "insert" /\ p \in Peer
      BY <1>1, <1>6 DEF CreateInsert, At, CallFacts
    <2>2. row \in Row
      BY <1>1, FreshRowType DEF CallType, Want
    <2>3. UNCHANGED <<router, today, history, files, fresh>>
      BY <1>6 DEF CreateInsert
    <2>4. CASE db' = [db EXCEPT ![p] = row] /\ call' = [call EXCEPT ![q].pc = "conf", ![q].row = row]
      <3>1. call' = [call EXCEPT ![q] = c]
        BY <2>4 DEF PanelInv, ServiceTypeOK
      <3> HIDE DEF row, p
      <3>2. c \in CallType /\ CallFacts(c)
        BY <1>1, <2>1, <2>2, StateAssumption DEF CallType, CallFacts, WithoutRow, Toggling, p
      <3> HIDE DEF c
      <3>3. call' \in [Request -> CallType] /\ CallInv'
        BY <3>1, <3>2, CallStep DEF PanelInv
      <3>4. db' \in [Peer -> Row \cup {NoRow}] /\ told' \in [Peer -> SUBSET Thresholds]
        BY <2>2, <2>3, <2>4 DEF PanelInv, TypeInv, TypeOK, StateTypeOK, history
      <3>5. QED
        BY <2>3, <3>3, <3>4, WriteType DEF history
    <2>5. CASE UNCHANGED db /\ Go(q, "failed")
      <3>1. CallFacts([call[q] EXCEPT !.pc = "failed"])
        BY <2>1, MoveFacts DEF WithoutRow, Toggling, Pcs
      <3>2. QED
        BY <2>3, <2>5, <3>1, SkipType DEF Pcs, stateVars, history
    <2>6. QED
      BY <1>6, <2>4, <2>5 DEF CreateInsert
  <1>7. ASSUME NEW file \in Files, NEW next \in Pcs, CreateFile(q, file, next),
               next \notin Toggling, next # "addSched"
        PROVE  PanelInv'
    <2>1. call[q].pc \in {"conf", "qr"} /\ call[q].p \in Peer /\ call[q].row # NoRow
      BY <1>1, <1>7 DEF CreateFile, At, Files, CallFacts, WithoutRow
    <2>2. \A pc \in {next, "failed"} : CallFacts([call[q] EXCEPT !.pc = pc])
      BY <1>7, <2>1, MoveFacts DEF Pcs, WithoutRow, Toggling
    <2>3. \E pc \in {next, "failed"} : Go(q, pc)
      BY <1>7 DEF CreateFile
    <2>4. call' \in [Request -> CallType] /\ CallInv'
      BY <2>2, <2>3, GoStep DEF PanelInv, Pcs
    <2>5. files' \in [Peer -> SUBSET Files] /\ fresh' \subseteq Peer /\ UNCHANGED stateVars
      BY <1>7, <2>1 DEF CreateFile, PanelInv, ServiceTypeOK
    <2>6. QED
      BY <2>4, <2>5, FilesType
  <1>8. AfterSync(call[q].row) \in {"off", "ok"}
    BY DEF AfterSync
  <1>9. QED
    BY <1>2, <1>3, <1>4, <1>5, <1>6, <1>7, <1>8 DEF Create, Files, Pcs, Toggling

(* The row a request leaves in the table. *)
LEMMA WriteRowType ==
    ASSUME PanelInv, NEW p \in Peer, NEW row, db[p] # NoRow => row \in Row, WriteRow(p, row)
    PROVE  db' \in [Peer -> Row \cup {NoRow}]
  BY DEF WriteRow, PanelInv, TypeInv, TypeOK, StateTypeOK

LEMMA SyncType ==
    ASSUME PanelInv, NEW q \in Request, SyncOff(q) \/ SyncOffQueue(q) \/ SyncMark(q) \/ Reply(q),
           UNCHANGED calculatorVars
    PROVE  PanelInv'
  <1>1. call[q] \in CallType /\ CallFacts(call[q])
    BY DEF PanelInv, ServiceTypeOK, CallInv
  <1>2. CASE SyncOff(q)
    <2> DEFINE next == IF call[q].row.queue THEN "offQueue" ELSE "mark"
    <2>1. call[q].pc = "off" /\ call[q].row \in Row /\ call[q].row # NoRow
      BY <1>1, <1>2 DEF SyncOff, At, CallFacts, WithoutRow, CallType
    <2>2. next \in {"offQueue", "mark"}
      BY <2>1 DEF Row
    <2>3. MustCall(q, Entry(q).wg # "none", [Entry(q) EXCEPT !.wg = "off"], next)
      BY <1>2 DEF SyncOff
    <2> HIDE DEF next
    <2>4. CallFacts([call[q] EXCEPT !.pc = next])
      BY <2>1, <2>2, MoveFacts DEF Pcs, Toggling
    <2>5. [Entry(q) EXCEPT !.wg = "off"] \in RouterPeer
      BY <2>1, EntryType DEF RouterPeer, Switch
    <2>6. QED
      BY <1>2, <2>1, <2>2, <2>3, <2>4, <2>5, RouterStepType DEF SyncOff, Pcs
  <1>3. CASE SyncOffQueue(q)
    <2>1. call[q].pc = "offQueue" /\ call[q].row # NoRow
      BY <1>1, <1>3 DEF SyncOffQueue, At, CallFacts, WithoutRow
    <2>2. CallFacts([call[q] EXCEPT !.pc = "mark"])
      BY <2>1, MoveFacts DEF Pcs, Toggling
    <2>3. [Entry(q) EXCEPT !.queue = "off"] \in RouterPeer
      BY <2>1, EntryType DEF RouterPeer, Switch
    <2>4. QED
      BY <1>3, <2>1, <2>2, <2>3, RouterStepType DEF SyncOffQueue, Pcs
  <1>4. CASE SyncMark(q)
    <2> DEFINE p == call[q].p
    <2>1. call[q].pc = "mark" /\ p \in Peer
      BY <1>1, <1>4 DEF SyncMark, At, CallFacts
    <2>2. \A pc \in {"ok", "failed"} : CallFacts([call[q] EXCEPT !.pc = pc])
      BY <2>1, MoveFacts DEF Pcs, Toggling, WithoutRow
    <2>3. \E pc \in {"ok", "failed"} : Go(q, pc)
      BY <1>4 DEF SyncMark
    <2>4. call' \in [Request -> CallType] /\ CallInv'
      BY <2>2, <2>3, GoStep DEF PanelInv, Pcs
    <2>5. db[p] # NoRow => [db[p] EXCEPT !.disabled = TRUE] \in Row
      BY <2>1 DEF PanelInv, TypeInv, TypeOK, StateTypeOK, Row
    <2>6. db' \in [Peer -> Row \cup {NoRow}]
      <3>1. CASE UNCHANGED db
        BY <3>1 DEF PanelInv, TypeInv, TypeOK, StateTypeOK
      <3>2. CASE WriteRow(p, [db[p] EXCEPT !.disabled = TRUE])
        BY <2>1, <2>5, <3>2, WriteRowType
      <3>3. QED
        BY <1>4, <3>1, <3>2 DEF SyncMark
    <2>7. UNCHANGED <<router, today, history, files, fresh>>
      BY <1>4 DEF SyncMark
    <2>8. told' \in [Peer -> SUBSET Thresholds]
      BY <2>7 DEF history, PanelInv, TypeInv, TypeOK, StateTypeOK
    <2>9. QED
      BY <2>4, <2>6, <2>7, <2>8, WriteType DEF history
  <1>5. CASE Reply(q)
    <2>1. NoCall \in CallType /\ CallFacts(NoCall)
      BY DEF NoCall, CallType, Want, Blank, CallFacts, WithoutRow, Toggling
    <2>2. call' = [call EXCEPT ![q] = NoCall] /\ UNCHANGED <<stateVars, files, fresh>>
      BY <1>5 DEF Reply
    <2>3. call' \in [Request -> CallType] /\ CallInv'
      BY <2>1, <2>2, CallStep DEF PanelInv
    <2>4. files' \in [Peer -> SUBSET Files] /\ fresh' \subseteq Peer
      BY <2>2 DEF PanelInv, ServiceTypeOK
    <2>5. QED
      BY <2>2, <2>3, <2>4, FilesType
  <1>6. QED
    BY <1>2, <1>3, <1>4, <1>5

(* The row UpdatePeer writes: the counts are those of the table. *)
LEMMA PreparedRow ==
    ASSUME NEW row \in Row, NEW old, NEW want \in Want, want.disabled # Unset
    PROVE  LET new == preparePeerUpdate(row, old, want) IN
           /\ new \in Row
           /\ new.usage = row.usage /\ new.last = row.last
           /\ new.disabled = want.disabled
           /\ new.expire = want.expire
           /\ new.sched = (want.expire # Never)
           /\ new.queue = (want.bw # "none")
  <1> DEFINE disabled == want.disabled
             limit == NewLimit(want)
             notified == IF ClearsFlags(old, want) THEN {} ELSE row.notified
             expire == want.expire
             sched == want.expire # Never
             queue == want.bw # "none"
             new == [row EXCEPT !.disabled = disabled, !.limit = limit, !.notified = notified,
                                !.expire = expire, !.sched = sched, !.queue = queue]
  <1>1. disabled \in BOOLEAN /\ expire \in Nat \cup {Never} /\ limit \in Nat \cup {NoLimit}
    BY DEF Want, NewLimit
  <1>2. notified \in SUBSET Thresholds
    BY DEF Row
  <1>3. sched \in BOOLEAN /\ queue \in BOOLEAN
    OBVIOUS
  <1>4. preparePeerUpdate(row, old, want) = new
    BY DEF preparePeerUpdate
  <1> HIDE DEF disabled, limit, notified, expire, sched, queue
  <1>5. new \in Row
    BY <1>1, <1>2, <1>3 DEF Row
  <1>6. /\ new.usage = row.usage /\ new.last = row.last /\ new.disabled = disabled
        /\ new.expire = expire /\ new.sched = sched /\ new.queue = queue
    BY DEF Row
  <1> HIDE DEF new
  <1>7. QED
    BY <1>4, <1>5, <1>6 DEF disabled, expire, sched, queue

LEMMA UpdateType ==
    ASSUME PanelInv, NEW q \in Request, Update(q), UNCHANGED calculatorVars
    PROVE  PanelInv'
  <1>1. call[q] \in CallType /\ CallFacts(call[q])
    BY DEF PanelInv, ServiceTypeOK, CallInv
  <1>2. \A p \in Peer : db[p] # NoRow => db[p] \in Row
    BY DEF PanelInv, TypeInv, TypeOK, StateTypeOK
  <1>3. CASE UpdateBegin(q)
    <2>1. PICK p \in Peer, want \in Updates : db[p] # NoRow /\ Enter(q, "patch", p, db[p], want)
      BY <1>3 DEF UpdateBegin
    <2>2. want \in Want /\ fresh' = fresh
      BY <1>3, RequestAssumption DEF UpdateBegin
    <2>3. QED
      BY <1>2, <2>1, <2>2, EnterType DEF Pcs, Toggling
  <1>4. CASE UpdatePatch(q)
    <2> DEFINE want == call[q].want.disabled
               entry == IF want = Unset THEN Entry(q) ELSE [Entry(q) EXCEPT !.wg = SwitchOf(want)]
    <2>1. call[q].pc = "patch" /\ call[q].row # NoRow
      BY <1>1, <1>4 DEF UpdatePatch, At, CallFacts, WithoutRow
    <2>2. CallFacts([call[q] EXCEPT !.pc = "sched"])
      BY <2>1, MoveFacts DEF Pcs, Toggling
    <2>3. entry \in RouterPeer
      <3>1. want \in BOOLEAN \cup {Unset}
        BY <1>1 DEF CallType, Want
      <3>2. want # Unset => SwitchOf(want) \in Switch
        BY <3>1, SwitchTypes
      <3> HIDE DEF want
      <3>3. QED
        BY <2>1, <3>2, EntryType DEF RouterPeer
    <2>4. MustCall(q, Entry(q).wg # "none", entry, "sched")
      BY <1>4 DEF UpdatePatch
    <2> HIDE DEF entry
    <2>5. QED
      BY <1>4, <2>1, <2>2, <2>3, <2>4, RouterStepType DEF UpdatePatch, Pcs
  <1>5. CASE handleScheduler(q)
    <2> DEFINE n == NextRun(call[q].want.expire)
    <2>1. call[q].pc = "sched" /\ call[q].row # NoRow
      BY <1>1, <1>5 DEF handleScheduler, At, CallFacts, WithoutRow
    <2>2. CallFacts([call[q] EXCEPT !.pc = "queue"])
      BY <2>1, MoveFacts DEF Pcs, Toggling
    <2>3. UNCHANGED <<db, today, history, files, fresh>>
      BY <1>5 DEF handleScheduler
    <2>4. Entry(q) \in RouterPeer
      BY <2>1, EntryType
    <2>5. CASE deleteScheduler(q, "queue")
      <3>1. [Entry(q) EXCEPT !.sched = "none", !.next = Never] \in RouterPeer
        BY <2>4 DEF RouterPeer, Switch
      <3>2. QED
        BY <2>1, <2>2, <2>3, <2>5, <3>1, RouterStepType DEF deleteScheduler, Pcs
    <2>6. ASSUME call[q].want.expire # Never, createScheduler(q, "queue") \/ updateScheduler(q, "queue")
          PROVE  PanelInv'
      <3>1. n \in Nat \cup {Never}
        BY <1>1, <2>6, NextRunType DEF CallType, Want
      <3> HIDE DEF n
      <3>2. [Entry(q) EXCEPT !.sched = "on", !.next = n] \in RouterPeer
        BY <2>4, <3>1 DEF RouterPeer, Switch
      <3>3. [Entry(q) EXCEPT !.next = n] \in RouterPeer
        BY <2>4, <3>1 DEF RouterPeer
      <3>4. \/ MustCall(q, Entry(q).sched = "none", [Entry(q) EXCEPT !.sched = "on", !.next = n], "queue")
            \/ MustCall(q, Entry(q).sched # "none", [Entry(q) EXCEPT !.next = n], "queue")
        BY <2>6 DEF createScheduler, updateScheduler, n
      <3>5. QED
        BY <2>1, <2>2, <2>3, <3>2, <3>3, <3>4, RouterStepType DEF Pcs
    <2>7. CASE Skip(q, "queue")
      BY <2>2, <2>3, <2>7, SkipType DEF Skip, Pcs, stateVars, history
    <2>8. QED
      BY <1>5, <2>5, <2>6, <2>7 DEF handleScheduler
  <1>6. CASE handleQueue(q)
    <2>1. call[q].pc = "queue" /\ call[q].row # NoRow
      BY <1>1, <1>6 DEF handleQueue, At, CallFacts, WithoutRow
    <2>2. CallFacts([call[q] EXCEPT !.pc = "write"])
      BY <2>1, MoveFacts DEF Pcs, Toggling
    <2>3. UNCHANGED <<db, today, history, files, fresh>>
      BY <1>6 DEF handleQueue
    <2>4. Entry(q) \in RouterPeer
      BY <2>1, EntryType
    <2>5. [Entry(q) EXCEPT !.queue = "none"] \in RouterPeer
      BY <2>4 DEF RouterPeer, Switch
    <2>6. [Entry(q) EXCEPT !.queue = "on"] \in RouterPeer
      BY <2>4 DEF RouterPeer, Switch
    <2>7. CASE deleteQueue(q, "write") \/ createQueue(q, "write") \/ updateQueue(q, "write")
      BY <2>1, <2>2, <2>3, <2>4, <2>5, <2>6, <2>7, RouterStepType
         DEF deleteQueue, createQueue, updateQueue, Pcs
    <2>8. CASE Skip(q, "write")
      BY <2>2, <2>3, <2>8, SkipType DEF Skip, Pcs, stateVars, history
    <2>9. QED
      BY <1>6, <2>7, <2>8 DEF handleQueue
  <1>7. CASE UpdateWrite(q)
    <2> DEFINE p == call[q].p
               want == call[q].want
               row == preparePeerUpdate(db[p], call[q].row, want)
    <2>1. call[q].pc = "write" /\ p \in Peer /\ call[q].row # NoRow /\ want \in Want
      BY <1>1, <1>7 DEF UpdateWrite, At, CallFacts, WithoutRow, CallType
    <2>2. CASE /\ want.disabled # Unset /\ WriteRow(p, row) /\ Go(q, "reread")
               /\ told' = IF ClearsFlags(call[q].row, want) THEN [told EXCEPT ![p] = {}] ELSE told
      <3>1. db[p] # NoRow => row \in Row
        <4> SUFFICES ASSUME db[p] # NoRow PROVE row \in Row
          OBVIOUS
        <4>1. QED
          BY <1>2, <2>1, <2>2, PreparedRow
      <3> HIDE DEF row
      <3>2. db' \in [Peer -> Row \cup {NoRow}]
        BY <2>1, <2>2, <3>1, WriteRowType
      <3>3. told' \in [Peer -> SUBSET Thresholds]
        BY <2>1, <2>2 DEF PanelInv, TypeInv, TypeOK, StateTypeOK
      <3>4. CallFacts([call[q] EXCEPT !.pc = "reread"])
        BY <2>1, MoveFacts DEF Pcs, Toggling
      <3>5. call' \in [Request -> CallType] /\ CallInv'
        BY <2>2, <3>4, GoStep DEF PanelInv, Pcs
      <3>6. QED
        BY <1>7, <3>2, <3>3, <3>5, WriteType DEF UpdateWrite
    <2>3. CASE UNCHANGED <<db, told>> /\ Go(q, "failed")
      <3>1. CallFacts([call[q] EXCEPT !.pc = "failed"])
        BY <2>1, MoveFacts DEF WithoutRow, Toggling, Pcs
      <3>2. UNCHANGED <<router, today, fwd, base, seen, slop, files, fresh>>
        BY <1>7 DEF UpdateWrite
      <3>3. QED
        BY <2>3, <3>1, <3>2, SkipType DEF Pcs, stateVars
    <2>4. QED
      BY <1>7, <2>2, <2>3, Zenon DEF UpdateWrite
  <1>8. CASE UpdateReread(q)
    <2> DEFINE row == db[call[q].p]
               next == IF row = NoRow THEN "failed" ELSE AfterSync(row)
               c == [call[q] EXCEPT !.row = row, !.pc = next]
    <2>1. call[q].pc = "reread" /\ call[q].p \in Peer
      BY <1>1, <1>8 DEF UpdateReread, At, CallFacts
    <2>2. row \in Row \cup {NoRow}
      BY <1>2, <2>1
    <2>3. next \in {"failed", "off", "ok"} /\ (row = NoRow => next = "failed")
      BY DEF AfterSync
    <2>4. UNCHANGED <<stateVars, files, fresh>>
      BY <1>8 DEF UpdateReread
    <2>5. CASE call' = [call EXCEPT ![q].row = row, ![q].pc = next]
      <3>1. call' = [call EXCEPT ![q] = c]
        BY <2>5 DEF PanelInv, ServiceTypeOK
      <3> HIDE DEF row, next
      <3>2. c \in CallType /\ CallFacts(c)
        BY <1>1, <2>1, <2>2, <2>3 DEF CallType, CallFacts, WithoutRow, Toggling
      <3> HIDE DEF c
      <3>3. call' \in [Request -> CallType] /\ CallInv'
        BY <3>1, <3>2, CallStep DEF PanelInv
      <3>4. files' \in [Peer -> SUBSET Files] /\ fresh' \subseteq Peer
        BY <2>4 DEF PanelInv, ServiceTypeOK
      <3>5. QED
        BY <2>4, <3>3, <3>4, FilesType
    <2>6. CASE Go(q, "failed")
      <3>1. CallFacts([call[q] EXCEPT !.pc = "failed"])
        BY <2>1, MoveFacts DEF WithoutRow, Toggling, Pcs
      <3>2. QED
        BY <2>4, <2>6, <3>1, SkipType DEF Pcs
    <2>7. QED
      BY <1>8, <2>5, <2>6 DEF UpdateReread
  <1>9. QED
    BY <1>3, <1>4, <1>5, <1>6, <1>7, <1>8 DEF Update

LEMMA ToggleType ==
    ASSUME PanelInv, NEW q \in Request, Toggle(q), UNCHANGED calculatorVars
    PROVE  PanelInv'
  <1> DEFINE s == SwitchOf(call[q].want.disabled)
  <1>1. call[q] \in CallType /\ CallFacts(call[q])
    BY DEF PanelInv, ServiceTypeOK, CallInv
  <1>2. \A p \in Peer : db[p] # NoRow => db[p] \in Row
    BY DEF PanelInv, TypeInv, TypeOK, StateTypeOK
  <1>3. ASSUME call[q].pc \in Toggling
        PROVE  /\ call[q].p \in Peer /\ call[q].row \in Row /\ call[q].row # NoRow
               /\ call[q].want.disabled \in BOOLEAN /\ s \in Switch
               /\ Entry(q) \in RouterPeer
               /\ \A pc \in {"switchSched", "switchQueue", "flip", "ok", "failed"} :
                    CallFacts([call[q] EXCEPT !.pc = pc])
    <2>1. /\ call[q].p \in Peer /\ call[q].row \in Row /\ call[q].row # NoRow
          /\ call[q].want.disabled \in BOOLEAN
      BY <1>1, <1>3 DEF CallFacts, CallType, Want, Toggling, WithoutRow
    <2>2. s \in Switch
      BY <2>1, SwitchTypes
    <2>3. Entry(q) \in RouterPeer
      BY <1>3, EntryType DEF Toggling
    <2>4. \A pc \in {"switchSched", "switchQueue", "flip", "ok", "failed"} :
             CallFacts([call[q] EXCEPT !.pc = pc])
      BY <1>3, <2>1, RequestAssumption, MoveFacts DEF Toggling, Pcs, WithoutRow
    <2>5. QED
      BY <2>1, <2>2, <2>3, <2>4
  <1> HIDE DEF s
  <1>4. CASE ToggleBegin(q)
    <2>1. PICK p \in Peer : db[p] # NoRow /\ Enter(q, "switch", p, db[p],
                                [Blank EXCEPT !.disabled = ~db[p].disabled])
      BY <1>4 DEF ToggleBegin
    <2>2. [Blank EXCEPT !.disabled = ~db[p].disabled] \in Want
      BY DEF Blank, Want
    <2>3. [Blank EXCEPT !.disabled = ~db[p].disabled].disabled # Unset
      BY RequestAssumption DEF Blank
    <2>4. QED
      BY <1>2, <1>4, <2>1, <2>2, <2>3, EnterType DEF Pcs, ToggleBegin
  <1>5. CASE ToggleSwitch(q)
    <2> DEFINE next == IF call[q].row.sched THEN "switchSched"
                       ELSE IF call[q].row.queue THEN "switchQueue" ELSE "flip"
    <2>1. call[q].pc = "switch"
      BY <1>5 DEF ToggleSwitch, At
    <2>2. next \in {"switchSched", "switchQueue", "flip"}
      BY <1>3, <2>1 DEF Toggling, Row
    <2>3. [Entry(q) EXCEPT !.wg = s] \in RouterPeer
      BY <1>3, <2>1 DEF RouterPeer, Toggling
    <2>4. MustCall(q, Entry(q).wg # "none", [Entry(q) EXCEPT !.wg = s], next)
      BY <1>5 DEF ToggleSwitch, s
    <2> HIDE DEF next
    <2>5. CallFacts([call[q] EXCEPT !.pc = next])
      BY <1>3, <2>1, <2>2 DEF Toggling
    <2>6. next \in Pcs
      BY <2>2 DEF Pcs
    <2>7. call[q].pc # "idle" /\ (Entry(q).wg # "none") \in BOOLEAN
      BY <2>1
    <2>8. UNCHANGED <<db, today, history, files, fresh>>
      BY <1>5 DEF ToggleSwitch
    <2>9. QED
      BY <2>3, <2>4, <2>5, <2>6, <2>7, <2>8, RouterStepType
  <1>6. CASE ToggleSched(q)
    <2> DEFINE next == IF call[q].row.queue THEN "switchQueue" ELSE "flip"
    <2> DEFINE entry == [Entry(q) EXCEPT !.sched = s]
               possible == Entry(q).sched # "none"
    <2>1. call[q].pc = "switchSched" /\ possible \in BOOLEAN
      BY <1>6 DEF ToggleSched, At
    <2>2. next \in {"switchQueue", "flip"}
      BY <1>3, <2>1 DEF Toggling, Row
    <2>3. entry \in RouterPeer
      BY <1>3, <2>1 DEF RouterPeer, Toggling
    <2>4. MustCall(q, possible, entry, next)
      BY <1>6 DEF ToggleSched, s
    <2> HIDE DEF next, entry, possible
    <2>5. CallFacts([call[q] EXCEPT !.pc = next])
      BY <1>3, <2>1, <2>2 DEF Toggling
    <2>6. UNCHANGED <<db, today, history, files, fresh>>
      BY <1>6 DEF ToggleSched
    <2>7. next \in Pcs /\ call[q].pc # "idle"
      BY <2>1, <2>2 DEF Pcs
    <2>8. QED
      BY <2>1, <2>3, <2>4, <2>5, <2>6, <2>7, RouterStepType
  <1>7. CASE ToggleQueue(q)
    <2> DEFINE entry == [Entry(q) EXCEPT !.queue = s]
               possible == Entry(q).queue # "none"
    <2>1. call[q].pc = "switchQueue" /\ possible \in BOOLEAN
      BY <1>7 DEF ToggleQueue, At
    <2>2. entry \in RouterPeer
      BY <1>3, <2>1 DEF RouterPeer, Toggling
    <2>3. MustCall(q, possible, entry, "flip")
      BY <1>7 DEF ToggleQueue, s
    <2> HIDE DEF entry, possible
    <2>4. CallFacts([call[q] EXCEPT !.pc = "flip"])
      BY <1>3, <2>1 DEF Toggling
    <2>5. UNCHANGED <<db, today, history, files, fresh>>
      BY <1>7 DEF ToggleQueue
    <2>6. QED
      BY <2>1, <2>2, <2>3, <2>4, <2>5, RouterStepType DEF Pcs
  <1>8. CASE ToggleFlip(q)
    <2> DEFINE p == call[q].p
               row == [db[p] EXCEPT !.disabled = call[q].want.disabled]
    <2>1. call[q].pc = "flip"
      BY <1>8 DEF ToggleFlip, At
    <2>2. p \in Peer /\ (db[p] # NoRow => row \in Row)
      BY <1>2, <1>3, <2>1 DEF Row, Toggling
    <2>3. db' \in [Peer -> Row \cup {NoRow}]
      <3>1. CASE UNCHANGED db
        BY <3>1 DEF PanelInv, TypeInv, TypeOK, StateTypeOK
      <3>2. CASE WriteRow(p, row)
        BY <2>2, <3>2, WriteRowType
      <3>3. QED
        BY <1>8, <3>1, <3>2 DEF ToggleFlip
    <2>4. \E pc \in {"ok", "failed"} : Go(q, pc)
      BY <1>8 DEF ToggleFlip
    <2>5. call' \in [Request -> CallType] /\ CallInv'
      BY <1>3, <2>1, <2>4, GoStep DEF PanelInv, Pcs, Toggling
    <2>6. UNCHANGED <<router, today, history, files, fresh>>
      BY <1>8 DEF ToggleFlip
    <2>7. told' \in [Peer -> SUBSET Thresholds]
      BY <2>6 DEF history, PanelInv, TypeInv, TypeOK, StateTypeOK
    <2>8. QED
      BY <2>3, <2>5, <2>6, <2>7, WriteType DEF history
  <1>9. QED
    BY <1>4, <1>5, <1>6, <1>7, <1>8 DEF Toggle

LEMMA DeleteType ==
    ASSUME PanelInv, NEW q \in Request, Delete(q), UNCHANGED calculatorVars
    PROVE  PanelInv'
  <1> DEFINE Dropping == {"dropSched", "dropQueue", "dropPeer", "dropQR", "dropConf",
                          "dropSessions", "dropRow"}
  <1>1. call[q] \in CallType /\ CallFacts(call[q])
    BY DEF PanelInv, ServiceTypeOK, CallInv
  <1>2. ASSUME call[q].pc \in Dropping
        PROVE  /\ call[q].p \in Peer /\ call[q].row \in Row /\ call[q].row # NoRow
               /\ Entry(q) \in RouterPeer
               /\ \A pc \in Dropping \cup {"ok", "failed"} : CallFacts([call[q] EXCEPT !.pc = pc])
    <2>1. call[q].p \in Peer /\ call[q].row \in Row /\ call[q].row # NoRow
      BY <1>1, <1>2 DEF CallFacts, CallType, WithoutRow
    <2>2. Entry(q) \in RouterPeer
      BY <1>2, EntryType
    <2>3. \A pc \in Dropping \cup {"ok", "failed"} : CallFacts([call[q] EXCEPT !.pc = pc])
      BY <1>2, <2>1, MoveFacts DEF Toggling, Pcs, WithoutRow
    <2>4. QED
      BY <2>1, <2>2, <2>3
  <1>3. CASE DeleteBegin(q)
    <2> DEFINE pc(p) == IF db[p].sched THEN "dropSched"
                        ELSE IF db[p].queue THEN "dropQueue" ELSE "dropPeer"
    <2>1. PICK p \in Peer : db[p] # NoRow /\ Enter(q, pc(p), p, db[p], Blank)
      BY <1>3 DEF DeleteBegin
    <2>2. db[p] \in Row /\ Blank \in Want
      BY <2>1 DEF PanelInv, TypeInv, TypeOK, StateTypeOK, Blank, Want
    <2>3. pc(p) \in {"dropSched", "dropQueue", "dropPeer"}
      BY <2>2 DEF Row
    <2> HIDE DEF pc
    <2>4. QED
      BY <1>3, <2>1, <2>2, <2>3, EnterType DEF Pcs, DeleteBegin, Toggling
  <1>4. CASE DeleteSched(q)
    <2> DEFINE next == IF call[q].row.queue THEN "dropQueue" ELSE "dropPeer"
    <2>1. call[q].pc = "dropSched"
      BY <1>4 DEF DeleteSched, At
    <2>2. next \in {"dropQueue", "dropPeer"}
      BY <1>2, <2>1 DEF Row
    <2>3. [Entry(q) EXCEPT !.sched = "none", !.next = Never] \in RouterPeer
      BY <1>2, <2>1 DEF RouterPeer, Switch
    <2>4. MustCall(q, Entry(q).sched # "none", [Entry(q) EXCEPT !.sched = "none", !.next = Never], next)
      BY <1>4 DEF DeleteSched, deleteScheduler
    <2> HIDE DEF next
    <2>5. CallFacts([call[q] EXCEPT !.pc = next])
      BY <1>2, <2>1, <2>2
    <2>6. next \in Pcs /\ call[q].pc # "idle" /\ (Entry(q).sched # "none") \in BOOLEAN
      BY <2>1, <2>2 DEF Pcs
    <2>7. UNCHANGED <<db, today, history, files, fresh>>
      BY <1>4 DEF DeleteSched
    <2>8. QED
      BY <2>3, <2>4, <2>5, <2>6, <2>7, RouterStepType
  <1>5. CASE DeleteQueue(q)
    <2>1. call[q].pc = "dropQueue"
      BY <1>5 DEF DeleteQueue, At
    <2>2. [Entry(q) EXCEPT !.queue = "none"] \in RouterPeer
      BY <1>2, <2>1 DEF RouterPeer, Switch
    <2>3. CallFacts([call[q] EXCEPT !.pc = "dropPeer"])
      BY <1>2, <2>1
    <2>4. QED
      BY <1>5, <2>1, <2>2, <2>3, RouterStepType DEF DeleteQueue, deleteQueue, Pcs
  <1>6. CASE DeleteWg(q)
    <2> DEFINE entry == [Entry(q) EXCEPT !.wg = "none"]
               possible == Entry(q).wg # "none"
    <2>1. call[q].pc = "dropPeer" /\ possible \in BOOLEAN
      BY <1>6 DEF DeleteWg, At
    <2>2. entry \in RouterPeer
      BY <1>2, <2>1 DEF RouterPeer, Switch
    <2>3. CallFacts([call[q] EXCEPT !.pc = "dropQR"])
      BY <1>2, <2>1
    <2>4. MustCall(q, possible, entry, "dropQR") /\ UNCHANGED <<db, today, history, files, fresh>>
      BY <1>6 DEF DeleteWg
    <2> HIDE DEF entry, possible
    <2>5. QED
      BY <2>1, <2>2, <2>3, <2>4, RouterStepType DEF Pcs
  <1>7. ASSUME NEW pc \in Dropping, NEW file, NEW next \in Dropping, DeleteFile(q, pc, file, next)
        PROVE  PanelInv'
    <2>1. call[q].pc \in Dropping /\ UNCHANGED <<stateVars, fresh>>
      BY <1>7 DEF DeleteFile, At
    <2>2. \E n \in {next, "failed"} : Go(q, n)
      BY <1>7 DEF DeleteFile
    <2>3. call' \in [Request -> CallType] /\ CallInv'
      BY <1>2, <2>1, <2>2, GoStep DEF PanelInv, Pcs
    <2>4. files' \in [Peer -> SUBSET Files] /\ fresh' \subseteq Peer
      BY <1>2, <1>7, <2>1 DEF DeleteFile, PanelInv, ServiceTypeOK
    <2>5. QED
      BY <2>1, <2>3, <2>4, FilesType
  <1>8. CASE DeleteSessions(q)
    <2>1. call[q].pc = "dropSessions" /\ UNCHANGED <<stateVars, files, fresh>>
      BY <1>8 DEF DeleteSessions, At
    <2>2. \E n \in {"dropRow", "failed"} : Go(q, n)
      BY <1>8 DEF DeleteSessions
    <2>3. QED
      BY <1>2, <2>1, <2>2, SkipType DEF Pcs
  <1>9. CASE DeleteRow(q)
    <2>1. call[q].pc = "dropRow"
      BY <1>9 DEF DeleteRow, At
    <2>2. db' \in [Peer -> Row \cup {NoRow}]
      BY <1>9 DEF DeleteRow, PanelInv, TypeInv, TypeOK, StateTypeOK
    <2>3. \E pc \in {"ok", "failed"} : Go(q, pc)
      BY <1>9 DEF DeleteRow
    <2>4. call' \in [Request -> CallType] /\ CallInv'
      BY <1>2, <2>1, <2>3, GoStep DEF PanelInv, Pcs
    <2>5. UNCHANGED <<router, today, history, files, fresh>>
      BY <1>9 DEF DeleteRow
    <2>6. told' \in [Peer -> SUBSET Thresholds]
      BY <2>5 DEF history, PanelInv, TypeInv, TypeOK, StateTypeOK
    <2>7. QED
      BY <2>2, <2>4, <2>5, <2>6, WriteType DEF history
  <1>10. QED
    BY <1>3, <1>4, <1>5, <1>6, <1>7, <1>8, <1>9 DEF Delete

LEMMA IdleLocal == Idle \in Local /\ Idle.pc = "idle" /\ Idle.rows = NoRows
  <1>1. Idle \in Local
    BY LocalTypes, Zenon
  <1>2. QED
    BY <1>1 DEF Idle

LEMMA InitPanelType == PanelInit => PanelInv
  <1> SUFFICES ASSUME PanelInit PROVE PanelInv
    OBVIOUS
  <1>1. StateTypeOK
    <2>1. PICK l \in [Peer -> Limits], e \in [Peer -> Expiries], s \in [Peer -> Switch] :
            /\ \A p \in Peer : (s[p] = "none") <=> (e[p] = Never)
            /\ db = [p \in Peer |-> IF p \in Old THEN FreshRow(l[p], e[p]) ELSE NoRow]
            /\ router = [p \in Peer |-> IF p \in Old THEN FreshRouterPeer(e[p], s[p]) ELSE NoRouterPeer]
      BY Zenon DEF PanelInit, StateInit
    <2>2. \A p \in Peer : FreshRow(l[p], e[p]) \in Row
      BY FreshRowType, StateAssumption
    <2>3. \A p \in Peer : FreshRouterPeer(e[p], s[p]) \in RouterPeer
      <3> SUFFICES ASSUME NEW p \in Peer PROVE FreshRouterPeer(e[p], s[p]) \in RouterPeer
        OBVIOUS
      <3>1. e[p] \in Nat \cup {Never} /\ s[p] \in Switch
        BY StateAssumption
      <3>2. Zero \in [Dir -> Counter]
        BY MaxCounterAssumption DEF Zero, Counter
      <3>3. QED
        BY <3>1, <3>2 DEF FreshRouterPeer, RouterPeer, Switch
    <2>4. NoRouterPeer \in RouterPeer
      BY MaxCounterAssumption DEF NoRouterPeer, RouterPeer, Switch, Zero, Counter
    <2>5. db \in [Peer -> Row \cup {NoRow}] /\ router \in [Peer -> RouterPeer]
      BY <2>1, <2>2, <2>3, <2>4
    <2>6. QED
      BY <2>5 DEF PanelInit, StateInit, HistoryInit, StateTypeOK, Zero
  <1>2. TypeInv
    <2>1. thr \in [Thread -> Local] /\ \A t \in Thread : thr[t].pc = "idle"
      BY IdleLocal DEF PanelInit, CalculatorInit
    <2>2. QED
      BY <1>1, <2>1 DEF PanelInit, CalculatorInit, TypeInv, TypeOK, AtPeer
  <1>3. ServiceTypeOK /\ CallInv
    <2>1. NoCall \in CallType /\ CallFacts(NoCall)
      BY DEF NoCall, CallType, Want, Blank, CallFacts, WithoutRow, Toggling
    <2>2. QED
      BY <2>1 DEF PanelInit, ServiceInit, ServiceTypeOK, CallInv, Files
  <1>4. QED
    BY <1>2, <1>3 DEF PanelInv

LEMMA NextPanelType == PanelInv /\ [PanelNext]_panelVars => PanelInv'
  <1> SUFFICES ASSUME PanelInv, [PanelNext]_panelVars PROVE PanelInv'
    OBVIOUS
  <1>1. ASSUME TypeInv', UNCHANGED serviceVars PROVE PanelInv'
    BY <1>1 DEF PanelInv, serviceVars, ServiceTypeOK, CallInv
  <1>2. CASE CalculatorNext /\ UNCHANGED serviceVars
    BY <1>1, <1>2, NextType DEF PanelInv, Next
  <1>3. CASE EnvironmentStep /\ UNCHANGED serviceVars
    BY <1>1, <1>3, NextType DEF PanelInv, Next
  <1>4. CASE ServiceNext /\ UNCHANGED calculatorVars
    BY <1>4, CreateType, UpdateType, ToggleType, DeleteType, SyncType DEF ServiceNext, Step
  <1>5. CASE PanelCrash
    <2>1. thr' \in [Thread -> Local] /\ \A t \in Thread : thr'[t].pc = "idle"
      BY <1>5, IdleLocal DEF PanelCrash
    <2>2. TypeInv'
      BY <1>5, <2>1 DEF PanelCrash, PanelInv, TypeInv, TypeOK, StateTypeOK, AtPeer, stateVars
    <2>3. NoCall \in CallType /\ CallFacts(NoCall)
      BY DEF NoCall, CallType, Want, Blank, CallFacts, WithoutRow, Toggling
    <2>4. ServiceTypeOK' /\ CallInv'
      BY <1>5, <2>3 DEF PanelCrash, LoseCalls, PanelInv, ServiceTypeOK, CallInv
    <2>5. QED
      BY <2>2, <2>4 DEF PanelInv
  <1>6. CASE UNCHANGED panelVars
    <2>1. UNCHANGED vars /\ UNCHANGED serviceVars
      BY <1>6 DEF panelVars
    <2>2. QED
      BY <1>1, <2>1, NextType DEF PanelInv
  <1>7. QED
    BY <1>2, <1>3, <1>4, <1>5, <1>6 DEF PanelNext

(* Every row, router entry, request and thread of the panel keeps its type  *)
(* whatever fails and whatever is interleaved; a request never works on a   *)
(* row it did not read.                                                     *)
THEOREM PanelTypeCorrect == PanelSpec => []PanelTypeOK
  <1>1. PanelInv => PanelTypeOK
    BY DEF PanelInv, TypeInv, PanelTypeOK
  <1>2. QED
    BY <1>1, InitPanelType, NextPanelType, PTL DEF PanelSpec

-----------------------------------------------------------------------------
(* What the steps of a request touch: its own locals and its own peer.     *)

(* No two requests are at one peer.  CreatePeer always is at a peer of its *)
(* own; nothing in the code keeps the others apart.                        *)
OnePerPeer ==
    \A q, r \in Request :
        q # r /\ call[q].pc # "idle" /\ call[r].pc # "idle" => call[q].p # call[r].p

(* Requests that are made one after another are. *)
LEMMA OneRequest ==
    ASSUME NEW q, Request = {q} PROVE OnePerPeer
  BY DEF OnePerPeer

Elsewhere(q) ==
    /\ \A r \in Request : r # q => call'[r] = call[r]
    /\ \A p \in Peer : p # call[q].p =>
         db'[p] = db[p] /\ router'[p] = router[p] /\ files'[p] = files[p]

(* The request moves on to pc with the locals it has. *)
MovesTo(q, pc) ==
    /\ call'[q].pc = pc /\ call'[q].p = call[q].p
    /\ call'[q].row = call[q].row /\ call'[q].want = call[q].want

LEMMA GoMoves ==
    ASSUME PanelInv, NEW q \in Request, NEW pc, Go(q, pc)
    PROVE  MovesTo(q, pc) /\ \A r \in Request : r # q => call'[r] = call[r]
  BY DEF Go, MovesTo, PanelInv, ServiceTypeOK, CallType

(* A request at work is at a peer, and holds what it read. *)
LEMMA AtWork ==
    ASSUME PanelInv, NEW q \in Request, call[q].pc # "idle"
    PROVE  /\ call[q] \in CallType /\ CallFacts(call[q]) /\ call[q].p \in Peer
           /\ db[call[q].p] \in Row \cup {NoRow}
           /\ Entry(q) \in RouterPeer /\ files[call[q].p] \subseteq Files
  BY EntryType DEF PanelInv, CallInv, CallFacts, ServiceTypeOK, TypeInv, TypeOK, StateTypeOK

LEMMA MustCallCases ==
    ASSUME PanelInv, NEW q \in Request, call[q].pc # "idle",
           NEW possible, NEW entry, NEW next,
           MustCall(q, possible, entry, next), UNCHANGED <<db, files>>
    PROVE  /\ Elsewhere(q) /\ db'[call[q].p] = db[call[q].p]
           /\ files'[call[q].p] = files[call[q].p]
           /\ \/ possible /\ router'[call[q].p] = entry /\ MovesTo(q, next)
              \/ (possible => "router" \in Faults) /\ MovesTo(q, "failed")
  <1>1. call[q].p \in Peer /\ router \in [Peer -> RouterPeer]
    BY DEF PanelInv, CallInv, CallFacts, TypeInv, TypeOK, StateTypeOK
  <1>2. PICK ok \in BOOLEAN : /\ RouterCall(call[q].p, possible, entry, ok)
                              /\ Go(q, IF ok THEN next ELSE "failed")
    BY DEF MustCall
  <1>3. \A p \in Peer : p # call[q].p => router'[p] = router[p]
    BY <1>1, <1>2 DEF RouterCall
  <1>4. CASE ok
    <2>1. possible /\ router'[call[q].p] = entry
      BY <1>1, <1>2, <1>4 DEF RouterCall
    <2>2. QED
      BY <1>2, <1>3, <1>4, <2>1, GoMoves DEF Elsewhere
  <1>5. CASE ~ok
    <2>1. possible => "router" \in Faults
      BY <1>2, <1>5 DEF RouterCall
    <2>2. QED
      BY <1>2, <1>3, <1>5, <2>1, GoMoves DEF Elsewhere
  <1>6. QED
    BY <1>4, <1>5

LEMMA MayCallCases ==
    ASSUME PanelInv, NEW q \in Request, call[q].pc # "idle",
           NEW possible, NEW entry, NEW next,
           MayCall(q, possible, entry, next), UNCHANGED <<db, files>>
    PROVE  /\ Elsewhere(q) /\ db'[call[q].p] = db[call[q].p]
           /\ files'[call[q].p] = files[call[q].p]
           /\ MovesTo(q, next)
           /\ \/ router'[call[q].p] = router[call[q].p]
              \/ possible /\ router'[call[q].p] = entry
  <1>1. call[q].p \in Peer /\ router \in [Peer -> RouterPeer]
    BY DEF PanelInv, CallInv, CallFacts, TypeInv, TypeOK, StateTypeOK
  <1>2. (\E ok \in BOOLEAN : RouterCall(call[q].p, possible, entry, ok)) /\ Go(q, next)
    BY DEF MayCall
  <1>3. \A p \in Peer : p # call[q].p => router'[p] = router[p]
    BY <1>1, <1>2 DEF RouterCall
  <1>4. \/ router'[call[q].p] = router[call[q].p]
        \/ possible /\ router'[call[q].p] = entry
    BY <1>1, <1>2 DEF RouterCall
  <1>5. QED
    BY <1>2, <1>3, <1>4, GoMoves DEF Elsewhere

(* A request that only moves on, or writes the row or the files of its peer. *)
LEMMA OwnWrite ==
    ASSUME PanelInv, NEW q \in Request, NEW pc, Go(q, pc), UNCHANGED router,
           \A p \in Peer : p # call[q].p => db'[p] = db[p] /\ files'[p] = files[p]
    PROVE  Elsewhere(q) /\ MovesTo(q, pc)
  BY GoMoves DEF Elsewhere

(* The row of a request's peer is there and is written. *)
LEMMA OwnRow ==
    ASSUME PanelInv, NEW q \in Request, call[q].pc # "idle", NEW row,
           db[call[q].p] # NoRow, WriteRow(call[q].p, row)
    PROVE  /\ db'[call[q].p] = row
           /\ \A p \in Peer : p # call[q].p => db'[p] = db[p]
  BY DEF WriteRow, PanelInv, CallInv, CallFacts, TypeInv, TypeOK, StateTypeOK

-----------------------------------------------------------------------------
(* What a request has achieved                                             *)

(* A request at pc with the locals c has brought the row, the switch and   *)
(* the files of its peer to where the rest of it relies on them.           *)
Stage(c, row, wg, fs) ==
    /\ c.pc \in {"addSched", "addQueue", "insert", "conf", "qr"} => wg = "on"
    /\ c.pc \in {"conf", "qr"} => row # NoRow /\ ~row.disabled
    /\ c.pc \in {"patch", "sched", "queue", "write", "reread", "off", "offQueue", "mark",
                 "switch", "switchSched", "switchQueue", "flip"} => row # NoRow
    /\ c.pc \in {"sched", "queue", "write"} /\ c.want.disabled # Unset =>
         wg = SwitchOf(c.want.disabled)
    /\ c.pc \in {"switchSched", "switchQueue", "flip"} => wg = SwitchOf(c.want.disabled)
    /\ c.pc = "reread" => wg = SwitchOf(row.disabled)
    /\ c.pc \in {"offQueue", "mark"} => wg = "off"
    /\ c.pc \in {"dropQR", "dropConf", "dropSessions", "dropRow"} => wg = "none"
    /\ c.pc = "dropConf" => "qr" \notin fs
    /\ c.pc \in {"dropSessions", "dropRow"} => fs = {}
    /\ c.pc = "ok" => IF row = NoRow THEN wg = "none" /\ fs = {}
                                     ELSE wg = SwitchOf(row.disabled)

Staged(q) ==
    call[q].pc # "idle" =>
        Stage(call[q], db[call[q].p], router[call[q].p].wg, files[call[q].p])

StageInv == \A q \in Request : Staged(q)

(* The other requests are where they were. *)
LEMMA StageStep ==
    ASSUME PanelInv, OnePerPeer, StageInv, NEW q \in Request, call[q].pc # "idle",
           Elsewhere(q), Staged(q)'
    PROVE  StageInv'
  <1> SUFFICES ASSUME NEW r \in Request, r # q PROVE Staged(r)'
    BY DEF StageInv
  <1>1. call'[r] = call[r]
    BY DEF Elsewhere
  <1>2. CASE call[r].pc = "idle"
    BY <1>1, <1>2 DEF Staged
  <1>3. CASE call[r].pc # "idle"
    <2>1. call[r].p \in Peer /\ call[r].p # call[q].p
      BY <1>3 DEF PanelInv, CallInv, CallFacts, OnePerPeer
    <2>2. /\ db'[call[r].p] = db[call[r].p] /\ router'[call[r].p] = router[call[r].p]
          /\ files'[call[r].p] = files[call[r].p]
      BY <2>1 DEF Elsewhere
    <2>3. QED
      BY <1>1, <2>2 DEF StageInv, Staged
  <1>4. QED
    BY <1>2, <1>3

(* Nothing changes but where one request is. *)
LEMMA StageEnter ==
    ASSUME PanelInv, StageInv, NEW q \in Request, NEW pc, NEW p, NEW row, NEW want,
           Enter(q, pc, p, row, want),
           Stage([pc |-> pc, p |-> p, row |-> row, want |-> want], db[p], router[p].wg, files[p])
    PROVE  StageInv'
  <1> DEFINE c == [pc |-> pc, p |-> p, row |-> row, want |-> want]
  <1>1. UNCHANGED <<db, router, files>>
    BY DEF Enter, stateVars
  <1>2. call' = [call EXCEPT ![q] = c]
    BY DEF Enter
  <1>3. call'[q] = c /\ \A r \in Request : r # q => call'[r] = call[r]
    BY <1>2 DEF PanelInv, ServiceTypeOK
  <1>4. c.p = p
    OBVIOUS
  <1> HIDE DEF c
  <1>5. Staged(q)'
    BY <1>1, <1>3, <1>4 DEF Staged, c
  <1>6. \A r \in Request : r # q => Staged(r)'
    BY <1>1, <1>3 DEF StageInv, Staged
  <1>7. QED
    BY <1>5, <1>6 DEF StageInv

(* A request that failed promises nothing. *)
LEMMA StageFails ==
    ASSUME PanelInv, OnePerPeer, StageInv, NEW q \in Request, call[q].pc # "idle",
           Elsewhere(q), MovesTo(q, "failed")
    PROVE  StageInv'
  <1>1. Staged(q)'
    BY DEF Staged, Stage, MovesTo
  <1>2. QED
    BY <1>1, StageStep

(* A router call of a request, whose success brings it to next. *)
LEMMA StageCall ==
    ASSUME PanelInv, OnePerPeer, StageInv, NEW q \in Request, call[q].pc # "idle",
           NEW possible, NEW entry, NEW next,
           MustCall(q, possible, entry, next), UNCHANGED <<db, files>>,
           Stage([call[q] EXCEPT !.pc = next], db[call[q].p], entry.wg, files[call[q].p])
    PROVE  StageInv'
  <1>1. /\ Elsewhere(q) /\ db'[call[q].p] = db[call[q].p]
        /\ files'[call[q].p] = files[call[q].p]
        /\ \/ router'[call[q].p] = entry /\ MovesTo(q, next)
           \/ MovesTo(q, "failed")
    BY MustCallCases
  <1>2. CASE router'[call[q].p] = entry /\ MovesTo(q, next)
    <2>1. call[q] \in CallType
      BY AtWork
    <2>2. Staged(q)'
      BY <1>1, <1>2, <2>1 DEF Staged, Stage, MovesTo, CallType
    <2>3. QED
      BY <1>1, <2>2, StageStep
  <1>3. CASE MovesTo(q, "failed")
    BY <1>1, <1>3, StageFails
  <1>4. QED
    BY <1>1, <1>2, <1>3

LEMMA CreateStage ==
    ASSUME PanelInv, OnePerPeer, StageInv, NEW q \in Request, Create(q)
    PROVE  StageInv'
  <1>1. CASE CreateBegin(q)
    <2>1. PICK p \in fresh, limit \in Limits, expire \in Expiries :
            /\ Enter(q, "add", p, NoRow, [Blank EXCEPT !.limit = limit, !.expire = expire])
            /\ fresh' = fresh \ {p}
      BY <1>1, Zenon DEF CreateBegin
    <2> DEFINE want == [Blank EXCEPT !.limit = limit, !.expire = expire]
    <2>2. Enter(q, "add", p, NoRow, want)
      BY <2>1
    <2> HIDE DEF want
    <2>3. Stage([pc |-> "add", p |-> p, row |-> NoRow, want |-> want], db[p], router[p].wg, files[p])
      BY DEF Stage
    <2>4. QED
      BY <2>2, <2>3, StageEnter
  <1>2. ASSUME call[q].pc # "idle"
        PROVE  call[q] \in CallType /\ Entry(q) \in RouterPeer /\ Staged(q)
    BY <1>2, AtWork DEF StageInv
  <1>3. CASE CreateAdd(q)
    <2> DEFINE next == IF call[q].want.expire = Never THEN "addQueue" ELSE "addSched"
               entry == [Entry(q) EXCEPT !.wg = "on"]
    <2>1. call[q].pc = "add" /\ UNCHANGED <<db, files>> /\ MustCall(q, Entry(q).wg = "none", entry, next)
      BY <1>3 DEF CreateAdd, At
    <2>2. entry.wg = "on" /\ next \in {"addQueue", "addSched"}
      BY <1>2, <2>1 DEF RouterPeer
    <2> HIDE DEF next, entry
    <2>3. Stage([call[q] EXCEPT !.pc = next], db[call[q].p], entry.wg, files[call[q].p])
      BY <1>2, <2>1, <2>2 DEF Stage, CallType
    <2>4. QED
      BY <2>1, <2>3, StageCall
  <1>4. CASE CreateSched(q)
    <2> DEFINE entry == [Entry(q) EXCEPT !.sched = "on", !.next = NextRun(call[q].want.expire)]
    <2>1. /\ call[q].pc = "addSched" /\ UNCHANGED <<db, files>>
          /\ MustCall(q, Entry(q).sched = "none", entry, "addQueue")
      BY <1>4 DEF CreateSched, At, createScheduler
    <2>2. entry.wg = router[call[q].p].wg
      BY <1>2, <2>1 DEF RouterPeer, Entry
    <2> HIDE DEF entry
    <2>3. Stage([call[q] EXCEPT !.pc = "addQueue"], db[call[q].p], entry.wg, files[call[q].p])
      BY <1>2, <2>1, <2>2 DEF Stage, Staged, CallType
    <2>4. QED
      BY <2>1, <2>3, StageCall
  <1>5. CASE CreateQueue(q)
    <2> DEFINE entry == [Entry(q) EXCEPT !.queue = "on"]
    <2>1. /\ call[q].pc = "addQueue" /\ UNCHANGED <<db, files>>
          /\ MustCall(q, Entry(q).queue = "none", entry, "insert")
      BY <1>5 DEF CreateQueue, At, createQueue
    <2>2. entry.wg = router[call[q].p].wg
      BY <1>2, <2>1 DEF RouterPeer, Entry
    <2> HIDE DEF entry
    <2>3. Stage([call[q] EXCEPT !.pc = "insert"], db[call[q].p], entry.wg, files[call[q].p])
      BY <1>2, <2>1, <2>2 DEF Stage, Staged, CallType
    <2>4. QED
      BY <2>1, <2>3, StageCall
  <1>6. CASE CreateInsert(q)
    <2> DEFINE p == call[q].p
               row == FreshRow(call[q].want.limit, call[q].want.expire)
    <2>1. call[q].pc = "insert" /\ UNCHANGED <<router, files>>
      BY <1>6 DEF CreateInsert, At
    <2>2. row \in Row /\ ~row.disabled /\ p \in Peer
      BY <1>2, <2>1, AtWork, FreshRowType DEF CallType, Want, FreshRow
    <2>3. CASE db' = [db EXCEPT ![p] = row] /\ call' = [call EXCEPT ![q].pc = "conf", ![q].row = row]
      <3> HIDE DEF row
      <3>1. db'[p] = row /\ row # NoRow /\ \A x \in Peer : x # p => db'[x] = db[x]
        BY <2>2, <2>3, StateAssumption DEF PanelInv, TypeInv, TypeOK, StateTypeOK
      <3>2. /\ call'[q].pc = "conf" /\ call'[q].p = p
            /\ \A r \in Request : r # q => call'[r] = call[r]
        BY <1>2, <2>1, <2>3 DEF PanelInv, ServiceTypeOK, CallType
      <3>3. Elsewhere(q)
        BY <2>1, <3>1, <3>2 DEF Elsewhere
      <3>4. Staged(q)'
        BY <1>2, <2>1, <2>2, <3>1, <3>2 DEF Staged, Stage
      <3>5. QED
        BY <2>1, <3>3, <3>4, StageStep
    <2>4. CASE UNCHANGED db /\ Go(q, "failed")
      BY <2>1, <2>4, OwnWrite, StageFails
    <2>5. QED
      BY <1>6, <2>3, <2>4 DEF CreateInsert
  <1>7. ASSUME NEW file \in Files, NEW next \in {"qr", AfterSync(call[q].row)}, CreateFile(q, file, next),
               next \in {"qr", "off", "ok"}
        PROVE  StageInv'
    <2>1. call[q].pc \in {"conf", "qr"} /\ UNCHANGED <<db, router>>
      BY <1>7 DEF CreateFile, At, Files, stateVars
    <2>2. call[q].p \in Peer /\ files \in [Peer -> SUBSET Files]
      BY <2>1, AtWork DEF PanelInv, ServiceTypeOK
    <2>3. \A p \in Peer : p # call[q].p => files'[p] = files[p]
      BY <1>7, <2>2 DEF CreateFile
    <2>4. CASE Go(q, next)
      <3>1. Elsewhere(q) /\ MovesTo(q, next)
        BY <2>1, <2>3, <2>4, OwnWrite
      <3>2. Staged(q)'
        BY <1>2, <1>7, <2>1, <3>1 DEF Staged, Stage, MovesTo, SwitchOf
      <3>3. QED
        BY <2>1, <3>1, <3>2, StageStep
    <2>5. CASE Go(q, "failed")
      BY <2>1, <2>3, <2>5, OwnWrite, StageFails
    <2>6. QED
      BY <1>7, <2>4, <2>5 DEF CreateFile
  <1>8. AfterSync(call[q].row) \in {"off", "ok"}
    BY DEF AfterSync
  <1>9. QED
    BY <1>1, <1>3, <1>4, <1>5, <1>6, <1>7, <1>8 DEF Create, Files

LEMMA UpdateStage ==
    ASSUME PanelInv, OnePerPeer, StageInv, NEW q \in Request, Update(q)
    PROVE  StageInv'
  <1> DEFINE p == call[q].p
             want == call[q].want
  <1>1. CASE UpdateBegin(q)
    <2>1. PICK x \in Peer, w \in Updates : db[x] # NoRow /\ Enter(q, "patch", x, db[x], w)
      BY <1>1 DEF UpdateBegin
    <2>2. Stage([pc |-> "patch", p |-> x, row |-> db[x], want |-> w], db[x], router[x].wg, files[x])
      BY <2>1 DEF Stage
    <2>3. QED
      BY <2>1, <2>2, StageEnter
  <1>2. ASSUME call[q].pc # "idle"
        PROVE  call[q] \in CallType /\ Entry(q) \in RouterPeer /\ Staged(q)
    BY <1>2, AtWork DEF StageInv
  <1>3. CASE UpdatePatch(q)
    <2> DEFINE entry == IF want.disabled = Unset THEN Entry(q)
                        ELSE [Entry(q) EXCEPT !.wg = SwitchOf(want.disabled)]
    <2>1. /\ call[q].pc = "patch" /\ UNCHANGED <<db, files>>
          /\ MustCall(q, Entry(q).wg # "none", entry, "sched")
      BY <1>3 DEF UpdatePatch, At
    <2>2. want.disabled # Unset => entry.wg = SwitchOf(want.disabled)
      BY <1>2, <2>1 DEF RouterPeer
    <2> HIDE DEF entry
    <2>3. Stage([call[q] EXCEPT !.pc = "sched"], db[p], entry.wg, files[p])
      BY <1>2, <2>1, <2>2 DEF Stage, Staged, CallType
    <2>4. QED
      BY <2>1, <2>3, StageCall
  <1>4. ASSUME NEW entry, NEW possible, NEW pc \in {"sched", "queue"},
               NEW next \in {"queue", "write"}, call[q].pc = pc,
               MustCall(q, possible, entry, next), entry.wg = Entry(q).wg, UNCHANGED <<db, files>>
        PROVE  StageInv'
    <2>1. Stage([call[q] EXCEPT !.pc = next], db[p], entry.wg, files[p])
      BY <1>2, <1>4 DEF Stage, Staged, CallType, Entry
    <2>2. QED
      BY <1>4, <2>1, StageCall
  <1>5. ASSUME call[q].pc \in {"sched", "queue"}, NEW next \in {"queue", "write"},
               Skip(q, next), UNCHANGED <<db, files>>
        PROVE  StageInv'
    <2>1. Elsewhere(q) /\ MovesTo(q, next) /\ UNCHANGED router
      BY <1>5, OwnWrite DEF Skip
    <2>2. Staged(q)'
      BY <1>2, <1>5, <2>1 DEF Staged, Stage, MovesTo
    <2>3. QED
      BY <1>5, <2>1, <2>2, StageStep
  <1>6. CASE handleScheduler(q)
    <2> DEFINE n == NextRun(want.expire)
    <2>1. call[q].pc = "sched" /\ UNCHANGED <<db, files>>
      BY <1>6 DEF handleScheduler, At
    <2> HIDE DEF n
    <2>2. /\ [Entry(q) EXCEPT !.sched = "none", !.next = Never].wg = Entry(q).wg
          /\ [Entry(q) EXCEPT !.sched = "on", !.next = n].wg = Entry(q).wg
          /\ [Entry(q) EXCEPT !.next = n].wg = Entry(q).wg
      BY <1>2, <2>1 DEF RouterPeer
    <2>3. CASE deleteScheduler(q, "queue")
      BY <1>4, <2>1, <2>2, <2>3 DEF deleteScheduler
    <2>4. CASE createScheduler(q, "queue")
      BY <1>4, <2>1, <2>2, <2>4 DEF createScheduler, n
    <2>5. CASE updateScheduler(q, "queue")
      BY <1>4, <2>1, <2>2, <2>5 DEF updateScheduler, n
    <2>6. CASE Skip(q, "queue")
      BY <1>5, <2>1, <2>6
    <2>7. QED
      BY <1>6, <2>3, <2>4, <2>5, <2>6 DEF handleScheduler
  <1>7. CASE handleQueue(q)
    <2>1. call[q].pc = "queue" /\ UNCHANGED <<db, files>>
      BY <1>7 DEF handleQueue, At
    <2>2. /\ [Entry(q) EXCEPT !.queue = "none"].wg = Entry(q).wg
          /\ [Entry(q) EXCEPT !.queue = "on"].wg = Entry(q).wg
      BY <1>2, <2>1 DEF RouterPeer
    <2>3. CASE deleteQueue(q, "write")
      BY <1>4, <2>1, <2>2, <2>3 DEF deleteQueue
    <2>4. CASE createQueue(q, "write")
      BY <1>4, <2>1, <2>2, <2>4 DEF createQueue
    <2>5. CASE updateQueue(q, "write")
      BY <1>4, <2>1, <2>5 DEF updateQueue
    <2>6. CASE Skip(q, "write")
      BY <1>5, <2>1, <2>6
    <2>7. QED
      BY <1>7, <2>3, <2>4, <2>5, <2>6 DEF handleQueue
  <1>8. CASE UpdateWrite(q)
    <2> DEFINE row == preparePeerUpdate(db[p], call[q].row, want)
    <2>1. call[q].pc = "write" /\ UNCHANGED <<router, files>>
      BY <1>8 DEF UpdateWrite, At
    <2>2. db[p] # NoRow /\ db[p] \in Row
      BY <1>2, <2>1, AtWork DEF Staged, Stage
    <2>3. CASE want.disabled # Unset /\ WriteRow(p, row) /\ Go(q, "reread")
      <3>1. row.disabled = want.disabled /\ row # NoRow
        <4>1. want \in Want
          BY <1>2, <2>1 DEF CallType
        <4>2. row \in Row /\ row.disabled = want.disabled
          BY <2>2, <2>3, <4>1, PreparedRow
        <4>3. QED
          BY <4>2, StateAssumption
      <3> HIDE DEF row
      <3>2. db'[p] = row /\ \A x \in Peer : x # p => db'[x] = db[x]
        BY <2>1, <2>2, <2>3, OwnRow
      <3>3. Elsewhere(q) /\ MovesTo(q, "reread")
        BY <2>1, <2>3, <3>2, OwnWrite
      <3>4. Staged(q)'
        BY <1>2, <2>1, <2>3, <3>1, <3>2, <3>3 DEF Staged, Stage, MovesTo
      <3>5. QED
        BY <2>1, <3>3, <3>4, StageStep
    <2>4. CASE UNCHANGED db /\ Go(q, "failed")
      BY <2>1, <2>4, OwnWrite, StageFails
    <2>5. QED
      BY <1>8, <2>3, <2>4 DEF UpdateWrite
  <1>9. CASE UpdateReread(q)
    <2> DEFINE next == IF db[p] = NoRow THEN "failed" ELSE AfterSync(db[p])
    <2>1. call[q].pc = "reread" /\ UNCHANGED <<db, router, files>>
      BY <1>9 DEF UpdateReread, At, stateVars
    <2>2. next \in {"failed", "off", "ok"}
      BY DEF AfterSync
    <2>3. CASE call' = [call EXCEPT ![q].row = db[p], ![q].pc = next]
      <3> HIDE DEF next
      <3>1. /\ call'[q].pc = next /\ call'[q].p = p
            /\ \A r \in Request : r # q => call'[r] = call[r]
        BY <1>2, <2>1, <2>3 DEF PanelInv, ServiceTypeOK, CallType
      <3>2. Elsewhere(q)
        BY <2>1, <3>1 DEF Elsewhere
      <3>3. Staged(q)'
        BY <1>2, <2>1, <2>2, <3>1 DEF Staged, Stage
      <3>4. QED
        BY <2>1, <3>2, <3>3, StageStep
    <2>4. CASE Go(q, "failed")
      BY <2>1, <2>4, OwnWrite, StageFails
    <2>5. QED
      BY <1>9, <2>3, <2>4 DEF UpdateReread
  <1>10. QED
    BY <1>1, <1>3, <1>6, <1>7, <1>8, <1>9 DEF Update

LEMMA ToggleStage ==
    ASSUME PanelInv, OnePerPeer, StageInv, NEW q \in Request, Toggle(q)
    PROVE  StageInv'
  <1> DEFINE p == call[q].p
             s == SwitchOf(call[q].want.disabled)
  <1>1. CASE ToggleBegin(q)
    <2>1. PICK x \in Peer : db[x] # NoRow /\ Enter(q, "switch", x, db[x],
                                [Blank EXCEPT !.disabled = ~db[x].disabled])
      BY <1>1 DEF ToggleBegin
    <2> DEFINE want == [Blank EXCEPT !.disabled = ~db[x].disabled]
    <2> HIDE DEF want
    <2>2. Stage([pc |-> "switch", p |-> x, row |-> db[x], want |-> want], db[x], router[x].wg, files[x])
      BY <2>1 DEF Stage
    <2>3. QED
      BY <2>1, <2>2, StageEnter DEF want
  <1>2. ASSUME call[q].pc # "idle"
        PROVE  call[q] \in CallType /\ Entry(q) \in RouterPeer /\ Staged(q)
    BY <1>2, AtWork DEF StageInv
  <1>3. ASSUME call[q].pc \in {"switch", "switchSched", "switchQueue"},
               NEW next \in {"switchSched", "switchQueue", "flip"},
               NEW entry, NEW possible, MustCall(q, possible, entry, next),
               entry.wg = s, UNCHANGED <<db, files>>
        PROVE  StageInv'
    <2>1. Stage([call[q] EXCEPT !.pc = next], db[p], entry.wg, files[p])
      BY <1>2, <1>3 DEF Stage, Staged, CallType
    <2>2. QED
      BY <1>3, <2>1, StageCall
  <1>4. ASSUME call[q].pc # "idle"
        PROVE  /\ [Entry(q) EXCEPT !.wg = s].wg = s
               /\ [Entry(q) EXCEPT !.sched = s].wg = router[p].wg
               /\ [Entry(q) EXCEPT !.queue = s].wg = router[p].wg
    BY <1>2, <1>4 DEF RouterPeer, Entry
  <1>5. CASE ToggleSwitch(q)
    BY <1>3, <1>4, <1>5 DEF ToggleSwitch, At
  <1>6. CASE ToggleSched(q)
    <2>1. call[q].pc = "switchSched" /\ router[p].wg = s
      BY <1>2, <1>6 DEF ToggleSched, At, Staged, Stage
    <2>2. QED
      BY <1>3, <1>4, <1>6, <2>1 DEF ToggleSched
  <1>7. CASE ToggleQueue(q)
    <2>1. call[q].pc = "switchQueue" /\ router[p].wg = s
      BY <1>2, <1>7 DEF ToggleQueue, At, Staged, Stage
    <2>2. QED
      BY <1>3, <1>4, <1>7, <2>1 DEF ToggleQueue
  <1>8. CASE ToggleFlip(q)
    <2> DEFINE row == [db[p] EXCEPT !.disabled = call[q].want.disabled]
    <2>1. call[q].pc = "flip" /\ UNCHANGED <<router, files>>
      BY <1>8 DEF ToggleFlip, At
    <2>2. db[p] # NoRow /\ db[p] \in Row
      BY <1>2, <2>1, AtWork DEF Staged, Stage
    <2>3. CASE WriteRow(p, row) /\ Go(q, "ok")
      <3>1. row.disabled = call[q].want.disabled /\ row # NoRow
        <4>1. row \in Row
          BY <1>2, <2>1, <2>2, AtWork, RequestAssumption DEF CallType, Want, CallFacts, Toggling, Row
        <4>2. QED
          BY <2>2, <4>1, StateAssumption DEF Row
      <3> HIDE DEF row
      <3>2. db'[p] = row /\ \A x \in Peer : x # p => db'[x] = db[x]
        BY <2>1, <2>2, <2>3, OwnRow
      <3>3. Elsewhere(q) /\ MovesTo(q, "ok")
        BY <2>1, <2>3, <3>2, OwnWrite
      <3>4. Staged(q)'
        BY <1>2, <2>1, <3>1, <3>2, <3>3 DEF Staged, Stage, MovesTo
      <3>5. QED
        BY <2>1, <3>3, <3>4, StageStep
    <2>4. CASE UNCHANGED db /\ Go(q, "failed")
      BY <2>1, <2>4, OwnWrite, StageFails
    <2>5. QED
      BY <1>8, <2>3, <2>4 DEF ToggleFlip
  <1>9. QED
    BY <1>1, <1>5, <1>6, <1>7, <1>8 DEF Toggle

LEMMA DeleteStage ==
    ASSUME PanelInv, OnePerPeer, StageInv, NEW q \in Request, Delete(q)
    PROVE  StageInv'
  <1> DEFINE p == call[q].p
  <1>1. CASE DeleteBegin(q)
    <2> DEFINE pc(x) == IF db[x].sched THEN "dropSched"
                        ELSE IF db[x].queue THEN "dropQueue" ELSE "dropPeer"
    <2>1. PICK x \in Peer : db[x] # NoRow /\ Enter(q, pc(x), x, db[x], Blank)
      BY <1>1 DEF DeleteBegin
    <2>2. pc(x) \in {"dropSched", "dropQueue", "dropPeer"}
      OBVIOUS
    <2> HIDE DEF pc
    <2>3. Stage([pc |-> pc(x), p |-> x, row |-> db[x], want |-> Blank], db[x], router[x].wg, files[x])
      BY <2>2 DEF Stage
    <2>4. QED
      BY <2>1, <2>3, StageEnter
  <1>2. ASSUME call[q].pc # "idle"
        PROVE  call[q] \in CallType /\ Entry(q) \in RouterPeer /\ Staged(q)
    BY <1>2, AtWork DEF StageInv
  <1>3. ASSUME call[q].pc # "idle", NEW next \in {"dropQueue", "dropPeer"},
               NEW entry, NEW possible, MustCall(q, possible, entry, next), UNCHANGED <<db, files>>
        PROVE  StageInv'
    <2>1. Stage([call[q] EXCEPT !.pc = next], db[p], entry.wg, files[p])
      BY <1>2, <1>3 DEF Stage, CallType
    <2>2. QED
      BY <1>3, <2>1, StageCall
  <1>4. CASE DeleteSched(q)
    <2> DEFINE next == IF call[q].row.queue THEN "dropQueue" ELSE "dropPeer"
    <2>1. next \in {"dropQueue", "dropPeer"}
      OBVIOUS
    <2>2. /\ call[q].pc = "dropSched" /\ UNCHANGED <<db, files>>
          /\ MustCall(q, Entry(q).sched # "none", [Entry(q) EXCEPT !.sched = "none", !.next = Never], next)
      BY <1>4 DEF DeleteSched, deleteScheduler, At
    <2> HIDE DEF next
    <2>3. QED
      BY <1>3, <2>1, <2>2
  <1>5. CASE DeleteQueue(q)
    BY <1>3, <1>5 DEF DeleteQueue, deleteQueue, At
  <1>6. CASE DeleteWg(q)
    <2> DEFINE entry == [Entry(q) EXCEPT !.wg = "none"]
    <2>1. /\ call[q].pc = "dropPeer" /\ UNCHANGED <<db, files>>
          /\ MustCall(q, Entry(q).wg # "none", entry, "dropQR")
      BY <1>6 DEF DeleteWg, At
    <2>2. entry.wg = "none"
      BY <1>2, <2>1 DEF RouterPeer
    <2> HIDE DEF entry
    <2>3. Stage([call[q] EXCEPT !.pc = "dropQR"], db[p], entry.wg, files[p])
      BY <1>2, <2>1, <2>2 DEF Stage, CallType
    <2>4. QED
      BY <2>1, <2>3, StageCall
  <1>7. ASSUME NEW pc, NEW file, NEW next, DeleteFile(q, pc, file, next),
               \/ pc = "dropQR" /\ file = "qr" /\ next = "dropConf"
               \/ pc = "dropConf" /\ file = "conf" /\ next = "dropSessions"
        PROVE  StageInv'
    <2>1. call[q].pc = pc /\ UNCHANGED <<db, router>>
      BY <1>7 DEF DeleteFile, At, stateVars
    <2>2. p \in Peer /\ files \in [Peer -> SUBSET Files]
      BY <1>7, <2>1, AtWork DEF PanelInv, ServiceTypeOK
    <2>3. \A x \in Peer : x # p => files'[x] = files[x]
      BY <1>7, <2>2 DEF DeleteFile
    <2>4. CASE files'[p] = files[p] \ {file} /\ Go(q, next)
      <3>1. Elsewhere(q) /\ MovesTo(q, next)
        BY <2>1, <2>3, <2>4, OwnWrite
      <3>2. CASE pc = "dropQR"
        <4>1. next = "dropConf" /\ router[p].wg = "none" /\ "qr" \notin files'[p]
          BY <1>2, <1>7, <2>1, <2>4, <3>2 DEF Staged, Stage
        <4>2. Staged(q)'
          BY <2>1, <3>1, <4>1 DEF Staged, Stage, MovesTo
        <4>3. QED
          BY <1>7, <2>1, <3>1, <4>2, StageStep
      <3>3. CASE pc = "dropConf"
        <4>1. next = "dropSessions" /\ router[p].wg = "none" /\ files'[p] = {}
          BY <1>2, <1>7, <2>1, <2>2, <2>4, <3>3 DEF Staged, Stage, Files
        <4>2. Staged(q)'
          BY <2>1, <3>1, <4>1 DEF Staged, Stage, MovesTo
        <4>3. QED
          BY <1>7, <2>1, <3>1, <4>2, StageStep
      <3>4. QED
        BY <1>7, <3>2, <3>3
    <2>5. CASE Go(q, "failed")
      BY <1>7, <2>1, <2>3, <2>5, OwnWrite, StageFails
    <2>6. QED
      BY <1>7, <2>2, <2>4, <2>5 DEF DeleteFile
  <1>8. CASE DeleteSessions(q)
    <2>1. call[q].pc = "dropSessions" /\ UNCHANGED <<db, router, files>>
      BY <1>8 DEF DeleteSessions, At, stateVars
    <2>2. CASE Go(q, "dropRow")
      <3>1. Elsewhere(q) /\ MovesTo(q, "dropRow")
        BY <2>1, <2>2, OwnWrite
      <3>2. Staged(q)'
        BY <1>2, <2>1, <3>1 DEF Staged, Stage, MovesTo
      <3>3. QED
        BY <2>1, <3>1, <3>2, StageStep
    <2>3. CASE Go(q, "failed")
      BY <2>1, <2>3, OwnWrite, StageFails
    <2>4. QED
      BY <1>8, <2>2, <2>3 DEF DeleteSessions
  <1>9. CASE DeleteRow(q)
    <2>1. call[q].pc = "dropRow" /\ UNCHANGED <<router, files>>
      BY <1>9 DEF DeleteRow, At
    <2>2. CASE db' = [db EXCEPT ![p] = NoRow] /\ Go(q, "ok")
      <3>1. db'[p] = NoRow /\ \A x \in Peer : x # p => db'[x] = db[x]
        BY <2>1, <2>2, AtWork DEF PanelInv, TypeInv, TypeOK, StateTypeOK
      <3>2. Elsewhere(q) /\ MovesTo(q, "ok")
        BY <2>1, <2>2, <3>1, OwnWrite
      <3>3. Staged(q)'
        BY <1>2, <2>1, <3>1, <3>2 DEF Staged, Stage, MovesTo
      <3>4. QED
        BY <2>1, <3>2, <3>3, StageStep
    <2>3. CASE UNCHANGED db /\ Go(q, "failed")
      BY <2>1, <2>3, OwnWrite, StageFails
    <2>4. QED
      BY <1>9, <2>2, <2>3 DEF DeleteRow
  <1>10. QED
    BY <1>1, <1>4, <1>5, <1>6, <1>7, <1>8, <1>9 DEF Delete

LEMMA SyncStage ==
    ASSUME PanelInv, OnePerPeer, StageInv, NEW q \in Request,
           SyncOff(q) \/ SyncOffQueue(q) \/ SyncMark(q) \/ Reply(q)
    PROVE  StageInv'
  <1> DEFINE p == call[q].p
  <1>1. ASSUME call[q].pc # "idle"
        PROVE  call[q] \in CallType /\ Entry(q) \in RouterPeer /\ Staged(q)
    BY <1>1, AtWork DEF StageInv
  <1>2. CASE SyncOff(q)
    <2> DEFINE next == IF call[q].row.queue THEN "offQueue" ELSE "mark"
               entry == [Entry(q) EXCEPT !.wg = "off"]
    <2>1. /\ call[q].pc = "off" /\ UNCHANGED <<db, files>>
          /\ MustCall(q, Entry(q).wg # "none", entry, next)
      BY <1>2 DEF SyncOff, At
    <2>2. next \in {"offQueue", "mark"} /\ entry.wg = "off"
      BY <1>1, <2>1 DEF RouterPeer
    <2> HIDE DEF next, entry
    <2>3. Stage([call[q] EXCEPT !.pc = next], db[p], entry.wg, files[p])
      BY <1>1, <2>1, <2>2 DEF Staged, Stage, CallType
    <2>4. QED
      BY <2>1, <2>3, StageCall
  <1>3. CASE SyncOffQueue(q)
    <2> DEFINE entry == [Entry(q) EXCEPT !.queue = "off"]
               possible == Entry(q).queue # "none"
    <2>1. /\ call[q].pc = "offQueue" /\ UNCHANGED <<db, files>>
          /\ MayCall(q, possible, entry, "mark")
      BY <1>3 DEF SyncOffQueue, At
    <2>2. entry.wg = router[p].wg
      BY <1>1, <2>1 DEF RouterPeer, Entry
    <2> HIDE DEF entry, possible
    <2>3. /\ Elsewhere(q) /\ MovesTo(q, "mark") /\ router'[p].wg = router[p].wg
      BY <2>1, <2>2, MayCallCases
    <2>4. Staged(q)'
      BY <1>1, <2>1, <2>3 DEF Staged, Stage, MovesTo
    <2>5. QED
      BY <2>1, <2>3, <2>4, StageStep
  <1>4. CASE SyncMark(q)
    <2> DEFINE row == [db[p] EXCEPT !.disabled = TRUE]
    <2>1. call[q].pc = "mark" /\ UNCHANGED <<router, files>>
      BY <1>4 DEF SyncMark, At
    <2>2. db[p] # NoRow /\ db[p] \in Row
      BY <1>1, <2>1, AtWork DEF Staged, Stage
    <2>3. CASE WriteRow(p, row) /\ Go(q, "ok")
      <3>1. row.disabled /\ row # NoRow
        <4>1. row \in Row
          BY <2>2 DEF Row
        <4>2. QED
          BY <2>2, <4>1, StateAssumption DEF Row
      <3> HIDE DEF row
      <3>2. db'[p] = row /\ \A x \in Peer : x # p => db'[x] = db[x]
        BY <2>1, <2>2, <2>3, OwnRow
      <3>3. Elsewhere(q) /\ MovesTo(q, "ok")
        BY <2>1, <2>3, <3>2, OwnWrite
      <3>4. Staged(q)'
        BY <1>1, <2>1, <3>1, <3>2, <3>3 DEF Staged, Stage, MovesTo, SwitchOf
      <3>5. QED
        BY <2>1, <3>3, <3>4, StageStep
    <2>4. CASE UNCHANGED db /\ Go(q, "failed")
      BY <2>1, <2>4, OwnWrite, StageFails
    <2>5. QED
      BY <1>4, <2>3, <2>4 DEF SyncMark
  <1>5. CASE Reply(q)
    <2>1. /\ UNCHANGED <<db, router, files>> /\ call'[q].pc = "idle"
          /\ \A r \in Request : r # q => call'[r] = call[r]
      BY <1>5 DEF Reply, stateVars, NoCall, PanelInv, ServiceTypeOK
    <2>2. QED
      BY <2>1 DEF StageInv, Staged
  <1>6. QED
    BY <1>2, <1>3, <1>4, <1>5

(* The router forwards traffic and restarts its counters, and no day       *)
(* passes.                                                                 *)
LEMMA EnvironmentStage ==
    ASSUME PanelInv, StageInv, LastDay = 0, Environment, UNCHANGED serviceVars
    PROVE  StageInv'
  <1>1. \A p \in Peer : db'[p] = db[p] /\ files'[p] = files[p] /\ router'[p].wg = router[p].wg
    <2>1. CASE \E p \in Peer, b \in Bursts : Forward(p, b)
      <3>1. PICK x \in Peer, b \in Bursts : Forward(x, b)
        BY <2>1
      <3> DEFINE ctr == [d \in Dir |-> Wrap(router[x].ctr[d], b[d])]
      <3>2. router' = [router EXCEPT ![x].ctr = ctr] /\ UNCHANGED db
        BY <3>1 DEF Forward
      <3> HIDE DEF ctr
      <3>3. QED
        BY <3>2 DEF serviceVars, PanelInv, TypeInv, TypeOK, StateTypeOK, RouterPeer
    <2>2. CASE \E p \in Peer : RestartCounters(p)
      BY <2>2 DEF RestartCounters, serviceVars, PanelInv, TypeInv, TypeOK, StateTypeOK, RouterPeer
    <2>3. ASSUME Midnight PROVE FALSE
      <3>1. today < 0 /\ today \in Nat
        BY <2>3, Zenon DEF Midnight, PanelInv, TypeInv, TypeOK, StateTypeOK
      <3>2. QED
        BY <3>1
    <2>4. QED
      BY <2>1, <2>2, <2>3 DEF Environment
  <1> SUFFICES ASSUME NEW q \in Request, call[q].pc # "idle" PROVE Staged(q)'
    BY DEF StageInv, Staged, serviceVars
  <1>2. call[q].p \in Peer /\ call'[q] = call[q]
    BY AtWork DEF serviceVars
  <1>3. QED
    BY <1>1, <1>2 DEF StageInv, Staged

(* Without jobs and without midnights, a request that succeeds leaves the   *)
(* switch of its peer as the row says, whatever failed before it and in     *)
(* whatever order requests for other peers run; so do the requests of one   *)
(* administrator, who waits for the answer of each.                         *)
THEOREM SuccessMeansAppliedHolds ==
    ASSUME TrafficJob = {}, ExpireJob = {}, ResetCall = {}, LastDay = 0
    PROVE  PanelSpec /\ []OnePerPeer => []SuccessMeansApplied
  <1>1. PanelInit => StageInv
    BY DEF PanelInit, ServiceInit, StageInv, Staged, NoCall
  <1>2. PanelInv /\ OnePerPeer /\ StageInv /\ [PanelNext]_panelVars => StageInv'
    <2> SUFFICES ASSUME PanelInv, OnePerPeer, StageInv, [PanelNext]_panelVars PROVE StageInv'
      OBVIOUS
    <2>1. ~CalculatorNext
      BY DEF CalculatorNext
    <2>2. CASE ServiceNext
      BY <2>2, CreateStage, UpdateStage, ToggleStage, DeleteStage, SyncStage DEF ServiceNext, Step
    <2>3. CASE EnvironmentStep /\ UNCHANGED serviceVars
      BY <2>3, EnvironmentStage DEF EnvironmentStep
    <2>4. CASE PanelCrash
      BY <2>4 DEF PanelCrash, LoseCalls, NoCall, StageInv, Staged
    <2>5. CASE UNCHANGED panelVars
      BY <2>5 DEF panelVars, vars, stateVars, serviceVars, StageInv, Staged
    <2>6. QED
      BY <2>1, <2>2, <2>3, <2>4, <2>5 DEF PanelNext
  <1>3. StageInv => SuccessMeansApplied
    BY DEF StageInv, Staged, Stage, SuccessMeansApplied, At
  <1>4. QED
    BY <1>1, <1>2, <1>3, InitPanelType, NextPanelType, PTL DEF PanelSpec

-----------------------------------------------------------------------------
(* The table and the router hold the same peers, schedulers and queues     *)
(* whenever nothing is under way, for every set of peers and requests and  *)
(* beside any number of traffic and expiry jobs, if no call fails.         *)

(* Nothing fails but alerts, counters start again at will, no request      *)
(* resets usage, and updates say whether the peer is to be on.             *)
Careful ==
    /\ Faults \cap {"router", "db", "files", "crash"} = {}
    /\ ResetCall = {}
    /\ \A want \in Updates : want.disabled # Unset

(* A row, or none, and what the router has of the peer.                    *)
Agree(row, e) ==
    IF row = NoRow THEN e.wg = "none" /\ e.sched = "none" /\ e.queue = "none"
    ELSE /\ e.wg # "none"
         /\ row.sched <=> e.sched # "none"
         /\ row.queue <=> e.queue # "none"

(* How far a request at pc with the locals c has brought its peer: which   *)
(* of row, peer, scheduler, queue and files are there.                     *)
Matches(c, row, e, fs) ==
    LET had == row # NoRow
        wg == e.wg # "none"
        sched == e.sched # "none"
        queue == e.queue # "none"
    IN
    /\ c.pc # "failed"
    /\ c.pc \in {"add", "addSched", "addQueue", "insert"} <=> (~had /\ c.pc # "ok")
    /\ c.pc \in {"conf", "qr", "patch", "sched", "reread", "off", "offQueue", "mark", "ok",
                 "switch", "switchSched", "switchQueue", "flip", "dropSched"} => Agree(row, e)
    /\ c.pc = "qr" => "conf" \in fs
    /\ c.pc = "dropConf" => "conf" \in fs
    /\ had /\ c.pc \notin {"conf", "qr", "dropConf", "dropSessions", "dropRow"} => fs = Files
    /\ c.pc \in {"patch", "sched", "switch", "switchSched", "switchQueue", "dropSched"} =>
         c.row.sched = row.sched
    /\ c.pc \in {"patch", "sched", "queue", "switch", "switchSched", "switchQueue",
                 "dropSched", "dropQueue"} => c.row.queue = row.queue
    /\ c.pc \in {"patch", "sched", "queue", "write"} => c.want.disabled # Unset
    /\ c.pc \in {"switchSched", "dropSched"} => c.row.sched
    /\ c.pc = "switchQueue" => c.row.queue
    /\ c.pc = "add" => ~wg /\ ~sched /\ ~queue
    /\ c.pc \in {"addSched", "addQueue", "insert"} => wg /\ (queue <=> c.pc = "insert")
    /\ c.pc = "addSched" => ~sched
    /\ c.pc \in {"addQueue", "insert", "queue", "write"} => (sched <=> c.want.expire # Never)
    /\ c.pc = "queue" => wg /\ (queue <=> row.queue)
    /\ c.pc = "write" => wg /\ (queue <=> c.want.bw # "none")
    /\ c.pc = "dropQueue" => wg /\ ~sched /\ queue
    /\ c.pc = "dropPeer" => wg /\ ~sched /\ ~queue
    /\ c.pc \in {"dropQR", "dropConf", "dropSessions", "dropRow"} => ~wg /\ ~sched /\ ~queue

MatchedAt(q) ==
    call[q].pc # "idle" =>
        Matches(call[q], db[call[q].p], router[call[q].p], files[call[q].p])

(* No request is at the peer. *)
Free(p) == \A q \in Request : call[q].pc = "idle" \/ call[q].p # p

AtRest(p) == Agree(db[p], router[p]) /\ (db[p] # NoRow => files[p] = Files)

MatchInv ==
    /\ \A q \in Request : MatchedAt(q)
    /\ \A p \in Peer : Free(p) => AtRest(p)
    /\ \A p \in fresh : db[p] = NoRow /\ Free(p)

-----------------------------------------------------------------------------
(* A request goes on: the other peers are as they were. *)
LEMMA MatchStep ==
    ASSUME PanelInv, OnePerPeer, MatchInv, NEW q \in Request, call[q].pc # "idle",
           Elsewhere(q), call'[q].p = call[q].p, call'[q].pc # "idle", MatchedAt(q)',
           UNCHANGED fresh
    PROVE  MatchInv'
  <1>1. \A r \in Request : r # q => call'[r] = call[r]
    BY DEF Elsewhere
  <1>2. \A p \in Peer : p # call[q].p =>
          db'[p] = db[p] /\ router'[p] = router[p] /\ files'[p] = files[p]
    BY DEF Elsewhere
  <1>3. ASSUME NEW r \in Request, r # q PROVE MatchedAt(r)'
    <2>1. CASE call[r].pc = "idle"
      BY <1>1, <1>3, <2>1 DEF MatchedAt
    <2>2. CASE call[r].pc # "idle"
      <3>1. call[r].p \in Peer /\ call[r].p # call[q].p
        BY <1>3, <2>2 DEF PanelInv, CallInv, CallFacts, OnePerPeer
      <3>2. QED
        BY <1>1, <1>2, <1>3, <3>1 DEF MatchInv, MatchedAt
    <2>3. QED
      BY <2>1, <2>2
  <1>4. \A p \in Peer : Free(p)' => Free(p) /\ p # call[q].p
    BY <1>1 DEF Free
  <1>5. \A p \in Peer : Free(p)' => AtRest(p)'
    BY <1>2, <1>4 DEF MatchInv, AtRest
  <1>6. \A p \in fresh : p # call[q].p /\ p \in Peer
    BY DEF MatchInv, Free, PanelInv, ServiceTypeOK
  <1>7. \A p \in fresh : db'[p] = NoRow /\ Free(p)'
    BY <1>1, <1>2, <1>6 DEF MatchInv, Free
  <1>8. QED
    BY <1>3, <1>5, <1>7 DEF MatchInv

(* A request begins at a peer. *)
LEMMA MatchEnter ==
    ASSUME PanelInv, OnePerPeer', MatchInv, NEW q \in Request, NEW pc, pc # "idle",
           NEW p \in Peer, NEW row, NEW want,
           Enter(q, pc, p, row, want), fresh' \subseteq fresh, p \notin fresh',
           AtRest(p) => Matches([pc |-> pc, p |-> p, row |-> row, want |-> want],
                                db[p], router[p], files[p])
    PROVE  MatchInv'
  <1> DEFINE c == [pc |-> pc, p |-> p, row |-> row, want |-> want]
  <1>1. UNCHANGED <<db, router, files>> /\ call[q].pc = "idle"
    BY DEF Enter, stateVars, At
  <1>2. call' = [call EXCEPT ![q] = c]
    BY DEF Enter
  <1>3. call'[q] = c /\ \A r \in Request : r # q => call'[r] = call[r]
    BY <1>2 DEF PanelInv, ServiceTypeOK
  <1>4. c.p = p /\ c.pc # "idle"
    OBVIOUS
  <1> HIDE DEF c
  <1>5. Free(p)
    BY <1>1, <1>3, <1>4 DEF OnePerPeer, Free
  <1>6. MatchedAt(q)'
    BY <1>1, <1>3, <1>4, <1>5 DEF MatchInv, MatchedAt, c
  <1>7. \A r \in Request : r # q => MatchedAt(r)'
    BY <1>1, <1>3 DEF MatchInv, MatchedAt
  <1>8. \A x \in Peer : Free(x)' => Free(x) /\ x # p
    BY <1>1, <1>3, <1>4 DEF Free
  <1>9. \A x \in Peer : Free(x)' => AtRest(x)'
    BY <1>1, <1>8 DEF MatchInv, AtRest
  <1>10. \A x \in fresh' : db'[x] = NoRow /\ Free(x)'
    BY <1>1, <1>3, <1>4 DEF MatchInv, Free
  <1>11. QED
    BY <1>6, <1>7, <1>9, <1>10 DEF MatchInv

(* A router call that can be carried out is. *)
LEMMA MatchCall ==
    ASSUME PanelInv, Careful, OnePerPeer, MatchInv, NEW q \in Request, call[q].pc # "idle",
           NEW possible, NEW entry, NEW next, possible, next # "idle",
           MustCall(q, possible, entry, next), UNCHANGED <<db, files, fresh>>,
           Matches([call[q] EXCEPT !.pc = next], db[call[q].p], entry, files[call[q].p])
    PROVE  MatchInv'
  <1>1. "router" \notin Faults
    BY DEF Careful
  <1>2. /\ Elsewhere(q) /\ db'[call[q].p] = db[call[q].p]
        /\ files'[call[q].p] = files[call[q].p]
        /\ router'[call[q].p] = entry /\ MovesTo(q, next)
    BY <1>1, MustCallCases
  <1>3. call[q] \in CallType
    BY AtWork
  <1>4. MatchedAt(q)'
    BY <1>2, <1>3 DEF MatchedAt, Matches, Agree, MovesTo, CallType
  <1>5. QED
    BY <1>2, <1>4, MatchStep DEF MovesTo

(* What a request relies on. *)
LEMMA MatchWork ==
    ASSUME PanelInv, MatchInv, NEW q \in Request, call[q].pc # "idle"
    PROVE  /\ call[q] \in CallType /\ call[q].p \in Peer
           /\ db[call[q].p] \in Row \cup {NoRow} /\ Entry(q) \in RouterPeer
           /\ Entry(q) = router[call[q].p] /\ CallFacts(call[q])
           /\ Matches(call[q], db[call[q].p], Entry(q), files[call[q].p])
  BY AtWork DEF MatchInv, MatchedAt, Entry

-----------------------------------------------------------------------------
LEMMA CreateMatch ==
    ASSUME PanelInv, Careful, OnePerPeer, OnePerPeer', MatchInv, NEW q \in Request, Create(q)
    PROVE  MatchInv'
  <1> DEFINE p == call[q].p
  <1>1. CASE CreateBegin(q)
    <2>1. PICK x \in fresh, limit \in Limits, expire \in Expiries :
            /\ Enter(q, "add", x, NoRow, [Blank EXCEPT !.limit = limit, !.expire = expire])
            /\ fresh' = fresh \ {x}
      BY <1>1, Zenon DEF CreateBegin
    <2> DEFINE want == [Blank EXCEPT !.limit = limit, !.expire = expire]
    <2>2. Enter(q, "add", x, NoRow, want)
      BY <2>1
    <2> HIDE DEF want
    <2>3. x \in Peer /\ db[x] = NoRow
      BY DEF PanelInv, ServiceTypeOK, MatchInv
    <2>4. AtRest(x) => Matches([pc |-> "add", p |-> x, row |-> NoRow, want |-> want],
                               db[x], router[x], files[x])
      BY <2>3 DEF AtRest, Matches, Agree
    <2>5. QED
      BY <2>1, <2>2, <2>3, <2>4, MatchEnter
  <1>2. CASE CreateAdd(q)
    <2> DEFINE next == IF call[q].want.expire = Never THEN "addQueue" ELSE "addSched"
               entry == [Entry(q) EXCEPT !.wg = "on"]
    <2>1. /\ call[q].pc = "add" /\ UNCHANGED <<db, files, fresh>>
          /\ MustCall(q, Entry(q).wg = "none", entry, next)
      BY <1>2 DEF CreateAdd, At
    <2>2. /\ entry.wg = "on" /\ entry.sched = Entry(q).sched /\ entry.queue = Entry(q).queue
          /\ next = (IF call[q].want.expire = Never THEN "addQueue" ELSE "addSched")
      BY <2>1, MatchWork DEF RouterPeer
    <2>3. Entry(q).wg = "none" /\ next # "idle"
      BY <2>1, MatchWork DEF Matches
    <2> HIDE DEF next, entry
    <2>4. Matches([call[q] EXCEPT !.pc = next], db[p], entry, files[p])
      BY <2>1, <2>2, MatchWork DEF Matches, CallType
    <2>5. QED
      BY <2>1, <2>3, <2>4, MatchCall
  <1>3. CASE CreateSched(q)
    <2> DEFINE entry == [Entry(q) EXCEPT !.sched = "on", !.next = NextRun(call[q].want.expire)]
    <2>1. /\ call[q].pc = "addSched" /\ UNCHANGED <<db, files, fresh>>
          /\ MustCall(q, Entry(q).sched = "none", entry, "addQueue")
      BY <1>3 DEF CreateSched, At, createScheduler
    <2>2. entry.wg = Entry(q).wg /\ entry.sched = "on" /\ entry.queue = Entry(q).queue
      BY <2>1, MatchWork DEF RouterPeer
    <2>3. Entry(q).sched = "none" /\ call[q].want.expire # Never
      BY <2>1, MatchWork DEF Matches, CallFacts
    <2> HIDE DEF entry
    <2>4. Matches([call[q] EXCEPT !.pc = "addQueue"], db[p], entry, files[p])
      BY <2>1, <2>2, <2>3, MatchWork DEF Matches, CallType
    <2>5. QED
      BY <2>1, <2>3, <2>4, MatchCall
  <1>4. CASE CreateQueue(q)
    <2> DEFINE entry == [Entry(q) EXCEPT !.queue = "on"]
    <2>1. /\ call[q].pc = "addQueue" /\ UNCHANGED <<db, files, fresh>>
          /\ MustCall(q, Entry(q).queue = "none", entry, "insert")
      BY <1>4 DEF CreateQueue, At, createQueue
    <2>2. entry.wg = Entry(q).wg /\ entry.sched = Entry(q).sched /\ entry.queue = "on"
      BY <2>1, MatchWork DEF RouterPeer
    <2>3. Entry(q).queue = "none"
      BY <2>1, MatchWork DEF Matches
    <2> HIDE DEF entry
    <2>4. Matches([call[q] EXCEPT !.pc = "insert"], db[p], entry, files[p])
      BY <2>1, <2>2, MatchWork DEF Matches, CallType
    <2>5. QED
      BY <2>1, <2>3, <2>4, MatchCall
  <1>5. CASE CreateInsert(q)
    <2> DEFINE row == FreshRow(call[q].want.limit, call[q].want.expire)
    <2>1. call[q].pc = "insert" /\ UNCHANGED <<router, files, fresh>>
      BY <1>5 DEF CreateInsert, At
    <2>2. /\ db' = [db EXCEPT ![p] = row]
          /\ call' = [call EXCEPT ![q].pc = "conf", ![q].row = row]
      BY <1>5 DEF CreateInsert, MayFailDb, Careful
    <2>3. row \in Row /\ (row.sched <=> call[q].want.expire # Never) /\ row.queue
      BY <2>1, MatchWork, FreshRowType DEF CallType, Want, FreshRow
    <2> HIDE DEF row
    <2>4. db'[p] = row /\ row # NoRow /\ \A x \in Peer : x # p => db'[x] = db[x]
      BY <2>1, <2>2, <2>3, MatchWork, StateAssumption DEF PanelInv, TypeInv, TypeOK, StateTypeOK
    <2>5. /\ call'[q].pc = "conf" /\ call'[q].p = p
          /\ \A r \in Request : r # q => call'[r] = call[r]
      BY <2>1, <2>2, MatchWork DEF PanelInv, ServiceTypeOK, CallType
    <2>6. Elsewhere(q)
      BY <2>1, <2>4, <2>5 DEF Elsewhere
    <2>7. MatchedAt(q)'
      BY <2>1, <2>3, <2>4, <2>5, MatchWork DEF MatchedAt, Matches, Agree
    <2>8. QED
      BY <2>1, <2>5, <2>6, <2>7, MatchStep
  <1>6. ASSUME NEW file \in Files, NEW next \in {"qr", "off", "ok"}, CreateFile(q, file, next),
               file = "conf" <=> next = "qr"
        PROVE  MatchInv'
    <2>1. call[q].pc = file /\ UNCHANGED <<db, router, fresh>>
      BY <1>6 DEF CreateFile, At, stateVars
    <2>2. call[q].pc # "idle" /\ file \in {"conf", "qr"}
      BY <2>1 DEF Files
    <2>3. files' = [files EXCEPT ![p] = @ \cup {file}] /\ Go(q, next)
      BY <1>6 DEF CreateFile, Careful
    <2>4. p \in Peer /\ files \in [Peer -> SUBSET Files]
      BY <2>2, MatchWork DEF PanelInv, ServiceTypeOK
    <2>5. files'[p] = files[p] \cup {file} /\ \A x \in Peer : x # p => files'[x] = files[x]
      BY <2>3, <2>4
    <2>6. Elsewhere(q) /\ MovesTo(q, next)
      BY <2>1, <2>3, <2>5, OwnWrite
    <2>7. next # "qr" => files'[p] = Files
      BY <1>6, <2>1, <2>2, <2>4, <2>5, MatchWork DEF Matches, Files
    <2>8. /\ db[p] # NoRow /\ Agree(db[p], router[p])
          /\ next = "qr" => "conf" \in files'[p]
      BY <1>6, <2>1, <2>2, <2>5, MatchWork DEF Matches
    <2>9. MatchedAt(q)'
      BY <2>1, <2>6, <2>7, <2>8 DEF MatchedAt, Matches, MovesTo
    <2>10. QED
      BY <2>1, <2>2, <2>6, <2>9, MatchStep DEF MovesTo
  <1>7. AfterSync(call[q].row) \in {"off", "ok"}
    BY DEF AfterSync
  <1>8. QED
    BY <1>1, <1>2, <1>3, <1>4, <1>5, <1>6, <1>7 DEF Create, Files

LEMMA UpdateMatch ==
    ASSUME PanelInv, Careful, OnePerPeer, OnePerPeer', MatchInv, NEW q \in Request, Update(q)
    PROVE  MatchInv'
  <1> DEFINE p == call[q].p
             want == call[q].want
  <1>1. CASE UpdateBegin(q)
    <2>1. PICK x \in Peer, w \in Updates : db[x] # NoRow /\ Enter(q, "patch", x, db[x], w)
      BY <1>1 DEF UpdateBegin
    <2>2. UNCHANGED fresh /\ x \notin fresh /\ w.disabled # Unset
      BY <1>1, <2>1 DEF UpdateBegin, MatchInv, Careful
    <2>3. AtRest(x) => Matches([pc |-> "patch", p |-> x, row |-> db[x], want |-> w],
                               db[x], router[x], files[x])
      BY <2>1, <2>2 DEF AtRest, Matches
    <2>4. QED
      BY <2>1, <2>2, <2>3, MatchEnter
  <1>2. CASE UpdatePatch(q)
    <2> DEFINE entry == IF want.disabled = Unset THEN Entry(q)
                        ELSE [Entry(q) EXCEPT !.wg = SwitchOf(want.disabled)]
    <2>1. /\ call[q].pc = "patch" /\ UNCHANGED <<db, files, fresh>>
          /\ MustCall(q, Entry(q).wg # "none", entry, "sched")
      BY <1>2 DEF UpdatePatch, At
    <2>2. Entry(q).wg # "none"
      BY <2>1, MatchWork DEF Matches, Agree
    <2>3. entry.wg # "none" /\ entry.sched = Entry(q).sched /\ entry.queue = Entry(q).queue
      BY <2>1, <2>2, MatchWork DEF RouterPeer, SwitchOf
    <2> HIDE DEF entry
    <2>4. Matches([call[q] EXCEPT !.pc = "sched"], db[p], entry, files[p])
      BY <2>1, <2>2, <2>3, MatchWork DEF Matches, Agree, CallType
    <2>5. QED
      BY <2>1, <2>2, <2>4, MatchCall
  <1>3. ASSUME call[q].pc \in {"sched", "queue"}, NEW next \in {"queue", "write"},
               Skip(q, next), UNCHANGED <<db, files, fresh>>,
               Matches([call[q] EXCEPT !.pc = next], db[p], Entry(q), files[p])
        PROVE  MatchInv'
    <2>1. Elsewhere(q) /\ MovesTo(q, next) /\ UNCHANGED router
      BY <1>3, OwnWrite DEF Skip
    <2>2. call[q] \in CallType
      BY <1>3, MatchWork
    <2>3. MatchedAt(q)'
      BY <1>3, <2>1, <2>2 DEF MatchedAt, Matches, Agree, MovesTo, CallType, Entry
    <2>4. QED
      BY <1>3, <2>1, <2>3, MatchStep DEF MovesTo
  <1>4. ASSUME call[q].pc = "sched", NEW entry, entry.wg = Entry(q).wg, entry.queue = Entry(q).queue,
               entry.sched # "none" <=> want.expire # Never
        PROVE  Matches([call[q] EXCEPT !.pc = "queue"], db[p], entry, files[p])
    BY <1>4, MatchWork DEF Matches, Agree, CallType
  <1>5. CASE handleScheduler(q)
    <2> DEFINE n == NextRun(want.expire)
    <2>1. call[q].pc = "sched" /\ UNCHANGED <<db, files, fresh>>
      BY <1>5 DEF handleScheduler, At
    <2> HIDE DEF n
    <2> DEFINE dropped == [Entry(q) EXCEPT !.sched = "none", !.next = Never]
               created == [Entry(q) EXCEPT !.sched = "on", !.next = n]
               moved == [Entry(q) EXCEPT !.next = n]
    <2>2. /\ dropped.wg = Entry(q).wg /\ dropped.queue = Entry(q).queue /\ dropped.sched = "none"
          /\ created.wg = Entry(q).wg /\ created.queue = Entry(q).queue /\ created.sched = "on"
          /\ moved.wg = Entry(q).wg /\ moved.queue = Entry(q).queue /\ moved.sched = Entry(q).sched
      BY <2>1, MatchWork DEF RouterPeer
    <2>3. call[q].row.sched <=> Entry(q).sched # "none"
      BY <2>1, MatchWork DEF Matches, Agree
    <2> HIDE DEF dropped, created, moved
    <2>4. CASE want.expire = Never /\ call[q].row.sched /\ deleteScheduler(q, "queue")
      <3>1. Entry(q).sched # "none" /\ MustCall(q, Entry(q).sched # "none", dropped, "queue")
        BY <2>3, <2>4 DEF deleteScheduler, dropped
      <3>2. QED
        BY <1>4, <2>1, <2>2, <2>4, <3>1, MatchCall
    <2>5. CASE want.expire # Never /\ ~call[q].row.sched /\ createScheduler(q, "queue")
      <3>1. Entry(q).sched = "none" /\ MustCall(q, Entry(q).sched = "none", created, "queue")
        BY <2>3, <2>5 DEF createScheduler, created, n
      <3>2. QED
        BY <1>4, <2>1, <2>2, <2>5, <3>1, MatchCall
    <2>6. CASE want.expire # Never /\ call[q].row.sched /\ updateScheduler(q, "queue")
      <3>1. Entry(q).sched # "none" /\ MustCall(q, Entry(q).sched # "none", moved, "queue")
        BY <2>3, <2>6 DEF updateScheduler, moved, n
      <3>2. QED
        BY <1>4, <2>1, <2>2, <2>6, <3>1, MatchCall
    <2>7. CASE want.expire = Never /\ ~call[q].row.sched /\ Skip(q, "queue")
      BY <1>3, <1>4, <2>1, <2>3, <2>7
    <2>8. QED
      BY <1>5, <2>4, <2>5, <2>6, <2>7 DEF handleScheduler
  <1>6. ASSUME call[q].pc = "queue", NEW entry, entry.wg = Entry(q).wg, entry.sched = Entry(q).sched,
               entry.queue # "none" <=> want.bw # "none"
        PROVE  Matches([call[q] EXCEPT !.pc = "write"], db[p], entry, files[p])
    BY <1>6, MatchWork DEF Matches, Agree, CallType
  <1>7. CASE handleQueue(q)
    <2>1. call[q].pc = "queue" /\ UNCHANGED <<db, files, fresh>>
      BY <1>7 DEF handleQueue, At
    <2> DEFINE dropped == [Entry(q) EXCEPT !.queue = "none"]
               created == [Entry(q) EXCEPT !.queue = "on"]
    <2>2. /\ dropped.wg = Entry(q).wg /\ dropped.sched = Entry(q).sched /\ dropped.queue = "none"
          /\ created.wg = Entry(q).wg /\ created.sched = Entry(q).sched /\ created.queue = "on"
      BY <2>1, MatchWork DEF RouterPeer
    <2>3. call[q].row.queue <=> Entry(q).queue # "none"
      BY <2>1, MatchWork DEF Matches
    <2> HIDE DEF dropped, created
    <2>4. CASE want.bw = "none" /\ call[q].row.queue /\ deleteQueue(q, "write")
      <3>1. Entry(q).queue # "none" /\ MustCall(q, Entry(q).queue # "none", dropped, "write")
        BY <2>3, <2>4 DEF deleteQueue, dropped
      <3>2. QED
        BY <1>6, <2>1, <2>2, <2>4, <3>1, MatchCall
    <2>5. CASE want.bw # "none" /\ ~call[q].row.queue /\ createQueue(q, "write")
      <3>1. Entry(q).queue = "none" /\ MustCall(q, Entry(q).queue = "none", created, "write")
        BY <2>3, <2>5 DEF createQueue, created
      <3>2. QED
        BY <1>6, <2>1, <2>2, <2>5, <3>1, MatchCall
    <2>6. CASE want.bw = "new" /\ call[q].row.queue /\ updateQueue(q, "write")
      <3>1. Entry(q).queue # "none" /\ MustCall(q, Entry(q).queue # "none", Entry(q), "write")
        BY <2>3, <2>6 DEF updateQueue
      <3>2. QED
        BY <1>6, <2>1, <2>6, <3>1, MatchCall
    <2>7. CASE /\ Skip(q, "write")
               /\ \/ want.bw = "same" /\ call[q].row.queue
                  \/ want.bw = "none" /\ ~call[q].row.queue
      BY <1>3, <1>6, <2>1, <2>3, <2>7
    <2>8. QED
      BY <1>7, <2>4, <2>5, <2>6, <2>7 DEF handleQueue
  <1>8. CASE UpdateWrite(q)
    <2> DEFINE row == preparePeerUpdate(db[p], call[q].row, want)
    <2>1. call[q].pc = "write" /\ UNCHANGED <<router, files, fresh>>
      BY <1>8 DEF UpdateWrite, At
    <2>2. want.disabled # Unset /\ want \in Want /\ db[p] # NoRow /\ db[p] \in Row
      BY <2>1, MatchWork DEF Matches, CallType
    <2>3. WriteRow(p, row) /\ Go(q, "reread")
      BY <1>8, <2>2 DEF UpdateWrite, MayFailDb, Careful
    <2>4. row \in Row /\ row.sched = (want.expire # Never) /\ row.queue = (want.bw # "none")
      BY <2>2, PreparedRow
    <2> HIDE DEF row
    <2>5. row # NoRow /\ db'[p] = row /\ \A x \in Peer : x # p => db'[x] = db[x]
      BY <2>1, <2>2, <2>3, <2>4, OwnRow, StateAssumption
    <2>6. Elsewhere(q) /\ MovesTo(q, "reread")
      BY <2>1, <2>3, <2>5, OwnWrite
    <2>7. Agree(db'[p], router'[p]) /\ files'[p] = Files
      <3>1. /\ Entry(q).wg # "none" /\ files[p] = Files
            /\ Entry(q).sched # "none" <=> want.expire # Never
            /\ Entry(q).queue # "none" <=> want.bw # "none"
        BY <2>1, <2>2, MatchWork DEF Matches
      <3>2. QED
        BY <2>1, <2>4, <2>5, <3>1 DEF Agree, Entry
    <2>8. MatchedAt(q)'
      BY <2>1, <2>5, <2>6, <2>7 DEF MatchedAt, Matches, MovesTo
    <2>9. QED
      BY <2>1, <2>6, <2>8, MatchStep DEF MovesTo
  <1>9. CASE UpdateReread(q)
    <2> DEFINE next == IF db[p] = NoRow THEN "failed" ELSE AfterSync(db[p])
    <2>1. call[q].pc = "reread" /\ UNCHANGED <<db, router, files, fresh>>
      BY <1>9 DEF UpdateReread, At, stateVars
    <2>2. next \in {"off", "ok"}
      BY <2>1, MatchWork DEF Matches, AfterSync
    <2>3. call' = [call EXCEPT ![q].row = db[p], ![q].pc = next]
      BY <1>9 DEF UpdateReread, MayFailDb, Careful
    <2> HIDE DEF next
    <2>4. /\ call'[q].pc = next /\ call'[q].p = p
          /\ \A r \in Request : r # q => call'[r] = call[r]
      BY <2>1, <2>3, MatchWork DEF PanelInv, ServiceTypeOK, CallType
    <2>5. Elsewhere(q)
      BY <2>1, <2>4 DEF Elsewhere
    <2>6. MatchedAt(q)'
      BY <2>1, <2>2, <2>4, MatchWork DEF MatchedAt, Matches, Entry
    <2>7. QED
      BY <2>1, <2>2, <2>4, <2>5, <2>6, MatchStep
  <1>10. QED
    BY <1>1, <1>2, <1>5, <1>7, <1>8, <1>9 DEF Update

LEMMA ToggleMatch ==
    ASSUME PanelInv, Careful, OnePerPeer, OnePerPeer', MatchInv, NEW q \in Request, Toggle(q)
    PROVE  MatchInv'
  <1> DEFINE p == call[q].p
             s == SwitchOf(call[q].want.disabled)
  <1>1. CASE ToggleBegin(q)
    <2>1. PICK x \in Peer : db[x] # NoRow /\ Enter(q, "switch", x, db[x],
                                [Blank EXCEPT !.disabled = ~db[x].disabled])
      BY <1>1 DEF ToggleBegin
    <2> DEFINE want == [Blank EXCEPT !.disabled = ~db[x].disabled]
    <2> HIDE DEF want
    <2>2. UNCHANGED fresh /\ x \notin fresh
      BY <1>1, <2>1 DEF ToggleBegin, MatchInv
    <2>3. AtRest(x) => Matches([pc |-> "switch", p |-> x, row |-> db[x], want |-> want],
                               db[x], router[x], files[x])
      BY <2>1 DEF AtRest, Matches
    <2>4. QED
      BY <2>1, <2>2, <2>3, MatchEnter DEF want
  <1>2. s # "none"
    BY DEF SwitchOf
  <1> HIDE DEF s
  <1>3. CASE ToggleSwitch(q)
    <2> DEFINE next == IF call[q].row.sched THEN "switchSched"
                       ELSE IF call[q].row.queue THEN "switchQueue" ELSE "flip"
               entry == [Entry(q) EXCEPT !.wg = s]
    <2>1. /\ call[q].pc = "switch" /\ UNCHANGED <<db, files, fresh>>
          /\ MustCall(q, Entry(q).wg # "none", entry, next)
      BY <1>3 DEF ToggleSwitch, At, s
    <2>2. entry.wg = s /\ entry.sched = Entry(q).sched /\ entry.queue = Entry(q).queue
      BY <2>1, MatchWork DEF RouterPeer
    <2>3. Entry(q).wg # "none" /\ db[p] # NoRow /\ Agree(db[p], entry)
      BY <1>2, <2>1, <2>2, MatchWork DEF Matches, Agree
    <2>4. /\ next \in {"switchSched", "switchQueue", "flip"}
          /\ next = "switchSched" => call[q].row.sched
          /\ next = "switchQueue" => call[q].row.queue
      OBVIOUS
    <2> HIDE DEF next, entry
    <2>5. Matches([call[q] EXCEPT !.pc = next], db[p], entry, files[p])
      BY <2>1, <2>3, <2>4, MatchWork DEF Matches, CallType
    <2>6. QED
      BY <2>1, <2>3, <2>4, <2>5, MatchCall
  <1>4. CASE ToggleSched(q)
    <2> DEFINE next == IF call[q].row.queue THEN "switchQueue" ELSE "flip"
               entry == [Entry(q) EXCEPT !.sched = s]
    <2>1. /\ call[q].pc = "switchSched" /\ UNCHANGED <<db, files, fresh>>
          /\ MustCall(q, Entry(q).sched # "none", entry, next)
      BY <1>4 DEF ToggleSched, At, s
    <2>2. entry.wg = Entry(q).wg /\ entry.sched = s /\ entry.queue = Entry(q).queue
      BY <2>1, MatchWork DEF RouterPeer
    <2>3. Entry(q).sched # "none" /\ db[p] # NoRow /\ Agree(db[p], entry)
      BY <1>2, <2>1, <2>2, MatchWork DEF Matches, Agree
    <2>4. /\ next \in {"switchQueue", "flip"}
          /\ next = "switchQueue" => call[q].row.queue
      OBVIOUS
    <2> HIDE DEF next, entry
    <2>5. Matches([call[q] EXCEPT !.pc = next], db[p], entry, files[p])
      BY <2>1, <2>3, <2>4, MatchWork DEF Matches, CallType
    <2>6. QED
      BY <2>1, <2>3, <2>4, <2>5, MatchCall
  <1>5. CASE ToggleQueue(q)
    <2> DEFINE entry == [Entry(q) EXCEPT !.queue = s]
    <2>1. /\ call[q].pc = "switchQueue" /\ UNCHANGED <<db, files, fresh>>
          /\ MustCall(q, Entry(q).queue # "none", entry, "flip")
      BY <1>5 DEF ToggleQueue, At, s
    <2>2. entry.wg = Entry(q).wg /\ entry.sched = Entry(q).sched /\ entry.queue = s
      BY <2>1, MatchWork DEF RouterPeer
    <2>3. Entry(q).queue # "none" /\ db[p] # NoRow /\ Agree(db[p], entry)
      BY <1>2, <2>1, <2>2, MatchWork DEF Matches, Agree
    <2> HIDE DEF entry
    <2>4. Matches([call[q] EXCEPT !.pc = "flip"], db[p], entry, files[p])
      BY <2>1, <2>3, MatchWork DEF Matches, CallType
    <2>5. QED
      BY <2>1, <2>3, <2>4, MatchCall
  <1>6. CASE ToggleFlip(q)
    <2> DEFINE row == [db[p] EXCEPT !.disabled = call[q].want.disabled]
    <2>1. call[q].pc = "flip" /\ UNCHANGED <<router, files, fresh>>
      BY <1>6 DEF ToggleFlip, At
    <2>2. db[p] # NoRow /\ db[p] \in Row /\ call[q].want.disabled \in BOOLEAN
      BY <2>1, MatchWork, RequestAssumption DEF Matches, CallType, Want, CallFacts, Toggling
    <2>3. WriteRow(p, row) /\ Go(q, "ok")
      BY <1>6 DEF ToggleFlip, MayFailDb, Careful
    <2>4. row \in Row /\ row.sched = db[p].sched /\ row.queue = db[p].queue
      BY <2>2 DEF Row
    <2> HIDE DEF row
    <2>5. row # NoRow /\ db'[p] = row /\ \A x \in Peer : x # p => db'[x] = db[x]
      BY <2>1, <2>2, <2>3, <2>4, OwnRow, StateAssumption
    <2>6. Elsewhere(q) /\ MovesTo(q, "ok")
      BY <2>1, <2>3, <2>5, OwnWrite
    <2>7. Agree(db'[p], router'[p]) /\ files'[p] = Files
      BY <2>1, <2>2, <2>4, <2>5, MatchWork DEF Matches, Agree
    <2>8. MatchedAt(q)'
      BY <2>1, <2>5, <2>6, <2>7 DEF MatchedAt, Matches, MovesTo
    <2>9. QED
      BY <2>1, <2>6, <2>8, MatchStep DEF MovesTo
  <1>7. QED
    BY <1>1, <1>3, <1>4, <1>5, <1>6 DEF Toggle

LEMMA DeleteMatch ==
    ASSUME PanelInv, Careful, OnePerPeer, OnePerPeer', MatchInv, NEW q \in Request, Delete(q)
    PROVE  MatchInv'
  <1> DEFINE p == call[q].p
  <1>1. CASE DeleteBegin(q)
    <2> DEFINE pc(x) == IF db[x].sched THEN "dropSched"
                        ELSE IF db[x].queue THEN "dropQueue" ELSE "dropPeer"
    <2>1. PICK x \in Peer : db[x] # NoRow /\ Enter(q, pc(x), x, db[x], Blank)
      BY <1>1 DEF DeleteBegin
    <2>2. UNCHANGED fresh /\ x \notin fresh
      BY <1>1, <2>1 DEF DeleteBegin, MatchInv
    <2>3. /\ pc(x) \in {"dropSched", "dropQueue", "dropPeer"}
          /\ pc(x) = "dropSched" <=> db[x].sched
          /\ pc(x) = "dropQueue" <=> ~db[x].sched /\ db[x].queue
      OBVIOUS
    <2> HIDE DEF pc
    <2>4. AtRest(x) => Matches([pc |-> pc(x), p |-> x, row |-> db[x], want |-> Blank],
                               db[x], router[x], files[x])
      BY <2>1, <2>3 DEF AtRest, Matches, Agree
    <2>5. QED
      BY <2>1, <2>2, <2>3, <2>4, MatchEnter
  <1>2. CASE DeleteSched(q)
    <2> DEFINE next == IF call[q].row.queue THEN "dropQueue" ELSE "dropPeer"
               entry == [Entry(q) EXCEPT !.sched = "none", !.next = Never]
    <2>1. /\ call[q].pc = "dropSched" /\ UNCHANGED <<db, files, fresh>>
          /\ MustCall(q, Entry(q).sched # "none", entry, next)
      BY <1>2 DEF DeleteSched, deleteScheduler, At
    <2>2. entry.wg = Entry(q).wg /\ entry.sched = "none" /\ entry.queue = Entry(q).queue
      BY <2>1, MatchWork DEF RouterPeer
    <2>3. Entry(q).sched # "none"
      BY <2>1, MatchWork DEF Matches, Agree
    <2>4. next = (IF call[q].row.queue THEN "dropQueue" ELSE "dropPeer") /\ next # "idle"
      OBVIOUS
    <2> HIDE DEF next, entry
    <2>5. Matches([call[q] EXCEPT !.pc = next], db[p], entry, files[p])
      BY <2>1, <2>2, <2>4, MatchWork DEF Matches, Agree, CallType
    <2>6. QED
      BY <2>1, <2>3, <2>4, <2>5, MatchCall
  <1>3. CASE DeleteQueue(q)
    <2> DEFINE entry == [Entry(q) EXCEPT !.queue = "none"]
    <2>1. /\ call[q].pc = "dropQueue" /\ UNCHANGED <<db, files, fresh>>
          /\ MustCall(q, Entry(q).queue # "none", entry, "dropPeer")
      BY <1>3 DEF DeleteQueue, deleteQueue, At
    <2>2. entry.wg = Entry(q).wg /\ entry.sched = Entry(q).sched /\ entry.queue = "none"
      BY <2>1, MatchWork DEF RouterPeer
    <2>3. Entry(q).queue # "none"
      BY <2>1, MatchWork DEF Matches
    <2> HIDE DEF entry
    <2>4. Matches([call[q] EXCEPT !.pc = "dropPeer"], db[p], entry, files[p])
      BY <2>1, <2>2, MatchWork DEF Matches, CallType
    <2>5. QED
      BY <2>1, <2>3, <2>4, MatchCall
  <1>4. CASE DeleteWg(q)
    <2> DEFINE entry == [Entry(q) EXCEPT !.wg = "none"]
    <2>1. /\ call[q].pc = "dropPeer" /\ UNCHANGED <<db, files, fresh>>
          /\ MustCall(q, Entry(q).wg # "none", entry, "dropQR")
      BY <1>4 DEF DeleteWg, At
    <2>2. entry.wg = "none" /\ entry.sched = Entry(q).sched /\ entry.queue = Entry(q).queue
      BY <2>1, MatchWork DEF RouterPeer
    <2>3. Entry(q).wg # "none"
      BY <2>1, MatchWork DEF Matches
    <2> HIDE DEF entry
    <2>4. Matches([call[q] EXCEPT !.pc = "dropQR"], db[p], entry, files[p])
      BY <2>1, <2>2, MatchWork DEF Matches, CallType
    <2>5. QED
      BY <2>1, <2>3, <2>4, MatchCall
  <1>5. ASSUME NEW pc, NEW file, NEW next, DeleteFile(q, pc, file, next),
               \/ pc = "dropQR" /\ file = "qr" /\ next = "dropConf"
               \/ pc = "dropConf" /\ file = "conf" /\ next = "dropSessions"
        PROVE  MatchInv'
    <2>1. call[q].pc = pc /\ pc \in {"dropQR", "dropConf"} /\ UNCHANGED <<db, router, fresh>>
      BY <1>5 DEF DeleteFile, At, stateVars
    <2>2. p \in Peer /\ files \in [Peer -> SUBSET Files]
      BY <2>1, MatchWork DEF PanelInv, ServiceTypeOK
    <2>3. db[p] # NoRow /\ file \in files[p]
      BY <1>5, <2>1, MatchWork DEF Matches, Files
    <2>4. files' = [files EXCEPT ![p] = @ \ {file}] /\ Go(q, next)
      BY <1>5, <2>3 DEF DeleteFile, MayFailDb, Careful
    <2>5. files'[p] = files[p] \ {file} /\ \A x \in Peer : x # p => files'[x] = files[x]
      BY <2>2, <2>4
    <2>6. Elsewhere(q) /\ MovesTo(q, next)
      BY <2>1, <2>4, <2>5, OwnWrite
    <2>7. /\ router[p].wg = "none" /\ router[p].sched = "none" /\ router[p].queue = "none"
          /\ next = "dropConf" => "conf" \in files'[p]
      BY <1>5, <2>1, <2>5, MatchWork DEF Matches, Files
    <2>8. MatchedAt(q)'
      BY <1>5, <2>1, <2>3, <2>6, <2>7 DEF MatchedAt, Matches, MovesTo
    <2>9. QED
      BY <1>5, <2>1, <2>6, <2>8, MatchStep DEF MovesTo
  <1>6. CASE DeleteSessions(q)
    <2>1. call[q].pc = "dropSessions" /\ UNCHANGED <<db, router, files, fresh>> /\ Go(q, "dropRow")
      BY <1>6 DEF DeleteSessions, At, stateVars, MayFailDb, Careful
    <2>2. Elsewhere(q) /\ MovesTo(q, "dropRow")
      BY <2>1, OwnWrite
    <2>3. /\ router[p].wg = "none" /\ router[p].sched = "none" /\ router[p].queue = "none"
          /\ db[p] # NoRow
      BY <2>1, MatchWork DEF Matches
    <2>4. MatchedAt(q)'
      BY <2>1, <2>2, <2>3 DEF MatchedAt, Matches, MovesTo
    <2>5. QED
      BY <2>1, <2>2, <2>4, MatchStep DEF MovesTo
  <1>7. CASE DeleteRow(q)
    <2>1. call[q].pc = "dropRow" /\ UNCHANGED <<router, files, fresh>>
      BY <1>7 DEF DeleteRow, At
    <2>2. db' = [db EXCEPT ![p] = NoRow] /\ Go(q, "ok")
      BY <1>7 DEF DeleteRow, MayFailDb, Careful
    <2>3. db'[p] = NoRow /\ \A x \in Peer : x # p => db'[x] = db[x]
      BY <2>1, <2>2, MatchWork DEF PanelInv, TypeInv, TypeOK, StateTypeOK
    <2>4. Elsewhere(q) /\ MovesTo(q, "ok")
      BY <2>1, <2>2, <2>3, OwnWrite
    <2>5. router[p].wg = "none" /\ router[p].sched = "none" /\ router[p].queue = "none"
      BY <2>1, MatchWork DEF Matches
    <2>6. MatchedAt(q)'
      BY <2>1, <2>3, <2>4, <2>5 DEF MatchedAt, Matches, Agree, MovesTo
    <2>7. QED
      BY <2>1, <2>4, <2>6, MatchStep DEF MovesTo
  <1>8. QED
    BY <1>1, <1>2, <1>3, <1>4, <1>5, <1>6, <1>7 DEF Delete

LEMMA SyncMatch ==
    ASSUME PanelInv, Careful, OnePerPeer, MatchInv, NEW q \in Request,
           SyncOff(q) \/ SyncOffQueue(q) \/ SyncMark(q) \/ Reply(q)
    PROVE  MatchInv'
  <1> DEFINE p == call[q].p
  <1>1. CASE SyncOff(q)
    <2> DEFINE next == IF call[q].row.queue THEN "offQueue" ELSE "mark"
               entry == [Entry(q) EXCEPT !.wg = "off"]
    <2>1. /\ call[q].pc = "off" /\ UNCHANGED <<db, files, fresh>>
          /\ MustCall(q, Entry(q).wg # "none", entry, next)
      BY <1>1 DEF SyncOff, At
    <2>2. /\ next \in {"offQueue", "mark"} /\ entry.wg = "off"
          /\ entry.sched = Entry(q).sched /\ entry.queue = Entry(q).queue
      BY <2>1, MatchWork DEF RouterPeer
    <2>3. Entry(q).wg # "none" /\ db[p] # NoRow /\ Agree(db[p], entry)
      BY <2>1, <2>2, MatchWork DEF Matches, Agree
    <2> HIDE DEF next, entry
    <2>4. Matches([call[q] EXCEPT !.pc = next], db[p], entry, files[p])
      BY <2>1, <2>2, <2>3, MatchWork DEF Matches, CallType
    <2>5. QED
      BY <2>1, <2>2, <2>3, <2>4, MatchCall
  <1>2. CASE SyncOffQueue(q)
    <2> DEFINE entry == [Entry(q) EXCEPT !.queue = "off"]
               possible == Entry(q).queue # "none"
    <2>1. /\ call[q].pc = "offQueue" /\ UNCHANGED <<db, files, fresh>>
          /\ MayCall(q, possible, entry, "mark")
      BY <1>2 DEF SyncOffQueue, At
    <2>2. entry.wg = Entry(q).wg /\ entry.sched = Entry(q).sched /\ entry.queue = "off"
      BY <2>1, MatchWork DEF RouterPeer
    <2>3. /\ Elsewhere(q) /\ MovesTo(q, "mark") /\ db'[p] = db[p] /\ files'[p] = files[p]
          /\ router'[p] \in {Entry(q), entry} /\ (router'[p] = entry => Entry(q).queue # "none" \/ entry = Entry(q))
      BY <2>1, MayCallCases DEF Entry
    <2> HIDE DEF entry, possible
    <2>4. db[p] # NoRow /\ Agree(db[p], router'[p]) /\ files[p] = Files
      BY <2>1, <2>2, <2>3, MatchWork DEF Matches, Agree
    <2>5. MatchedAt(q)'
      BY <2>3, <2>4 DEF MatchedAt, Matches, MovesTo
    <2>6. QED
      BY <2>1, <2>3, <2>5, MatchStep DEF MovesTo
  <1>3. CASE SyncMark(q)
    <2> DEFINE row == [db[p] EXCEPT !.disabled = TRUE]
    <2>1. call[q].pc = "mark" /\ UNCHANGED <<router, files, fresh>>
      BY <1>3 DEF SyncMark, At
    <2>2. db[p] # NoRow /\ db[p] \in Row
      BY <2>1, MatchWork DEF Matches
    <2>3. WriteRow(p, row) /\ Go(q, "ok")
      BY <1>3 DEF SyncMark, MayFailDb, Careful
    <2>4. row \in Row /\ row.sched = db[p].sched /\ row.queue = db[p].queue
      BY <2>2 DEF Row
    <2> HIDE DEF row
    <2>5. row # NoRow /\ db'[p] = row /\ \A x \in Peer : x # p => db'[x] = db[x]
      BY <2>1, <2>2, <2>3, <2>4, OwnRow, StateAssumption
    <2>6. Elsewhere(q) /\ MovesTo(q, "ok")
      BY <2>1, <2>3, <2>5, OwnWrite
    <2>7. Agree(db'[p], router'[p]) /\ files'[p] = Files
      BY <2>1, <2>2, <2>4, <2>5, MatchWork DEF Matches, Agree
    <2>8. MatchedAt(q)'
      BY <2>1, <2>5, <2>6, <2>7 DEF MatchedAt, Matches, MovesTo
    <2>9. QED
      BY <2>1, <2>6, <2>8, MatchStep DEF MovesTo
  <1>4. CASE Reply(q)
    <2>1. /\ UNCHANGED <<db, router, files, fresh>> /\ call'[q].pc = "idle"
          /\ \A r \in Request : r # q => call'[r] = call[r]
      BY <1>4 DEF Reply, stateVars, NoCall, PanelInv, ServiceTypeOK
    <2>2. call[q].pc = "ok" /\ AtRest(p)
      BY <1>4, MatchWork DEF Reply, Matches, AtRest, Entry
    <2>3. \A x \in Peer : Free(x)' => Free(x) \/ x = p
      BY <2>1, <2>2 DEF Free
    <2>4. \A x \in Peer : Free(x)' => AtRest(x)'
      BY <2>1, <2>2, <2>3 DEF MatchInv, AtRest
    <2>5. \A r \in Request : MatchedAt(r)'
      BY <2>1 DEF MatchInv, MatchedAt
    <2>6. \A x \in fresh' : db'[x] = NoRow /\ Free(x)'
      BY <2>1 DEF MatchInv, Free
    <2>7. QED
      BY <2>4, <2>5, <2>6 DEF MatchInv
  <1>5. QED
    BY <1>1, <1>2, <1>3, <1>4

-----------------------------------------------------------------------------
(* The jobs and the environment change nothing that counts here.           *)

SameShape ==
    \A p \in Peer :
        /\ db[p] = NoRow => db'[p] = NoRow
        /\ db[p] # NoRow => /\ db'[p] # NoRow
                            /\ db'[p].sched = db[p].sched /\ db'[p].queue = db[p].queue
        /\ router'[p].wg = "none" <=> router[p].wg = "none"
        /\ router'[p].sched = "none" <=> router[p].sched = "none"
        /\ router'[p].queue = "none" <=> router[p].queue = "none"

LEMMA ShapeKeeps ==
    ASSUME PanelInv, MatchInv, SameShape, UNCHANGED serviceVars
    PROVE  MatchInv'
  <1> UNCHANGED <<call, files, fresh>>
    BY DEF serviceVars
  <1>1. \A p \in Peer : AtRest(p) => AtRest(p)'
    BY DEF SameShape, AtRest, Agree
  <1>2. ASSUME NEW q \in Request PROVE MatchedAt(q)'
    <2>1. CASE call[q].pc = "idle"
      BY <2>1 DEF MatchedAt
    <2>2. CASE call[q].pc # "idle"
      <3>1. call[q].p \in Peer /\ MatchedAt(q)
        BY <2>2, AtWork DEF MatchInv
      <3>2. QED
        BY <2>2, <3>1 DEF MatchedAt, Matches, Agree, SameShape
    <2>3. QED
      BY <2>1, <2>2
  <1>3. \A p \in fresh' : db'[p] = NoRow /\ Free(p)'
    BY DEF MatchInv, SameShape, Free, PanelInv, ServiceTypeOK
  <1>4. \A p \in Peer : Free(p)' = Free(p)
    BY DEF Free
  <1>5. QED
    BY <1>1, <1>2, <1>3, <1>4 DEF MatchInv

LEMMA PatchShape ==
    ASSUME StateTypeOK, NEW p \in Peer, NEW ok \in BOOLEAN,
           PatchPeer(p, "off", ok) \/ PatchQueue(p, "off", ok), UNCHANGED db
    PROVE  SameShape
  <1>1. router[p] \in RouterPeer
    BY DEF StateTypeOK
  <1> DEFINE on == [router[p] EXCEPT !.wg = "off"]
             held == [router[p] EXCEPT !.queue = "off"]
  <1>2. /\ on.wg = "off" /\ on.sched = router[p].sched /\ on.queue = router[p].queue
        /\ held.wg = router[p].wg /\ held.sched = router[p].sched /\ held.queue = "off"
    BY <1>1 DEF RouterPeer
  <1>3. \/ router' = router
        \/ router[p].wg # "none" /\ router' = [router EXCEPT ![p] = on]
        \/ router[p].queue # "none" /\ router' = [router EXCEPT ![p] = held]
    BY DEF PatchPeer, PatchQueue, RouterCall
  <1> HIDE DEF on, held
  <1>4. \A x \in Peer : x # p => router'[x] = router[x]
    BY <1>3 DEF StateTypeOK
  <1>5. \/ router'[p] = router[p]
        \/ router[p].wg # "none" /\ router'[p] = on
        \/ router[p].queue # "none" /\ router'[p] = held
    BY <1>3 DEF StateTypeOK
  <1>6. QED
    BY <1>2, <1>4, <1>5 DEF SameShape

LEMMA JobShape ==
    ASSUME TypeInv, NEW t \in Thread,
           (t \in TrafficJob /\ Traffic(t)) \/ (t \in ExpireJob /\ Expire(t))
    PROVE  SameShape
  <1> thr[t] \in Local /\ StateTypeOK
    BY DEF TypeInv, TypeOK
  <1>1. CASE UNCHANGED <<db, router>>
    BY <1>1 DEF SameShape
  <1>2. ASSUME TrafficLimit(t) \/ ExpireQueue(t) \/ \E p \in Peer : ExpirePeer(t, p)
        PROVE  SameShape
    <2>1. CASE TrafficLimit(t)
      <3>1. thr[t].id \in Peer /\ UNCHANGED db
        BY <2>1 DEF TrafficLimit, TypeInv, AtPeer
      <3>2. QED
        BY <1>1, <2>1, <3>1, PatchShape DEF TrafficLimit
    <2>2. CASE ExpireQueue(t)
      <3>1. thr[t].id \in Peer /\ UNCHANGED db
        BY <2>2 DEF ExpireQueue, TypeInv, AtPeer
      <3>2. QED
        BY <2>2, <3>1, PatchShape DEF ExpireQueue
    <2>3. ASSUME NEW p \in Peer, ExpirePeer(t, p) PROVE SameShape
      <3>1. UNCHANGED db /\ \E ok \in BOOLEAN : PatchPeer(p, "off", ok)
        BY <2>3 DEF ExpirePeer
      <3>2. QED
        BY <3>1, PatchShape
    <2>4. QED
      BY <1>2, <2>1, <2>2, <2>3
  <1>3. ASSUME NEW p \in Peer, NEW row, db[p] # NoRow => row \in Row,
               row.sched = db[p].sched, row.queue = db[p].queue, UNCHANGED router,
               UNCHANGED db \/ (db[p] # NoRow /\ db' = [db EXCEPT ![p] = row])
        PROVE  SameShape
    <2>1. CASE db[p] # NoRow /\ db' = [db EXCEPT ![p] = row]
      <3>1. db'[p] = row /\ row # NoRow /\ \A x \in Peer : x # p => db'[x] = db[x]
        BY <1>3, <2>1, StateAssumption DEF StateTypeOK
      <3>2. QED
        BY <1>3, <2>1, <3>1 DEF SameShape
    <2>2. QED
      BY <1>1, <1>3, <2>1
  <1>4. CASE TrafficPersist(t)
    <2> DEFINE p == thr[t].id
               row == Updated(db[p], thr[t])
    <2>1. p \in Peer /\ thr[t].rows[p] \in Row
      BY <1>4 DEF TrafficPersist, TypeInv, AtPeer, Local
    <2>2. /\ UNCHANGED router
          /\ UNCHANGED db \/ (db[p] # NoRow /\ db' = [db EXCEPT ![p] = row])
      BY <1>4 DEF TrafficPersist
    <2>3. db[p] # NoRow => row \in Row /\ row.sched = db[p].sched /\ row.queue = db[p].queue
      BY <2>1 DEF Updated, Row, Local, StateTypeOK
    <2> HIDE DEF row
    <2>4. QED
      BY <1>1, <1>3, <2>1, <2>2, <2>3
  <1>5. CASE ExpireMark(t)
    <2> DEFINE p == thr[t].id
               row == [db[p] EXCEPT !.disabled = TRUE]
    <2>1. p \in Peer
      BY <1>5 DEF ExpireMark, TypeInv, AtPeer
    <2>2. /\ UNCHANGED router
          /\ UNCHANGED db \/ (db[p] # NoRow /\ db' = [db EXCEPT ![p] = row])
      BY <1>5 DEF ExpireMark
    <2>3. db[p] # NoRow => row \in Row /\ row.sched = db[p].sched /\ row.queue = db[p].queue
      <3>1. db[p] # NoRow => db[p] \in Row
        BY <2>1 DEF StateTypeOK
      <3>2. QED
        BY <3>1 DEF Row
    <2> HIDE DEF row
    <2>4. QED
      BY <1>1, <1>3, <2>1, <2>2, <2>3
  <1>6. CASE Traffic(t)
    <2>1. CASE TrafficStart(t) \/ Finish(t)
      BY <1>1, <2>1 DEF TrafficStart, Start, Finish, stateVars
    <2>2. CASE \E p \in Peer : TrafficSkip(t, p) \/ TrafficFetch(t, p)
      BY <1>1, <2>2 DEF TrafficSkip, TrafficFetch, stateVars
    <2>3. CASE TrafficNotify(t)
      BY <1>1, <2>3 DEF TrafficNotify
    <2>4. QED
      BY <1>2, <1>4, <1>6, <2>1, <2>2, <2>3 DEF Traffic
  <1>7. CASE Expire(t)
    BY <1>1, <1>2, <1>5, <1>7 DEF Expire, ExpireStart, Start, Finish, stateVars
  <1>8. QED
    BY <1>6, <1>7

LEMMA EnvironmentShape ==
    ASSUME StateTypeOK, Environment
    PROVE  SameShape
  <1>1. \A p \in Peer : router[p] \in RouterPeer
    BY DEF StateTypeOK
  <1>2. ASSUME NEW x \in Peer, NEW ctr, router' = [router EXCEPT ![x].ctr = ctr], UNCHANGED db
        PROVE  SameShape
    BY <1>1, <1>2 DEF SameShape, StateTypeOK, RouterPeer
  <1>3. CASE \E p \in Peer, b \in Bursts : Forward(p, b)
    BY <1>2, <1>3 DEF Forward
  <1>4. CASE \E p \in Peer : RestartCounters(p)
    BY <1>2, <1>4 DEF RestartCounters
  <1>5. CASE Midnight
    <2>1. PICK run : router' = [p \in Peer |->
                        IF p \in run /\ router[p].wg = "on"
                        THEN [router[p] EXCEPT !.wg = "off", !.next = Never]
                        ELSE router[p]]
      BY <1>5, Zenon DEF Midnight
    <2>2. UNCHANGED db
      BY <1>5, Zenon DEF Midnight
    <2>3. ASSUME NEW p \in Peer
          PROVE  /\ router'[p].wg = "none" <=> router[p].wg = "none"
                 /\ router'[p].sched = router[p].sched /\ router'[p].queue = router[p].queue
      <3> DEFINE cut == [router[p] EXCEPT !.wg = "off", !.next = Never]
      <3>1. cut.wg = "off" /\ cut.sched = router[p].sched /\ cut.queue = router[p].queue
        BY <1>1 DEF RouterPeer
      <3>2. router'[p] = IF p \in run /\ router[p].wg = "on" THEN cut ELSE router[p]
        BY <2>1, Zenon
      <3> HIDE DEF cut
      <3>3. QED
        BY <3>1, <3>2
    <2>4. QED
      BY <2>2, <2>3 DEF SameShape
  <1>6. QED
    BY <1>3, <1>4, <1>5 DEF Environment

-----------------------------------------------------------------------------
LEMMA InitMatch == PanelInit => MatchInv
  <1> SUFFICES ASSUME PanelInit PROVE MatchInv
    OBVIOUS
  <1>1. \A q \in Request : call[q].pc = "idle"
    BY DEF PanelInit, ServiceInit, NoCall
  <1>2. PICK l \in [Peer -> Limits], e \in [Peer -> Expiries], s \in [Peer -> Switch] :
          /\ \A p \in Peer : (s[p] = "none") <=> (e[p] = Never)
          /\ db = [p \in Peer |-> IF p \in Old THEN FreshRow(l[p], e[p]) ELSE NoRow]
          /\ router = [p \in Peer |-> IF p \in Old THEN FreshRouterPeer(e[p], s[p]) ELSE NoRouterPeer]
    BY Zenon DEF PanelInit, StateInit
  <1>3. \A p \in Peer : /\ FreshRow(l[p], e[p]) # NoRow
                        /\ FreshRow(l[p], e[p]).sched = (e[p] # Never)
                        /\ FreshRow(l[p], e[p]).queue
    <2>1. \A p \in Peer : FreshRow(l[p], e[p]) \in Row
      BY FreshRowType, StateAssumption
    <2>2. \A p \in Peer : FreshRow(l[p], e[p]).sched = (e[p] # Never) /\ FreshRow(l[p], e[p]).queue
      BY DEF FreshRow
    <2>3. QED
      BY <2>1, <2>2, StateAssumption
  <1>4. ASSUME NEW p \in Peer PROVE AtRest(p)
    <2>1. CASE p \in Old
      <3>1. db[p] = FreshRow(l[p], e[p]) /\ router[p] = FreshRouterPeer(e[p], s[p])
        BY <1>2, <2>1
      <3>2. router[p].wg = "on" /\ router[p].sched = s[p] /\ router[p].queue = "on"
        BY <3>1 DEF FreshRouterPeer
      <3>3. (s[p] = "none") <=> (e[p] = Never)
        BY <1>2
      <3>4. files[p] = Files
        BY <2>1 DEF PanelInit, ServiceInit
      <3>5. QED
        BY <1>3, <3>1, <3>2, <3>3, <3>4 DEF AtRest, Agree
    <2>2. CASE p \notin Old
      BY <1>2, <2>2 DEF AtRest, Agree, NoRouterPeer
    <2>3. QED
      BY <2>1, <2>2
  <1>5. \A p \in fresh : db[p] = NoRow
    BY <1>2 DEF PanelInit, ServiceInit
  <1>6. QED
    BY <1>1, <1>4, <1>5 DEF MatchInv, MatchedAt, Free

LEMMA NextMatch ==
    ASSUME Careful
    PROVE  PanelInv /\ OnePerPeer /\ OnePerPeer' /\ MatchInv /\ [PanelNext]_panelVars => MatchInv'
  <1> SUFFICES ASSUME PanelInv, OnePerPeer, OnePerPeer', MatchInv, [PanelNext]_panelVars PROVE MatchInv'
    OBVIOUS
  <1> TypeInv /\ StateTypeOK
    BY DEF PanelInv, TypeInv, TypeOK
  <1>1. CASE CalculatorNext /\ UNCHANGED serviceVars
    <2>1. \E t \in Thread : (t \in TrafficJob /\ Traffic(t)) \/ (t \in ExpireJob /\ Expire(t))
      BY <1>1 DEF CalculatorNext, Careful, Thread
    <2>2. QED
      BY <1>1, <2>1, JobShape, ShapeKeeps
  <1>2. CASE ServiceNext
    BY <1>2, CreateMatch, UpdateMatch, ToggleMatch, DeleteMatch, SyncMatch DEF ServiceNext, Step
  <1>3. CASE EnvironmentStep /\ UNCHANGED serviceVars
    BY <1>3, EnvironmentShape, ShapeKeeps DEF EnvironmentStep
  <1>4. CASE PanelCrash
    BY <1>4 DEF PanelCrash, Careful
  <1>5. CASE UNCHANGED panelVars
    <2>1. SameShape /\ UNCHANGED serviceVars
      BY <1>5 DEF panelVars, vars, stateVars, SameShape
    <2>2. QED
      BY <2>1, ShapeKeeps
  <1>6. QED
    BY <1>1, <1>2, <1>3, <1>4, <1>5 DEF PanelNext

(* When no call fails and updates say whether the peer is to be on, table   *)
(* and router hold the same peers, and a row exactly the schedulers and     *)
(* queues that exist, whenever nothing is under way: beside any number of   *)
(* traffic and expiry jobs, over midnights and restarts of the counters,    *)
(* and with any number of requests at different peers at once.              *)
THEOREM TableMatchesRouterHolds ==
    ASSUME Careful
    PROVE  PanelSpec /\ []OnePerPeer => []TableMatchesRouter
  <1>1. MatchInv => TableMatchesRouter
    <2> SUFFICES ASSUME MatchInv, Quiet, NEW p \in Peer PROVE AtRest(p)
      BY DEF TableMatchesRouter, AtRest, Agree
    <2>1. QED
      BY DEF MatchInv, Quiet, At, Free
  <1>2. QED
    BY <1>1, InitPanelType, NextPanelType, InitMatch, NextMatch, PTL DEF PanelSpec
=============================================================================
