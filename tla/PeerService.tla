----------------------------- MODULE PeerService -----------------------------
(***************************************************************************)
(* WgPeer: the requests that create, update, toggle and delete a peer.     *)
(* Each is a sequence of router calls and statements on rows it read       *)
(* earlier, without a lock and without undoing what it did when a later    *)
(* step fails.  Requests run concurrently, also on the same peer.          *)
(*                                                                         *)
(* Addresses and names belong to a peer here: two peers never compete for  *)
(* one.  Router names are unique, so a second scheduler or queue for a     *)
(* peer is refused.                                                        *)
(***************************************************************************)
EXTENDS PanelState

CONSTANTS
    Request,      (* threads of peer requests                              *)
    Updates,      (* bound: what update requests ask for, a subset of Want *)
    Unset         (* UpdatePeerRequest.Disabled is nil                     *)

VARIABLES
    call,    (* the locals of each request                                 *)
    files,   (* the configuration and QR files of each peer                *)
    fresh    (* identities the router and the table have not given out     *)

serviceVars == <<call, files, fresh>>

(* What a request asks for.  bw tells whether a bandwidth is given, and    *)
(* whether it differs from the row's.                                      *)
Want == [ disabled : BOOLEAN \cup {Unset},
          limit    : Nat \cup {NoLimit},
          expire   : Nat \cup {Never},
          bw       : {"none", "same", "new"} ]

Blank == [ disabled |-> Unset, limit |-> NoLimit, expire |-> Never, bw |-> "none" ]

ASSUME RequestAssumption == Unset \notin BOOLEAN /\ Updates \subseteq Want

CallType ==
    [ pc   : {"idle", "ok", "failed",
              "add", "addSched", "addQueue", "insert", "conf", "qr",
              "patch", "sched", "queue", "write", "reread",
              "off", "offQueue", "mark",
              "switch", "switchSched", "switchQueue", "flip",
              "dropSched", "dropQueue", "dropPeer", "dropQR", "dropConf",
              "dropSessions", "dropRow"},
      p    : Peer \cup {NoPeer},
      row  : Row \cup {NoRow},             \* the row as the request read it
      want : Want ]

NoCall == [ pc |-> "idle", p |-> NoPeer, row |-> NoRow, want |-> Blank ]

Files == {"conf", "qr"}

ServiceTypeOK ==
    /\ call \in [Request -> CallType]
    /\ files \in [Peer -> SUBSET Files]
    /\ fresh \subseteq Peer

ServiceInit(old) ==
    /\ call = [q \in Request |-> NoCall]
    /\ files = [p \in Peer |-> IF p \in old THEN Files ELSE {}]
    /\ fresh = Peer \ old

-----------------------------------------------------------------------------
(* Steps of a request. *)

At(q, pc) == call[q].pc = pc

Go(q, pc) == call' = [call EXCEPT ![q].pc = pc]

MustCall_Ignored(q, possible, entry, next) ==    \* mutant: the error is not looked at
    /\ \E ok \in BOOLEAN : RouterCall(call[q].p, possible, entry, ok)
    /\ Go(q, next)

(* A router call whose error ends the request. *)
MustCall(q, possible, entry, next) ==
    \E ok \in BOOLEAN :
        /\ RouterCall(call[q].p, possible, entry, ok)
        /\ Go(q, IF ok THEN next ELSE "failed")

(* A router call whose error is only logged. *)
MayCall(q, possible, entry, next) ==
    /\ \E ok \in BOOLEAN : RouterCall(call[q].p, possible, entry, ok)
    /\ Go(q, next)

(* No call is needed. *)
Skip(q, next) == UNCHANGED router /\ Go(q, next)

Entry(q) == router[call[q].p]

SwitchOf(disabled) == IF disabled THEN "off" ELSE "on"

(* A row of the table is changed; nothing is when it is gone. *)
WriteRow(p, row) ==
    \/ db[p] # NoRow /\ db' = [db EXCEPT ![p] = row]
    \/ db[p] = NoRow /\ UNCHANGED db

Enter(q, pc, p, row, want) ==
    /\ At(q, "idle")
    /\ call' = [call EXCEPT ![q] = [pc |-> pc, p |-> p, row |-> row, want |-> want]]
    /\ UNCHANGED <<stateVars, files>>

Reply(q) ==
    /\ call[q].pc \in {"ok", "failed"}
    /\ call' = [call EXCEPT ![q] = NoCall]
    /\ UNCHANGED <<stateVars, files, fresh>>

-----------------------------------------------------------------------------
(* Schedulers and queues (Scheduler, Queue). *)

NextRun_DayBefore(expire) == expire - 1          \* mutant: a day too early

(* A scheduler without an interval runs at 00:00 of its start date, if     *)
(* that is still to come.                                                  *)
NextRun(expire) == IF expire > today THEN expire ELSE Never

createScheduler(q, next) ==
    MustCall(q, Entry(q).sched = "none",
        [Entry(q) EXCEPT !.sched = "on", !.next = NextRun(call[q].want.expire)], next)

(* PATCH of the start date; a scheduler that is off stays off. *)
updateScheduler(q, next) ==
    MustCall(q, Entry(q).sched # "none",
        [Entry(q) EXCEPT !.next = NextRun(call[q].want.expire)], next)

deleteScheduler(q, next) ==
    MustCall(q, Entry(q).sched # "none",
        [Entry(q) EXCEPT !.sched = "none", !.next = Never], next)

createQueue(q, next) ==
    MustCall(q, Entry(q).queue = "none", [Entry(q) EXCEPT !.queue = "on"], next)

(* PATCH of the limits, which no property tells apart. *)
updateQueue(q, next) == MustCall(q, Entry(q).queue # "none", Entry(q), next)

deleteQueue(q, next) ==
    MustCall(q, Entry(q).queue # "none", [Entry(q) EXCEPT !.queue = "none"], next)

-----------------------------------------------------------------------------
(* syncExpiredPeer, the end of CreatePeer and UpdatePeer: a row that is on *)
(* and past its expiry is switched off.                                    *)

AfterSync(row) == IF ~row.disabled /\ IsPeerExpired(row) THEN "off" ELSE "ok"

SyncOff(q) ==
    /\ At(q, "off")
    /\ MustCall(q, Entry(q).wg # "none", [Entry(q) EXCEPT !.wg = "off"],
                IF call[q].row.queue THEN "offQueue" ELSE "mark")
    /\ UNCHANGED <<db, today, history, files, fresh>>

SyncOffQueue(q) ==
    /\ At(q, "offQueue")
    /\ MayCall(q, Entry(q).queue # "none", [Entry(q) EXCEPT !.queue = "off"], "mark")
    /\ UNCHANGED <<db, today, history, files, fresh>>

SyncMark(q) ==
    /\ At(q, "mark")
    /\ LET p == call[q].p IN
       \/ WriteRow(p, [db[p] EXCEPT !.disabled = TRUE]) /\ Go(q, "ok")
       \/ MayFailDb /\ UNCHANGED db /\ Go(q, "failed")
    /\ UNCHANGED <<router, today, history, files, fresh>>

-----------------------------------------------------------------------------
(* CreatePeer *)

CreateBegin(q) ==
    \E p \in fresh, limit \in Limits, expire \in Expiries :
        /\ Enter(q, "add", p, NoRow, [Blank EXCEPT !.limit = limit, !.expire = expire])
        /\ fresh' = fresh \ {p}

CreateAdd(q) ==
    /\ At(q, "add")
    /\ MustCall(q, Entry(q).wg = "none", [Entry(q) EXCEPT !.wg = "on"],
                IF call[q].want.expire = Never THEN "addQueue" ELSE "addSched")
    /\ UNCHANGED <<db, today, history, files, fresh>>

CreateSched(q) ==
    /\ At(q, "addSched")
    /\ createScheduler(q, "addQueue")
    /\ UNCHANGED <<db, today, history, files, fresh>>

CreateQueue(q) ==
    /\ At(q, "addQueue")
    /\ createQueue(q, "insert")
    /\ UNCHANGED <<db, today, history, files, fresh>>

CreateInsert(q) ==
    /\ At(q, "insert")
    /\ LET p == call[q].p
           row == FreshRow(call[q].want.limit, call[q].want.expire)
       IN \/ /\ db' = [db EXCEPT ![p] = row]
             /\ call' = [call EXCEPT ![q].pc = "conf", ![q].row = row]
          \/ MayFailDb /\ UNCHANGED db /\ Go(q, "failed")
    /\ UNCHANGED <<router, today, history, files, fresh>>

(* The files of the peer; it exists whether or not they can be written. A  *)
(* file that cannot be written to the end is left behind.                  *)
CreateFile(q, file, next) ==
    LET written == [files EXCEPT ![call[q].p] = @ \cup {file}] IN
    /\ At(q, file)
    /\ \/ files' = written /\ Go(q, next)
       \/ "files" \in Faults /\ files' \in {files, written} /\ Go(q, "failed")
    /\ UNCHANGED <<stateVars, fresh>>

Create(q) ==
    \/ CreateBegin(q) \/ CreateAdd(q) \/ CreateSched(q) \/ CreateQueue(q)
    \/ CreateInsert(q)
    \/ CreateFile(q, "conf", "qr")
    \/ CreateFile(q, "qr", AfterSync(call[q].row))

-----------------------------------------------------------------------------
(* UpdatePeer *)

UpdateBegin(q) ==
    /\ \E p \in Peer, want \in Updates :
         db[p] # NoRow /\ Enter(q, "patch", p, db[p], want)
    /\ UNCHANGED fresh

UpdatePatch(q) ==
    LET want == call[q].want.disabled IN
    /\ At(q, "patch")
    /\ MustCall(q, Entry(q).wg # "none",
                IF want = Unset THEN Entry(q) ELSE [Entry(q) EXCEPT !.wg = SwitchOf(want)],
                "sched")
    /\ UNCHANGED <<db, today, history, files, fresh>>

handleScheduler(q) ==
    LET had == call[q].row.sched
        wanted == call[q].want.expire # Never
    IN
    /\ At(q, "sched")
    /\ \/ ~wanted /\ had /\ deleteScheduler(q, "queue")
       \/ wanted /\ ~had /\ createScheduler(q, "queue")
       \/ wanted /\ had /\ updateScheduler(q, "queue")
       \/ ~wanted /\ ~had /\ Skip(q, "queue")
    /\ UNCHANGED <<db, today, history, files, fresh>>

handleQueue(q) ==
    LET had == call[q].row.queue
        bw == call[q].want.bw
    IN
    /\ At(q, "queue")
    /\ \/ bw = "none" /\ had /\ deleteQueue(q, "write")
       \/ bw # "none" /\ ~had /\ createQueue(q, "write")
       \/ bw = "new" /\ had /\ updateQueue(q, "write")
       \/ bw = "same" /\ had /\ Skip(q, "write")
       \/ bw = "none" /\ ~had /\ Skip(q, "write")
    /\ UNCHANGED <<db, today, history, files, fresh>>

NewLimit(want) == IF want.limit = 0 THEN NoLimit ELSE want.limit

(* The alert flags are cleared when the limit differs from the one the     *)
(* request read.                                                           *)
ClearsFlags(old, want) == old.limit # NewLimit(want)

preparePeerUpdate_KeepsIDs(row, old, want) ==    \* mutant: ids of what was deleted stay
    [row EXCEPT !.disabled = want.disabled, !.limit = NewLimit(want),
                !.notified = IF ClearsFlags(old, want) THEN {} ELSE @,
                !.expire = want.expire]

preparePeerUpdate(row, old, want) ==
    [row EXCEPT !.disabled = want.disabled,
                !.limit = NewLimit(want),
                !.notified = IF ClearsFlags(old, want) THEN {} ELSE @,
                !.expire = want.expire,
                !.sched = want.expire # Never,
                !.queue = want.bw # "none"]

(* The column disabled is NOT NULL: the write fails when the request has   *)
(* no value for it.                                                        *)
UpdateWrite(q) ==
    LET p == call[q].p
        want == call[q].want
        old == call[q].row
    IN
    /\ At(q, "write")
    /\ \/ /\ want.disabled # Unset
          /\ WriteRow(p, preparePeerUpdate(db[p], old, want))
          /\ told' = IF ClearsFlags(old, want) THEN [told EXCEPT ![p] = {}] ELSE told
          /\ Go(q, "reread")
       \/ /\ want.disabled = Unset \/ MayFailDb
          /\ UNCHANGED <<db, told>>
          /\ Go(q, "failed")
    /\ UNCHANGED <<router, today, fwd, base, seen, slop, files, fresh>>

UpdateReread(q) ==
    LET row == db[call[q].p] IN
    /\ At(q, "reread")
    /\ \/ call' = [call EXCEPT ![q].row = row,
                               ![q].pc = IF row = NoRow THEN "failed" ELSE AfterSync(row)]
       \/ MayFailDb /\ Go(q, "failed")
    /\ UNCHANGED <<stateVars, files, fresh>>

Update(q) ==
    \/ UpdateBegin(q) \/ UpdatePatch(q) \/ handleScheduler(q) \/ handleQueue(q)
    \/ UpdateWrite(q) \/ UpdateReread(q)

-----------------------------------------------------------------------------
(* TogglePeerStatus *)

(* An expired peer cannot be enabled. *)
ToggleBegin(q) ==
    /\ \E p \in Peer :
         /\ db[p] # NoRow
         /\ ~(db[p].disabled /\ IsPeerExpired(db[p]))
         /\ Enter(q, "switch", p, db[p], [Blank EXCEPT !.disabled = ~db[p].disabled])
    /\ UNCHANGED fresh

ToggleSwitch(q) ==
    LET row == call[q].row IN
    /\ At(q, "switch")
    /\ MustCall(q, Entry(q).wg # "none",
                [Entry(q) EXCEPT !.wg = SwitchOf(call[q].want.disabled)],
                IF row.sched THEN "switchSched" ELSE IF row.queue THEN "switchQueue" ELSE "flip")
    /\ UNCHANGED <<db, today, history, files, fresh>>

ToggleSched(q) ==
    /\ At(q, "switchSched")
    /\ MustCall(q, Entry(q).sched # "none",
                [Entry(q) EXCEPT !.sched = SwitchOf(call[q].want.disabled)],
                IF call[q].row.queue THEN "switchQueue" ELSE "flip")
    /\ UNCHANGED <<db, today, history, files, fresh>>

ToggleQueue(q) ==
    /\ At(q, "switchQueue")
    /\ MustCall(q, Entry(q).queue # "none",
                [Entry(q) EXCEPT !.queue = SwitchOf(call[q].want.disabled)], "flip")
    /\ UNCHANGED <<db, today, history, files, fresh>>

ToggleFlip(q) ==
    /\ At(q, "flip")
    /\ LET p == call[q].p IN
       \/ WriteRow(p, [db[p] EXCEPT !.disabled = call[q].want.disabled]) /\ Go(q, "ok")
       \/ MayFailDb /\ UNCHANGED db /\ Go(q, "failed")
    /\ UNCHANGED <<router, today, history, files, fresh>>

Toggle(q) ==
    \/ ToggleBegin(q) \/ ToggleSwitch(q) \/ ToggleSched(q) \/ ToggleQueue(q) \/ ToggleFlip(q)

-----------------------------------------------------------------------------
(* DeletePeer *)

DeleteBegin(q) ==
    /\ \E p \in Peer :
         /\ db[p] # NoRow
         /\ Enter(q, IF db[p].sched THEN "dropSched"
                      ELSE IF db[p].queue THEN "dropQueue" ELSE "dropPeer", p, db[p], Blank)
    /\ UNCHANGED fresh

DeleteSched(q) ==
    /\ At(q, "dropSched")
    /\ deleteScheduler(q, IF call[q].row.queue THEN "dropQueue" ELSE "dropPeer")
    /\ UNCHANGED <<db, today, history, files, fresh>>

DeleteQueue(q) ==
    /\ At(q, "dropQueue")
    /\ deleteQueue(q, "dropPeer")
    /\ UNCHANGED <<db, today, history, files, fresh>>

DeleteWg(q) ==
    /\ At(q, "dropPeer")
    /\ MustCall(q, Entry(q).wg # "none", [Entry(q) EXCEPT !.wg = "none"], "dropQR")
    /\ UNCHANGED <<db, today, history, files, fresh>>

(* Removing a file reads the row again; a missing row or file is an error. *)
DeleteFile(q, pc, file, next) ==
    LET p == call[q].p IN
    /\ At(q, pc)
    /\ \/ /\ db[p] # NoRow /\ file \in files[p]
          /\ files' = [files EXCEPT ![p] = @ \ {file}]
          /\ Go(q, next)
       \/ /\ db[p] = NoRow \/ file \notin files[p] \/ "files" \in Faults \/ MayFailDb
          /\ UNCHANGED files
          /\ Go(q, "failed")
    /\ UNCHANGED <<stateVars, fresh>>

DeleteRow(q) ==
    /\ At(q, "dropRow")
    /\ \/ db' = [db EXCEPT ![call[q].p] = NoRow] /\ Go(q, "ok")
       \/ MayFailDb /\ UNCHANGED db /\ Go(q, "failed")
    /\ UNCHANGED <<router, today, history, files, fresh>>

(* The peer's sessions: none are kept in this module. *)
DeleteSessions(q) ==
    /\ At(q, "dropSessions")
    /\ Go(q, "dropRow") \/ (MayFailDb /\ Go(q, "failed"))
    /\ UNCHANGED <<stateVars, files, fresh>>

Delete(q) ==
    \/ DeleteBegin(q) \/ DeleteSched(q) \/ DeleteQueue(q) \/ DeleteWg(q)
    \/ DeleteFile(q, "dropQR", "qr", "dropConf")
    \/ DeleteFile(q, "dropConf", "conf", "dropSessions")
    \/ DeleteSessions(q) \/ DeleteRow(q)

-----------------------------------------------------------------------------
Step(q) ==
    \/ Create(q) \/ Update(q) \/ Toggle(q) \/ Delete(q)
    \/ SyncOff(q) \/ SyncOffQueue(q) \/ SyncMark(q)
    \/ Reply(q)

ServiceNext == \E q \in Request : Step(q)

(* The process stops: requests under way are not taken up again. *)
LoseCalls == call' = [q \in Request |-> NoCall] /\ UNCHANGED <<files, fresh>>
=============================================================================
