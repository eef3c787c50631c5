----------------------------- MODULE PanelState -----------------------------
(***************************************************************************)
(* What the panel's components share: the peers table of the database, the *)
(* WireGuard peers of the router with their schedulers and queues, the     *)
(* calendar, and history variables that no code reads.                     *)
(*                                                                         *)
(* One step of a component is one database statement or one router call.   *)
(* A router call that returns an error may or may not have taken effect    *)
(* (the HTTP client gives up after five seconds).                          *)
(***************************************************************************)
EXTENDS CounterDelta, FiniteSets

CONSTANTS
    Peer,          (* peer identities: a table row id and its router id    *)
    Limits,        (* traffic limits in use, NoLimit among them or not     *)
    Expiries,      (* expiry days in use, Never among them or not          *)
    LastDay,       (* bound: the last day the calendar reaches             *)
    Bursts,        (* bound: bytes forwarded at once, per direction        *)
    MaxForwarded,  (* bound: bytes forwarded per peer and direction        *)
    MaxUnread,     (* most bytes forwarded since the last stored reading   *)
    MaxSlop,       (* bound: overestimate due to restarts (slop)           *)
    Faults,        (* what may fail: see FaultKinds                        *)
    NoRow,         (* db[p]: there is no such row                          *)
    NoLimit,       (* TrafficLimit is nil                                  *)
    Never,         (* ExpireTime is nil; a scheduler with no next run      *)
    NoPeer         (* not a peer                                           *)

Dir == {"down", "up"}
FaultKinds == {"router", "db", "notify", "crash", "restart", "files"}
Thresholds == {80, 90, 100}

Row == [ disabled : BOOLEAN,
         limit    : Nat \cup {NoLimit},
         notified : SUBSET Thresholds,    \* First/Second/ThirdNotify
         expire   : Nat \cup {Never},
         sched    : BOOLEAN,              \* SchedulerID # nil
         queue    : BOOLEAN,              \* QueueID # nil
         usage    : [Dir -> Nat],         \* DownloadUsage, UploadUsage
         last     : [Dir -> Counter] ]    \* LastTx, LastRx

Switch == {"none", "on", "off"}           \* absent, enabled, disabled
RouterPeer == [ wg    : Switch,
                ctr   : [Dir -> Counter],
                sched : Switch,
                next  : Nat \cup {Never}, \* day of the scheduler's next run
                queue : Switch ]

ASSUME StateAssumption ==
    /\ NoRow \notin Row
    /\ NoPeer \notin Peer
    /\ NoLimit \notin Nat
    /\ Never \notin Nat
    /\ Limits \subseteq Nat \cup {NoLimit}
    /\ Expiries \subseteq Nat \cup {Never}
    /\ Bursts \subseteq [Dir -> 0 .. MaxCounter]
    /\ LastDay \in Nat /\ MaxForwarded \in Nat
    /\ MaxUnread \in Nat /\ MaxSlop \in Nat
    /\ Faults \subseteq FaultKinds

VARIABLES
    db,      (* the peers table                                            *)
    router,  (* the router, reached over REST                              *)
    today,   (* the date both the panel and the router see                 *)
    fwd,     (* history: bytes forwarded since the peer was created        *)
    base,    (* history: value of fwd at which the usage last was zero     *)
    seen,    (* history: value of fwd at the reading stored in db[p].last  *)
    slop,    (* history: RestartSlop for each restart of the counters      *)
    told     (* history: thresholds alerted since the flags were cleared   *)

stateVars == <<db, router, today, fwd, base, seen, slop, told>>
history == <<fwd, base, seen, slop, told>>

Zero == [d \in Dir |-> 0]

StateTypeOK ==
    /\ db \in [Peer -> Row \cup {NoRow}]
    /\ router \in [Peer -> RouterPeer]
    /\ today \in Nat
    /\ fwd \in [Peer -> [Dir -> Nat]]
    /\ base \in [Peer -> [Dir -> Nat]]
    /\ seen \in [Peer -> [Dir -> Nat]]
    /\ slop \in [Peer -> Nat]
    /\ told \in [Peer -> SUBSET Thresholds]

(* The peers in old were created earlier and not used yet; they have the   *)
(* scheduler and the queue CreatePeer makes.  A scheduler may be switched  *)
(* off while its peer is on: toggling a peer off switches both off, an     *)
(* update switches only the peer back on.                                  *)
FreshRow(l, e) ==
    [ disabled |-> FALSE, limit |-> l, notified |-> {}, expire |-> e,
      sched |-> e # Never, queue |-> TRUE, usage |-> Zero, last |-> Zero ]

FreshRouterPeer(e, s) ==
    [ wg |-> "on", ctr |-> Zero, sched |-> s, next |-> e, queue |-> "on" ]

NoRouterPeer ==
    [ wg |-> "none", ctr |-> Zero, sched |-> "none", next |-> Never, queue |-> "none" ]

HistoryInit ==
    /\ fwd = [p \in Peer |-> Zero]
    /\ base = [p \in Peer |-> Zero]
    /\ seen = [p \in Peer |-> Zero]
    /\ slop = [p \in Peer |-> 0]
    /\ told = [p \in Peer |-> {}]

StateInit(old) ==
    /\ today = 0
    /\ \E l \in [Peer -> Limits], e \in [Peer -> Expiries], s \in [Peer -> Switch] :
        /\ \A p \in Peer : (s[p] = "none") <=> (e[p] = Never)
        /\ db = [p \in Peer |-> IF p \in old THEN FreshRow(l[p], e[p]) ELSE NoRow]
        /\ router = [p \in Peer |-> IF p \in old THEN FreshRouterPeer(e[p], s[p])
                                               ELSE NoRouterPeer]
    /\ HistoryInit

-----------------------------------------------------------------------------
(* Predicates of a row. *)

Total(row) == row.usage["down"] + row.usage["up"]

OverLimit(row) == row.limit # NoLimit /\ Total(row) > row.limit

IsPeerExpired(row) == row.expire # Never /\ row.expire <= today

(* Outcomes of a router call that changes the entry of p to entry, when    *)
(* possible says whether the router can carry it out.                      *)
RouterCall(p, possible, entry, ok) ==
    \/ /\ ok /\ possible
       /\ router' = [router EXCEPT ![p] = entry]
    \/ /\ ~ok
       /\ possible => "router" \in Faults
       /\ \/ UNCHANGED router
          \/ possible /\ router' = [router EXCEPT ![p] = entry]

(* PATCH of a peer's disabled field. *)
PatchPeer(p, switch, ok) ==
    RouterCall(p, router[p].wg # "none", [router[p] EXCEPT !.wg = switch], ok)

(* PATCH of a queue's disabled field. *)
PatchQueue(p, switch, ok) ==
    RouterCall(p, router[p].queue # "none", [router[p] EXCEPT !.queue = switch], ok)

(* The code ignores or returns a database error; either way nothing is     *)
(* written.                                                                *)
MayFailDb == "db" \in Faults

-----------------------------------------------------------------------------
(* The router and the calendar. *)

(* An enabled peer forwards a burst.  MaxUnread bounds what passes between *)
(* two stored readings, as the job's polling interval does.                *)
Forward(p, b) ==
    /\ router[p].wg = "on"
    /\ \A d \in Dir : /\ fwd[p][d] + b[d] <= MaxForwarded
                      /\ fwd[p][d] + b[d] - seen[p][d] <= MaxUnread
    /\ fwd' = [fwd EXCEPT ![p] = [d \in Dir |-> fwd[p][d] + b[d]]]
    /\ router' = [router EXCEPT ![p].ctr =
                    [d \in Dir |-> Wrap(router[p].ctr[d], b[d])]]
    /\ UNCHANGED <<db, today, base, seen, slop, told>>

(* The counters of a peer start again at zero (router restart). *)
RestartCounters(p) ==
    /\ "restart" \in Faults
    /\ router[p].wg # "none"
    /\ slop[p] + RestartSlop <= MaxSlop
    /\ router' = [router EXCEPT ![p].ctr = Zero]
    /\ slop' = [slop EXCEPT ![p] = @ + RestartSlop]
    /\ UNCHANGED <<db, today, fwd, base, seen, told>>

(* Midnight.  A scheduler has no interval: it runs once, at 00:00 of its   *)
(* start date, and disables its peer.  A router that is down misses it.    *)
Midnight ==
    /\ today < LastDay
    /\ today' = today + 1
    /\ LET due == {p \in Peer : router[p].sched = "on" /\ router[p].next = today'}
       IN \E run \in IF "router" \in Faults THEN SUBSET due ELSE {due} :
            router' = [p \in Peer |->
                IF p \in run /\ router[p].wg = "on"
                THEN [router[p] EXCEPT !.wg = "off", !.next = Never]
                ELSE router[p]]
    /\ UNCHANGED <<db, history>>

Environment ==
    \/ \E p \in Peer, b \in Bursts : Forward(p, b)
    \/ \E p \in Peer : RestartCounters(p)
    \/ Midnight
=============================================================================
