------------------------------ MODULE RouterSync ------------------------------
(***************************************************************************)
(* The tables of interfaces and peers, the router they describe, and the   *)
(* synchronisation that copies the router to the tables, beside the        *)
(* requests of the panel, which change the router and then a row, and an   *)
(* administrator who changes the router by its own means.                  *)
(*                                                                         *)
(* A synchronisation lists the router, reads the table, and then saves     *)
(* whole rows, one by one and in no order (Go's maps).  Router objects are *)
(* known by the router's ids, which it does not give again.  Peers name    *)
(* their interface; on the router they follow when it is renamed.          *)
(***************************************************************************)
EXTENDS Naturals, FiniteSets

CONSTANTS
    Iface, WgPeer,          (* ids the router gives                        *)
    IfaceName, PeerAddress, Port,
    FirstIface, FirstPeer,  (* how the objects there are at first look     *)
    MaxSyncs,               (* bound: synchronisations                     *)
    MaxRouterEdits,         (* bound: requests and edits on the router     *)
    None                    (* no object, no row, an empty text            *)

Object == Iface \cup WgPeer
RouterIface == [ name : IfaceName, off : BOOLEAN, port : Port ]
RouterPeer == [ iface : Iface, addr : PeerAddress, off : BOOLEAN, keyed : BOOLEAN ]

(* As the REST interface lists it: the interface by its name, if it is there. *)
ListedPeer ==
    [ iface : IfaceName \cup {None}, addr : PeerAddress, off : BOOLEAN, keyed : BOOLEAN ]

(* kept stands for what only the table has: usage, limit, expiry, flags.   *)
IfaceRow == [ name : IfaceName, off : BOOLEAN, port : Port \cup {None} ]
PeerRow == [ iface : IfaceName, addr : PeerAddress, off : BOOLEAN, port : Port \cup {None},
             kept : {"new", "used"} ]

ASSUME SyncAssumption ==
    /\ Iface \cap WgPeer = {}
    /\ None \notin Object \cup IfaceName \cup RouterIface \cup RouterPeer
    /\ None \notin ListedPeer \cup IfaceRow \cup PeerRow
    /\ FirstIface \in [Iface -> RouterIface] /\ FirstPeer \in [WgPeer -> RouterPeer]
    /\ MaxSyncs \in Nat /\ MaxRouterEdits \in Nat

VARIABLES
    rsIface, rsPeer,     (* the router                                     *)
    rsMade,              (* ids the router has given                       *)
    rsIfaces, rsPeers,   (* the tables interfaces and peers                *)
    rsSync,              (* the locals of the synchronisation under way    *)
    rsCall,              (* the locals of the request under way            *)
    rsSyncs, rsEdits,    (* counters for the bounds                        *)
    rsTouched            (* history: objects that others have changed, on  *)
                         (* the router or in the table, since the listing  *)

rsRouterVars == <<rsIface, rsPeer, rsMade>>
rsTableVars == <<rsIfaces, rsPeers>>
rsVars == <<rsRouterVars, rsTableVars, rsSync, rsCall, rsSyncs, rsEdits, rsTouched>>

Present(f) == {x \in DOMAIN f : f[x] # None}

RowOfIface(r) == [name |-> r.name, off |-> r.off, port |-> r.port]
RowOfPeer(r, kept) ==
    [ iface |-> FirstIface[r.iface].name, addr |-> r.addr, off |-> r.off,
      port |-> FirstIface[r.iface].port, kept |-> kept ]

(* Objects made on the router and not in the table yet, in both, and rows  *)
(* of objects the router has no more; the peers' rows have been in use.    *)
SyncInit ==
    /\ \E here \in SUBSET Object :
         /\ rsIface = [i \in Iface |-> IF i \in here THEN FirstIface[i] ELSE None]
         /\ rsPeer = [p \in WgPeer |-> IF p \in here THEN FirstPeer[p] ELSE None]
         /\ rsIfaces \in [Iface -> {None} \cup {RowOfIface(FirstIface[i]) : i \in Iface}]
         /\ \A i \in Present(rsIfaces) : rsIfaces[i] = RowOfIface(FirstIface[i])
         /\ rsPeers \in [WgPeer -> {None} \cup {RowOfPeer(FirstPeer[p], "used") : p \in WgPeer}]
         /\ \A p \in Present(rsPeers) : rsPeers[p] = RowOfPeer(FirstPeer[p], "used")
         /\ rsMade = here \cup Present(rsIfaces) \cup Present(rsPeers)
    /\ rsSync = None /\ rsCall = None
    /\ rsSyncs = 0 /\ rsEdits = 0 /\ rsTouched = {}

-----------------------------------------------------------------------------
(* SyncPeers, SyncInterfaces, SyncSelectedPeers, SyncSelectedInterfaces    *)

(* FetchWgPeers and FetchWgInterfaces; a peer whose interface is gone      *)
(* names none.                                                             *)
Listed(x) ==
    IF x \in Iface THEN rsIface[x]
    ELSE IF rsPeer[x] = None THEN None
    ELSE LET i == rsIface[rsPeer[x].iface] IN
         [ iface |-> IF i = None THEN None ELSE i.name, addr |-> rsPeer[x].addr,
           off |-> rsPeer[x].off, keyed |-> rsPeer[x].keyed ]

Row(x) == IF x \in Iface THEN rsIfaces[x] ELSE rsPeers[x]

(* kind is Iface or WgPeer; a whole synchronisation is of all of them.     *)
SyncList(kind, whole, some) ==
    /\ rsSync = None /\ rsSyncs < MaxSyncs
    /\ some # {} /\ (whole => some = kind)
    /\ rsSyncs' = rsSyncs + 1
    /\ rsSync' = [ pc |-> "table", kind |-> kind, whole |-> whole, some |-> some,
                   listed |-> [x \in some |-> Listed(x)], known |-> <<>>, todo |-> {} ]
    /\ rsTouched' = {}
    /\ UNCHANGED <<rsRouterVars, rsTableVars, rsCall, rsEdits>>

(* Ends at once when nothing selected is there, and, of a whole one, when  *)
(* router and table have as many objects, whatever they look like.         *)
SyncTable ==
    /\ rsSync # None /\ rsSync.pc = "table"
    /\ LET known == [x \in rsSync.kind |-> Row(x)]
           there == Present(rsSync.listed)
           skipped == IF rsSync.whole THEN Cardinality(there) = Cardinality(Present(known))
                      ELSE there = {}
       IN rsSync' = IF skipped THEN None
                    ELSE [rsSync EXCEPT !.pc = "save", !.known = known, !.todo = there]
    /\ UNCHANGED <<rsRouterVars, rsTableVars, rsCall, rsSyncs, rsEdits, rsTouched>>

(* A row read is saved, inserted again when it was deleted since; without  *)
(* one an insertion is refused when there is a row by now.                 *)
Insertable(x) == rsSync.known[x] # None \/ Row(x) = None

NameFree(i, n) == \A j \in Present(rsIfaces) \ {i} : rsIfaces[j].name # n
AddressFree(p, a) == \A q \in Present(rsPeers) \ {p} : rsPeers[q].addr # a

(* syncNewAndUpdatedInterfaces *)
SyncIface(i) ==
    /\ rsSync # None /\ rsSync.pc = "save" /\ i \in rsSync.todo \cap Iface
    /\ Insertable(i) /\ NameFree(i, rsSync.listed[i].name)
    /\ rsIfaces' = [rsIfaces EXCEPT ![i] = RowOfIface(rsSync.listed[i])]
    /\ rsSync' = [rsSync EXCEPT !.todo = @ \ {i}]
    /\ UNCHANGED <<rsRouterVars, rsPeers, rsCall, rsSyncs, rsEdits, rsTouched>>

Kept_Anew(known) == "new"       \* mutant: builds the row from the router alone (buildDBPeer)
Kept(known) == IF known = None THEN "new" ELSE known.kept

(* syncNewAndUpdatedPeers: the port is the one in the interface's row.     *)
SyncPeer(p) ==
    /\ rsSync # None /\ rsSync.pc = "save" /\ p \in rsSync.todo \cap WgPeer
    /\ LET peer == rsSync.listed[p] IN
       \/ ~peer.keyed /\ UNCHANGED rsPeers
       \/ /\ peer.keyed /\ Insertable(p) /\ AddressFree(p, peer.addr)
          /\ \E i \in Present(rsIfaces) :
               /\ rsIfaces[i].name = peer.iface
               /\ rsPeers' = [rsPeers EXCEPT ![p] =
                    [ iface |-> peer.iface, addr |-> peer.addr, off |-> peer.off,
                      port |-> rsIfaces[i].port, kept |-> Kept(rsSync.known[p]) ]]
    /\ rsSync' = [rsSync EXCEPT !.todo = @ \ {p}]
    /\ UNCHANGED <<rsRouterVars, rsIfaces, rsCall, rsSyncs, rsEdits, rsTouched>>

Stale == Present(rsSync.known) \ Present(rsSync.listed)

(* removeStalePeers.  removeStaleInterfaces hands gorm an id for a model   *)
(* and is refused: with a stale interface the synchronisation fails.       *)
SyncRemove(p) ==
    /\ rsSync # None /\ rsSync.pc = "save" /\ rsSync.todo = {} /\ rsSync.whole
    /\ p \in Stale \cap WgPeer
    /\ rsPeers' = [rsPeers EXCEPT ![p] = None]
    /\ rsSync' = [rsSync EXCEPT !.known[p] = None]
    /\ UNCHANGED <<rsRouterVars, rsIfaces, rsCall, rsSyncs, rsEdits, rsTouched>>

SyncEnd ==
    /\ rsSync # None /\ rsSync.pc = "save" /\ rsSync.todo = {}
    /\ rsSync.whole => Stale = {}
    /\ rsSync' = None
    /\ UNCHANGED <<rsRouterVars, rsTableVars, rsCall, rsSyncs, rsEdits, rsTouched>>

(* The router does not answer, a statement is refused, an interface or the *)
(* server has no row: what was saved stays.                                *)
SyncFail ==
    /\ rsSync # None /\ rsSync' = None
    /\ UNCHANGED <<rsRouterVars, rsTableVars, rsCall, rsSyncs, rsEdits, rsTouched>>

-----------------------------------------------------------------------------
(* What changes objects of the router: the administrator at the router     *)
(* and, through the REST interface, requests.                              *)

NewIface(i, r) ==
    /\ i \notin rsMade /\ \A j \in Present(rsIface) : rsIface[j].name # r.name
    /\ rsIface' = [rsIface EXCEPT ![i] = r]
    /\ rsMade' = rsMade \cup {i} /\ UNCHANGED rsPeer

SetIface(i, r) ==
    /\ rsIface[i] # None /\ \A j \in Present(rsIface) \ {i} : rsIface[j].name # r.name
    /\ rsIface' = [rsIface EXCEPT ![i] = r]
    /\ UNCHANGED <<rsPeer, rsMade>>

NewPeer(p, r) ==
    /\ p \notin rsMade /\ rsIface[r.iface] # None
    /\ rsPeer' = [rsPeer EXCEPT ![p] = r]
    /\ rsMade' = rsMade \cup {p} /\ UNCHANGED rsIface

SetPeer(p, r) ==
    /\ rsPeer[p] # None
    /\ rsPeer' = [rsPeer EXCEPT ![p] = r]
    /\ UNCHANGED <<rsIface, rsMade>>

Drop(x) ==
    /\ IF x \in Iface
       THEN rsIface[x] # None /\ rsIface' = [rsIface EXCEPT ![x] = None] /\ UNCHANGED rsPeer
       ELSE rsPeer[x] # None /\ rsPeer' = [rsPeer EXCEPT ![x] = None] /\ UNCHANGED rsIface
    /\ UNCHANGED rsMade

CountEdit == rsEdits < MaxRouterEdits /\ rsEdits' = rsEdits + 1
Touch(x) == rsTouched' = rsTouched \cup {x}

RouterEdit ==
    /\ CountEdit
    /\ \/ \E i \in Iface : Touch(i) /\ \E r \in RouterIface : NewIface(i, r) \/ SetIface(i, r)
       \/ \E p \in WgPeer : Touch(p) /\ \E r \in RouterPeer : NewPeer(p, r) \/ SetPeer(p, r)
       \/ \E x \in Object : Touch(x) /\ Drop(x)
    /\ UNCHANGED <<rsTableVars, rsSync, rsCall, rsSyncs>>

-----------------------------------------------------------------------------
(* Requests: the row is read, the router called, the row written.          *)

(* CreateInterface, ToggleInterfaceStatus, UpdateInterface and             *)
(* DeleteInterface at the router                                           *)
IfaceEffect(c) ==
    \/ c.op = "create" /\ NewIface(c.id, [c.new EXCEPT !.off = FALSE])
    \/ /\ rsIface[c.id] # None
       /\ \/ c.op = "toggle" /\ SetIface(c.id, [rsIface[c.id] EXCEPT !.off = ~c.row.off])
          \/ c.op = "update" /\ SetIface(c.id, [rsIface[c.id] EXCEPT !.name = c.new.name,
                                                                !.off = c.new.off])
          \/ c.op = "delete" /\ Drop(c.id)

(* and in the table.  UpdateInterface saves the row it read, with the      *)
(* empty port of its own call and without the status it was asked for.     *)
IfaceWrite(c) ==
    LET i == c.id IN
    \/ /\ c.op = "create" /\ rsIfaces[i] = None /\ NameFree(i, c.new.name)
       /\ rsIfaces' = [rsIfaces EXCEPT ![i] = [c.new EXCEPT !.off = FALSE]]
    \/ /\ c.op = "toggle"
       /\ rsIfaces' = [rsIfaces EXCEPT ![i] = IF @ = None THEN @ ELSE [@ EXCEPT !.off = ~c.row.off]]
    \/ /\ c.op = "update" /\ NameFree(i, c.new.name)
       /\ rsIfaces' = [rsIfaces EXCEPT ![i] = [c.row EXCEPT !.name = c.new.name, !.port = None]]
    \/ c.op = "delete" /\ rsIfaces' = [rsIfaces EXCEPT ![i] = None]

(* CreatePeer, UpdatePeer and DeletePeer, as far as a synchronisation can  *)
(* tell (all of them: PeerService).                                        *)
PeerEffect(c) ==
    \/ /\ c.op = "create"
       /\ \E i \in Present(rsIface) :
            /\ rsIface[i].name = c.row.name
            /\ NewPeer(c.id, [iface |-> i, addr |-> c.new.addr, off |-> FALSE, keyed |-> TRUE])
    \/ /\ rsPeer[c.id] # None
       /\ \/ c.op = "update" /\ SetPeer(c.id, [rsPeer[c.id] EXCEPT !.addr = c.new.addr, !.off = c.new.off])
          \/ c.op = "delete" /\ Drop(c.id)

PeerWrite(c) ==
    LET p == c.id IN
    \/ /\ c.op = "create" /\ rsPeers[p] = None /\ AddressFree(p, c.new.addr)
       /\ rsPeers' = [rsPeers EXCEPT ![p] =
            [ iface |-> c.row.name, addr |-> c.new.addr, off |-> FALSE, port |-> c.row.port,
              kept |-> "new" ]]
    \/ /\ c.op = "update" /\ AddressFree(p, c.new.addr)
       /\ rsPeers' = [rsPeers EXCEPT ![p] =
            IF @ = None THEN @ ELSE [@ EXCEPT !.addr = c.new.addr, !.off = c.new.off]]
    \/ c.op = "delete" /\ rsPeers' = [rsPeers EXCEPT ![p] = None]

(* A peer is created on an interface that has a row, and only with an      *)
(* address no row has.                                                     *)
RequestBegin(x, op, i, new) ==
    /\ rsCall = None /\ CountEdit
    /\ IF op = "create" THEN x \notin rsMade ELSE Row(x) # None
    /\ op = "create" /\ x \in WgPeer => rsIfaces[i] # None /\ AddressFree(x, new.addr)
    /\ x \in WgPeer => op # "toggle"
    /\ rsCall' = [ pc |-> "router", op |-> op, id |-> x, new |-> new,
                   row |-> IF op = "create" /\ x \in WgPeer THEN Row(i) ELSE Row(x) ]
    /\ UNCHANGED <<rsRouterVars, rsTableVars, rsSync, rsSyncs, rsTouched>>

(* A call that fails may have had its effect. *)
RequestRouter ==
    /\ rsCall # None /\ rsCall.pc = "router"
    /\ \/ /\ IF rsCall.id \in Iface THEN IfaceEffect(rsCall) ELSE PeerEffect(rsCall)
          /\ Touch(rsCall.id)
          /\ rsCall' \in {[rsCall EXCEPT !.pc = "row"], None}
       \/ rsCall' = None /\ UNCHANGED <<rsRouterVars, rsTouched>>
    /\ UNCHANGED <<rsTableVars, rsSync, rsSyncs, rsEdits>>

(* The table may refuse: an interface with a pool cannot be deleted. *)
RequestRow ==
    /\ rsCall # None /\ rsCall.pc = "row" /\ rsCall' = None
    /\ \/ /\ IF rsCall.id \in Iface THEN IfaceWrite(rsCall) /\ UNCHANGED rsPeers
            ELSE PeerWrite(rsCall) /\ UNCHANGED rsIfaces
          /\ Touch(rsCall.id)
       \/ UNCHANGED <<rsTableVars, rsTouched>>
    /\ UNCHANGED <<rsRouterVars, rsSync, rsSyncs, rsEdits>>

(* The jobs, and requests that leave the router alone. *)
OtherColumns(p) ==
    /\ CountEdit /\ rsPeers[p] # None
    /\ \E k \in {"new", "used"} : rsPeers' = [rsPeers EXCEPT ![p].kept = k]
    /\ Touch(p)
    /\ UNCHANGED <<rsRouterVars, rsIfaces, rsSync, rsCall, rsSyncs>>

SyncNext ==
    \/ \E kind \in {Iface, WgPeer}, whole \in BOOLEAN :
         \E some \in SUBSET kind : SyncList(kind, whole, some)
    \/ SyncTable \/ SyncEnd \/ SyncFail
    \/ \E i \in Iface : SyncIface(i)
    \/ \E p \in WgPeer : SyncPeer(p) \/ SyncRemove(p) \/ OtherColumns(p)
    \/ RouterEdit
    \/ \E op \in {"create", "toggle", "update", "delete"} :
         \/ \E i \in Iface, new \in RouterIface : RequestBegin(i, op, i, new)
         \/ \E p \in WgPeer, i \in Iface, a \in PeerAddress, off \in BOOLEAN :
              RequestBegin(p, op, i, [addr |-> a, off |-> off])
    \/ RequestRouter \/ RequestRow

SyncSpec == SyncInit /\ [][SyncNext]_rsVars

-----------------------------------------------------------------------------
(* What is not the router's *)
Own(row) == IF row = None THEN "new" ELSE row.kept

(* A synchronisation that ends well has made the rows what the router says *)
(* of the objects it was asked for: one that is there has a row like it,   *)
(* with a peer's own columns as they were, and after a whole one, one that *)
(* is not has none.  But for objects others change meanwhile, whose rows   *)
(* may be taken back to what they were, inserted again, or taken for stale *)
(* (the router is listed before the table is read), and for peers the      *)
(* router has no private key of (SyncPeers, SyncInterfaces and the         *)
(* selective ones).                                                        *)
SyncAgrees ==
    [][SyncEnd => \A x \in rsSync.some \ rsTouched :
        /\ x \in Iface /\ rsIface[x] # None => rsIfaces[x] = RowOfIface(rsIface[x])
        /\ x \in WgPeer /\ rsPeer[x] # None /\ rsPeer[x].keyed /\ rsPeer[x].iface \notin rsTouched =>
              /\ rsPeers[x] # None
              /\ rsPeers[x].iface = rsIface[rsPeer[x].iface].name
              /\ rsPeers[x].addr = rsPeer[x].addr /\ rsPeers[x].off = rsPeer[x].off
              /\ rsPeers[x].kept = Own(rsSync.known[x])
        /\ rsSync.whole /\ Listed(x) = None => Row(x) = None]_rsVars
=============================================================================
