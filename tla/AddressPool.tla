----------------------------- MODULE AddressPool -----------------------------
(***************************************************************************)
(* The address pool of an interface, the address suggested for its next    *)
(* peer, and the requests that give peers addresses.  An address is        *)
(* compared octet by octet, and stepped with a carry.  The suggestion      *)
(* reserves nothing: a creation looks for its address in the table, talks  *)
(* to the router, and inserts the row, whose index has the last word.      *)
(*                                                                         *)
(* The table keeps addresses as text: the same address with another mask   *)
(* is another text, and a list of addresses, which a synchronisation may   *)
(* bring, does not parse.                                                  *)
(***************************************************************************)
EXTENDS Naturals, Sequences, FiniteSets

CONSTANTS
    Base,        (* values of an octet: 256                                *)
    Width,       (* octets of an address: 4                                *)
    Given,       (* what peers are given: texts with one address           *)
    Pools,       (* what pools are stored: see Pool                        *)
    Mask,        (* masks in use                                           *)
    Owner,       (* who has an address: the peers of all interfaces       *)
    Interface,   (* interfaces by name                                     *)
    MaxEdits,    (* bound: requests made                                   *)
    Many,        (* a text with several addresses                          *)
    NoAddress,   (* the text of an empty address: <nil>/32                 *)
    Nothing      (* no pool, no row, no call, no address                   *)

Octet == 0 .. Base - 1
IP == [1 .. Width -> Octet]
One == [ ip : IP, mask : Mask ]
Text == One \cup {Many}

(* The last address of all is no peer's. *)
Last == [k \in 1 .. Width |-> Base - 1]

Pool == [ start : IP, end : IP ]
AddressRow == [ interface : Interface, address : Text ]

ASSUME PoolAssumption ==
    /\ Base \in Nat \ {0, 1} /\ Width \in Nat \ {0}
    /\ Nothing \notin Pool \cup AddressRow \cup Text \cup IP
    /\ Many \notin One /\ NoAddress \notin IP \cup {Nothing}
    /\ Given \subseteq {t \in One : t.ip # Last} /\ Pools \subseteq Pool
    /\ MaxEdits \in Nat

VARIABLES
    apPools,     (* the table ip_pools, at most one per interface          *)
    apRows,      (* the table peers                                        *)
    apOffer,     (* the last suggestion for each interface                 *)
    apCalls,     (* the row a request is about to write for each peer      *)
    apEdits      (* requests made                                          *)

poolVars == <<apPools, apRows, apOffer, apCalls, apEdits>>

Stored == {p \in Owner : apRows[p] # Nothing}

(* Any pools and any rows: addresses may be given without a pool, and a    *)
(* pool stored later or changed.                                           *)
PoolInit ==
    /\ apPools \in [Interface -> Pools \cup {Nothing}]
    /\ \A i, j \in Interface : i # j /\ apPools[i] # Nothing /\ apPools[j] # Nothing =>
         apPools[i].start # apPools[j].start /\ apPools[i].end # apPools[j].end
    /\ apRows \in [Owner -> [interface : Interface, address : Given \cup {Many}] \cup {Nothing}]
    /\ \A p, q \in Stored : p # q => apRows[p].address # apRows[q].address
    /\ apOffer = [i \in Interface |-> Nothing]
    /\ apCalls = [p \in Owner |-> Nothing]
    /\ apEdits = 0

CountRequest == apEdits < MaxEdits /\ apEdits' = apEdits + 1

-----------------------------------------------------------------------------
(* Addresses, the most significant octet first *)

(* bytes.Compare *)
Less(a, b) ==
    \E k \in 1 .. Width : a[k] < b[k] /\ \A j \in 1 .. k - 1 : a[j] = b[j]

(* The step goes on to the octet before as long as one wraps. *)
Wraps(a, k, at) == \A j \in k + 1 .. Width : a[j] = at

Increment_NoCarry(a) == [a EXCEPT ![Width] = (@ + 1) % Base]   \* mutant: the last octet only
Increment(a) ==
    [k \in 1 .. Width |-> IF Wraps(a, k, Base - 1) THEN (a[k] + 1) % Base ELSE a[k]]

Decrement(a) ==
    [k \in 1 .. Width |-> IF Wraps(a, k, 0) THEN (a[k] + Base - 1) % Base ELSE a[k]]

-----------------------------------------------------------------------------
(* GetNewPeerAllowedAddress *)

(* The addresses of the interface's rows that parse. *)
Used(i) == {apRows[p].address.ip : p \in {q \in Stored : apRows[q].interface = i
                                                         /\ apRows[q].address # Many}}

HasRows(i) == \E p \in Stored : apRows[p].interface = i

lastIP(i) ==
    IF ~HasRows(i) THEN Decrement(apPools[i].start)
    ELSE CHOOSE a \in Used(i) : \A b \in Used(i) : ~Less(a, b)

(* Refused when the end is passed, an empty text when there is no pool.     *)
(* Nothing compares the address with the start of the pool.  With rows of   *)
(* which none parses the address is empty, which is before any end.         *)
Suggest(i) ==
    /\ apPools[i] # Nothing
    /\ \/ /\ HasRows(i) /\ Used(i) = {}
          /\ apOffer' = [apOffer EXCEPT ![i] = NoAddress]
       \/ /\ HasRows(i) => Used(i) # {}
          /\ LET next == Increment(lastIP(i)) IN
             /\ ~Less(apPools[i].end, next)
             /\ apOffer' = [apOffer EXCEPT ![i] = next]
    /\ UNCHANGED <<apPools, apRows, apCalls, apEdits>>

-----------------------------------------------------------------------------
(* CreateIPPool, UpdateIPPool, DeleteIPPool: no check that the start comes *)
(* before the end, nor of the peers that have addresses.                   *)

StorePool(i, pool) ==
    /\ \A j \in Interface \ {i} : apPools[j] # Nothing =>
         apPools[j].start # pool.start /\ apPools[j].end # pool.end
    /\ CountRequest
    /\ apPools' = [apPools EXCEPT ![i] = pool]
    /\ apOffer' = [apOffer EXCEPT ![i] = Nothing]
    /\ UNCHANGED <<apRows, apCalls>>

DeleteIPPool(i) ==
    /\ apPools[i] # Nothing /\ CountRequest
    /\ apPools' = [apPools EXCEPT ![i] = Nothing]
    /\ apOffer' = [apOffer EXCEPT ![i] = Nothing]
    /\ UNCHANGED <<apRows, apCalls>>

-----------------------------------------------------------------------------
(* Peers.  An address is the one suggested, or any other.  (That the text   *)
(* of an empty one is sent is left out: it is no address.)                  *)

ensureAllowedAddressIsUnique(text) == \A p \in Stored : apRows[p].address # text

CreatePeer(p, i, text) ==
    /\ apRows[p] = Nothing /\ apCalls[p] = Nothing /\ CountRequest
    /\ ensureAllowedAddressIsUnique(text)
    /\ apCalls' = [apCalls EXCEPT ![p] = [interface |-> i, address |-> text]]
    /\ UNCHANGED <<apPools, apRows, apOffer>>

UpdatePeer(p, text) ==
    /\ apRows[p] # Nothing /\ apCalls[p] = Nothing /\ CountRequest
    /\ apCalls' = [apCalls EXCEPT ![p] = [apRows[p] EXCEPT !.address = text]]
    /\ UNCHANGED <<apPools, apRows, apOffer>>

(* SyncPeers stores what the router has. *)
SyncPeers(p, i, text) ==
    /\ apCalls[p] = Nothing /\ CountRequest
    /\ apCalls' = [apCalls EXCEPT ![p] = [interface |-> i, address |-> text]]
    /\ UNCHANGED <<apPools, apRows, apOffer>>

(* The index of allowed_address *)
Indexed(p, text) == \A q \in Stored \ {p} : apRows[q].address # text

WriteRow(p) ==
    /\ apCalls[p] # Nothing
    /\ apCalls' = [apCalls EXCEPT ![p] = Nothing]
    /\ \/ Indexed(p, apCalls[p].address) /\ apRows' = [apRows EXCEPT ![p] = apCalls[p]]
       \/ UNCHANGED apRows
    /\ UNCHANGED <<apPools, apOffer, apEdits>>

DeletePeer(p) ==
    /\ apRows[p] # Nothing /\ apCalls[p] = Nothing
    /\ apRows' = [apRows EXCEPT ![p] = Nothing]
    /\ UNCHANGED <<apPools, apOffer, apCalls, apEdits>>

PoolNext ==
    \/ \E i \in Interface :
         \/ Suggest(i) \/ DeleteIPPool(i)
         \/ \E pool \in Pools : StorePool(i, pool)
    \/ \E p \in Owner :
         \/ WriteRow(p) \/ DeletePeer(p)
         \/ \E text \in Given :
              UpdatePeer(p, text) \/ \E i \in Interface : CreatePeer(p, i, text)
         \/ \E text \in Given \cup {Many}, i \in Interface : SyncPeers(p, i, text)

PoolSpec == PoolInit /\ [][PoolNext]_poolVars

-----------------------------------------------------------------------------
(* Reference: an address as a number *)
Number(a) ==
    LET value[k \in 0 .. Width] == IF k = 0 THEN 0 ELSE value[k - 1] * Base + a[k]
    IN value[Width]

(* A suggested address is the next after the highest of the interface's    *)
(* peers, or the first of the pool when the interface has no peer; no peer  *)
(* of the interface has it under any mask, and it is not past the pool's    *)
(* end, whatever was stored, edited and deleted in between                  *)
(* (GetNewPeerAllowedAddress's loops over the octets).  It may lie before    *)
(* the pool's start, when the pool was stored after the peers.  The text of *)
(* an empty address is suggested when there are peers and no address of     *)
(* theirs parses, and only then.                                            *)
OfferIsNext ==
    [][\A i \in Interface : apOffer'[i] # apOffer[i] /\ apOffer'[i] # Nothing =>
        IF HasRows(i) /\ Used(i) = {} THEN apOffer'[i] = NoAddress
        ELSE /\ apOffer'[i] \in IP /\ Number(apOffer'[i]) <= Number(apPools[i].end)
             /\ \A a \in Used(i) : Number(a) < Number(apOffer'[i])
             /\ IF HasRows(i) THEN \E a \in Used(i) : Number(apOffer'[i]) = Number(a) + 1
                ELSE apOffer'[i] = apPools[i].start]_poolVars
=============================================================================
