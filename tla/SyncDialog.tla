-------------------------------- MODULE SyncDialog --------------------------
(***************************************************************************)
(* The dialog that brings peers of the router into the panel               *)
(* (peers-sync-dialog.tsx): a list for each interface asked for, and the   *)
(* peers ticked in it.  It stays mounted while it is closed: its filter    *)
(* and its ticks outlive it until it is opened again.  (The one for        *)
(* interfaces is the same with the filter left at "all".)                  *)
(***************************************************************************)
EXTENDS ScreenBase

CONSTANTS
    RouterPeer,     \* the peers on the router
    RouterIface,    \* its interfaces
    InterfaceOf     \* [RouterPeer -> RouterIface]

ASSUME SyncAssumption == InterfaceOf \in [RouterPeer -> RouterIface]

VARIABLES
    sdOpen,      \* enabled
    sdFilter,    \* selectedInterface: an interface or "all"
    sdLists,     \* [filter -> the peers listed, or Null]
    sdSelected,  \* the peers ticked
    sdSent,      \* the requests on their way: the peers they name
    sdSeen       \* history: the peers listed at some time since the ticks were cleared
sdVars == <<sdOpen, sdFilter, sdLists, sdSelected, sdSent, sdSeen>>

Filter == RouterIface \cup {"all"}

SDInit ==
    /\ sdOpen = FALSE /\ sdFilter = "all"
    /\ sdLists = [f \in Filter |-> Null]
    /\ sdSelected = {} /\ sdSent = Null /\ sdSeen = {}

Preview(f) == {p \in RouterPeer : f = "all" \/ InterfaceOf[p] = f}
Listing(f) == IF sdLists[f] = Null THEN {} ELSE sdLists[f]

(* The effect on [enabled, selectedInterface].                                *)
Clears(open, filter) == open /\ (~sdOpen \/ filter # sdFilter)

SyncShown(open, filter) ==
    /\ sdOpen' = open /\ sdFilter' = filter
    /\ sdSelected' = IF Clears(open, filter) THEN {} ELSE sdSelected
    /\ sdSeen' = IF open /\ (~sdOpen \/ filter # sdFilter) THEN Listing(filter) ELSE sdSeen
    /\ UNCHANGED <<sdLists, sdSent>>

SyncOpened == ~sdOpen /\ SyncShown(TRUE, sdFilter)
SyncDismissed == sdOpen /\ SyncShown(FALSE, sdFilter)
setSelectedInterface == sdOpen /\ \E f \in Filter : SyncShown(TRUE, f)

(* A list is read: the router has lost some of its peers, or has them again.     *)
SyncListRead(f) ==
    /\ sdOpen /\ f = sdFilter
    /\ \E list \in SUBSET Preview(f) :
         /\ sdLists' = [sdLists EXCEPT ![f] = list]
         /\ sdSeen' = sdSeen \cup list
    /\ UNCHANGED <<sdOpen, sdFilter, sdSelected, sdSent>>

onCheckedChange(p) ==
    /\ sdOpen /\ p \in Listing(sdFilter)
    /\ sdSelected' \in {sdSelected \cup {p}, sdSelected \ {p}}
    /\ UNCHANGED <<sdOpen, sdFilter, sdLists, sdSent, sdSeen>>

(* The peers ticked are sent although some are not listed any more.            *)
handleSubmit ==
    /\ sdOpen /\ sdSelected # {}
    /\ sdSent' = sdSelected
    /\ UNCHANGED <<sdOpen, sdFilter, sdLists, sdSelected, sdSeen>>

SyncAnswered ==
    /\ sdSent # Null /\ sdSent' = Null
    /\ sdOpen' \in {sdOpen, FALSE}
    /\ UNCHANGED <<sdFilter, sdLists, sdSelected, sdSeen>>

SDNext ==
    \/ SyncOpened \/ SyncDismissed \/ setSelectedInterface
    \/ \E f \in Filter : SyncListRead(f)
    \/ \E p \in RouterPeer : onCheckedChange(p)
    \/ handleSubmit \/ SyncAnswered

(* What is sent to be brought in was on the screen under the filter it was sent   *)
(* with: a tick from before the filter changed, or from an earlier opening, is    *)
(* not sent ("select only the peers you want to sync").                         *)
SendsWhatIsListed == [][handleSubmit => sdSent' \subseteq sdSeen]_sdVars

=============================================================================
