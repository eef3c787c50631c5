-------------------------------- MODULE Pages -------------------------------
(***************************************************************************)
(* The pages with a list: each with its table, the menu of a row, the      *)
(* buttons above it and its dialogs.                                       *)
(***************************************************************************)
EXTENDS AuthSession

-----------------------------------------------------------------------------
(* The peers (features/peers, hooks/peers)                                 *)

usePeersListQuery == "peers_list"
useCreatePeerMutation == Mutation("create", usePeersListQuery, {usePeersListQuery})
useDeletePeerMutation == Mutation("delete", usePeersListQuery, {usePeersListQuery})
useUpdatePeerStatusMutation == Mutation("status", usePeersListQuery, {usePeersListQuery, "device_data"})
syncSelectedPeers == Mutation("sync", usePeersListQuery, {usePeersListQuery})

(* The form holds the whole row it was opened on and sends it back: with the   *)
(* other settings, whether the peer was on when the list was read.            *)
useUpdatePeerMutation == Rewriting(Mutation("update", usePeersListQuery, {usePeersListQuery}))

handlePeerToggle(r) == Switch(useUpdatePeerStatusMutation, r)

PeersTableRowActions(r) ==
    \E d \in RowDialog : OpenOn(usePeersListQuery, d, r)

PeersPrimaryButtons ==
    \/ OpenPlain("sync")
    \/ OpenPlain("add")
    \/ Refresh(usePeersListQuery)

PeersDialogs ==
    \/ \E d \in Dialog : Dismiss(d)
    \/ Save(useCreatePeerMutation, "add")
    \/ Save(useUpdatePeerMutation, "edit")
    \/ TypeName
    \/ handleDelete(useDeletePeerMutation)
    \/ SyncSelected(syncSelectedPeers)

Peers ==
    /\ path = "/peers"
    /\ \/ \E r \in Id : handlePeerToggle(r) \/ PeersTableRowActions(r)
       \/ PeersPrimaryButtons
       \/ PeersDialogs

-----------------------------------------------------------------------------
(* The WireGuard interfaces (features/interfaces, hooks/interfaces)        *)

useInterfacesListQuery == "interfaces_list"
useCreateInterfaceMutation == Mutation("create", useInterfacesListQuery, {useInterfacesListQuery})
useUpdateInterfaceMutation == Mutation("update", useInterfacesListQuery, {useInterfacesListQuery})
useDeleteInterfaceMutation == Mutation("delete", useInterfacesListQuery, {useInterfacesListQuery})
useUpdateInterfaceStatusMutation == Mutation("status", useInterfacesListQuery, {useInterfacesListQuery})
syncSelectedInterfaces == Mutation("sync", useInterfacesListQuery, {useInterfacesListQuery})

handleInterfaceToggle(r) == Switch(useUpdateInterfaceStatusMutation, r)

InterfacesTableRowActions(r) ==
    \E d \in {"edit", "delete"} : OpenOn(useInterfacesListQuery, d, r)

InterfacesPrimaryButtons ==
    \/ OpenPlain("sync")
    \/ OpenPlain("add")
    \/ Refresh(useInterfacesListQuery)

InterfacesDialogs ==
    \/ \E d \in {"sync", "add", "edit", "delete"} : Dismiss(d)
    \/ Save(useCreateInterfaceMutation, "add")
    \/ Save(useUpdateInterfaceMutation, "edit")
    \/ TypeName
    \/ handleDelete(useDeleteInterfaceMutation)
    \/ SyncSelected(syncSelectedInterfaces)

Interfaces ==
    /\ path = "/interfaces"
    /\ \/ \E r \in Id : handleInterfaceToggle(r) \/ InterfacesTableRowActions(r)
       \/ InterfacesPrimaryButtons
       \/ InterfacesDialogs

-----------------------------------------------------------------------------
(* The address pools (features/ip-pools, hooks/ip-pool): no switch and no  *)
(* synchronisation                                                         *)

useIPPoolsListQuery == "ip_pools_list"
useCreateIPPoolMutation == Mutation("create", useIPPoolsListQuery, {useIPPoolsListQuery})
useUpdateIPPoolMutation == Mutation("update", useIPPoolsListQuery, {useIPPoolsListQuery})
useDeleteIPPoolMutation == Mutation("delete", useIPPoolsListQuery, {useIPPoolsListQuery})

PoolsTableRowActions(r) ==
    \E d \in {"edit", "delete"} : OpenOn(useIPPoolsListQuery, d, r)

PoolsPrimaryButtons ==
    \/ OpenPlain("add")
    \/ Refresh(useIPPoolsListQuery)

PoolsDialogs ==
    \/ \E d \in {"add", "edit", "delete"} : Dismiss(d)
    \/ Save(useCreateIPPoolMutation, "add")
    \/ Save(useUpdateIPPoolMutation, "edit")
    \/ TypeName
    \/ handleDelete(useDeleteIPPoolMutation)

Pools ==
    /\ path = "/pools"
    /\ \/ \E r \in Id : PoolsTableRowActions(r)
       \/ PoolsPrimaryButtons
       \/ PoolsDialogs

-----------------------------------------------------------------------------
(* The routers (features/servers, hooks/servers): one router is enough,    *)
(* and the button that adds one is disabled once the list shows one.  A    *)
(* list that is not loaded counts as empty.                                *)

useServersListQuery == "servers_list"
useCreateServerMutation == Mutation("create", useServersListQuery, {useServersListQuery})
useUpdateServerMutation == Mutation("update", useServersListQuery, {useServersListQuery})
useDeleteServerMutation == Mutation("delete", useServersListQuery, {useServersListQuery})
useUpdateServerStatusMutation == Mutation("status", useServersListQuery, {useServersListQuery})

handleServerToggle(r) == Switch(useUpdateServerStatusMutation, r)

ServersTableRowActions(r) ==
    \E d \in {"edit", "delete"} : OpenOn(useServersListQuery, d, r)

ServersPrimaryButtons ==
    \/ Cardinality(Listed(Shown(useServersListQuery))) # 1 /\ OpenPlain("add")
    \/ Refresh(useServersListQuery)

ServersDialogs ==
    \/ \E d \in {"add", "edit", "delete"} : Dismiss(d)
    \/ Save(useCreateServerMutation, "add")
    \/ Save(useUpdateServerMutation, "edit")
    \/ TypeName
    \/ handleDelete(useDeleteServerMutation)

Servers ==
    /\ path = "/servers"
    /\ \/ \E r \in Id : handleServerToggle(r) \/ ServersTableRowActions(r)
       \/ ServersPrimaryButtons
       \/ ServersDialogs
=============================================================================
