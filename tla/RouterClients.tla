---------------------------- MODULE RouterClients ----------------------------
(***************************************************************************)
(* The servers table and the clients that dial the routers.  Clients are   *)
(* kept in memory by name: made from the table when the process starts,    *)
(* and by the request that creates a server, before it asks a router and   *)
(* before it inserts the row.  No other request touches them.  Requests    *)
(* that need a router are let through when the first row has a client      *)
(* (IsConnected); they then use any client (GetClient of nil).             *)
(*                                                                         *)
(* Credentials go with the address.                                        *)
(***************************************************************************)
EXTENDS Naturals, FiniteSets

CONSTANTS
    Name, Address,
    Request,     (* threads of server requests                             *)
    LastId,      (* bound: rows ever inserted                              *)
    MaxStarts,   (* bound: restarts of the process                         *)
    NoServer     (* no such row or client                                  *)

ServerId == 1 .. LastId
Server == [ name : Name, addr : Address, active : BOOLEAN ]
Client == [ addr : Address, ssl : BOOLEAN ]

ASSUME ClientsAssumption ==
    /\ NoServer \notin Server \cup Client
    /\ LastId \in Nat /\ MaxStarts \in Nat

VARIABLES
    srvRows,      (* the table servers                                     *)
    srvInserted,  (* rows inserted so far: ids are not given again         *)
    srvClients,   (* MwpClients.clients                                    *)
    srvCall,      (* the locals of each request                            *)
    srvStarts,    (* restarts                                              *)
    srvEdited,    (* history: rows whose name or address was changed since *)
                  (* the process started                                   *)
    srvSet        (* history: addresses set for a name since it started    *)

clientVars == <<srvRows, srvInserted, srvClients, srvCall, srvStarts, srvEdited, srvSet>>

NoCall == [ pc |-> "idle", id |-> 0, row |-> NoServer ]

ClientsTypeOK ==
    /\ srvRows \in [ServerId -> Server \cup {NoServer}]
    /\ srvInserted \in 0 .. LastId
    /\ srvClients \in [Name -> Client \cup {NoServer}]
    /\ srvCall \in [Request -> [ pc  : {"idle", "identity", "insert", "save"},
                                 id  : 0 .. LastId,
                                 row : Server \cup {NoServer} ]]
    /\ srvEdited \subseteq ServerId
    /\ srvSet \in [Name -> SUBSET Address]

Rows == {i \in ServerId : srvRows[i] # NoServer}

(* InitClient: every row, over http whatever its server was created with. *)
InitClient_Active(rows) ==      \* mutant: only the servers switched on
    [n \in Name |->
        LET i == {j \in ServerId : rows[j] # NoServer /\ rows[j].name = n /\ rows[j].active} IN
        IF i = {} THEN NoServer
        ELSE [addr |-> rows[CHOOSE j \in i : TRUE].addr, ssl |-> FALSE]]
InitClient(rows) ==
    [n \in Name |->
        LET i == {j \in ServerId : rows[j] # NoServer /\ rows[j].name = n} IN
        IF i = {} THEN NoServer
        ELSE [addr |-> rows[CHOOSE j \in i : TRUE].addr, ssl |-> FALSE]]

(* Names and addresses are unique (Server's indexes). *)
Storable(id, row) ==
    \A j \in Rows \ {id} : srvRows[j].name # row.name /\ srvRows[j].addr # row.addr

Started(rows) ==
    /\ srvClients' = InitClient(rows)
    /\ srvSet' = [n \in Name |-> {rows[j].addr : j \in {k \in ServerId :
                                    rows[k] # NoServer /\ rows[k].name = n}}]
    /\ srvEdited' = {}

ClientsInit ==
    /\ srvRows = [i \in ServerId |-> NoServer]
    /\ srvInserted = 0
    /\ srvClients = [n \in Name |-> NoServer]
    /\ srvCall = [q \in Request |-> NoCall]
    /\ srvStarts = 0 /\ srvEdited = {} /\ srvSet = [n \in Name |-> {}]

-----------------------------------------------------------------------------
(* CreateServer *)

(* SetClient replaces a client of that name, also another server's. *)
CreateBegin(q, row, ssl) ==
    /\ srvCall[q].pc = "idle"
    /\ srvClients' = [srvClients EXCEPT ![row.name] = [addr |-> row.addr, ssl |-> ssl]]
    /\ srvSet' = [srvSet EXCEPT ![row.name] = @ \cup {row.addr}]
    /\ srvCall' = [srvCall EXCEPT ![q] = [pc |-> "identity", id |-> 0, row |-> row]]
    /\ UNCHANGED <<srvRows, srvInserted, srvStarts, srvEdited>>

(* FetchDeviceIdentity asks through any of the clients; the client stays   *)
(* when no answer comes.                                                   *)
CreateIdentity(q, ok) ==
    /\ srvCall[q].pc = "identity"
    /\ srvCall' = [srvCall EXCEPT ![q] = IF ok THEN [@ EXCEPT !.pc = "insert"] ELSE NoCall]
    /\ UNCHANGED <<srvRows, srvInserted, srvClients, srvStarts, srvEdited, srvSet>>

CreateInsert(q) ==
    LET row == srvCall[q].row IN
    /\ srvCall[q].pc = "insert"
    /\ srvCall' = [srvCall EXCEPT ![q] = NoCall]
    /\ \/ /\ Storable(0, row)
          /\ srvInserted < LastId
          /\ srvInserted' = srvInserted + 1
          /\ srvRows' = [srvRows EXCEPT ![srvInserted'] = row]
       \/ UNCHANGED <<srvRows, srvInserted>>     \* refused by the table
    /\ UNCHANGED <<srvClients, srvStarts, srvEdited, srvSet>>

-----------------------------------------------------------------------------
(* UpdateServer and ToggleServerStatus read a row and save all of it.      *)

UpdateBegin(q, i, n, a) ==
    /\ srvCall[q].pc = "idle" /\ i \in Rows
    /\ srvCall' = [srvCall EXCEPT ![q] =
                    [ pc |-> "save", id |-> i,
                      row |-> [name |-> n, addr |-> a, active |-> srvRows[i].active] ]]
    /\ UNCHANGED <<srvRows, srvInserted, srvClients, srvStarts, srvEdited, srvSet>>

ToggleBegin(q, i) ==
    /\ srvCall[q].pc = "idle" /\ i \in Rows
    /\ srvCall' = [srvCall EXCEPT ![q] =
                    [pc |-> "save", id |-> i, row |-> [srvRows[i] EXCEPT !.active = ~@]]]
    /\ UNCHANGED <<srvRows, srvInserted, srvClients, srvStarts, srvEdited, srvSet>>

(* Save inserts the row again when it was deleted in between. *)
SaveRow(q) ==
    LET i == srvCall[q].id
        row == srvCall[q].row
        same == srvRows[i] # NoServer /\ srvRows[i].name = row.name /\ srvRows[i].addr = row.addr
    IN
    /\ srvCall[q].pc = "save"
    /\ srvCall' = [srvCall EXCEPT ![q] = NoCall]
    /\ \/ /\ Storable(i, row)
          /\ srvRows' = [srvRows EXCEPT ![i] = row]
          /\ srvEdited' = IF same THEN srvEdited ELSE srvEdited \cup {i}
       \/ UNCHANGED <<srvRows, srvEdited>>       \* refused by the table
    /\ UNCHANGED <<srvInserted, srvClients, srvStarts, srvSet>>

(* The client of a deleted server stays. *)
DeleteServer(i) ==
    /\ i \in Rows
    /\ srvRows' = [srvRows EXCEPT ![i] = NoServer]
    /\ UNCHANGED <<srvInserted, srvClients, srvCall, srvStarts, srvEdited, srvSet>>

(* The process stops, in the middle of requests, and starts again. *)
Restart ==
    /\ srvStarts < MaxStarts
    /\ srvStarts' = srvStarts + 1
    /\ srvCall' = [q \in Request |-> NoCall]
    /\ Started(srvRows)
    /\ UNCHANGED <<srvRows, srvInserted>>

ClientsNext ==
    \/ \E q \in Request :
         \/ \E n \in Name, a \in Address :
              \/ \E ssl \in BOOLEAN :
                   CreateBegin(q, [name |-> n, addr |-> a, active |-> TRUE], ssl)
              \/ \E i \in ServerId : UpdateBegin(q, i, n, a)
         \/ \E ok \in BOOLEAN : CreateIdentity(q, ok)
         \/ CreateInsert(q)
         \/ \E i \in ServerId : ToggleBegin(q, i)
         \/ SaveRow(q)
    \/ \E i \in ServerId : DeleteServer(i)
    \/ Restart

ClientsSpec == ClientsInit /\ [][ClientsNext]_clientVars

-----------------------------------------------------------------------------
(* A server has a client under its name, and one that dials its address,   *)
(* so that requests are let through and reach it - unless the row was       *)
(* edited, or another server of its name was asked for, since the process  *)
(* started: those need a restart (MwpClients and the servers table are     *)
(* changed in two steps, in either order).                                 *)
ServersAreDialled ==
    \A i \in Rows \ srvEdited :
        LET row == srvRows[i] IN
        /\ srvClients[row.name] # NoServer
        /\ srvSet[row.name] = {row.addr} => srvClients[row.name].addr = row.addr
=============================================================================
