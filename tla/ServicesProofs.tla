---------------------------- MODULE ServicesProofs ---------------------------
(***************************************************************************)
(* What the four services promise, for every value of their constants:     *)
(* the bot handles no update twice and the notifier stores no alert as     *)
(* sent that nobody has received, whatever polls, messages and statements  *)
(* fail; a server that nobody renamed or asked for again is dialled where  *)
(* its row says, for any number of threads and restarts; the address       *)
(* suggested is the next one, for addresses of any length over any base;   *)
(* and a synchronisation that ends well has made the rows of what nobody   *)
(* else changed what the router says, for any number of objects.           *)
(***************************************************************************)
EXTENDS Services, WellFoundedInduction, TLAPS

(* What waits to be handled follows what was handled. *)
DeliveryInv ==
    /\ tgOffset \in Nat /\ tgConfirmed \in Nat
    /\ tgBatch \in Seq(Nat)
    /\ \A k \in 1 .. Len(tgBatch) : tgBatch[k] >= tgOffset /\ tgBatch[k] = tgBatch[1] + k - 1
    /\ \A id \in tgHandled : id \in Nat /\ id < tgOffset

(* What counts as sent has arrived. *)
AlertInv ==
    /\ tgFlag \in [Peer -> BOOLEAN]
    /\ tgReceived \in [Peer -> SUBSET Chat]
    /\ tgAlert # NoAnswer =>
         /\ tgAlert \in [peer : Peer, todo : SUBSET Chat, sent : SUBSET Chat]
         /\ tgAlert.sent \subseteq tgReceived[tgAlert.peer]
    /\ FlaggedWasReceived

-----------------------------------------------------------------------------
LEMMA DeliveryInit == TelegramInit => DeliveryInv
  BY DEF TelegramInit, DeliveryInv

(* A poll asks for no update that was handled. *)
LEMMA PollKeepsDelivery ==
    ASSUME DeliveryInv, tgInbox \in Seq(Update), NEW ok \in BOOLEAN, GetUpdates(ok)
    PROVE  DeliveryInv'
  <1>1. tgConfirmed' \in Nat /\ tgOffset \in Nat /\ tgConfirmed' + 1 >= tgOffset
    BY DEF DeliveryInv, GetUpdates, Confirmed
  <1>2. tgOffset' = tgOffset /\ tgHandled' = tgHandled
    BY DEF GetUpdates
  <1>3. CASE ok
    <2> DEFINE n == Len(tgInbox) - tgConfirmed'
    <2>1. tgBatch' = [k \in 1 .. n |-> tgConfirmed' + k] /\ n \in Int
      BY <1>1, <1>3 DEF GetUpdates
    <2>2. /\ tgBatch' \in Seq(Nat)
          /\ \A k \in 1 .. Len(tgBatch') : k \in Nat /\ k >= 1 /\ tgBatch'[k] = tgConfirmed' + k
      <3>1. CASE n \in Nat
        BY <1>1, <2>1, <3>1
      <3>2. CASE n \notin Nat
        <4>1. 1 .. n = {}
          BY <2>1, <3>2
        <4>2. tgBatch' = <<>>
          BY <2>1, <4>1
        <4>3. QED
          BY <4>2
      <3>3. QED
        BY <3>1, <3>2
    <2>3. \A k \in 1 .. Len(tgBatch') :
            tgBatch'[k] >= tgOffset /\ tgBatch'[k] = tgBatch'[1] + k - 1
      <3> SUFFICES ASSUME NEW k \in 1 .. Len(tgBatch')
                   PROVE  tgBatch'[k] >= tgOffset /\ tgBatch'[k] = tgBatch'[1] + k - 1
        OBVIOUS
      <3>1. 1 \in 1 .. Len(tgBatch')
        BY <2>2
      <3>2. tgBatch'[1] = tgConfirmed' + 1 /\ tgBatch'[k] = tgConfirmed' + k /\ k \in Nat /\ k >= 1
        BY <2>2, <3>1
      <3>3. tgConfirmed' + k >= tgOffset /\ tgConfirmed' + k = (tgConfirmed' + 1) + k - 1
        <4>1. \A a, o, j \in Nat : a + 1 >= o /\ j >= 1 => a + j >= o /\ a + j = (a + 1) + j - 1
          OBVIOUS
        <4>2. k \in Nat /\ k >= 1
          BY <3>2
        <4>3. QED
          BY <1>1, <4>1, <4>2
      <3>4. QED
        BY <3>2, <3>3
    <2>4. QED
      BY <1>1, <1>2, <2>2, <2>3 DEF DeliveryInv
  <1>4. CASE ~ok
    <2>1. tgBatch' = <<>>
      BY <1>4 DEF GetUpdates
    <2>2. QED
      BY <1>1, <1>2, <2>1 DEF DeliveryInv
  <1>5. QED
    BY <1>3, <1>4

(* The offset passes each update as it is handled. *)
LEMMA HandleKeepsDelivery ==
    ASSUME DeliveryInv, Handle
    PROVE  DeliveryInv' /\ Head(tgBatch) \notin tgHandled
  <1>1. tgBatch \in Seq(Nat) /\ tgBatch # <<>>
    BY DEF DeliveryInv, Handle
  <1>2. 1 \in 1 .. Len(tgBatch) /\ Head(tgBatch) = tgBatch[1] /\ tgBatch[1] \in Nat
    BY <1>1
  <1>3. tgBatch[1] >= tgOffset
    BY <1>2 DEF DeliveryInv
  <1>4. /\ tgOffset' = tgBatch[1] + 1
        /\ tgBatch' = Tail(tgBatch)
        /\ tgHandled' = tgHandled \cup {tgBatch[1]}
        /\ tgConfirmed' = tgConfirmed
    BY <1>2 DEF Handle, NextOffset
  <1>5. tgBatch' \in Seq(Nat)
    BY <1>1, <1>4
  <1>6. \A k \in 1 .. Len(tgBatch') : tgBatch'[k] = tgBatch[1] + k
    <2> SUFFICES ASSUME NEW k \in 1 .. Len(Tail(tgBatch))
                 PROVE  Tail(tgBatch)[k] = tgBatch[1] + k
      BY <1>4
    <2>1. k \in Nat /\ k + 1 \in 1 .. Len(tgBatch) /\ Tail(tgBatch)[k] = tgBatch[k + 1]
      BY <1>1
    <2>2. tgBatch[k + 1] = tgBatch[1] + (k + 1) - 1
      BY <2>1 DEF DeliveryInv
    <2>3. QED
      BY <1>2, <2>1, <2>2
  <1>7. \A k \in 1 .. Len(tgBatch') :
          tgBatch'[k] >= tgOffset' /\ tgBatch'[k] = tgBatch'[1] + k - 1
    <2> SUFFICES ASSUME NEW k \in 1 .. Len(tgBatch')
                 PROVE  tgBatch'[k] >= tgOffset' /\ tgBatch'[k] = tgBatch'[1] + k - 1
      OBVIOUS
    <2>1. k \in Nat /\ k >= 1 /\ 1 \in 1 .. Len(tgBatch')
      BY <1>5
    <2>2. tgBatch'[k] = tgBatch[1] + k /\ tgBatch'[1] = tgBatch[1] + 1
      BY <1>6, <2>1
    <2>3. QED
      BY <1>2, <1>4, <2>1, <2>2
  <1>8. \A id \in tgHandled' : id \in Nat /\ id < tgOffset'
    BY <1>2, <1>3, <1>4 DEF DeliveryInv
  <1>9. Head(tgBatch) \notin tgHandled
    BY <1>2, <1>3 DEF DeliveryInv
  <1>10. QED
    BY <1>2, <1>4, <1>5, <1>7, <1>8, <1>9 DEF DeliveryInv

LEMMA InboxType ==
    ASSUME tgInbox \in Seq(Update), [TelegramNext]_tgVars
    PROVE  tgInbox' \in Seq(Update)
  <1>1. CASE SendUpdate
    BY <1>1 DEF SendUpdate
  <1>2. CASE ~SendUpdate
    BY <1>2 DEF TelegramNext, tgVars, GetUpdates, Handle, ThresholdReached, NotifyBegin,
                NotifySend, NotifyEnd, UsageReset, PeerDeleted, BotRestart
  <1>3. QED
    BY <1>1, <1>2

LEMMA DeliveryStep ==
    ASSUME DeliveryInv, tgInbox \in Seq(Update), [TelegramNext]_tgVars
    PROVE  DeliveryInv'
  <1>1. CASE \E ok \in BOOLEAN : GetUpdates(ok)
    BY <1>1, PollKeepsDelivery
  <1>2. CASE Handle
    BY <1>2, HandleKeepsDelivery
  <1>3. CASE BotRestart
    BY <1>3 DEF BotRestart, DeleteWebhook, DeliveryInv
  <1>4. CASE UNCHANGED <<tgConfirmed, tgOffset, tgBatch, tgHandled>>
    BY <1>4 DEF DeliveryInv
  <1>5. QED
    BY <1>1, <1>2, <1>3, <1>4
       DEF TelegramNext, tgVars, botVars, SendUpdate, ThresholdReached, NotifyBegin,
           NotifySend, NotifyEnd, UsageReset, PeerDeleted

(* No update is handled twice by one process, however often polls fail or  *)
(* their answers are cut off: the offset a poll sends is past all of them. *)
THEOREM HandledOnceTheorem == TelegramSpec => HandledOnce
  <1> DEFINE Inv == DeliveryInv /\ tgInbox \in Seq(Update)
  <1>1. TelegramInit => Inv
    BY DeliveryInit DEF TelegramInit
  <1>2. Inv /\ [TelegramNext]_tgVars => Inv'
    BY DeliveryStep, InboxType
  <1>3. Inv /\ [TelegramNext]_tgVars => [Handle => Head(tgBatch) \notin tgHandled]_tgVars
    BY HandleKeepsDelivery
  <1>4. QED
    BY <1>1, <1>2, <1>3, PTL DEF TelegramSpec, HandledOnce

-----------------------------------------------------------------------------
LEMMA AlertStep ==
    ASSUME AlertInv, [TelegramNext]_tgVars
    PROVE  AlertInv'
  <1>1. ASSUME NEW p \in Peer, NotifyBegin(p)
        PROVE  AlertInv'
    <2>1. tgAlert' = [peer |-> p, todo |-> Subscribers(p), sent |-> {}]
      BY <1>1 DEF NotifyBegin
    <2>2. Subscribers(p) \subseteq Chat
      BY DEF Subscribers
    <2>3. UNCHANGED <<tgFlag, tgReceived>>
      BY <1>1 DEF NotifyBegin, tgTableVars
    <2>4. QED
      BY <2>1, <2>2, <2>3 DEF AlertInv, FlaggedWasReceived
  <1>2. ASSUME NEW c \in Chat, NEW ok \in BOOLEAN, NotifySend(c, ok)
        PROVE  AlertInv'
    <2> DEFINE p == tgAlert.peer
               sent == IF ok THEN tgAlert.sent \cup {c} ELSE tgAlert.sent
    <2>1. /\ tgAlert \in [peer : Peer, todo : SUBSET Chat, sent : SUBSET Chat]
          /\ tgAlert.sent \subseteq tgReceived[p]
      BY <1>2 DEF AlertInv, NotifySend
    <2>2. tgAlert' = [peer |-> p, todo |-> tgAlert.todo \ {c}, sent |-> sent]
      BY <1>2, <2>1 DEF NotifySend
    <2>3. /\ tgFlag' = tgFlag
          /\ tgReceived' \in {tgReceived, [tgReceived EXCEPT ![p] = @ \cup {c}]}
          /\ ok => tgReceived' = [tgReceived EXCEPT ![p] = @ \cup {c}]
      BY <1>2 DEF NotifySend, tgTableVars
    <2>4. /\ tgReceived' \in [Peer -> SUBSET Chat]
          /\ \A q \in Peer : tgReceived[q] \subseteq tgReceived'[q]
          /\ ok => c \in tgReceived'[p]
      BY <2>1, <2>3 DEF AlertInv
    <2>5. sent \subseteq tgReceived'[p]
      BY <2>1, <2>4
    <2>6. FlaggedWasReceived'
      BY <2>3, <2>4 DEF AlertInv, FlaggedWasReceived
    <2>7. tgAlert' \in [peer : Peer, todo : SUBSET Chat, sent : SUBSET Chat]
      BY <2>1, <2>2
    <2>8. tgAlert'.sent \subseteq tgReceived'[tgAlert'.peer]
      BY <2>2, <2>5
    <2>9. QED
      BY <2>3, <2>4, <2>6, <2>7, <2>8 DEF AlertInv
  <1>3. ASSUME NEW ok \in BOOLEAN, NotifyEnd(ok)
        PROVE  AlertInv'
    <2> DEFINE p == tgAlert.peer
    <2>1. p \in Peer /\ tgAlert.sent \subseteq tgReceived[p]
      BY <1>3 DEF AlertInv, NotifyEnd
    <2>2. /\ tgFlag' = [tgFlag EXCEPT ![p] = @ \/ (ok /\ CountsAsSent(tgAlert) /\ p \in tgPeers)]
          /\ tgAlert' = NoAnswer /\ tgReceived' = tgReceived
      BY <1>3 DEF NotifyEnd
    <2>3. tgFlag' \in [Peer -> BOOLEAN]
      BY <2>1, <2>2 DEF AlertInv
    <2>4. \A q \in Peer : tgFlag'[q] => tgFlag[q] \/ (q = p /\ CountsAsSent(tgAlert))
      BY <2>1, <2>2 DEF AlertInv
    <2>5. FlaggedWasReceived'
      BY <2>1, <2>2, <2>4 DEF AlertInv, FlaggedWasReceived, CountsAsSent
    <2>6. QED
      BY <2>2, <2>3, <2>5 DEF AlertInv
  <1>4. ASSUME NEW p \in Peer, UsageReset(p)
        PROVE  AlertInv'
    <2>1. /\ tgFlag' = [tgFlag EXCEPT ![p] = FALSE]
          /\ tgReceived' = [tgReceived EXCEPT ![p] = {}]
          /\ tgAlert' = NoAnswer
      BY <1>4 DEF UsageReset
    <2>2. QED
      BY <2>1 DEF AlertInv, FlaggedWasReceived
  <1>5. CASE BotRestart
    BY <1>5 DEF BotRestart, tgTableVars, AlertInv, FlaggedWasReceived
  <1>6. CASE UNCHANGED <<tgFlag, tgReceived, tgAlert>>
    BY <1>6 DEF AlertInv, FlaggedWasReceived
  <1>7. QED
    BY <1>1, <1>2, <1>3, <1>4, <1>5, <1>6
       DEF TelegramNext, tgVars, tgTableVars, alertVars, SendUpdate, GetUpdates, Handle,
           ThresholdReached, PeerDeleted

(* An alert stored as sent was received by a chat since the usage was last *)
(* zero, so nothing that fails can keep an alert from being tried again.   *)
THEOREM FlaggedTheorem == TelegramSpec => []FlaggedWasReceived
  <1>1. TelegramInit => AlertInv
    BY DEF TelegramInit, AlertInv, FlaggedWasReceived
  <1>2. AlertInv /\ [TelegramNext]_tgVars => AlertInv'
    BY AlertStep
  <1>3. AlertInv => FlaggedWasReceived
    BY DEF AlertInv
  <1>4. QED
    BY <1>1, <1>2, <1>3, PTL DEF TelegramSpec

-----------------------------------------------------------------------------

Known(n, a) == srvClients[n] # NoServer /\ a \in srvSet[n]

(* A client dials an address it was set to; what is about to be inserted   *)
(* has a client.                                                           *)
ClientsInv ==
    /\ ClientsTypeOK
    /\ \A n \in Name : srvClients[n] # NoServer => srvClients[n].addr \in srvSet[n]
    /\ \A i \in Rows \ srvEdited : Known(srvRows[i].name, srvRows[i].addr)
    /\ \A q \in Request : srvCall[q].pc \in {"identity", "insert"} =>
         srvCall[q].row # NoServer /\ Known(srvCall[q].row.name, srvCall[q].row.addr)
    /\ \A q \in Request : srvCall[q].pc = "save" =>
         srvCall[q].row # NoServer /\ srvCall[q].id \in ServerId

LEMMA RowsAreServers == ASSUME ClientsInv, NEW i \in Rows PROVE srvRows[i] \in Server
  BY DEF ClientsInv, ClientsTypeOK, Rows

LEMMA ClientsInitInv == ClientsInit => ClientsInv
  BY ClientsAssumption DEF ClientsInit, ClientsInv, ClientsTypeOK, NoCall, Rows, ServerId

-----------------------------------------------------------------------------
(* A name that is set keeps the addresses it was set to before. *)
LEMMA CreateBeginInv ==
    ASSUME ClientsInv, NEW q \in Request, NEW row \in Server, NEW ssl \in BOOLEAN,
           CreateBegin(q, row, ssl)
    PROVE  ClientsInv'
  <1> DEFINE client == [addr |-> row.addr, ssl |-> ssl]
  <1>1. /\ row.name \in Name /\ row.addr \in Address
        /\ client \in Client /\ client # NoServer /\ row # NoServer
    BY ClientsAssumption DEF Server, Client
  <1>2. /\ srvClients' = [srvClients EXCEPT ![row.name] = client]
        /\ srvSet' = [srvSet EXCEPT ![row.name] = @ \cup {row.addr}]
        /\ srvCall' = [srvCall EXCEPT ![q] = [pc |-> "identity", id |-> 0, row |-> row]]
        /\ UNCHANGED <<srvRows, srvInserted, srvStarts, srvEdited>>
    BY DEF CreateBegin
  <1>3. ClientsTypeOK'
    BY <1>1, <1>2, ClientsAssumption DEF ClientsInv, ClientsTypeOK, ServerId
  <1>4. /\ \A n \in Name : srvSet[n] \subseteq srvSet'[n]
        /\ \A n \in Name : srvClients[n] # NoServer => srvClients'[n] # NoServer
        /\ srvClients'[row.name] = client /\ row.addr \in srvSet'[row.name]
        /\ \A n \in Name \ {row.name} : srvClients'[n] = srvClients[n]
    BY <1>1, <1>2 DEF ClientsInv, ClientsTypeOK
  <1>5. \A n \in Name, a \in Address : Known(n, a) => Known(n, a)'
    BY <1>4 DEF Known
  <1>6. \A n \in Name : srvClients'[n] # NoServer => srvClients'[n].addr \in srvSet'[n]
    BY <1>1, <1>4 DEF ClientsInv
  <1>7. \A i \in Rows' \ srvEdited' : Known(srvRows[i].name, srvRows[i].addr)'
    <2>1. Rows' = Rows
      BY <1>2 DEF Rows
    <2>2. \A i \in Rows : srvRows[i].name \in Name /\ srvRows[i].addr \in Address
      BY RowsAreServers DEF Server
    <2>3. QED
      BY <1>2, <1>5, <2>1, <2>2 DEF ClientsInv, Known
  <1>8. ASSUME NEW r \in Request, srvCall'[r].pc \in {"identity", "insert"}
        PROVE  srvCall'[r].row # NoServer /\ Known(srvCall[r].row.name, srvCall[r].row.addr)'
    <2>1. CASE r = q
      <3>1. srvCall'[r].row = row
        BY <1>2, <2>1 DEF ClientsInv, ClientsTypeOK
      <3>2. QED
        BY <1>1, <1>4, <3>1 DEF Known
    <2>2. CASE r # q
      <3>1. srvCall'[r] = srvCall[r]
        BY <1>2, <2>2 DEF ClientsInv, ClientsTypeOK
      <3>2. /\ srvCall[r].row \in Server
            /\ Known(srvCall[r].row.name, srvCall[r].row.addr)
        BY <1>8, <3>1 DEF ClientsInv, ClientsTypeOK
      <3>3. QED
        BY <1>5, <3>1, <3>2, ClientsAssumption DEF Server, Known
    <2>3. QED
      BY <2>1, <2>2
  <1>9. ASSUME NEW r \in Request, srvCall'[r].pc = "save"
        PROVE  srvCall'[r].row # NoServer /\ srvCall'[r].id \in ServerId
    <2>1. r # q /\ srvCall'[r] = srvCall[r]
      BY <1>2, <1>9 DEF ClientsInv, ClientsTypeOK
    <2>2. QED
      BY <1>9, <2>1 DEF ClientsInv
  <1>10. QED
    BY <1>3, <1>6, <1>7, <1>8, <1>9 DEF ClientsInv

(* Steps that change no client: a new row is one that was asked for, and   *)
(* one whose name or address changes counts as edited.                     *)
LEMMA TableStepInv ==
    ASSUME ClientsInv, ClientsTypeOK', UNCHANGED <<srvClients, srvSet>>,
           srvEdited \subseteq srvEdited',
           \A i \in Rows' \ srvEdited' :
              \/ i \in Rows /\ srvRows'[i].name = srvRows[i].name
                            /\ srvRows'[i].addr = srvRows[i].addr
              \/ Known(srvRows'[i].name, srvRows'[i].addr),
           \A q \in Request :
              \/ srvCall'[q].pc = "idle"
              \/ srvCall'[q] = srvCall[q]
              \/ /\ srvCall'[q].pc = "insert" /\ srvCall[q].pc = "identity"
                 /\ srvCall'[q].row = srvCall[q].row
              \/ /\ srvCall'[q].pc = "save"
                 /\ srvCall'[q].row # NoServer /\ srvCall'[q].id \in ServerId
    PROVE  ClientsInv'
  <1>1. \A n, a : Known(n, a)' <=> Known(n, a)
    BY DEF Known
  <1>2. \A i \in Rows' \ srvEdited' : Known(srvRows'[i].name, srvRows'[i].addr)
    BY DEF ClientsInv
  <1>3. \A q \in Request : srvCall'[q].pc \in {"identity", "insert"} =>
          srvCall'[q].row # NoServer /\ Known(srvCall'[q].row.name, srvCall'[q].row.addr)
    BY DEF ClientsInv
  <1>4. \A q \in Request : srvCall'[q].pc = "save" =>
          srvCall'[q].row # NoServer /\ srvCall'[q].id \in ServerId
    BY DEF ClientsInv
  <1>5. \A n \in Name : srvClients'[n] # NoServer => srvClients'[n].addr \in srvSet'[n]
    BY DEF ClientsInv
  <1>6. QED
    BY <1>2, <1>3, <1>4, <1>5 DEF ClientsInv, Known

LEMMA RestartInv ==
    ASSUME ClientsInv, Restart
    PROVE  ClientsInv'
  <1> DEFINE named(n) == {k \in ServerId : srvRows[k] # NoServer /\ srvRows[k].name = n}
  <1>1. /\ srvCall' = [q \in Request |-> NoCall]
        /\ srvClients' = InitClient(srvRows)
        /\ srvSet' = [n \in Name |-> {srvRows[j].addr : j \in named(n)}]
        /\ srvEdited' = {} /\ srvRows' = srvRows /\ srvInserted' = srvInserted
    BY DEF Restart, Started
  <1>2. \A k \in ServerId : srvRows[k] # NoServer =>
          srvRows[k] \in Server /\ srvRows[k].name \in Name /\ srvRows[k].addr \in Address
    BY DEF ClientsInv, ClientsTypeOK, Server
  <1>3. ASSUME NEW n \in Name, named(n) # {}
        PROVE  /\ srvClients'[n] \in Client /\ srvClients'[n] # NoServer
               /\ srvClients'[n].addr \in srvSet'[n]
    <2>1. PICK k \in named(n) : srvClients'[n] = [addr |-> srvRows[k].addr, ssl |-> FALSE]
      <3>1. (CHOOSE j \in named(n) : TRUE) \in named(n)
        BY <1>3
      <3>2. srvClients'[n] = [addr |-> srvRows[CHOOSE j \in named(n) : TRUE].addr, ssl |-> FALSE]
        BY <1>1, <1>3 DEF InitClient
      <3>3. QED
        BY <3>1, <3>2
    <2>2. srvRows[k].addr \in Address
      BY <1>2, <2>1
    <2>3. srvSet'[n] = {srvRows[j].addr : j \in named(n)}
      BY <1>1
    <2>4. srvRows[k].addr \in srvSet'[n]
      BY <2>1, <2>3
    <2>5. srvClients'[n] \in Client /\ srvClients'[n].addr = srvRows[k].addr
      BY <2>1, <2>2 DEF Client
    <2>6. QED
      BY <2>4, <2>5, ClientsAssumption
  <1>4. ASSUME NEW n \in Name, named(n) = {}
        PROVE  srvClients'[n] = NoServer
    BY <1>1, <1>4 DEF InitClient
  <1>5. srvClients' \in [Name -> Client \cup {NoServer}]
    <2>1. srvClients' = [n \in Name |-> srvClients'[n]]
      BY <1>1 DEF InitClient
    <2>2. \A n \in Name : srvClients'[n] \in Client \cup {NoServer}
      BY <1>3, <1>4
    <2>3. QED
      BY <2>1, <2>2
  <1>6. srvSet' \in [Name -> SUBSET Address]
    BY <1>1, <1>2
  <1>7. ClientsTypeOK'
    BY <1>1, <1>5, <1>6, ClientsAssumption DEF ClientsInv, ClientsTypeOK, NoCall
  <1>8. \A i \in Rows' : Known(srvRows[i].name, srvRows[i].addr)'
    <2> SUFFICES ASSUME NEW i \in Rows'
                 PROVE  Known(srvRows[i].name, srvRows[i].addr)'
      OBVIOUS
    <2>1. i \in ServerId /\ srvRows[i] # NoServer /\ srvRows[i].name \in Name
      BY <1>1, <1>2 DEF Rows
    <2>2. i \in named(srvRows[i].name)
      BY <2>1
    <2>3. srvRows[i].addr \in srvSet'[srvRows[i].name]
      BY <1>1, <2>1, <2>2
    <2>4. QED
      BY <1>1, <1>3, <2>1, <2>2, <2>3 DEF Known
  <1>9. \A q \in Request : srvCall'[q].pc = "idle"
    BY <1>1 DEF NoCall
  <1>10. \A n \in Name : srvClients'[n] # NoServer => srvClients'[n].addr \in srvSet'[n]
    BY <1>3, <1>4
  <1>11. QED
    BY <1>7, <1>8, <1>9, <1>10 DEF ClientsInv
-----------------------------------------------------------------------------
LEMMA ClientsStep ==
    ASSUME ClientsInv, [ClientsNext]_clientVars
    PROVE  ClientsInv'
  <1>a. ClientsTypeOK
    BY DEF ClientsInv
  <1>1. ASSUME NEW q \in Request, NEW n \in Name, NEW a \in Address, NEW ssl \in BOOLEAN,
               CreateBegin(q, [name |-> n, addr |-> a, active |-> TRUE], ssl)
        PROVE  ClientsInv'
    BY <1>1, CreateBeginInv DEF Server
  <1>2. ASSUME NEW q \in Request, NEW n \in Name, NEW a \in Address, NEW i \in ServerId,
               UpdateBegin(q, i, n, a)
        PROVE  ClientsInv'
    <2>1. srvRows[i] \in Server /\ srvRows[i].active \in BOOLEAN
      BY <1>2, RowsAreServers DEF UpdateBegin, Server
    <2> DEFINE row == [name |-> n, addr |-> a, active |-> srvRows[i].active]
    <2>2. row \in Server /\ row # NoServer
      BY <2>1, ClientsAssumption DEF Server
    <2>3. /\ srvCall' = [srvCall EXCEPT ![q] = [pc |-> "save", id |-> i, row |-> row]]
          /\ UNCHANGED <<srvRows, srvInserted, srvClients, srvStarts, srvEdited, srvSet>>
      BY <1>2 DEF UpdateBegin
    <2>4. ClientsTypeOK'
      BY <1>a, <2>2, <2>3, ClientsAssumption DEF ClientsTypeOK, ServerId
    <2>5. \A r \in Request : \/ srvCall'[r] = srvCall[r]
                             \/ /\ srvCall'[r].pc = "save"
                                /\ srvCall'[r].row # NoServer /\ srvCall'[r].id \in ServerId
      BY <1>a, <2>2, <2>3 DEF ClientsTypeOK
    <2>6. QED
      BY <2>3, <2>4, <2>5, TableStepInv DEF Rows
  <1>3. ASSUME NEW q \in Request, NEW i \in ServerId, ToggleBegin(q, i)
        PROVE  ClientsInv'
    <2>1. srvRows[i] \in Server
      BY <1>3, RowsAreServers DEF ToggleBegin
    <2> DEFINE row == [srvRows[i] EXCEPT !.active = ~@]
    <2>2. row \in Server /\ row # NoServer
      BY <2>1, ClientsAssumption DEF Server
    <2>3. /\ srvCall' = [srvCall EXCEPT ![q] = [pc |-> "save", id |-> i, row |-> row]]
          /\ UNCHANGED <<srvRows, srvInserted, srvClients, srvStarts, srvEdited, srvSet>>
      BY <1>3 DEF ToggleBegin
    <2>4. ClientsTypeOK'
      BY <1>a, <2>2, <2>3, ClientsAssumption DEF ClientsTypeOK, ServerId
    <2>5. \A r \in Request : \/ srvCall'[r] = srvCall[r]
                             \/ /\ srvCall'[r].pc = "save"
                                /\ srvCall'[r].row # NoServer /\ srvCall'[r].id \in ServerId
      BY <1>a, <2>2, <2>3 DEF ClientsTypeOK
    <2>6. QED
      BY <2>3, <2>4, <2>5, TableStepInv DEF Rows
  <1>4. ASSUME NEW q \in Request, NEW ok \in BOOLEAN, CreateIdentity(q, ok)
        PROVE  ClientsInv'
    <2>1. /\ srvCall[q].pc = "identity"
          /\ srvCall' = [srvCall EXCEPT ![q] =
                IF ok THEN [srvCall[q] EXCEPT !.pc = "insert"] ELSE NoCall]
          /\ UNCHANGED <<srvRows, srvInserted, srvClients, srvStarts, srvEdited, srvSet>>
      BY <1>4 DEF CreateIdentity
    <2>2. ClientsTypeOK'
      BY <1>a, <2>1, ClientsAssumption DEF ClientsTypeOK, NoCall
    <2>3. \A r \in Request : \/ srvCall'[r] = srvCall[r] \/ srvCall'[r].pc = "idle"
                             \/ /\ srvCall'[r].pc = "insert" /\ srvCall[r].pc = "identity"
                                /\ srvCall'[r].row = srvCall[r].row
      BY <1>a, <2>1 DEF ClientsTypeOK, NoCall
    <2>4. QED
      BY <2>1, <2>2, <2>3, TableStepInv DEF Rows
  <1>5. ASSUME NEW q \in Request, CreateInsert(q)
        PROVE  ClientsInv'
    <2> DEFINE row == srvCall[q].row
    <2>1. /\ srvCall[q].pc = "insert"
          /\ srvCall' = [srvCall EXCEPT ![q] = NoCall]
          /\ UNCHANGED <<srvClients, srvStarts, srvEdited, srvSet>>
      BY <1>5 DEF CreateInsert
    <2>2. row \in Server /\ Known(row.name, row.addr)
      BY <2>1 DEF ClientsInv, ClientsTypeOK
    <2>3. \A r \in Request : srvCall'[r] = srvCall[r] \/ srvCall'[r].pc = "idle"
      BY <1>a, <2>1 DEF ClientsTypeOK, NoCall
    <2>4. srvCall' \in [Request -> [ pc  : {"idle", "identity", "insert", "save"},
                                     id  : 0 .. LastId,
                                     row : Server \cup {NoServer} ]]
      BY <1>a, <2>1, ClientsAssumption DEF ClientsTypeOK, NoCall
    <2>5. CASE UNCHANGED <<srvRows, srvInserted>>
      <3>1. ClientsTypeOK'
        BY <1>a, <2>1, <2>4, <2>5 DEF ClientsTypeOK
      <3>2. QED
        BY <2>1, <2>3, <2>5, <3>1, TableStepInv DEF Rows
    <2>6. CASE /\ srvInserted < LastId
               /\ srvInserted' = srvInserted + 1
               /\ srvRows' = [srvRows EXCEPT ![srvInserted'] = row]
      <3>1. srvInserted' \in ServerId /\ srvInserted' \in 0 .. LastId
        BY <1>a, <2>6, ClientsAssumption DEF ClientsTypeOK, ServerId
      <3>2. ClientsTypeOK'
        BY <1>a, <2>1, <2>2, <2>4, <2>6, <3>1 DEF ClientsTypeOK
      <3>3. \A i \in Rows' : (i \in Rows /\ srvRows'[i] = srvRows[i]) \/ srvRows'[i] = row
        BY <1>a, <2>6, <3>1 DEF Rows, ClientsTypeOK
      <3>4. QED
        BY <2>1, <2>2, <2>3, <3>2, <3>3, TableStepInv
    <2>7. QED
      BY <1>5, <2>5, <2>6 DEF CreateInsert
  <1>6. ASSUME NEW q \in Request, SaveRow(q)
        PROVE  ClientsInv'
    <2> DEFINE i == srvCall[q].id
               row == srvCall[q].row
               same == /\ srvRows[i] # NoServer
                       /\ srvRows[i].name = row.name /\ srvRows[i].addr = row.addr
    <2>1. /\ srvCall[q].pc = "save"
          /\ srvCall' = [srvCall EXCEPT ![q] = NoCall]
          /\ UNCHANGED <<srvInserted, srvClients, srvStarts, srvSet>>
      BY <1>6 DEF SaveRow
    <2>2. row \in Server /\ i \in ServerId
      BY <2>1 DEF ClientsInv, ClientsTypeOK
    <2>3. \A r \in Request : srvCall'[r] = srvCall[r] \/ srvCall'[r].pc = "idle"
      BY <1>a, <2>1 DEF ClientsTypeOK, NoCall
    <2>4. srvCall' \in [Request -> [ pc  : {"idle", "identity", "insert", "save"},
                                     id  : 0 .. LastId,
                                     row : Server \cup {NoServer} ]]
      BY <1>a, <2>1, ClientsAssumption DEF ClientsTypeOK, NoCall
    <2>5. CASE UNCHANGED <<srvRows, srvEdited>>
      <3>1. ClientsTypeOK'
        BY <1>a, <2>1, <2>4, <2>5 DEF ClientsTypeOK
      <3>2. QED
        BY <2>1, <2>3, <2>5, <3>1, TableStepInv DEF Rows
    <2>6. CASE /\ srvRows' = [srvRows EXCEPT ![i] = row]
               /\ srvEdited' = IF same THEN srvEdited ELSE srvEdited \cup {i}
      <3>1. ClientsTypeOK'
        BY <1>a, <2>1, <2>2, <2>4, <2>6 DEF ClientsTypeOK
      <3>2. srvEdited \subseteq srvEdited'
        BY <2>6
      <3>3. ASSUME NEW j \in Rows' \ srvEdited'
            PROVE  /\ j \in Rows
                   /\ srvRows'[j].name = srvRows[j].name /\ srvRows'[j].addr = srvRows[j].addr
        <4>1. CASE j # i
          BY <1>a, <2>2, <2>6, <4>1 DEF Rows, ClientsTypeOK
        <4>2. CASE j = i
          <5>1. same
            BY <2>6, <4>2
          <5>2. srvRows'[j] = row
            BY <1>a, <2>2, <2>6, <4>2 DEF ClientsTypeOK
          <5>3. QED
            BY <2>2, <4>2, <5>1, <5>2 DEF Rows
        <4>3. QED
          BY <4>1, <4>2
      <3>4. QED
        BY <2>1, <2>3, <3>1, <3>2, <3>3, TableStepInv
    <2>7. QED
      BY <1>6, <2>5, <2>6 DEF SaveRow
  <1>7. ASSUME NEW i \in ServerId, DeleteServer(i)
        PROVE  ClientsInv'
    <2>1. /\ srvRows' = [srvRows EXCEPT ![i] = NoServer]
          /\ UNCHANGED <<srvInserted, srvClients, srvCall, srvStarts, srvEdited, srvSet>>
      BY <1>7 DEF DeleteServer
    <2>2. ClientsTypeOK'
      BY <1>a, <2>1 DEF ClientsTypeOK
    <2>3. \A j \in Rows' : j \in Rows /\ srvRows'[j] = srvRows[j]
      BY <1>a, <2>1 DEF Rows, ClientsTypeOK
    <2>4. QED
      BY <2>1, <2>2, <2>3, TableStepInv
  <1>8. CASE Restart
    BY <1>8, RestartInv
  <1>9. CASE UNCHANGED clientVars
    <2>1. ClientsTypeOK'
      BY <1>a, <1>9 DEF clientVars, ClientsTypeOK
    <2>2. QED
      BY <1>9, <2>1, TableStepInv DEF clientVars, Rows
  <1>10. QED
    BY <1>1, <1>2, <1>3, <1>4, <1>5, <1>6, <1>7, <1>8, <1>9 DEF ClientsNext

(* Whatever requests create, edit, switch and delete at the same time, and *)
(* wherever the process stops, a server that was neither edited nor asked  *)
(* for again since has a client, which dials its address.                  *)
THEOREM ServersAreDialledTheorem == ClientsSpec => []ServersAreDialled
  <1>1. ClientsInit => ClientsInv
    BY ClientsInitInv
  <1>2. ClientsInv /\ [ClientsNext]_clientVars => ClientsInv'
    BY ClientsStep
  <1>3. ClientsInv => ServersAreDialled
    <2> SUFFICES ASSUME ClientsInv, NEW i \in Rows \ srvEdited
                 PROVE  /\ srvClients[srvRows[i].name] # NoServer
                        /\ srvSet[srvRows[i].name] = {srvRows[i].addr} =>
                             srvClients[srvRows[i].name].addr = srvRows[i].addr
      BY DEF ServersAreDialled
    <2>1. srvRows[i].name \in Name
      BY RowsAreServers DEF Server
    <2>2. Known(srvRows[i].name, srvRows[i].addr)
      BY DEF ClientsInv
    <2>3. srvClients[srvRows[i].name].addr \in srvSet[srvRows[i].name]
      BY <2>1, <2>2 DEF ClientsInv, Known
    <2>4. QED
      BY <2>2, <2>3 DEF Known
  <1>4. QED
    BY <1>1, <1>2, <1>3, PTL DEF ClientsSpec

-----------------------------------------------------------------------------
(* Synchronisation *)

(* The router and the tables hold objects and rows of their kinds. *)
SyncTypeOK ==
    /\ rsIface \in [Iface -> RouterIface \cup {None}]
    /\ rsPeer \in [WgPeer -> RouterPeer \cup {None}]
    /\ rsIfaces \in [Iface -> IfaceRow \cup {None}]
    /\ rsPeers \in [WgPeer -> PeerRow \cup {None}]

(* What a request carries. *)
CallTypeOK ==
    rsCall # None =>
      /\ rsCall = [ pc |-> rsCall.pc, op |-> rsCall.op, id |-> rsCall.id, new |-> rsCall.new,
                    row |-> rsCall.row ]
      /\ rsCall.id \in Object
      /\ rsCall.id \in Iface =>
           /\ rsCall.new \in RouterIface /\ rsCall.row \in IfaceRow \cup {None}
           /\ rsCall.op # "create" => rsCall.row # None
      /\ rsCall.id \in WgPeer =>
           /\ rsCall.new \in [addr : PeerAddress, off : BOOLEAN]
           /\ rsCall.op = "create" => rsCall.row \in IfaceRow

(* What a synchronisation has listed and read. *)
ListingOK ==
    /\ rsSync = [ pc |-> rsSync.pc, kind |-> rsSync.kind, whole |-> rsSync.whole,
                  some |-> rsSync.some, listed |-> rsSync.listed, known |-> rsSync.known,
                  todo |-> rsSync.todo ]
    /\ rsSync.pc \in {"table", "save"} /\ rsSync.kind \in {Iface, WgPeer}
    /\ rsSync.some \subseteq rsSync.kind
    /\ rsSync.whole => rsSync.some = rsSync.kind
    /\ DOMAIN rsSync.listed = rsSync.some
    /\ \A x \in rsSync.some \cap Iface : rsSync.listed[x] \in RouterIface \cup {None}
    /\ \A x \in rsSync.some \cap WgPeer : rsSync.listed[x] \in ListedPeer \cup {None}
    /\ rsSync.todo \subseteq Present(rsSync.listed)
    /\ rsSync.pc = "save" =>
         /\ DOMAIN rsSync.known = rsSync.kind
         /\ \A x \in rsSync.kind \cap WgPeer : rsSync.known[x] \in PeerRow \cup {None}

(* The listing still shows an object that nobody changed, and of a peer    *)
(* its interface, if nobody changed that.                                  *)
InterfaceName(i) == IF rsIface[i] = None THEN None ELSE rsIface[i].name

ListedAsIs(x) ==
    LET entry == rsSync.listed[x] IN
    /\ x \in Iface => entry = rsIface[x]
    /\ x \in WgPeer /\ rsPeer[x] = None => entry = None
    /\ x \in WgPeer /\ rsPeer[x] # None =>
         /\ entry # None
         /\ entry.addr = rsPeer[x].addr /\ entry.off = rsPeer[x].off
         /\ entry.keyed = rsPeer[x].keyed
         /\ rsPeer[x].iface \notin rsTouched => entry.iface = InterfaceName(rsPeer[x].iface)

(* What was saved is in the table as it was listed. *)
SavedAsListed(x) ==
    LET entry == rsSync.listed[x] IN
    x \notin rsSync.todo /\ entry # None =>
      /\ x \in Iface => rsIfaces[x] = RowOfIface(entry)
      /\ x \in WgPeer /\ entry.keyed =>
           /\ rsPeers[x] # None
           /\ rsPeers[x].iface = entry.iface /\ rsPeers[x].addr = entry.addr
           /\ rsPeers[x].off = entry.off /\ rsPeers[x].kept = Own(rsSync.known[x])

(* What is neither listed nor known has no row. *)
GoneIsGone(x) == rsSync.listed[x] = None /\ rsSync.known[x] = None => Row(x) = None

SyncRunInv ==
    rsSync # None =>
      /\ ListingOK
      /\ \A x \in rsSync.some \ rsTouched : ListedAsIs(x)
      /\ rsSync.pc = "save" =>
           \A x \in rsSync.some \ rsTouched : SavedAsListed(x) /\ GoneIsGone(x)

SyncInv == SyncTypeOK /\ CallTypeOK /\ SyncRunInv

-----------------------------------------------------------------------------
LEMMA SyncInitInv == SyncInit => SyncInv
  <1> SUFFICES ASSUME SyncInit PROVE SyncInv
    OBVIOUS
  <1>1. FirstIface \in [Iface -> RouterIface] /\ FirstPeer \in [WgPeer -> RouterPeer]
    BY SyncAssumption
  <1>2. \A i \in Iface : RowOfIface(FirstIface[i]) \in IfaceRow
    BY <1>1 DEF RowOfIface, RouterIface, IfaceRow
  <1>3. \A p \in WgPeer : RowOfPeer(FirstPeer[p], "used") \in PeerRow
    BY <1>1 DEF RowOfPeer, RouterIface, RouterPeer, PeerRow
  <1>4. rsIfaces \in [Iface -> IfaceRow \cup {None}]
    BY <1>2 DEF SyncInit
  <1>5. rsPeers \in [WgPeer -> PeerRow \cup {None}]
    BY <1>3 DEF SyncInit
  <1>6. rsIface \in [Iface -> RouterIface \cup {None}] /\ rsPeer \in [WgPeer -> RouterPeer \cup {None}]
    BY <1>1 DEF SyncInit
  <1>7. QED
    BY <1>4, <1>5, <1>6 DEF SyncInit, SyncInv, SyncTypeOK, CallTypeOK, SyncRunInv

(* A change of the router changes one object. *)
OnlyAtRouter(x) ==
    /\ rsIface' \in [Iface -> RouterIface \cup {None}]
    /\ rsPeer' \in [WgPeer -> RouterPeer \cup {None}]
    /\ \A i \in Iface \ {x} : rsIface'[i] = rsIface[i]
    /\ \A p \in WgPeer \ {x} : rsPeer'[p] = rsPeer[p]

LEMMA IfaceChange ==
    ASSUME SyncTypeOK, NEW i \in Iface, NEW r \in RouterIface, NewIface(i, r) \/ SetIface(i, r)
    PROVE  OnlyAtRouter(i)
  BY DEF SyncTypeOK, NewIface, SetIface, OnlyAtRouter

LEMMA PeerChange ==
    ASSUME SyncTypeOK, NEW p \in WgPeer, NEW r \in RouterPeer, NewPeer(p, r) \/ SetPeer(p, r)
    PROVE  OnlyAtRouter(p)
  BY DEF SyncTypeOK, NewPeer, SetPeer, OnlyAtRouter

LEMMA DropChange ==
    ASSUME SyncTypeOK, NEW x \in Object, Drop(x)
    PROVE  OnlyAtRouter(x)
  <1>1. CASE x \in Iface
    BY <1>1 DEF SyncTypeOK, Drop, OnlyAtRouter
  <1>2. CASE x \notin Iface
    BY <1>2 DEF SyncTypeOK, Drop, OnlyAtRouter, Object
  <1>3. QED
    BY <1>1, <1>2

(* What others change of an object that counts as touched from then on     *)
(* says nothing of the rest.                                               *)
LEMMA Undisturbed ==
    ASSUME SyncRunInv, rsSync' = rsSync, rsTouched \subseteq rsTouched',
           \A i \in Iface \ rsTouched' : rsIface'[i] = rsIface[i] /\ rsIfaces'[i] = rsIfaces[i],
           \A p \in WgPeer \ rsTouched' : rsPeer'[p] = rsPeer[p] /\ rsPeers'[p] = rsPeers[p],
           SyncTypeOK
    PROVE  SyncRunInv'
  <1> SUFFICES ASSUME rsSync # None PROVE SyncRunInv'
    BY DEF SyncRunInv
  <1>1. ListingOK /\ ListingOK' /\ rsSync.some \subseteq Object
    BY SyncAssumption DEF SyncRunInv, ListingOK, Object
  <1>2. ASSUME NEW x \in rsSync.some \ rsTouched'
        PROVE  /\ ListedAsIs(x)'
               /\ rsSync.pc = "save" => SavedAsListed(x)' /\ GoneIsGone(x)'
    <2>1. ListedAsIs(x) /\ (rsSync.pc = "save" => SavedAsListed(x) /\ GoneIsGone(x))
      BY DEF SyncRunInv
    <2>2. CASE x \in Iface
      <3>1. rsIface'[x] = rsIface[x] /\ rsIfaces'[x] = rsIfaces[x] /\ x \notin WgPeer
        BY <2>2, SyncAssumption
      <3>2. QED
        BY <2>1, <2>2, <3>1 DEF ListedAsIs, SavedAsListed, GoneIsGone, Row
    <2>3. CASE x \in WgPeer
      <3>1. rsPeer'[x] = rsPeer[x] /\ rsPeers'[x] = rsPeers[x] /\ x \notin Iface
        BY <2>3, SyncAssumption
      <3>2. ASSUME rsPeer[x] # None, rsPeer[x].iface \notin rsTouched'
            PROVE  InterfaceName(rsPeer[x].iface)' = InterfaceName(rsPeer[x].iface)
        <4>1. rsPeer[x].iface \in Iface
          BY <2>3, <3>2 DEF SyncTypeOK, RouterPeer
        <4>2. rsIface'[rsPeer[x].iface] = rsIface[rsPeer[x].iface]
          BY <3>2, <4>1
        <4>3. QED
          BY <3>1, <4>2 DEF InterfaceName
      <3>3. ListedAsIs(x)'
        BY <2>1, <2>3, <3>1, <3>2 DEF ListedAsIs
      <3>4. rsSync.pc = "save" => SavedAsListed(x)' /\ GoneIsGone(x)'
        BY <2>1, <2>3, <3>1 DEF SavedAsListed, GoneIsGone, Row
      <3>5. QED
        BY <3>3, <3>4
    <2>4. QED
      BY <1>1, <2>2, <2>3 DEF Object
  <1>3. QED
    BY <1>1, <1>2 DEF SyncRunInv

LEMMA TouchedRouter ==
    ASSUME SyncInv, NEW x \in Object, OnlyAtRouter(x), Touch(x),
           UNCHANGED <<rsTableVars, rsSync>>, CallTypeOK'
    PROVE  SyncInv'
  <1>1. SyncTypeOK'
    BY DEF SyncInv, SyncTypeOK, OnlyAtRouter, rsTableVars
  <1>2. SyncRunInv'
    BY Undisturbed DEF SyncInv, OnlyAtRouter, Touch, rsTableVars
  <1>3. QED
    BY <1>1, <1>2 DEF SyncInv

LEMMA TouchedTable ==
    ASSUME SyncInv, NEW x \in Object, SyncTypeOK', CallTypeOK', Touch(x),
           UNCHANGED <<rsRouterVars, rsSync>>,
           \A i \in Iface \ {x} : rsIfaces'[i] = rsIfaces[i],
           \A p \in WgPeer \ {x} : rsPeers'[p] = rsPeers[p]
    PROVE  SyncInv'
  <1>1. SyncRunInv'
    BY Undisturbed DEF SyncInv, Touch, rsRouterVars
  <1>2. QED
    BY <1>1 DEF SyncInv

LEMMA RouterEditInv == ASSUME SyncInv, RouterEdit PROVE SyncInv'
  <1>1. SyncTypeOK /\ CallTypeOK'
    BY DEF SyncInv, RouterEdit, CallTypeOK
  <1>2. UNCHANGED <<rsTableVars, rsSync>>
    BY DEF RouterEdit
  <1>3. PICK x \in Object : Touch(x) /\ OnlyAtRouter(x)
    BY <1>1, IfaceChange, PeerChange, DropChange DEF RouterEdit, Object
  <1>4. QED
    BY <1>1, <1>2, <1>3, TouchedRouter

LEMMA RequestRouterInv == ASSUME SyncInv, RequestRouter PROVE SyncInv'
  <1> DEFINE c == rsCall
             x == rsCall.id
  <1>1. /\ SyncTypeOK /\ CallTypeOK /\ c # None /\ x \in Object
        /\ UNCHANGED <<rsTableVars, rsSync>>
    BY DEF SyncInv, RequestRouter, CallTypeOK
  <1>2. CallTypeOK'
    <2>1. rsCall' = None \/ rsCall' = [rsCall EXCEPT !.pc = "row"]
      BY DEF RequestRouter
    <2>2. CASE rsCall' = [rsCall EXCEPT !.pc = "row"]
      <3>1. rsCall' = [pc |-> "row", op |-> c.op, id |-> c.id, new |-> c.new, row |-> c.row]
        BY <1>1, <2>2 DEF CallTypeOK
      <3>2. QED
        BY <1>1, <3>1 DEF CallTypeOK
    <2>3. QED
      BY <2>1, <2>2 DEF CallTypeOK
  <1>3. CASE UNCHANGED <<rsRouterVars, rsTouched>>
    <2>1. SyncTypeOK'
      BY <1>1, <1>3 DEF SyncTypeOK, rsRouterVars, rsTableVars
    <2>2. SyncRunInv'
      BY <1>1, <1>3, Undisturbed DEF SyncInv, rsRouterVars, rsTableVars
    <2>3. QED
      BY <1>2, <2>1, <2>2 DEF SyncInv
  <1>4. CASE x \in Iface /\ IfaceEffect(c) /\ Touch(x)
    <2>1. c.new \in RouterIface /\ (c.op # "create" => c.row \in IfaceRow)
      BY <1>1, <1>4 DEF CallTypeOK
    <2>2. rsIface[x] # None => rsIface[x] \in RouterIface
      BY <1>1, <1>4 DEF SyncTypeOK
    <2>3. [c.new EXCEPT !.off = FALSE] \in RouterIface
      BY <2>1 DEF RouterIface
    <2>4. rsIface[x] # None /\ c.op = "toggle" =>
            [rsIface[x] EXCEPT !.off = ~c.row.off] \in RouterIface
      BY <2>1, <2>2 DEF RouterIface, IfaceRow
    <2>5. rsIface[x] # None =>
            [rsIface[x] EXCEPT !.name = c.new.name, !.off = c.new.off] \in RouterIface
      BY <2>1, <2>2 DEF RouterIface
    <2>6. \/ NewIface(x, [c.new EXCEPT !.off = FALSE])
          \/ c.op = "toggle" /\ rsIface[x] # None /\ SetIface(x, [rsIface[x] EXCEPT !.off = ~c.row.off])
          \/ rsIface[x] # None
               /\ SetIface(x, [rsIface[x] EXCEPT !.name = c.new.name, !.off = c.new.off])
          \/ Drop(x)
      BY <1>4 DEF IfaceEffect
    <2>7. OnlyAtRouter(x)
      BY <1>1, <1>4, <2>3, <2>4, <2>5, <2>6, IfaceChange, DropChange
    <2>8. QED
      BY <1>1, <1>2, <1>4, <2>7, TouchedRouter
  <1>5. CASE x \notin Iface /\ PeerEffect(c) /\ Touch(x)
    <2>1. x \in WgPeer /\ c.new \in [addr : PeerAddress, off : BOOLEAN]
      BY <1>1, <1>5 DEF CallTypeOK, Object
    <2>2. rsPeer[x] # None => rsPeer[x] \in RouterPeer
      BY <1>1, <2>1 DEF SyncTypeOK
    <2>3. \A i \in Iface :
            [iface |-> i, addr |-> c.new.addr, off |-> FALSE, keyed |-> TRUE] \in RouterPeer
      BY <2>1 DEF RouterPeer
    <2>4. rsPeer[x] # None =>
            [rsPeer[x] EXCEPT !.addr = c.new.addr, !.off = c.new.off] \in RouterPeer
      BY <2>1, <2>2 DEF RouterPeer
    <2>5. \/ \E i \in Iface :
               NewPeer(x, [iface |-> i, addr |-> c.new.addr, off |-> FALSE, keyed |-> TRUE])
          \/ rsPeer[x] # None
               /\ SetPeer(x, [rsPeer[x] EXCEPT !.addr = c.new.addr, !.off = c.new.off])
          \/ Drop(x)
      <3>1. Present(rsIface) \subseteq Iface
        BY <1>1 DEF SyncTypeOK, Present
      <3>2. QED
        BY <1>5, <3>1 DEF PeerEffect
    <2>6. OnlyAtRouter(x)
      BY <1>1, <2>1, <2>3, <2>4, <2>5, PeerChange, DropChange
    <2>7. QED
      BY <1>1, <1>2, <1>5, <2>6, TouchedRouter
  <1>6. QED
    BY <1>3, <1>4, <1>5 DEF RequestRouter

LEMMA RequestRowInv == ASSUME SyncInv, RequestRow PROVE SyncInv'
  <1> DEFINE c == rsCall
             x == rsCall.id
  <1>1. /\ SyncTypeOK /\ CallTypeOK /\ c # None /\ x \in Object /\ rsCall' = None
        /\ UNCHANGED <<rsRouterVars, rsSync>>
    BY DEF SyncInv, RequestRow, CallTypeOK
  <1>2. CallTypeOK'
    BY <1>1 DEF CallTypeOK
  <1>3. CASE UNCHANGED <<rsTableVars, rsTouched>>
    <2>1. SyncTypeOK'
      BY <1>1, <1>3 DEF SyncTypeOK, rsRouterVars, rsTableVars
    <2>2. SyncRunInv'
      BY <1>1, <1>3, Undisturbed DEF SyncInv, rsRouterVars, rsTableVars
    <2>3. QED
      BY <1>2, <2>1, <2>2 DEF SyncInv
  <1>4. CASE x \in Iface /\ IfaceWrite(c) /\ UNCHANGED rsPeers /\ Touch(x)
    <2>1. c.new \in RouterIface /\ (c.op # "create" => c.row \in IfaceRow)
      BY <1>1, <1>4 DEF CallTypeOK
    <2>2. rsIfaces[x] # None => rsIfaces[x] \in IfaceRow
      BY <1>1, <1>4 DEF SyncTypeOK
    <2>3. [c.new EXCEPT !.off = FALSE] \in IfaceRow
      BY <2>1 DEF RouterIface, IfaceRow
    <2>4. rsIfaces[x] # None /\ c.op = "toggle" =>
            [rsIfaces[x] EXCEPT !.off = ~c.row.off] \in IfaceRow
      BY <2>1, <2>2 DEF IfaceRow
    <2>5. c.op = "update" => [c.row EXCEPT !.name = c.new.name, !.port = None] \in IfaceRow
      BY <2>1 DEF RouterIface, IfaceRow
    <2>6. \E row \in IfaceRow \cup {None} : rsIfaces' = [rsIfaces EXCEPT ![x] = row]
      <3>1. CASE c.op = "create"
        BY <1>4, <2>3, <3>1 DEF IfaceWrite
      <3>2. CASE c.op = "toggle"
        <4>1. rsIfaces' = [rsIfaces EXCEPT ![x] =
                IF rsIfaces[x] = None THEN None ELSE [rsIfaces[x] EXCEPT !.off = ~c.row.off]]
          BY <1>4, <3>2 DEF IfaceWrite
        <4>2. QED
          BY <2>4, <3>2, <4>1
      <3>3. CASE c.op = "update"
        BY <1>4, <2>5, <3>3 DEF IfaceWrite
      <3>4. CASE c.op = "delete"
        BY <1>4, <3>4 DEF IfaceWrite
      <3>5. QED
        BY <1>4, <3>1, <3>2, <3>3, <3>4 DEF IfaceWrite
    <2>7. /\ rsIfaces' \in [Iface -> IfaceRow \cup {None}]
          /\ \A i \in Iface \ {x} : rsIfaces'[i] = rsIfaces[i]
      BY <1>1, <1>4, <2>6 DEF SyncTypeOK
    <2>8. SyncTypeOK'
      BY <1>1, <1>4, <2>7 DEF SyncTypeOK, rsRouterVars
    <2>9. QED
      BY <1>1, <1>2, <1>4, <2>7, <2>8, TouchedTable
  <1>5. CASE x \notin Iface /\ PeerWrite(c) /\ UNCHANGED rsIfaces /\ Touch(x)
    <2>1. /\ x \in WgPeer /\ c.new \in [addr : PeerAddress, off : BOOLEAN]
          /\ c.op = "create" => c.row \in IfaceRow
      BY <1>1, <1>5 DEF CallTypeOK, Object
    <2>2. rsPeers[x] # None => rsPeers[x] \in PeerRow
      BY <1>1, <2>1 DEF SyncTypeOK
    <2>3. \E row \in PeerRow \cup {None} : rsPeers' = [rsPeers EXCEPT ![x] = row]
      <3>1. CASE c.op = "create"
        <4>1. [iface |-> c.row.name, addr |-> c.new.addr, off |-> FALSE, port |-> c.row.port,
               kept |-> "new"] \in PeerRow
          BY <2>1, <3>1 DEF IfaceRow, PeerRow
        <4>2. QED
          BY <1>5, <3>1, <4>1 DEF PeerWrite
      <3>2. CASE c.op = "update"
        <4>1. rsPeers' = [rsPeers EXCEPT ![x] = IF rsPeers[x] = None THEN None
                 ELSE [rsPeers[x] EXCEPT !.addr = c.new.addr, !.off = c.new.off]]
          BY <1>5, <3>2 DEF PeerWrite
        <4>2. rsPeers[x] # None =>
                [rsPeers[x] EXCEPT !.addr = c.new.addr, !.off = c.new.off] \in PeerRow
          BY <2>1, <2>2 DEF PeerRow
        <4>3. QED
          BY <4>1, <4>2
      <3>3. CASE c.op = "delete"
        BY <1>5, <3>3 DEF PeerWrite
      <3>4. QED
        BY <1>5, <3>1, <3>2, <3>3 DEF PeerWrite
    <2>4. /\ rsPeers' \in [WgPeer -> PeerRow \cup {None}]
          /\ \A p \in WgPeer \ {x} : rsPeers'[p] = rsPeers[p]
      BY <1>1, <2>3 DEF SyncTypeOK
    <2>5. SyncTypeOK'
      BY <1>1, <1>5, <2>4 DEF SyncTypeOK, rsRouterVars
    <2>6. QED
      BY <1>1, <1>2, <1>5, <2>4, <2>5, TouchedTable
  <1>6. QED
    BY <1>3, <1>4, <1>5 DEF RequestRow

LEMMA RequestBeginInv ==
    ASSUME SyncInv, NEW x, NEW op, NEW i \in Iface, NEW new,
           \/ x \in Iface /\ new \in RouterIface
           \/ x \in WgPeer /\ new \in [addr : PeerAddress, off : BOOLEAN],
           RequestBegin(x, op, i, new)
    PROVE  SyncInv'
  <1>1. SyncTypeOK /\ (x \in Iface \/ x \in WgPeer) /\ ~(x \in Iface /\ x \in WgPeer)
    BY SyncAssumption DEF SyncInv
  <1>2. UNCHANGED <<rsRouterVars, rsTableVars, rsSync, rsTouched>>
    BY DEF RequestBegin
  <1>3. SyncTypeOK' /\ SyncRunInv'
    BY <1>2, Undisturbed DEF SyncInv, SyncTypeOK, rsRouterVars, rsTableVars
  <1>4. PICK row : rsCall' = [pc |-> "router", op |-> op, id |-> x, new |-> new, row |-> row]
                   /\ row = (IF op = "create" /\ x \in WgPeer THEN Row(i) ELSE Row(x))
    BY DEF RequestBegin
  <1>5. Row(i) = rsIfaces[i] /\ rsIfaces[i] \in IfaceRow \cup {None}
    BY <1>1 DEF Row, SyncTypeOK
  <1>6. CallTypeOK'
    <2>1. CASE x \in Iface
      <3>1. row = rsIfaces[x] /\ (op # "create" => row # None) /\ new \in RouterIface
        BY <1>1, <1>4, <2>1 DEF RequestBegin, Row
      <3>2. row \in IfaceRow \cup {None}
        BY <1>1, <2>1, <3>1 DEF SyncTypeOK
      <3>3. QED
        BY <1>1, <1>4, <2>1, <3>1, <3>2 DEF CallTypeOK, Object
    <2>2. CASE x \in WgPeer
      <3>1. op = "create" => row \in IfaceRow
        BY <1>4, <1>5, <2>2 DEF RequestBegin
      <3>2. new \in [addr : PeerAddress, off : BOOLEAN]
        BY <1>1, <2>2
      <3>3. QED
        BY <1>1, <1>4, <2>2, <3>1, <3>2 DEF CallTypeOK, Object
    <2>3. QED
      BY <1>1, <2>1, <2>2
  <1>7. QED
    BY <1>3, <1>6 DEF SyncInv

LEMMA OtherColumnsInv ==
    ASSUME SyncInv, NEW p \in WgPeer, OtherColumns(p)
    PROVE  SyncInv'
  <1>1. PICK k \in {"new", "used"} : rsPeers' = [rsPeers EXCEPT ![p].kept = k]
    BY DEF OtherColumns
  <1>2. /\ SyncTypeOK /\ rsPeers[p] \in PeerRow
        /\ UNCHANGED <<rsRouterVars, rsIfaces, rsSync, rsCall>> /\ Touch(p)
    BY DEF SyncInv, SyncTypeOK, OtherColumns
  <1>3. [rsPeers[p] EXCEPT !.kept = k] \in PeerRow
    BY <1>2 DEF PeerRow
  <1>4. rsPeers' = [rsPeers EXCEPT ![p] = [rsPeers[p] EXCEPT !.kept = k]]
    BY <1>1
  <1>5. SyncTypeOK' /\ \A q \in WgPeer \ {p} : rsPeers'[q] = rsPeers[q]
    BY <1>2, <1>3, <1>4 DEF SyncTypeOK, rsRouterVars
  <1>6. CallTypeOK'
    BY <1>2 DEF SyncInv, CallTypeOK
  <1>7. QED
    BY <1>2, <1>5, <1>6, TouchedTable DEF Object

-----------------------------------------------------------------------------
LEMMA SyncListInv ==
    ASSUME SyncInv, NEW kind \in {Iface, WgPeer}, NEW whole \in BOOLEAN, NEW some \in SUBSET kind,
           SyncList(kind, whole, some)
    PROVE  SyncInv'
  <1>1. SyncTypeOK /\ UNCHANGED <<rsRouterVars, rsTableVars, rsCall>> /\ rsTouched' = {}
    BY DEF SyncInv, SyncList
  <1> DEFINE listed == [x \in some |-> Listed(x)]
  <1>2. rsSync' = [pc |-> "table", kind |-> kind, whole |-> whole, some |-> some,
                   listed |-> listed, known |-> <<>>, todo |-> {}]
        /\ (whole => some = kind)
    BY DEF SyncList
  <1>3. \A x \in some \cap Iface : listed[x] = rsIface[x] /\ rsIface[x] \in RouterIface \cup {None}
    BY <1>1 DEF Listed, SyncTypeOK
  <1>4. ASSUME NEW x \in some \cap WgPeer
        PROVE  /\ rsPeer[x] = None => listed[x] = None
               /\ rsPeer[x] # None =>
                    /\ listed[x] \in ListedPeer /\ listed[x] # None
                    /\ listed[x].addr = rsPeer[x].addr /\ listed[x].off = rsPeer[x].off
                    /\ listed[x].keyed = rsPeer[x].keyed
                    /\ listed[x].iface = InterfaceName(rsPeer[x].iface)
    <2>1. x \notin Iface /\ listed[x] = Listed(x)
      BY <1>4, SyncAssumption
    <2>2. CASE rsPeer[x] = None
      BY <2>1, <2>2 DEF Listed
    <2>3. CASE rsPeer[x] # None
      <3>1. rsPeer[x] \in RouterPeer
        BY <1>1, <1>4, <2>3 DEF SyncTypeOK
      <3>2. listed[x] = [ iface |-> InterfaceName(rsPeer[x].iface), addr |-> rsPeer[x].addr,
                          off |-> rsPeer[x].off, keyed |-> rsPeer[x].keyed ]
        BY <2>1, <2>3 DEF Listed, InterfaceName
      <3>3. InterfaceName(rsPeer[x].iface) \in IfaceName \cup {None}
        BY <1>1, <3>1 DEF InterfaceName, SyncTypeOK, RouterPeer, RouterIface
      <3>4. listed[x] \in ListedPeer
        BY <3>1, <3>2, <3>3 DEF ListedPeer, RouterPeer
      <3>5. QED
        BY <2>3, <3>2, <3>4, SyncAssumption
    <2>4. QED
      BY <2>2, <2>3
  <1> HIDE DEF listed
  <1>5. DOMAIN listed = some
    BY DEF listed
  <1>6. ListingOK'
    BY <1>2, <1>3, <1>4, <1>5 DEF ListingOK, Present
  <1>7. \A x \in some : ListedAsIs(x)'
    BY <1>1, <1>2, <1>3, <1>4 DEF ListedAsIs, InterfaceName, rsRouterVars
  <1>8. SyncRunInv'
    BY <1>2, <1>6, <1>7 DEF SyncRunInv
  <1>9. QED
    BY <1>1, <1>8 DEF SyncInv, SyncTypeOK, CallTypeOK, rsRouterVars, rsTableVars

LEMMA SyncTableInv == ASSUME SyncInv, SyncTable PROVE SyncInv'
  <1>1. /\ SyncTypeOK /\ rsSync # None /\ ListingOK
        /\ UNCHANGED <<rsRouterVars, rsTableVars, rsCall, rsTouched>>
    BY DEF SyncInv, SyncRunInv, SyncTable
  <1>2. SyncTypeOK' /\ CallTypeOK'
    BY <1>1 DEF SyncInv, SyncTypeOK, CallTypeOK, rsRouterVars, rsTableVars
  <1> DEFINE known == [x \in rsSync.kind |-> Row(x)]
             there == Present(rsSync.listed)
  <1>3. CASE rsSync' = [rsSync EXCEPT !.pc = "save", !.known = known, !.todo = there]
    <2>1. rsSync' = [ pc |-> "save", kind |-> rsSync.kind, whole |-> rsSync.whole,
                      some |-> rsSync.some, listed |-> rsSync.listed, known |-> known,
                      todo |-> there ]
      BY <1>1, <1>3 DEF ListingOK
    <2>2. \A x \in rsSync.kind : known[x] = Row(x)
      OBVIOUS
    <2>3. \A x \in rsSync.kind \cap WgPeer : known[x] \in PeerRow \cup {None}
      BY <1>1, SyncAssumption DEF Row, SyncTypeOK
    <2>4. DOMAIN known = rsSync.kind
      OBVIOUS
    <2> HIDE DEF known
    <2>5. ListingOK'
      BY <1>1, <2>1, <2>3, <2>4 DEF ListingOK
    <2>6. ASSUME NEW x \in rsSync.some \ rsTouched
          PROVE  ListedAsIs(x)' /\ SavedAsListed(x)' /\ GoneIsGone(x)'
      <3>1. x \in rsSync.kind /\ Row(x)' = Row(x)
        BY <1>1 DEF ListingOK, Row, rsTableVars
      <3>2. ListedAsIs(x)'
        BY <1>1, <2>1 DEF SyncInv, SyncRunInv, ListedAsIs, InterfaceName, rsRouterVars
      <3>3. rsSync.listed[x] # None => x \in there
        BY <1>1 DEF ListingOK, Present
      <3>4. SavedAsListed(x)'
        BY <2>1, <3>3 DEF SavedAsListed
      <3>5. GoneIsGone(x)'
        BY <2>1, <2>2, <3>1 DEF GoneIsGone
      <3>6. QED
        BY <3>2, <3>4, <3>5
    <2>7. SyncRunInv'
      BY <1>1, <2>1, <2>5, <2>6 DEF SyncRunInv
    <2>8. QED
      BY <1>2, <2>7 DEF SyncInv
  <1>4. CASE rsSync' = None
    BY <1>2, <1>4 DEF SyncInv, SyncRunInv
  <1>5. QED
    BY <1>3, <1>4 DEF SyncTable

(* One row less to save. *)
LEMMA SavedOne ==
    ASSUME SyncInv, NEW x \in Object, rsSync # None, rsSync.pc = "save", x \in rsSync.todo,
           rsSync' = [rsSync EXCEPT !.todo = @ \ {x}],
           UNCHANGED <<rsRouterVars, rsCall, rsTouched>>, SyncTypeOK',
           \A i \in Iface \ {x} : rsIfaces'[i] = rsIfaces[i],
           \A p \in WgPeer \ {x} : rsPeers'[p] = rsPeers[p],
           SavedAsListed(x)'
    PROVE  SyncInv'
  <1>1. SyncTypeOK /\ ListingOK /\ CallTypeOK'
    BY DEF SyncInv, SyncRunInv, CallTypeOK
  <1>2. rsSync' = [ pc |-> "save", kind |-> rsSync.kind, whole |-> rsSync.whole,
                    some |-> rsSync.some, listed |-> rsSync.listed, known |-> rsSync.known,
                    todo |-> rsSync.todo \ {x} ]
    BY <1>1 DEF ListingOK
  <1>3. ListingOK'
    BY <1>1, <1>2 DEF ListingOK
  <1>4. ASSUME NEW y \in rsSync.some \ rsTouched
        PROVE  ListedAsIs(y)' /\ SavedAsListed(y)' /\ GoneIsGone(y)'
    <2>1. ListedAsIs(y) /\ SavedAsListed(y) /\ GoneIsGone(y)
      BY DEF SyncInv, SyncRunInv
    <2>2. ListedAsIs(y)'
      BY <1>2, <2>1 DEF ListedAsIs, InterfaceName, rsRouterVars
    <2>3. CASE y = x
      <3>1. rsSync.listed[y] # None
        BY <1>1, <2>3 DEF ListingOK, Present
      <3>2. GoneIsGone(y)'
        BY <1>2, <3>1 DEF GoneIsGone
      <3>3. QED
        BY <2>2, <2>3, <3>2
    <2>4. CASE y # x
      <3>1. Row(y)' = Row(y) /\ (y \in Iface => rsIfaces'[y] = rsIfaces[y])
            /\ (y \in WgPeer => rsPeers'[y] = rsPeers[y])
        BY <1>1, <2>4 DEF ListingOK, Row
      <3>2. SavedAsListed(y)'
        BY <1>2, <2>1, <2>4, <3>1 DEF SavedAsListed
      <3>3. GoneIsGone(y)'
        BY <1>2, <2>1, <3>1 DEF GoneIsGone
      <3>4. QED
        BY <2>2, <3>2, <3>3
    <2>5. QED
      BY <2>3, <2>4
  <1>5. SyncRunInv'
    BY <1>2, <1>3, <1>4 DEF SyncRunInv
  <1>6. QED
    BY <1>1, <1>5 DEF SyncInv

LEMMA SyncIfaceInv ==
    ASSUME SyncInv, NEW i \in Iface, SyncIface(i)
    PROVE  SyncInv'
  <1> DEFINE row == RowOfIface(rsSync.listed[i])
  <1>1. /\ SyncTypeOK /\ rsSync # None /\ rsSync.pc = "save" /\ i \in rsSync.todo /\ ListingOK
        /\ rsIfaces' = [rsIfaces EXCEPT ![i] = row]
        /\ rsSync' = [rsSync EXCEPT !.todo = @ \ {i}]
        /\ UNCHANGED <<rsRouterVars, rsPeers, rsCall, rsTouched>>
    BY DEF SyncInv, SyncRunInv, SyncIface
  <1>2. rsSync.listed[i] \in RouterIface
    BY <1>1 DEF ListingOK, Present
  <1>3. row \in IfaceRow
    BY <1>2 DEF RowOfIface, RouterIface, IfaceRow
  <1>4. rsIfaces'[i] = row /\ \A j \in Iface \ {i} : rsIfaces'[j] = rsIfaces[j]
    BY <1>1 DEF SyncTypeOK
  <1>5. SyncTypeOK'
    BY <1>1, <1>3 DEF SyncTypeOK, rsRouterVars
  <1>6. rsSync'.listed = rsSync.listed
    BY <1>1 DEF ListingOK
  <1>7. SavedAsListed(i)'
    BY <1>4, <1>6, SyncAssumption DEF SavedAsListed
  <1>8. QED
    BY <1>1, <1>4, <1>5, <1>7, SavedOne DEF Object

LEMMA SyncPeerInv ==
    ASSUME SyncInv, NEW p \in WgPeer, SyncPeer(p)
    PROVE  SyncInv'
  <1> DEFINE peer == rsSync.listed[p]
  <1>1. /\ SyncTypeOK /\ rsSync # None /\ rsSync.pc = "save" /\ p \in rsSync.todo /\ ListingOK
        /\ rsSync' = [rsSync EXCEPT !.todo = @ \ {p}]
        /\ UNCHANGED <<rsRouterVars, rsIfaces, rsCall, rsTouched>>
    BY DEF SyncInv, SyncRunInv, SyncPeer
  <1>2. peer \in ListedPeer /\ rsSync.known[p] \in PeerRow \cup {None}
    BY <1>1 DEF ListingOK, Present
  <1>3. rsSync'.listed = rsSync.listed /\ rsSync'.known = rsSync.known
    BY <1>1 DEF ListingOK
  <1>4. CASE ~peer.keyed /\ UNCHANGED rsPeers
    <2>1. SavedAsListed(p)'
      BY <1>3, <1>4, SyncAssumption DEF SavedAsListed
    <2>2. SyncTypeOK'
      BY <1>1, <1>4 DEF SyncTypeOK, rsRouterVars
    <2>3. QED
      BY <1>1, <1>4, <2>1, <2>2, SavedOne DEF Object
  <1>5. CASE ~(~peer.keyed /\ UNCHANGED rsPeers)
    <2>1. PICK i \in Present(rsIfaces) :
               /\ rsIfaces[i].name = peer.iface
               /\ rsPeers' = [rsPeers EXCEPT ![p] =
                    [ iface |-> peer.iface, addr |-> peer.addr, off |-> peer.off,
                      port |-> rsIfaces[i].port, kept |-> Kept(rsSync.known[p]) ]]
      BY <1>5 DEF SyncPeer
    <2> DEFINE row == [ iface |-> peer.iface, addr |-> peer.addr, off |-> peer.off,
                        port |-> rsIfaces[i].port, kept |-> Kept(rsSync.known[p]) ]
    <2>2. rsIfaces[i] \in IfaceRow
      BY <1>1 DEF SyncTypeOK, Present
    <2>3. Kept(rsSync.known[p]) \in {"new", "used"}
      BY <1>2 DEF Kept, PeerRow
    <2>4. row \in PeerRow
      BY <1>2, <2>1, <2>2, <2>3 DEF ListedPeer, PeerRow, IfaceRow
    <2>5. rsPeers' = [rsPeers EXCEPT ![p] = row]
      BY <2>1
    <2>6. rsPeers'[p] = row /\ \A q \in WgPeer \ {p} : rsPeers'[q] = rsPeers[q]
      BY <1>1, <2>5 DEF SyncTypeOK
    <2>7. SyncTypeOK'
      BY <1>1, <2>4, <2>5 DEF SyncTypeOK, rsRouterVars
    <2>8. SavedAsListed(p)'
      BY <1>3, <2>4, <2>6, SyncAssumption DEF SavedAsListed, Own, Kept
    <2>9. QED
      BY <1>1, <2>6, <2>7, <2>8, SavedOne DEF Object
  <1>6. QED
    BY <1>4, <1>5 DEF SyncPeer

LEMMA SyncRemoveInv ==
    ASSUME SyncInv, NEW p \in WgPeer, SyncRemove(p)
    PROVE  SyncInv'
  <1>1. /\ SyncTypeOK /\ rsSync # None /\ rsSync.pc = "save" /\ rsSync.whole /\ ListingOK
        /\ p \in Present(rsSync.known) \ Present(rsSync.listed)
        /\ rsPeers' = [rsPeers EXCEPT ![p] = None]
        /\ rsSync' = [rsSync EXCEPT !.known[p] = None]
        /\ UNCHANGED <<rsRouterVars, rsIfaces, rsCall, rsTouched>>
    BY DEF SyncInv, SyncRunInv, SyncRemove, Stale
  <1> DEFINE known == [rsSync.known EXCEPT ![p] = None]
  <1>2. rsSync' = [ pc |-> "save", kind |-> rsSync.kind, whole |-> rsSync.whole,
                    some |-> rsSync.some, listed |-> rsSync.listed, known |-> known,
                    todo |-> rsSync.todo ]
    BY <1>1 DEF ListingOK
  <1>3. /\ DOMAIN known = rsSync.kind /\ known[p] = None
        /\ \A x \in rsSync.kind \ {p} : known[x] = rsSync.known[x]
    BY <1>1 DEF ListingOK, Present
  <1> HIDE DEF known
  <1>4. SyncTypeOK' /\ CallTypeOK'
    BY <1>1 DEF SyncInv, SyncTypeOK, CallTypeOK, rsRouterVars
  <1>5. rsPeers'[p] = None /\ \A q \in WgPeer \ {p} : rsPeers'[q] = rsPeers[q]
    BY <1>1 DEF SyncTypeOK
  <1>6. ListingOK'
    BY <1>1, <1>2, <1>3 DEF ListingOK
  <1>7. p \in rsSync.some => rsSync.listed[p] = None
    BY <1>1 DEF ListingOK, Present
  <1>8. ASSUME NEW x \in rsSync.some \ rsTouched
        PROVE  ListedAsIs(x)' /\ SavedAsListed(x)' /\ GoneIsGone(x)'
    <2>1. ListedAsIs(x) /\ SavedAsListed(x) /\ GoneIsGone(x) /\ x \in rsSync.kind
      BY <1>1 DEF SyncInv, SyncRunInv, ListingOK
    <2>2. ListedAsIs(x)'
      BY <1>1, <1>2, <2>1 DEF ListedAsIs, InterfaceName, rsRouterVars
    <2>3. CASE x = p
      <3>1. Row(x)' = None
        BY <1>5, <2>3, SyncAssumption DEF Row
      <3>2. QED
        BY <1>2, <1>7, <2>2, <2>3, <3>1 DEF SavedAsListed, GoneIsGone
    <2>4. CASE x # p
      <3>1. known[x] = rsSync.known[x] /\ Row(x)' = Row(x) /\ (x \in WgPeer => rsPeers'[x] = rsPeers[x])
        BY <1>1, <1>3, <1>5, <2>1, <2>4 DEF Row, ListingOK
      <3>2. SavedAsListed(x)'
        BY <1>1, <1>2, <2>1, <3>1 DEF SavedAsListed
      <3>3. GoneIsGone(x)'
        BY <1>2, <2>1, <3>1 DEF GoneIsGone
      <3>4. QED
        BY <2>2, <3>2, <3>3
    <2>5. QED
      BY <2>3, <2>4
  <1>9. SyncRunInv'
    BY <1>1, <1>2, <1>6, <1>8 DEF SyncRunInv
  <1>10. QED
    BY <1>4, <1>9 DEF SyncInv

LEMMA SyncStep == ASSUME SyncInv, [SyncNext]_rsVars PROVE SyncInv'
  <1>1. ASSUME NEW kind \in {Iface, WgPeer}, NEW whole \in BOOLEAN, NEW some \in SUBSET kind,
               SyncList(kind, whole, some)
        PROVE  SyncInv'
    BY <1>1, SyncListInv
  <1>2. CASE SyncEnd \/ SyncFail
    <2>1. rsSync' = None /\ UNCHANGED <<rsRouterVars, rsTableVars, rsCall>>
      BY <1>2 DEF SyncEnd, SyncFail
    <2>2. QED
      BY <2>1 DEF SyncInv, SyncTypeOK, CallTypeOK, SyncRunInv, rsRouterVars, rsTableVars
  <1>3. ASSUME NEW op, NEW i \in Iface, NEW new \in RouterIface, RequestBegin(i, op, i, new)
        PROVE  SyncInv'
    BY <1>3, RequestBeginInv
  <1>4. ASSUME NEW op, NEW p \in WgPeer, NEW i \in Iface, NEW a \in PeerAddress,
               NEW off \in BOOLEAN, RequestBegin(p, op, i, [addr |-> a, off |-> off])
        PROVE  SyncInv'
    <2>1. [addr |-> a, off |-> off] \in [addr : PeerAddress, off : BOOLEAN]
      OBVIOUS
    <2>2. QED
      BY <1>4, <2>1, RequestBeginInv
  <1>5. CASE UNCHANGED rsVars
    <2>1. UNCHANGED <<rsRouterVars, rsTableVars, rsSync, rsCall, rsTouched>>
      BY <1>5 DEF rsVars
    <2>2. SyncRunInv'
      BY <2>1, Undisturbed DEF SyncInv, rsRouterVars, rsTableVars
    <2>3. QED
      BY <2>1, <2>2 DEF SyncInv, SyncTypeOK, CallTypeOK, rsRouterVars, rsTableVars
  <1>6. QED
    BY <1>1, <1>2, <1>3, <1>4, <1>5, SyncTableInv, SyncIfaceInv, SyncPeerInv, SyncRemoveInv,
       OtherColumnsInv, RouterEditInv, RequestRouterInv, RequestRowInv DEF SyncNext

(* A synchronisation that ends well has made the rows what the router says *)
(* of the objects it was asked for that nobody else changed since it       *)
(* listed them, and a whole one has left no row of what is gone: for any   *)
(* number of objects, synchronisations, requests and edits.                *)
THEOREM SyncAgreesTheorem == SyncSpec => SyncAgrees
  <1> DEFINE Agrees(x) ==
        /\ x \in Iface /\ rsIface[x] # None => rsIfaces[x] = RowOfIface(rsIface[x])
        /\ x \in WgPeer /\ rsPeer[x] # None /\ rsPeer[x].keyed /\ rsPeer[x].iface \notin rsTouched =>
              /\ rsPeers[x] # None
              /\ rsPeers[x].iface = rsIface[rsPeer[x].iface].name
              /\ rsPeers[x].addr = rsPeer[x].addr /\ rsPeers[x].off = rsPeer[x].off
              /\ rsPeers[x].kept = Own(rsSync.known[x])
        /\ rsSync.whole /\ Listed(x) = None => Row(x) = None
  <1>1. ASSUME SyncInv, SyncEnd, NEW x \in rsSync.some \ rsTouched
        PROVE  Agrees(x)
    <2> DEFINE entry == rsSync.listed[x]
    <2>1. /\ SyncTypeOK /\ ListingOK /\ rsSync.pc = "save" /\ rsSync.todo = {}
          /\ rsSync.whole => Stale = {}
          /\ ListedAsIs(x) /\ SavedAsListed(x) /\ GoneIsGone(x)
      BY <1>1 DEF SyncInv, SyncRunInv, SyncEnd
    <2>2. x \in Iface /\ rsIface[x] # None => rsIfaces[x] = RowOfIface(rsIface[x])
      BY <2>1 DEF ListedAsIs, SavedAsListed
    <2>3. ASSUME x \in WgPeer, rsPeer[x] # None, rsPeer[x].keyed, rsPeer[x].iface \notin rsTouched
          PROVE  /\ rsPeers[x] # None
                 /\ rsPeers[x].iface = rsIface[rsPeer[x].iface].name
                 /\ rsPeers[x].addr = rsPeer[x].addr /\ rsPeers[x].off = rsPeer[x].off
                 /\ rsPeers[x].kept = Own(rsSync.known[x])
      <3>1. /\ rsPeers[x] # None /\ rsPeers[x].iface = InterfaceName(rsPeer[x].iface)
            /\ rsPeers[x].addr = rsPeer[x].addr /\ rsPeers[x].off = rsPeer[x].off
            /\ rsPeers[x].kept = Own(rsSync.known[x])
        BY <2>1, <2>3 DEF ListedAsIs, SavedAsListed
      <3>2. rsPeers[x].iface \in IfaceName
        BY <2>1, <2>3, <3>1 DEF SyncTypeOK, PeerRow
      <3>3. InterfaceName(rsPeer[x].iface) = rsIface[rsPeer[x].iface].name
        BY <3>1, <3>2, SyncAssumption DEF InterfaceName
      <3>4. QED
        BY <3>1, <3>3
    <2>4. ASSUME rsSync.whole, Listed(x) = None
          PROVE  Row(x) = None
      <3>1. entry = None
        <4>1. CASE x \in Iface
          BY <2>1, <2>4, <4>1 DEF ListedAsIs, Listed
        <4>2. CASE x \in WgPeer
          <5>1. rsPeer[x] = None
            <6> SUFFICES ASSUME rsPeer[x] # None PROVE FALSE
              OBVIOUS
            <6>1. rsPeer[x] \in RouterPeer
              BY <2>1, <4>2 DEF SyncTypeOK
            <6>2. Listed(x) = [ iface |-> InterfaceName(rsPeer[x].iface), addr |-> rsPeer[x].addr,
                                off |-> rsPeer[x].off, keyed |-> rsPeer[x].keyed ]
              BY <4>2, SyncAssumption DEF Listed, InterfaceName
            <6>3. InterfaceName(rsPeer[x].iface) \in IfaceName \cup {None}
              BY <2>1, <6>1 DEF InterfaceName, SyncTypeOK, RouterPeer, RouterIface
            <6>4. Listed(x) \in ListedPeer
              BY <6>1, <6>2, <6>3 DEF ListedPeer, RouterPeer
            <6>5. QED
              BY <2>4, <6>4, SyncAssumption
          <5>2. QED
            BY <2>1, <4>2, <5>1 DEF ListedAsIs
        <4>3. QED
          BY <2>1, <4>1, <4>2 DEF ListingOK
      <3>2. rsSync.known[x] = None
        BY <2>1, <2>4, <3>1 DEF ListingOK, Stale, Present
      <3>3. QED
        BY <2>1, <3>1, <3>2 DEF GoneIsGone
    <2>5. QED
      BY <2>2, <2>3, <2>4
  <1>2. SyncInv /\ [SyncNext]_rsVars =>
          [SyncEnd => \A x \in rsSync.some \ rsTouched : Agrees(x)]_rsVars
    BY <1>1
  <1>3. QED
    BY <1>2, SyncInitInv, SyncStep, PTL DEF SyncSpec, SyncAgrees

-----------------------------------------------------------------------------
(* Addresses as numbers.  What is shown for every octet is shown by the     *)
(* least number of a set: the set of the octets it would fail for.          *)

LEMMA SumNat == \A x, y, z \in Nat : x * y + z \in Nat
  OBVIOUS

LEMMA ProductNat == \A x, y \in Nat : x * y \in Nat
  OBVIOUS

LEMMA Carry == \A x, y \in Nat : (x + 1) * y = x * y + y
  OBVIOUS

LEMMA LeastNumber ==
    ASSUME NEW T, T \subseteq Nat, T # {}
    PROVE  \E n \in T : \A m \in T : n <= m
  <1> DEFINE R == OpToRel(<, Nat)
  <1>1. IsWellFoundedOn(R, Nat)
    BY NatLessThanWellFounded, Zenon
  <1> HIDE DEF R
  <1>2. PICK n \in T : \A m \in T : ~(<<m, n>> \in R)
    BY <1>1, WFMin
  <1>3. \A m, k \in Nat : m < k => <<m, k>> \in R
    BY DEF R, OpToRel
  <1>4. ASSUME NEW m \in T PROVE n <= m
    <2>1. n \in Nat /\ m \in Nat /\ <<m, n>> \notin R
      BY <1>2
    <2>2. ~(m < n)
      BY <1>3, <2>1
    <2>3. QED
      BY <2>1, <2>2
  <1>5. QED
    BY <1>4

(* Induction over the octets, for a set of positions. *)
LEMMA OctetInduction ==
    ASSUME NEW n \in Nat, NEW T, 0 \in T, \A k \in 0 .. n : k < n /\ k \in T => k + 1 \in T
    PROVE  \A k \in 0 .. n : k \in T
  <1> SUFFICES ASSUME (0 .. n) \ T # {} PROVE FALSE
    OBVIOUS
  <1>1. PICK k \in (0 .. n) \ T : \A m \in (0 .. n) \ T : k <= m
    <2>1. (0 .. n) \ T \subseteq Nat
      OBVIOUS
    <2>2. QED
      BY <2>1, LeastNumber
  <1>2. k # 0 /\ k - 1 \in 0 .. n /\ k - 1 < k /\ k - 1 < n
    OBVIOUS
  <1>3. k - 1 \in T
    BY <1>1, <1>2
  <1>4. (k - 1) + 1 \in T
    BY <1>2, <1>3
  <1>5. QED
    BY <1>4

(* The numbers of the address's first octets. *)
Follows(f, a, n) ==
    f[0] = 0 /\ \A k \in 1 .. n : f[k] = f[k - 1] * Base + a[k]

LEMMA OctetFacts ==
    ASSUME NEW a \in IP
    PROVE  /\ Base \in Nat /\ Base > 1 /\ Width \in Nat /\ Width >= 1
           /\ \A k \in 1 .. Width : a[k] \in Nat /\ a[k] < Base
  BY PoolAssumption DEF IP, Octet

LEMMA NumbersExist ==
    ASSUME NEW a \in IP, NEW n \in 0 .. Width
    PROVE  \E f \in [0 .. n -> Nat] : Follows(f, a, n)
  <1> DEFINE T == {m \in 0 .. Width : \E f \in [0 .. m -> Nat] : Follows(f, a, m)}
  <1>1. 0 \in T
    <2>1. [k \in 0 .. 0 |-> 0] \in [0 .. 0 -> Nat]
      OBVIOUS
    <2>2. Follows([k \in 0 .. 0 |-> 0], a, 0)
      BY DEF Follows
    <2>3. 0 \in 0 .. Width
      BY OctetFacts
    <2>4. QED
      BY <2>1, <2>2, <2>3
  <1>2. ASSUME NEW m \in 0 .. Width, m < Width, m \in T
        PROVE  m + 1 \in T
    <2>1. PICK f \in [0 .. m -> Nat] : Follows(f, a, m)
      BY <1>2
    <2> DEFINE last == f[m] * Base + a[m + 1]
               g == [k \in 0 .. m + 1 |-> IF k = m + 1 THEN last ELSE f[k]]
    <2>2. m \in Nat /\ m + 1 \in 1 .. Width /\ m + 1 \in 0 .. Width
      BY <1>2, OctetFacts
    <2>3. f[m] \in Nat /\ a[m + 1] \in Nat /\ Base \in Nat
      BY <2>1, <2>2, OctetFacts
    <2>4. last \in Nat
      BY <2>3, SumNat
    <2>5. \A k \in 0 .. m : g[k] = f[k]
      BY <2>2
    <2>6. g[m + 1] = last
      BY <2>2
    <2>7. g \in [0 .. m + 1 -> Nat]
      BY <2>2, <2>4
    <2> HIDE DEF g, last
    <2>8. ASSUME NEW k \in 1 .. m + 1
          PROVE  g[k] = g[k - 1] * Base + a[k]
      <3>1. CASE k = m + 1
        <4>1. k - 1 = m /\ m \in 0 .. m
          BY <2>2, <3>1
        <4>2. g[k - 1] = f[m]
          BY <2>5, <4>1
        <4>3. QED
          BY <2>6, <3>1, <4>2 DEF last
      <3>2. CASE k # m + 1
        <4>1. k \in 1 .. m /\ k \in 0 .. m /\ k - 1 \in 0 .. m
          BY <2>2, <3>2
        <4>2. f[k] = f[k - 1] * Base + a[k]
          BY <2>1, <4>1 DEF Follows
        <4>3. QED
          BY <2>5, <4>1, <4>2
      <3>3. QED
        BY <3>1, <3>2
    <2>9. Follows(g, a, m + 1)
      BY <2>1, <2>2, <2>5, <2>8 DEF Follows
    <2>10. QED
      BY <2>2, <2>7, <2>9
  <1>3. n \in T
    BY <1>1, <1>2, OctetFacts, OctetInduction
  <1>4. QED
    BY <1>3

(* Number is what its definition says. *)
LEMMA NumberIsSum ==
    ASSUME NEW a \in IP
    PROVE  \E f \in [0 .. Width -> Nat] : Follows(f, a, Width) /\ Number(a) = f[Width]
  <1> DEFINE Sums(f) == f = [k \in 0 .. Width |-> IF k = 0 THEN 0 ELSE f[k - 1] * Base + a[k]]
             value == CHOOSE f : Sums(f)
  <1>0. Width \in 0 .. Width /\ 0 \in 0 .. Width
    BY OctetFacts
  <1>1. PICK f \in [0 .. Width -> Nat] : Follows(f, a, Width)
    BY <1>0, NumbersExist
  <1>2. f = [k \in 0 .. Width |-> IF k = 0 THEN 0 ELSE f[k - 1] * Base + a[k]]
    <2>1. \A k \in 0 .. Width : f[k] = IF k = 0 THEN 0 ELSE f[k - 1] * Base + a[k]
      BY <1>0, <1>1, OctetFacts DEF Follows
    <2>2. f = [k \in 0 .. Width |-> f[k]]
      OBVIOUS
    <2>3. QED
      BY <2>1, <2>2, Zenon
  <1>3. Sums(value)
    BY <1>2, Zenon
  <1>4. Number(a) = value[Width]
    BY Zenon DEF Number
  <1> HIDE DEF value
  <1>5. \A k \in 0 .. Width : value[k] = IF k = 0 THEN 0 ELSE value[k - 1] * Base + a[k]
    BY <1>3
  <1>6. Follows(value, a, Width)
    BY <1>0, <1>5, OctetFacts DEF Follows
  <1>7. DOMAIN value = 0 .. Width /\ value = [k \in 0 .. Width |-> value[k]]
    BY <1>3
  <1>8. \A k \in 0 .. Width : value[k] \in Nat
    <2> DEFINE T == {k \in 0 .. Width : value[k] \in Nat}
    <2>1. 0 \in T
      BY <1>0, <1>6 DEF Follows
    <2>2. ASSUME NEW k \in 0 .. Width, k < Width, k \in T
          PROVE  k + 1 \in T
      <3>1. k + 1 \in 1 .. Width /\ k + 1 \in 0 .. Width /\ (k + 1) - 1 = k
        BY <2>2, OctetFacts
      <3>2. value[k + 1] = value[k] * Base + a[k + 1]
        BY <1>6, <3>1 DEF Follows
      <3>3. value[k] \in Nat /\ a[k + 1] \in Nat /\ Base \in Nat
        BY <2>2, <3>1, OctetFacts
      <3>4. value[k + 1] \in Nat
        BY <3>2, <3>3, SumNat
      <3>5. QED
        BY <3>1, <3>4
    <2>3. QED
      BY <2>1, <2>2, OctetFacts, OctetInduction
  <1>9. QED
    BY <1>4, <1>6, <1>7, <1>8

LEMMA NumberIsNat == ASSUME NEW a \in IP PROVE Number(a) \in Nat
  BY NumberIsSum, OctetFacts

(* Two sums of digits that agree so far go on to agree, and one that is    *)
(* less stays less.                                                        *)
LEMMA LessStays ==
    ASSUME NEW B \in Nat, NEW x \in Nat, NEW y \in Nat, NEW c \in Nat, NEW d \in Nat,
           x < y, c < B
    PROVE  x * B + c < y * B + d
  <1>1. PICK z \in Nat : y = x + 1 + z
    <2>1. y - x - 1 \in Nat /\ y = x + 1 + (y - x - 1)
      OBVIOUS
    <2>2. QED
      BY <2>1
  <1>2. y * B = x * B + B + z * B
    BY <1>1
  <1>3. z * B >= 0 /\ x * B \in Int /\ z * B \in Int
    OBVIOUS
  <1>4. QED
    BY <1>2, <1>3

LEMMA SamePrefix ==
    ASSUME NEW a \in IP, NEW b \in IP, NEW n \in 0 .. Width,
           NEW f \in [0 .. Width -> Nat], Follows(f, a, Width),
           NEW g \in [0 .. Width -> Nat], Follows(g, b, Width),
           \A k \in 1 .. n : a[k] = b[k]
    PROVE  f[n] = g[n]
  <1> DEFINE T == {k \in 0 .. Width : f[k] = g[k]}
  <1>1. 0 \in T
    BY OctetFacts DEF Follows
  <1>2. ASSUME NEW k \in 0 .. n, k < n, k \in T
        PROVE  k + 1 \in T
    <2>1. k + 1 \in 1 .. n /\ k + 1 \in 1 .. Width /\ (k + 1) - 1 = k
      BY <1>2, OctetFacts
    <2>2. f[k + 1] = f[k] * Base + a[k + 1] /\ g[k + 1] = g[k] * Base + b[k + 1]
      BY <2>1 DEF Follows
    <2>3. f[k] = g[k] /\ a[k + 1] = b[k + 1]
      BY <1>2, <2>1
    <2>4. f[k + 1] = g[k + 1] /\ k + 1 \in 0 .. Width
      BY <2>1, <2>2, <2>3
    <2>5. QED
      BY <2>4
  <1>3. n \in Nat /\ n \in 0 .. n
    BY OctetFacts
  <1> HIDE DEF T
  <1>4. n \in T
    BY <1>1, <1>2, <1>3, OctetInduction
  <1>5. QED
    BY <1>4 DEF T

(* bytes.Compare compares as the numbers do. *)
LEMMA LessIsLess ==
    ASSUME NEW a \in IP, NEW b \in IP, Less(a, b)
    PROVE  Number(a) < Number(b)
  <1>1. PICK n \in 1 .. Width : a[n] < b[n] /\ \A k \in 1 .. n - 1 : a[k] = b[k]
    BY DEF Less
  <1>2. PICK f \in [0 .. Width -> Nat] : Follows(f, a, Width) /\ Number(a) = f[Width]
    BY NumberIsSum
  <1>3. PICK g \in [0 .. Width -> Nat] : Follows(g, b, Width) /\ Number(b) = g[Width]
    BY NumberIsSum
  <1>4. n - 1 \in 0 .. Width /\ n \in 0 .. Width /\ Width \in Nat /\ Base \in Nat /\ Base > 1
    BY OctetFacts
  <1> DEFINE m == n - 1
  <1>5. f[m] = g[m]
    <2>1. m \in 0 .. Width /\ \A k \in 1 .. m : a[k] = b[k]
      BY <1>1, <1>4
    <2> HIDE DEF m
    <2>2. QED
      BY <1>2, <1>3, <2>1, SamePrefix
  <1>6. f[n] < g[n]
    <2>1. f[n] = f[m] * Base + a[n] /\ g[n] = f[m] * Base + b[n]
      BY <1>2, <1>3, <1>5 DEF Follows
    <2>2. f[m] \in Nat
      BY <1>2, <1>4
    <2>3. f[m] * Base \in Nat
      BY <1>4, <2>2, ProductNat
    <2>4. a[n] \in Nat /\ b[n] \in Nat
      BY OctetFacts
    <2> HIDE DEF m
    <2>5. QED
      BY <1>1, <2>1, <2>3, <2>4
  <1> DEFINE T == {k \in 0 .. Width : k >= n => f[k] < g[k]}
  <1>7. 0 \in T
    BY <1>4
  <1>8. ASSUME NEW k \in 0 .. Width, k < Width, k \in T
        PROVE  k + 1 \in T
    <2>1. k + 1 \in 1 .. Width /\ k + 1 \in 0 .. Width /\ (k + 1) - 1 = k
      BY <1>8, <1>4
    <2>2. CASE k >= n
      <3>1. f[k + 1] = f[k] * Base + a[k + 1] /\ g[k + 1] = g[k] * Base + b[k + 1]
        BY <1>2, <1>3, <2>1 DEF Follows
      <3>2. f[k] < g[k] /\ f[k] \in Nat /\ g[k] \in Nat
        BY <1>2, <1>3, <1>8, <2>2
      <3>3. a[k + 1] \in Nat /\ a[k + 1] < Base /\ b[k + 1] \in Nat
        BY <2>1, OctetFacts
      <3>4. f[k + 1] < g[k + 1]
        BY <1>4, <3>1, <3>2, <3>3, LessStays
      <3>5. QED
        BY <2>1, <3>4
    <2>3. CASE ~(k >= n)
      <3>1. k + 1 >= n => k + 1 = n
        BY <1>4, <2>3
      <3>2. QED
        BY <1>6, <2>1, <3>1
    <2>4. QED
      BY <2>2, <2>3
  <1>9. Width \in 0 .. Width
    BY <1>4
  <1> HIDE DEF T
  <1>10. Width \in T
    BY <1>4, <1>7, <1>8, <1>9, OctetInduction
  <1>11. f[Width] < g[Width]
    BY <1>4, <1>10 DEF T
  <1>12. QED
    BY <1>2, <1>3, <1>11

LEMMA NotLess ==
    ASSUME NEW a \in IP, NEW b \in IP, ~Less(a, b)
    PROVE  Number(b) <= Number(a)
  <1> DEFINE D == {k \in 1 .. Width : a[k] # b[k]}
  <1>1. Width \in Nat
    BY OctetFacts
  <1>2. CASE D = {}
    <2>1. \A k \in 1 .. Width : a[k] = b[k]
      BY <1>2
    <2>2. a = [k \in 1 .. Width |-> a[k]] /\ b = [k \in 1 .. Width |-> b[k]]
      BY DEF IP
    <2>3. a = b
      BY <2>1, <2>2, Zenon
    <2>4. QED
      BY <2>3, NumberIsNat
  <1>3. CASE D # {}
    <2>1. D \subseteq Nat
      BY <1>1
    <2>2. PICK n \in D : \A k \in D : n <= k
      BY <1>3, <2>1, LeastNumber
    <2>3. n \in 1 .. Width /\ \A k \in 1 .. n - 1 : b[k] = a[k]
      BY <1>1, <2>2
    <2>4. a[n] \in Nat /\ b[n] \in Nat /\ a[n] # b[n]
      BY <2>2, <2>3, OctetFacts
    <2>5. ~(a[n] < b[n])
      BY <2>3 DEF Less
    <2>6. Less(b, a)
      BY <2>3, <2>4, <2>5 DEF Less
    <2>7. Number(b) < Number(a) /\ Number(a) \in Nat /\ Number(b) \in Nat
      BY <2>6, LessIsLess, NumberIsNat
    <2>8. QED
      BY <2>7
  <1>4. QED
    BY <1>2, <1>3

-----------------------------------------------------------------------------
(* The step to the next address adds one: after the last octet that is not *)
(* the highest they all wrap, and their sums carry.                        *)
LEMMA WrapUp == ASSUME NEW B \in Nat, NEW x \in Nat, x < B PROVE x + 1 < B => (x + 1) % B = x + 1
  OBVIOUS

LEMMA WrapRound == ASSUME NEW B \in Nat, B > 0 PROVE ((B - 1) + 1) % B = 0
  OBVIOUS

LEMMA WrapDown ==
    ASSUME NEW B \in Nat, NEW x \in Nat, x < B, x > 0
    PROVE  (x + B - 1) % B = x - 1
  OBVIOUS

LEMMA WrapBack == ASSUME NEW B \in Nat, B > 0 PROVE (0 + B - 1) % B = B - 1
  OBVIOUS

LEMMA LastOther ==
    ASSUME NEW a \in IP, NEW at, NEW n \in 1 .. Width, a[n] # at
    PROVE  \E m \in n .. Width : a[m] # at /\ Wraps(a, m, at)
  <1> DEFINE D == {Width - m : m \in {k \in n .. Width : a[k] # at}}
  <1>1. Width \in Nat /\ n \in n .. Width
    BY OctetFacts
  <1>2. D \subseteq Nat
    BY <1>1
  <1>3. Width - n \in D
    BY <1>1
  <1>4. PICK d \in D : \A e \in D : d <= e
    BY <1>2, <1>3, LeastNumber
  <1>5. PICK m \in n .. Width : a[m] # at /\ d = Width - m
    BY <1>4
  <1>6. ASSUME NEW k \in m + 1 .. Width, a[k] # at
        PROVE  FALSE
    <2>1. k \in n .. Width /\ m \in Nat /\ k \in Nat /\ k > m
      BY <1>1
    <2>2. Width - k \in D
      BY <1>6, <2>1
    <2>3. Width - m <= Width - k
      BY <1>4, <1>5, <2>2
    <2>4. QED
      BY <1>1, <2>1, <2>3
  <1>7. QED
    BY <1>5, <1>6 DEF Wraps

LEMMA IncrementIsIP == ASSUME NEW a \in IP PROVE Increment(a) \in IP
  <1>1. ASSUME NEW k \in 1 .. Width
        PROVE  (IF Wraps(a, k, Base - 1) THEN (a[k] + 1) % Base ELSE a[k]) \in Octet
    <2>1. a[k] \in Nat /\ a[k] < Base /\ Base \in Nat /\ Base > 0
      BY OctetFacts
    <2>2. (a[k] + 1) % Base \in 0 .. Base - 1
      BY <2>1
    <2>3. QED
      BY <2>1, <2>2 DEF Octet
  <1>2. QED
    BY <1>1 DEF Increment, IP

LEMMA IncrementAddsOne ==
    ASSUME NEW a \in IP, a # Last
    PROVE  Number(Increment(a)) = Number(a) + 1
  <1> DEFINE b == Increment(a)
             top == Base - 1
  <1>1. b \in IP /\ Width \in Nat /\ Base \in Nat /\ Base > 1
    BY IncrementIsIP, OctetFacts
  <1>2. \A k \in 1 .. Width : b[k] = IF Wraps(a, k, top) THEN (a[k] + 1) % Base ELSE a[k]
    BY DEF Increment
  <1> HIDE DEF b
  <1>3. PICK i \in 1 .. Width : a[i] # top
    <2> SUFFICES ASSUME \A k \in 1 .. Width : a[k] = top PROVE FALSE
      OBVIOUS
    <2>1. a = [k \in 1 .. Width |-> a[k]]
      BY DEF IP
    <2>2. a = Last
      BY <2>1, Zenon DEF Last
    <2>3. QED
      BY <2>2
  <1>4. PICK n \in 1 .. Width : a[n] # top /\ Wraps(a, n, top)
    <2>1. PICK n \in i .. Width : a[n] # top /\ Wraps(a, n, top)
      BY <1>3, LastOther
    <2>2. n \in 1 .. Width
      BY <1>1
    <2>3. QED
      BY <2>1, <2>2
  <1> HIDE DEF top
  <1>5. b[n] = a[n] + 1
    <2>1. a[n] \in Nat /\ a[n] < Base /\ a[n] + 1 < Base
      BY <1>1, <1>4, OctetFacts DEF top
    <2>2. QED
      BY <1>1, <1>2, <1>4, <2>1, WrapUp
  <1>6. ASSUME NEW k \in 1 .. Width, k < n
        PROVE  b[k] = a[k]
    <2>1. n \in k + 1 .. Width
      BY <1>1, <1>6
    <2>2. ~Wraps(a, k, top)
      BY <1>4, <2>1 DEF Wraps
    <2>3. QED
      BY <1>2, <2>2
  <1>7. ASSUME NEW k \in 1 .. Width, k > n
        PROVE  b[k] = 0 /\ a[k] = Base - 1
    <2>1. k \in n + 1 .. Width
      BY <1>1, <1>7
    <2>2. a[k] = top
      BY <1>4, <2>1 DEF Wraps
    <2>3. Wraps(a, k, top)
      <3>1. \A j \in k + 1 .. Width : j \in n + 1 .. Width
        BY <1>1, <1>7
      <3>2. QED
        BY <1>4, <3>1 DEF Wraps
    <2>4. b[k] = (a[k] + 1) % Base
      BY <1>2, <2>3
    <2>5. QED
      BY <1>1, <2>2, <2>4, WrapRound DEF top
  <1>8. PICK f \in [0 .. Width -> Nat] : Follows(f, a, Width) /\ Number(a) = f[Width]
    BY NumberIsSum
  <1>9. PICK g \in [0 .. Width -> Nat] : Follows(g, b, Width) /\ Number(b) = g[Width]
    BY <1>1, NumberIsSum
  <1>10. g[n] = f[n] + 1
    <2> DEFINE m == n - 1
    <2>1. m \in 0 .. Width /\ \A k \in 1 .. m : a[k] = b[k]
      BY <1>1, <1>6
    <2>2. f[n] = f[m] * Base + a[n] /\ g[n] = g[m] * Base + (a[n] + 1)
      BY <1>5, <1>8, <1>9 DEF Follows
    <2> HIDE DEF m
    <2>3. f[m] = g[m]
      BY <1>1, <1>8, <1>9, <2>1, SamePrefix
    <2>4. f[m] \in Nat /\ a[n] \in Nat
      BY <1>8, <2>1, OctetFacts
    <2>5. f[m] * Base \in Nat
      BY <1>1, <2>4, ProductNat
    <2>6. QED
      BY <2>2, <2>3, <2>4, <2>5
  <1> DEFINE T == {k \in 0 .. Width : k >= n => g[k] = f[k] + 1}
  <1>11. 0 \in T
    BY <1>1
  <1>12. ASSUME NEW k \in 0 .. Width, k < Width, k \in T
         PROVE  k + 1 \in T
    <2>1. k + 1 \in 1 .. Width /\ k + 1 \in 0 .. Width /\ (k + 1) - 1 = k
      BY <1>1, <1>12
    <2>2. CASE k >= n
      <3>1. f[k + 1] = f[k] * Base + a[k + 1] /\ g[k + 1] = g[k] * Base + b[k + 1]
        BY <1>8, <1>9, <2>1 DEF Follows
      <3>2. b[k + 1] = 0 /\ a[k + 1] = Base - 1
        <4>1. k + 1 > n
          BY <2>2
        <4>2. QED
          BY <1>7, <2>1, <4>1
      <3>3. g[k] = f[k] + 1 /\ f[k] \in Nat
        BY <1>8, <1>12, <2>2
      <3>4. (f[k] + 1) * Base = f[k] * Base + Base /\ f[k] * Base \in Nat
        BY <1>1, <3>3, ProductNat, Carry
      <3>5. g[k + 1] = f[k + 1] + 1
        BY <1>1, <3>1, <3>2, <3>3, <3>4
      <3>6. QED
        BY <2>1, <3>5
    <2>3. CASE ~(k >= n)
      <3>1. k + 1 >= n => k + 1 = n
        BY <1>1, <2>3
      <3>2. QED
        BY <1>10, <2>1, <3>1
    <2>4. QED
      BY <2>2, <2>3
  <1>13. Width \in 0 .. Width
    BY <1>1
  <1> HIDE DEF T
  <1>14. Width \in T
    BY <1>1, <1>11, <1>12, <1>13, OctetInduction
  <1>15. g[Width] = f[Width] + 1
    BY <1>1, <1>14 DEF T
  <1>16. QED
    BY <1>8, <1>9, <1>15 DEF b

(* The step to the next undoes the step to the one before, also where all  *)
(* octets wrap.                                                            *)
LEMMA IncrementDecrement ==
    ASSUME NEW a \in IP
    PROVE  Decrement(a) \in IP /\ Increment(Decrement(a)) = a
  <1> DEFINE b == Decrement(a)
             top == Base - 1
  <1>1. Width \in Nat /\ Base \in Nat /\ Base > 1
    BY OctetFacts
  <1>2. \A k \in 1 .. Width : b[k] = IF Wraps(a, k, 0) THEN (a[k] + Base - 1) % Base ELSE a[k]
    BY DEF Decrement
  <1>3. b = [k \in 1 .. Width |-> b[k]]
    BY DEF Decrement
  <1> HIDE DEF b
  <1>4. ASSUME NEW k \in 1 .. Width
        PROVE  /\ b[k] \in Octet
               /\ Wraps(a, k, 0) /\ a[k] = 0 => b[k] = top
               /\ Wraps(a, k, 0) /\ a[k] # 0 => b[k] = a[k] - 1
               /\ ~Wraps(a, k, 0) => b[k] = a[k]
    <2>1. a[k] \in Nat /\ a[k] < Base
      BY OctetFacts
    <2>2. CASE Wraps(a, k, 0) /\ a[k] = 0
      BY <1>1, <1>2, <2>2, WrapBack DEF Octet
    <2>3. CASE Wraps(a, k, 0) /\ a[k] # 0
      <3>1. a[k] > 0 /\ b[k] = (a[k] + Base - 1) % Base
        BY <1>2, <2>1, <2>3
      <3>2. b[k] = a[k] - 1
        BY <1>1, <2>1, <3>1, WrapDown
      <3>3. QED
        BY <1>1, <2>1, <2>3, <3>1, <3>2 DEF Octet
    <2>4. CASE ~Wraps(a, k, 0)
      BY <1>1, <1>2, <2>1, <2>4 DEF Octet
    <2>5. QED
      BY <2>2, <2>3, <2>4
  <1>5. b \in IP
    BY <1>3, <1>4 DEF IP
  <1>6. ASSUME NEW k \in 1 .. Width
        PROVE  Wraps(b, k, top) <=> Wraps(a, k, 0)
    <2>1. ASSUME Wraps(a, k, 0), NEW j \in k + 1 .. Width
          PROVE  b[j] = top
      <3>1. j \in 1 .. Width /\ \A l \in j + 1 .. Width : l \in k + 1 .. Width
        BY <1>1
      <3>2. a[j] = 0 /\ Wraps(a, j, 0)
        BY <2>1, <3>1 DEF Wraps
      <3>3. QED
        BY <1>4, <3>1, <3>2
    <2>2. ASSUME Wraps(b, k, top), NEW j \in k + 1 .. Width, a[j] # 0
          PROVE  FALSE
      <3>1. j \in 1 .. Width
        BY <1>1
      <3>2. PICK m \in j .. Width : a[m] # 0 /\ Wraps(a, m, 0)
        BY <2>2, <3>1, LastOther
      <3>3. m \in 1 .. Width /\ m \in k + 1 .. Width
        BY <1>1
      <3>4. b[m] = a[m] - 1 /\ b[m] = top
        BY <1>4, <2>2, <3>2, <3>3 DEF Wraps
      <3>5. a[m] \in Nat /\ a[m] < Base
        BY <3>3, OctetFacts
      <3>6. QED
        BY <1>1, <3>4, <3>5
    <2>3. QED
      BY <2>1, <2>2 DEF Wraps
  <1>7. ASSUME NEW k \in 1 .. Width
        PROVE  (IF Wraps(b, k, top) THEN (b[k] + 1) % Base ELSE b[k]) = a[k]
    <2>1. a[k] \in Nat /\ a[k] < Base
      BY OctetFacts
    <2>2. CASE Wraps(a, k, 0) /\ a[k] = 0
      BY <1>1, <1>4, <1>6, <2>2, WrapRound
    <2>3. CASE Wraps(a, k, 0) /\ a[k] # 0
      <3>1. b[k] = a[k] - 1
        BY <1>4, <2>3
      <3>2. b[k] \in Nat /\ b[k] < Base /\ b[k] + 1 = a[k]
        BY <1>1, <2>1, <2>3, <3>1
      <3>3. (b[k] + 1) % Base = a[k]
        BY <1>1, <2>1, <3>2, WrapUp
      <3>4. QED
        BY <1>6, <2>3, <3>3
    <2>4. CASE ~Wraps(a, k, 0)
      BY <1>4, <1>6, <2>4
    <2>5. QED
      BY <2>2, <2>3, <2>4
  <1>8. Increment(b) = [k \in 1 .. Width |-> a[k]]
    BY <1>7 DEF Increment
  <1>9. a = [k \in 1 .. Width |-> a[k]]
    BY DEF IP
  <1>10. QED
    BY <1>5, <1>8, <1>9 DEF b

-----------------------------------------------------------------------------
(* The pool *)

PoolRow == [interface : Interface, address : Given \cup {Many}]

PoolInv ==
    /\ apPools \in [Interface -> Pools \cup {Nothing}]
    /\ apRows \in [Owner -> PoolRow \cup {Nothing}]
    /\ apCalls \in [Owner -> PoolRow \cup {Nothing}]
    /\ apOffer \in [Interface -> IP \cup {NoAddress, Nothing}]

(* An address in use is one, and never the last of all. *)
LEMMA UsedAreIPs ==
    ASSUME PoolInv, NEW i \in Interface, NEW a \in Used(i)
    PROVE  a \in IP /\ a # Last
  <1>1. PICK p \in Stored : apRows[p].address # Many /\ a = apRows[p].address.ip
    BY DEF Used
  <1>2. apRows[p] \in PoolRow
    BY <1>1 DEF Stored, PoolInv
  <1>3. apRows[p].address \in Given
    BY <1>1, <1>2 DEF PoolRow
  <1>4. QED
    BY <1>1, <1>3, PoolAssumption DEF One

(* Of the addresses in use one is the highest, though nothing says there   *)
(* are finitely many rows: no address is above the last.                   *)
LEMMA HighestExists ==
    ASSUME PoolInv, NEW i \in Interface, Used(i) # {}
    PROVE  \E a \in Used(i) : \A b \in Used(i) : ~Less(a, b)
  <1> DEFINE room(a) == Number(Last) - Number(a)
             D == {room(a) : a \in Used(i)}
  <1>1. Last \in IP /\ \A k \in 1 .. Width : Last[k] = Base - 1
    <2>1. Base - 1 \in Octet
      BY PoolAssumption DEF Octet
    <2>2. QED
      BY <2>1 DEF Last, IP
  <1>2. ASSUME NEW a \in Used(i)
        PROVE  a \in IP /\ Number(a) \in Nat /\ room(a) \in Nat
    <2>1. a \in IP /\ Number(a) \in Nat /\ Number(Last) \in Nat
      BY <1>1, UsedAreIPs, NumberIsNat
    <2>2. ~Less(Last, a)
      <3> SUFFICES ASSUME NEW k \in 1 .. Width, Last[k] < a[k] PROVE FALSE
        BY DEF Less
      <3>1. a[k] \in Nat /\ a[k] < Base /\ Base \in Nat
        BY <2>1, OctetFacts
      <3>2. QED
        BY <1>1, <3>1
    <2>3. Number(a) <= Number(Last)
      BY <1>1, <2>1, <2>2, NotLess
    <2>4. QED
      BY <2>1, <2>3
  <1>3. D \subseteq Nat /\ D # {}
    BY <1>2
  <1>4. PICK d \in D : \A e \in D : d <= e
    BY <1>3, LeastNumber
  <1>5. PICK a \in Used(i) : d = room(a)
    BY <1>4
  <1>6. ASSUME NEW b \in Used(i), Less(a, b)
        PROVE  FALSE
    <2>1. Number(a) < Number(b)
      BY <1>2, <1>6, LessIsLess
    <2>2. room(a) <= room(b)
      BY <1>4, <1>5
    <2>3. Number(a) \in Nat /\ Number(b) \in Nat /\ Number(Last) \in Nat
      BY <1>1, <1>2, NumberIsNat
    <2>4. QED
      BY <2>1, <2>2, <2>3
  <1>7. QED
    BY <1>6

Offered(i, offer) ==
    IF HasRows(i) /\ Used(i) = {} THEN offer = NoAddress
    ELSE /\ offer \in IP /\ Number(offer) <= Number(apPools[i].end)
         /\ \A a \in Used(i) : Number(a) < Number(offer)
         /\ IF HasRows(i) THEN \E a \in Used(i) : Number(offer) = Number(a) + 1
            ELSE offer = apPools[i].start

LEMMA SuggestIsNext ==
    ASSUME PoolInv, NEW i \in Interface, Suggest(i)
    PROVE  /\ apOffer' \in [Interface -> IP \cup {NoAddress, Nothing}]
           /\ \A j \in Interface \ {i} : apOffer'[j] = apOffer[j]
           /\ Offered(i, apOffer'[i])
  <1> DEFINE next == Increment(lastIP(i))
  <1>1. \/ HasRows(i) /\ Used(i) = {} /\ apOffer' = [apOffer EXCEPT ![i] = NoAddress]
        \/ /\ HasRows(i) => Used(i) # {}
           /\ ~Less(apPools[i].end, next) /\ apOffer' = [apOffer EXCEPT ![i] = next]
    BY DEF Suggest
  <1>2. apPools[i].start \in IP /\ apPools[i].end \in IP
    <2>1. apPools[i] \in Pool
      BY PoolAssumption DEF Suggest, PoolInv
    <2>2. QED
      BY <2>1 DEF Pool
  <1>3. CASE Used(i) # {}
    <2>1. HasRows(i)
      BY <1>3 DEF Used, HasRows
    <2>2. lastIP(i) = CHOOSE a \in Used(i) : \A b \in Used(i) : ~Less(a, b)
      BY <2>1 DEF lastIP
    <2>3. lastIP(i) \in Used(i) /\ \A b \in Used(i) : ~Less(lastIP(i), b)
      BY <1>3, <2>2, HighestExists
    <2> DEFINE last == lastIP(i)
    <2> HIDE DEF last
    <2>4. last \in IP /\ last # Last
      BY <2>3, UsedAreIPs DEF last
    <2>5. next \in IP /\ Number(next) = Number(last) + 1 /\ Number(last) \in Nat
      BY <2>4, IncrementAddsOne, IncrementIsIP, NumberIsNat DEF last
    <2>6. ASSUME NEW a \in Used(i)
          PROVE  Number(a) < Number(next)
      <3>1. a \in IP /\ Number(a) \in Nat /\ ~Less(last, a)
        BY <2>3, UsedAreIPs, NumberIsNat DEF last
      <3>2. Number(a) <= Number(last)
        BY <2>4, <3>1, NotLess
      <3>3. QED
        BY <2>5, <3>1, <3>2
    <2>7. Number(next) <= Number(apPools[i].end)
      BY <1>1, <1>2, <1>3, <2>5, NotLess
    <2> HIDE DEF next
    <2>8. /\ apOffer' \in [Interface -> IP \cup {NoAddress, Nothing}] /\ apOffer'[i] = next
          /\ \A j \in Interface \ {i} : apOffer'[j] = apOffer[j]
      BY <1>1, <1>3, <2>5 DEF PoolInv
    <2>9. last \in Used(i)
      BY <2>3 DEF last
    <2>10. QED
      BY <1>3, <2>1, <2>5, <2>6, <2>7, <2>8, <2>9 DEF Offered
  <1>4. CASE ~HasRows(i)
    <2>0. Used(i) = {}
      BY <1>4 DEF Used, HasRows
    <2>1. lastIP(i) = Decrement(apPools[i].start)
      BY <1>4 DEF lastIP
    <2>2. next = apPools[i].start
      BY <1>2, <2>1, IncrementDecrement
    <2>3. Number(next) <= Number(apPools[i].end)
      BY <1>1, <1>2, <1>4, <2>2, NotLess
    <2> HIDE DEF next
    <2>4. /\ apOffer' \in [Interface -> IP \cup {NoAddress, Nothing}] /\ apOffer'[i] = next
          /\ \A j \in Interface \ {i} : apOffer'[j] = apOffer[j]
      BY <1>1, <1>2, <1>4, <2>2 DEF PoolInv
    <2>5. QED
      BY <1>2, <1>4, <2>0, <2>2, <2>3, <2>4 DEF Offered
  <1>5. CASE HasRows(i) /\ Used(i) = {}
    BY <1>1, <1>5 DEF PoolInv, Offered
  <1>6. QED
    BY <1>3, <1>4, <1>5

LEMMA PoolStep ==
    ASSUME PoolInv, [PoolNext]_poolVars
    PROVE  PoolInv'
  <1>1. ASSUME NEW i \in Interface, Suggest(i)
        PROVE  PoolInv'
    BY <1>1, SuggestIsNext DEF PoolInv, Suggest
  <1>2. ASSUME NEW i \in Interface, DeleteIPPool(i) \/ \E pool \in Pools : StorePool(i, pool)
        PROVE  PoolInv'
    BY <1>2 DEF PoolInv, DeleteIPPool, StorePool
  <1>3. ASSUME NEW p \in Owner, WriteRow(p) \/ DeletePeer(p)
        PROVE  PoolInv'
    BY <1>3 DEF PoolInv, WriteRow, DeletePeer
  <1>4. ASSUME NEW p \in Owner, NEW text \in Given \cup {Many}, NEW i \in Interface,
               CreatePeer(p, i, text) \/ SyncPeers(p, i, text)
        PROVE  PoolInv'
    <2>1. [interface |-> i, address |-> text] \in PoolRow
      BY DEF PoolRow
    <2>2. QED
      BY <1>4, <2>1 DEF PoolInv, CreatePeer, SyncPeers
  <1>5. ASSUME NEW p \in Owner, NEW text \in Given, UpdatePeer(p, text)
        PROVE  PoolInv'
    <2>1. apRows[p] \in PoolRow
      BY <1>5 DEF PoolInv, UpdatePeer
    <2>2. [apRows[p] EXCEPT !.address = text] \in PoolRow
      BY <2>1 DEF PoolRow
    <2>3. QED
      BY <1>5, <2>2 DEF PoolInv, UpdatePeer
  <1>6. CASE UNCHANGED poolVars
    BY <1>6 DEF PoolInv, poolVars
  <1>7. QED
    BY <1>1, <1>2, <1>3, <1>4, <1>5, <1>6 DEF PoolNext

(* A suggested address is the next after the highest of the interface's    *)
(* peers, or the first of the pool when it has none, and not past the end   *)
(* of the pool; an empty one is suggested when no address parses: for       *)
(* addresses of any length over any base, any pools and any number of peers.*)
THEOREM OfferIsNextTheorem == PoolSpec => OfferIsNext
  <1> DEFINE Next(i) == apOffer'[i] # apOffer[i] /\ apOffer'[i] # Nothing => Offered(i, apOffer'[i])
  <1>1. PoolInit => PoolInv
    <2> SUFFICES ASSUME PoolInit PROVE PoolInv
      OBVIOUS
    <2>1. apRows \in [Owner -> PoolRow \cup {Nothing}]
      BY DEF PoolInit, PoolRow
    <2>2. QED
      BY <2>1 DEF PoolInit, PoolInv
  <1>2. ASSUME PoolInv, PoolNext, NEW i \in Interface
        PROVE  Next(i)
    <2>1. ASSUME NEW j \in Interface, Suggest(j)
          PROVE  Next(i)
      <3>1. CASE i = j
        BY <1>2, <2>1, <3>1, SuggestIsNext
      <3>2. CASE i # j
        BY <1>2, <2>1, <3>2, SuggestIsNext
      <3>3. QED
        BY <3>1, <3>2
    <2>2. ASSUME NEW j \in Interface, DeleteIPPool(j) \/ \E pool \in Pools : StorePool(j, pool)
          PROVE  Next(i)
      <3>1. apOffer' = [apOffer EXCEPT ![j] = Nothing]
        BY <2>2 DEF DeleteIPPool, StorePool
      <3>2. apOffer'[i] = apOffer[i] \/ apOffer'[i] = Nothing
        BY <1>2, <3>1 DEF PoolInv
      <3>3. QED
        BY <3>2
    <2>3. CASE UNCHANGED apOffer
      BY <2>3
    <2>4. QED
      BY <1>2, <2>1, <2>2, <2>3
         DEF PoolNext, WriteRow, DeletePeer, UpdatePeer, CreatePeer, SyncPeers
  <1>3. PoolInv /\ [PoolNext]_poolVars => [\A i \in Interface : Next(i)]_poolVars
    BY <1>2
  <1>4. QED
    BY <1>1, <1>3, PoolStep, PTL DEF PoolSpec, OfferIsNext, Offered
=============================================================================
