---------------------------- MODULE TelegramLinks ----------------------------
(***************************************************************************)
(* The Telegram bot, which links chats to peers, and the notifier, which   *)
(* alerts the chats of a peer.  The bot polls Telegram, handles one update *)
(* after the other and keeps its offset and the dialogues in memory;       *)
(* Telegram gives an update again until a poll asks for later ones only.   *)
(* The notifier is called by the traffic job, beside the bot, and answers  *)
(* whether the alert counts as sent (errNoTelegramSubscribers).            *)
(*                                                                         *)
(* A reply that cannot be sent is only logged; replies are left out.       *)
(***************************************************************************)
EXTENDS Integers, FiniteSets, Sequences

CONSTANTS
    Chat, Peer,
    Limited,      (* the peers with a traffic limit                        *)
    Update,       (* what chats may send, a subset of UpdateType           *)
    MaxUpdates,   (* bound: updates sent                                   *)
    MaxCrashes,   (* bound: restarts of the process                        *)
    MaxAlerts,    (* bound: times the flag of an alert is cleared          *)
    NoAnswer      (* no peer, no row, no dialogue, no alert under way      *)

(* kind "link" is /start or a text with a UUID, "start" without one, "name" *)
(* any other text, "show" what only reads: /menu, /details, /config,        *)
(* /qrcode.  A button names its peer, a command may.                        *)
UpdateType == [ chat  : Chat,
                kind  : {"link", "start", "name", "skip", "notify", "unlink", "show"},
                peer  : Peer \cup {NoAnswer},
                named : BOOLEAN ]             \* the account has a username

Link == [ name : {"none", "account", "typed"}, notify : BOOLEAN ]
Dialogue == [ state : {"uuid", "username"}, peer : Peer \cup {NoAnswer} ]

ASSUME UpdateAssumption ==
    /\ Update \subseteq UpdateType
    /\ Limited \subseteq Peer
    /\ NoAnswer \notin Peer \cup Link \cup Dialogue
    /\ MaxUpdates \in Nat /\ MaxCrashes \in Nat /\ MaxAlerts \in Nat

VARIABLES
    tgInbox,      (* Telegram: the updates sent, the place is the id       *)
    tgConfirmed,  (* Telegram: updates up to this one are not given again  *)
    tgOffset,     (* run: offset                                           *)
    tgBatch,      (* run: ids of updates polled and not handled            *)
    tgSession,    (* TelegramBot.sessions                                  *)
    tgLinks,      (* the table telegram_chats                              *)
    tgPeers,      (* the peers in the table peers                          *)
    tgOver,       (* the peers whose usage has reached the threshold       *)
    tgFlag,       (* FirstNotify of each peer                              *)
    tgAlert,      (* NotifyPeerUsage's locals                              *)
    tgCrashes, tgCleared,   (* counters for the bounds                     *)
    tgHandled,    (* history: ids handled since the process started        *)
    tgEver,       (* history: ids ever handled                             *)
    tgReceived    (* history: chats alerted since the flag was cleared     *)

botVars == <<tgOffset, tgBatch, tgSession>>
tgTableVars == <<tgLinks, tgPeers, tgFlag>>
alertVars == <<tgOver, tgAlert, tgReceived, tgCleared>>
tgVars == <<tgInbox, tgConfirmed, botVars, tgTableVars, alertVars, tgCrashes, tgHandled, tgEver>>

TelegramTypeOK ==
    /\ tgInbox \in Seq(Update)
    /\ tgConfirmed \in 0 .. Len(tgInbox)
    /\ tgOffset \in Nat
    /\ tgBatch \in Seq(1 .. Len(tgInbox))
    /\ tgSession \in [Chat -> Dialogue \cup {NoAnswer}]
    /\ tgLinks \in [Chat \X Peer -> Link \cup {NoAnswer}]
    /\ tgPeers \subseteq Peer /\ tgOver \subseteq Peer
    /\ tgFlag \in [Peer -> BOOLEAN]
    /\ tgAlert = NoAnswer \/ tgAlert \in
         [peer : Peer, todo : SUBSET Chat, sent : SUBSET Chat]
    /\ tgReceived \in [Peer -> SUBSET Chat]

TelegramInit ==
    /\ tgInbox = <<>> /\ tgConfirmed = 0
    /\ tgOffset = 0 /\ tgBatch = <<>>
    /\ tgSession = [c \in Chat |-> NoAnswer]
    /\ tgLinks = [l \in Chat \X Peer |-> NoAnswer]
    /\ tgPeers = Peer
    /\ tgOver = {} /\ tgFlag = [p \in Peer |-> FALSE]
    /\ tgAlert = NoAnswer /\ tgReceived = [p \in Peer |-> {}]
    /\ tgCrashes = 0 /\ tgCleared = 0
    /\ tgHandled = {} /\ tgEver = {}

-----------------------------------------------------------------------------
(* Telegram and the poll *)

SendUpdate ==
    /\ Len(tgInbox) < MaxUpdates
    /\ \E u \in Update : tgInbox' = Append(tgInbox, u)
    /\ UNCHANGED <<tgConfirmed, botVars, tgTableVars, alertVars, tgCrashes, tgHandled, tgEver>>

(* What getUpdates confirms, whether or not its answer arrives. *)
Confirmed(offset) == IF offset > tgConfirmed + 1 THEN offset - 1 ELSE tgConfirmed

GetUpdates(ok) ==
    /\ tgBatch = <<>>
    /\ tgConfirmed' = Confirmed(tgOffset)
    /\ tgBatch' = IF ok THEN [k \in 1 .. Len(tgInbox) - tgConfirmed' |-> tgConfirmed' + k] ELSE <<>>
    /\ UNCHANGED <<tgInbox, tgOffset, tgSession, tgTableVars, alertVars, tgCrashes, tgHandled, tgEver>>

-----------------------------------------------------------------------------
(* The handlers: what each does to the links and to the chat's dialogue.   *)

LinksOf(c) == {p \in Peer : tgLinks[<<c, p>>] # NoAnswer}

(* linkedPeer *)
Linked(c, p) == p \in tgPeers /\ p \in LinksOf(c)

(* resolvePeerUUID: a command without a UUID is about the only link. *)
resolvePeerUUID(u) ==
    IF u.peer # NoAnswer THEN u.peer
    ELSE IF Cardinality(LinksOf(u.chat)) = 1 THEN CHOOSE p \in LinksOf(u.chat) : TRUE
    ELSE NoAnswer

Result(links, session) == [links |-> links, session |-> session]

(* The table refuses the statement: it is reported to the chat. *)
Unchanged == Result(tgLinks, tgSession)

(* upsertChat: a link that exists keeps its switch, and its name when the  *)
(* account has none; alerts of a new one are on.                           *)
upsertChat(u) ==
    LET old == tgLinks[<<u.chat, u.peer>>] IN
    [tgLinks EXCEPT ![<<u.chat, u.peer>>] =
        IF old = NoAnswer
        THEN [name |-> IF u.named THEN "account" ELSE "none", notify |-> TRUE]
        ELSE IF u.named THEN [old EXCEPT !.name = "account"] ELSE old]

linkPeer(u) ==
    IF u.peer \notin tgPeers THEN {Unchanged}
    ELSE {Unchanged,
          Result(upsertChat(u),
                 [tgSession EXCEPT ![u.chat] =
                    IF u.named THEN NoAnswer ELSE [state |-> "username", peer |-> u.peer]])}

handleStart(u) ==
    {Result(tgLinks, [tgSession EXCEPT ![u.chat] = [state |-> "uuid", peer |-> NoAnswer]])}

(* saveUsername changes no row when the link is gone. *)
handleName(u) ==
    LET session == tgSession[u.chat] IN
    IF session = NoAnswer \/ session.state = "uuid" THEN {Unchanged}
    ELSE {Unchanged,
          Result([tgLinks EXCEPT ![<<u.chat, session.peer>>] =
                    IF @ = NoAnswer THEN @ ELSE [@ EXCEPT !.name = "typed"]],
                 [tgSession EXCEPT ![u.chat] = NoAnswer])}

handleSkipUsername(u) == {Result(tgLinks, [tgSession EXCEPT ![u.chat] = NoAnswer])}

toggleNotify(u) ==
    LET p == resolvePeerUUID(u) IN
    IF ~Linked(u.chat, p) THEN {Unchanged}
    ELSE {Unchanged, Result([tgLinks EXCEPT ![<<u.chat, p>>].notify = ~@], tgSession)}

unlinkPeer(u) ==
    LET p == resolvePeerUUID(u) IN
    IF ~Linked(u.chat, p) THEN {Unchanged}
    ELSE {Unchanged,
          Result([tgLinks EXCEPT ![<<u.chat, p>>] = NoAnswer],
                 [tgSession EXCEPT ![u.chat] = NoAnswer])}

handleUpdate(u) ==
    CASE u.kind = "link"   -> linkPeer(u)
      [] u.kind = "start"  -> handleStart(u)
      [] u.kind = "name"   -> handleName(u)
      [] u.kind = "skip"   -> handleSkipUsername(u)
      [] u.kind = "notify" -> toggleNotify(u)
      [] u.kind = "unlink" -> unlinkPeer(u)
      [] u.kind = "show"   -> {Unchanged}

NextOffset_Same(id) == id               \* mutant: asks for the last update again
NextOffset(id) == id + 1

(* The offset of the next poll while updates are handled. *)
Handle ==
    /\ tgBatch # <<>>
    /\ LET id == Head(tgBatch) IN
       /\ \E r \in handleUpdate(tgInbox[id]) : tgLinks' = r.links /\ tgSession' = r.session
       /\ tgOffset' = NextOffset(id)
       /\ tgBatch' = Tail(tgBatch)
       /\ tgHandled' = tgHandled \cup {id} /\ tgEver' = tgEver \cup {id}
    /\ UNCHANGED <<tgInbox, tgConfirmed, tgPeers, tgFlag, alertVars, tgCrashes>>

-----------------------------------------------------------------------------
(* The notifier.  tgOver stands for percent >= threshold of one threshold. *)

Subscribed(c, p) == tgLinks[<<c, p>>] # NoAnswer /\ tgLinks[<<c, p>>].notify
Subscribers(p) == {c \in Chat : Subscribed(c, p)}

ThresholdReached(p) ==
    /\ p \in (Limited \cap tgPeers) \ tgOver
    /\ tgOver' = tgOver \cup {p}
    /\ UNCHANGED <<tgInbox, tgConfirmed, botVars, tgTableVars, tgAlert, tgReceived, tgCleared,
                   tgCrashes, tgHandled, tgEver>>

(* notifyThreshold, and the query of NotifyPeerUsage. *)
NotifyBegin(p) ==
    /\ tgAlert = NoAnswer
    /\ p \in tgPeers \cap tgOver /\ ~tgFlag[p]
    /\ tgAlert' = [peer |-> p, todo |-> Subscribers(p), sent |-> {}]
    /\ UNCHANGED <<tgInbox, tgConfirmed, botVars, tgTableVars, tgOver, tgReceived, tgCleared,
                   tgCrashes, tgHandled, tgEver>>

(* SendMessage; one that fails may have arrived. *)
NotifySend(c, ok) ==
    /\ tgAlert # NoAnswer /\ c \in tgAlert.todo
    /\ tgAlert' = [tgAlert EXCEPT !.todo = @ \ {c}, !.sent = IF ok THEN @ \cup {c} ELSE @]
    /\ \/ tgReceived' = [tgReceived EXCEPT ![tgAlert.peer] = @ \cup {c}]
       \/ ~ok /\ UNCHANGED tgReceived
    /\ UNCHANGED <<tgInbox, tgConfirmed, botVars, tgTableVars, tgOver, tgCleared,
                   tgCrashes, tgHandled, tgEver>>

CountsAsSent_NoError(alert) == TRUE     \* mutant: nobody subscribed is no error
CountsAsSent(alert) == alert.sent # {}

(* The flag is set when the alert counts as sent, and written with the row. *)
NotifyEnd(ok) ==
    /\ tgAlert # NoAnswer /\ tgAlert.todo = {}
    /\ tgFlag' = [tgFlag EXCEPT ![tgAlert.peer] =
                    @ \/ (ok /\ CountsAsSent(tgAlert) /\ tgAlert.peer \in tgPeers)]
    /\ tgAlert' = NoAnswer
    /\ UNCHANGED <<tgInbox, tgConfirmed, botVars, tgLinks, tgPeers, tgOver, tgReceived, tgCleared,
                   tgCrashes, tgHandled, tgEver>>

(* A reset of the usage, which waits for the run that alerts.  (A change of *)
(* the limit clears the flag without waiting: module Panel.)               *)
UsageReset(p) ==
    /\ tgAlert = NoAnswer /\ tgFlag[p] /\ tgCleared < MaxAlerts
    /\ tgFlag' = [tgFlag EXCEPT ![p] = FALSE]
    /\ tgOver' = tgOver \ {p}
    /\ tgReceived' = [tgReceived EXCEPT ![p] = {}]
    /\ tgCleared' = tgCleared + 1
    /\ UNCHANGED <<tgInbox, tgConfirmed, botVars, tgLinks, tgPeers, tgAlert,
                   tgCrashes, tgHandled, tgEver>>

(* DeletePeer leaves the chats of the peer in the table. *)
PeerDeleted(p) ==
    /\ p \in tgPeers
    /\ tgPeers' = tgPeers \ {p}
    /\ UNCHANGED <<tgInbox, tgConfirmed, botVars, tgLinks, tgFlag, alertVars,
                   tgCrashes, tgHandled, tgEver>>

-----------------------------------------------------------------------------
(* The process stops and starts again: run asks Telegram not to drop what  *)
(* is pending, and polls from offset zero.                                 *)
DeleteWebhook_Drop == tgConfirmed' = Len(tgInbox)   \* mutant: drop_pending_updates
DeleteWebhook == UNCHANGED tgConfirmed

BotRestart ==
    /\ tgCrashes < MaxCrashes
    /\ tgCrashes' = tgCrashes + 1
    /\ tgOffset' = 0 /\ tgBatch' = <<>>
    /\ tgSession' = [c \in Chat |-> NoAnswer]
    /\ tgAlert' = NoAnswer
    /\ tgHandled' = {}
    /\ DeleteWebhook
    /\ UNCHANGED <<tgInbox, tgTableVars, tgOver, tgReceived, tgCleared, tgEver>>

TelegramNext ==
    \/ SendUpdate
    \/ \E ok \in BOOLEAN : GetUpdates(ok) \/ NotifyEnd(ok) \/ \E c \in Chat : NotifySend(c, ok)
    \/ Handle
    \/ \E p \in Peer : ThresholdReached(p) \/ NotifyBegin(p) \/ UsageReset(p) \/ PeerDeleted(p)
    \/ BotRestart

(* The loop of run and the traffic job go on for ever; a poll, a message    *)
(* and a statement that are tried again and again succeed in the end.      *)
TelegramFairness ==
    /\ WF_tgVars(Handle)
    /\ SF_tgVars(GetUpdates(TRUE))
    /\ \A p \in Peer : SF_tgVars(NotifyBegin(p))
    /\ \A c \in Chat : WF_tgVars(NotifySend(c, TRUE) \/ NotifySend(c, FALSE))
    /\ \A c \in Chat : SF_tgVars(NotifySend(c, TRUE))
    /\ WF_tgVars(NotifyEnd(TRUE) \/ NotifyEnd(FALSE))
    /\ SF_tgVars(tgAlert # NoAnswer /\ CountsAsSent(tgAlert) /\ NotifyEnd(TRUE))

TelegramSpec == TelegramInit /\ [][TelegramNext]_tgVars /\ TelegramFairness

-----------------------------------------------------------------------------
(* An update is handled once, however polls fail and answers are cut off,  *)
(* unless the process stopped before the poll that confirms it: a switch    *)
(* of alerts handled twice is switched back (run's offset).                *)
HandledOnce == [][Handle => Head(tgBatch) \notin tgHandled]_tgVars

(* An update is never lost, though the process may stop between the poll   *)
(* that brought it and its handler (offset, drop_pending_updates).         *)
UpdatesAreHandled ==
    \A id \in 1 .. MaxUpdates : Len(tgInbox) >= id ~> id \in tgEver

(* The flag that keeps an alert from being sent again is only stored when  *)
(* a chat has received it: while nobody is subscribed, or no message gets   *)
(* through, the alert stays due (NotifyPeerUsage's errors).                *)
FlaggedWasReceived == \A p \in Peer : tgFlag[p] => tgReceived[p] # {}

(* An alert that is due gets through to somebody in the end, also when the *)
(* first chat subscribes long after the threshold was reached.             *)
AlertGetsThrough ==
    \A p \in Peer :
        p \in tgOver /\ Subscribers(p) # {} ~>
            tgReceived[p] # {} \/ Subscribers(p) = {} \/ p \notin tgPeers
=============================================================================
