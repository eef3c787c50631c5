# Verification of the WireGuard panel

TLA+ models of the panel in this repository (a Go service in `src/api`, a React
client in `src/ui`), the TLC runs that check them and the TLAPS proofs about
them. Every definition is translated from the code; the runs and the theorems
say what holds of it and, in the runs that expect a violation, what does not.

    tlc -workers 2 -config MCTraffic_policy.cfg MCTraffic
    tlapm TrafficProofs.tla

## 1. The system

The panel manages the WireGuard peers of one MikroTik router. It keeps a
database of its own, drives the router over REST (five seconds per call), and
measures what each peer forwards. Nothing ties the database and the router
together: an operation is a sequence of router calls and SQL statements, each
of which can fail on its own, and nothing is undone when a later one does. Only
the calculator's jobs and resets share a mutex; HTTP handlers run concurrently
with them and with each other.

The client is a single page in a browser. It keeps a cache of the server's
lists, one dialog at a time and a token in a cookie; what it shows is what the
server said some time ago, and what it sends is decided on that.

| Part | Code | State it keeps | Operations |
|---|---|---|---|
| Calculator | `api/cmd/jobs/traffic.go` | usage, last readings, alert flags and `disabled` of the peer rows; `total_usage`; a mutex | `CalculatePeerTraffic` (every 300 s), `ResetPeerUsage(s)`, `ResetTotalTrafficUsage` |
| Expiry job | `api/cmd/jobs/expire.go` | `disabled` of rows, router peers and queues | `ExpireOverduePeers` (every 300 s) |
| Daily traffic | `api/cmd/jobs/traffic.go:62-122` | one row per interface and day | `CalculateDailyTraffic` (at midnight) |
| Session tracker | `api/cmd/jobs/sessions.go` | open and closed sessions | `TrackPeerSessions` (every 30 s, no mutex), the history |
| Peer requests | `api/service/peer.go`, `scheduler.go`, `queue.go`, `config_file.go`, `qr_code.go` | peer rows; router peers, schedulers, queues; files | create, update, toggle, delete, share |
| Router | RouterOS, reached through `api/adaptor/mikrotik` | peers with byte counters, schedulers that disable a peer on a date, queues | REST calls, forwarding, restarts |
| Synchronisation | `api/service/sync.go`, `sync_preview.go` | peer and interface rows | copy the router's state into the database |
| Interfaces, IP pools, servers | `api/service/interface.go`, `ip_pool.go`, `server.go` | their rows | create, update, toggle, delete, suggest an address |
| Router clients | `api/common/client.go` | a map of REST clients under a lock | connect, replace, delete |
| Telegram | `api/service/telegram_*.go` | chats and their links, the offset of the poll and the dialogues in memory | poll, link, name, mute, unlink; alert |
| Sharing | `api/service/peer.go`, `user.go`; `ui/src/features/share` | the share flag and its expiry; three answers in a user's browser | start, stop, expire; show details, configuration, QR code |
| Lists | `ui/src/main.tsx`, `ui/src/hooks` | the cache: an answer per list, valid or not, and the read on its way | read on mount, read again after a change, refresh |
| Pages and dialogs | `ui/src/features/{peers,interfaces,ip-pools,servers}`, `hooks/use-dialog-state.tsx` | the dialog open, the row it was opened on, the requests that wait | open, fill in, submit, dismiss, switch a row |
| Sign-in | `ui/src/stores/authStore.ts`, `api/axios-instance.ts`, `features/auth`, `features/settings`, `main.tsx` | the token in the cookie, the user | sign in, log out, change name or password, be sent away by a 401 |
| Forms | `features/*/components/*-form` | fields, suggestions asked for | defaults, late answers, fields that show another form of what they hold |
| Table, charts, shell | `features/shared-components`, `features/dashboard`, `context`, `components/ui/sidebar.tsx` | filter, sort, page; range; theme, font, sidebar | filter, sort, turn pages; choose a range; choose a theme |

How the parts meet. The **peer row** is written by the calculator (named
columns), the expiry job (one column), resets (all columns), requests (named
columns) and the synchronisation (all columns). The **router's peer** is
switched by all of them and by the router's own schedulers. The calculator
calls the **notifier** before it stores the flag that says it did. In the
browser, answers invalidate **lists** that pages share, close the **dialog**
that is open by then, and a 401 to any of them drops the one **token**.

What makes each part correct:

| Part | Properties |
|---|---|
| Calculator | bytes are counted once, never invented; a reset is not undone; a limit is enforced in the end; an alert is sent once and never silently skipped; the total is the sum |
| Expiry job | an expired peer is off in the end whatever failed |
| Daily traffic | a row is the traffic since the row before |
| Peer requests | success means row and router agree; no operation leaves a peer that can no longer be edited or deleted |
| Sessions | one open session per peer; no moment counted twice; the one that goes on is listed |
| Sharing | what is no longer shared is off the screen; a click on Stop stops |
| Lists | what the administrator changed is what the lists show; a list is not read for ever |
| Dialogs | the one open is on the screen, on its own row; it closes for a reason; what is deleted was named |
| Sign-in | a session the server accepts is not ended by an answer meant for another |
| Forms | what is sent is what was shown; a choice is not undone by a late answer; an edit makes no second row |
| Synchronisation | what nobody else touched agrees with the router afterwards, and a peer keeps its usage, limit and flags |
| Telegram | an update acts once and is not lost; an alert reaches somebody or stays due |
| Clients | a server that is stored can be dialled, at its address |
| Addresses | the address offered is the next after those in use, and not past the pool's end |

Hard behaviours of the service: the order in which jobs, requests and the
router take their steps; calls that fail after they took effect; runs that work
on rows read minutes ago; counters that wrap at 2^32 and return to zero when
the router restarts; a process that stops between two steps. Of the client:
answers that come in another order than they were asked for, after their page
or dialog was left, with an old token, or never; lists read while they change;
timers that run out when something else is on the screen; state that belongs to
a place in a list rather than to a row. `PROJECT.json` lists each hazard at its
line.

## 2. Modules

The service:

| Module | Models | State and actions |
|---|---|---|
| `CounterDelta` | `calculateDelta` and the 32-bit counter | pure operators: `calculateDelta`, `Wrap`; `ExactWindow` and `RestartSlop` say when it is exact and by how much it may err |
| `PanelState` | what the parts share | `db` (the peers table), `router`, `today`; history variables; `Forward`, `RestartCounters`, `Midnight`; `RouterCall` |
| `TrafficCalculator` | `traffic.go`, `expire.go` | `mu` (the mutex), `thr` (locals of each run), `total`; one action per router call or statement |
| `TrafficProperties` | - | the properties, the fairness, the refinement to the ledger |
| `UsageLedger` | abstract specification of metering | `arrived`, `counted`, `pending`, `dropped`; `Arrive`, `Count`, `Reset` |
| `PeerService` | `service/peer.go`, `scheduler.go`, `queue.go`, the files | `call` (locals of each request), `files`, `fresh`; one action per call or statement |
| `Panel` | `main.go`: jobs and handlers together | composes `TrafficProperties` and `PeerService` on one table; its properties |
| `DailyTraffic` | `CalculateDailyTraffic` | `ctr`, `traffic`; independent of the peers |

Services whose state the peers' modules do not share, put side by side by
`Services`:

| Module | Models | State and actions |
|---|---|---|
| `TelegramLinks` | `telegram_bot.go`, `telegram_client.go`, `telegram_notifier.go` | Telegram's `tgInbox` and `tgConfirmed`; the bot's `tgOffset`, `tgBatch`, `tgSession`; the tables `tgLinks`, `tgFlag`; `tgAlert`, the alert being sent. Poll, one action per update handled, one per message sent; restarts |
| `RouterClients` | `common/client.go`, `service/server.go` | the table `srvRows`, the map `srvClients`, `srvCall`; each step of a server request |
| `AddressPool` | `GetNewPeerAllowedAddress`, `ip_pool.go`, and what gives peers addresses | `apPools`, `apRows`, `apOffer`, `apCalls`; octets with carry |
| `RouterSync` | `sync.go`, `sync_preview.go`, `interface.go` | the router (`rsIface`, `rsPeer`), the tables (`rsIfaces`, `rsPeers`), `rsSync` and `rsCall`, the locals of a synchronisation and of a request; one action per row saved |

The pages of the client, composed by `Console`:

| Module | Models | State and actions |
|---|---|---|
| `ConsoleState` | what the pages share, and the server's tables as they see them | `table`, `version`, `live`; the pages and the lists each mounts; `Tours` |
| `QueryClient` | `main.tsx`, the library's cache | `cache`, `invalid`, `fetch`; reading, joining and restarting reads, and those a change overtakes |
| `DialogState` | `use-dialog-state.tsx`, the `*-dialogs.tsx` | `open`, `row`, `fades`; the toggle, the timer, the name typed |
| `ConsoleRequests` | the mutations of `hooks/`, `axios-instance.ts` | `net`: a request from the click to what follows its await; refused, lost, late |
| `AuthSession` | sign-in, account, cookie, the handling of a 401 | `token`, `user`, `path`; the walk from page to page |
| `Pages` | the pages of peers, interfaces, pools and servers | of each its switches, buttons, row menus and dialogs |
| `Console` | all of it, with the dashboard | next-state relation, fairness; the properties |

`Answers` puts `Console` and `TelegramLinks` side by side for the liveness
properties of those who wait for an answer from elsewhere.

The screens of the client, each on its own, put side by side by `Screens`:

| Module | Models |
|---|---|
| `ScreenBase` | `screen`: the one a behaviour is about |
| `PeerForm` | the form that adds a peer: keys, lists, defaults, suggestions of addresses that come late; the bandwidth, limit and date fields, which show another form of what they hold |
| `EntityForms` | the forms of interfaces, servers and pools with what `UpdateInterface`, `UpdateServer` and the pool service store |
| `ConfigDialog` | a peer's configuration: the cache by peer, the reader, the download |
| `ShareDialog` | the share flag at the service and the dialog whose requests only say toggle |
| `SyncDialog` | ticks and filter of the synchronisation dialog |
| `PeerSessions` | the session job, the history query with its limit, the dialog that polls it |
| `TableView` | filter, order and pages of a table; the dialog that lives in one of its cells |
| `SharePage` | the page behind a share link, its three questions and what the service checks for each |
| `DashboardScreen` | the chart and its ranges, the total and the dialog that resets it |
| `Shell` | theme, font, appearance form, sidebar, command menu and what the browser keeps of them |

`TrafficProofs`, `PolicyProofs`, `LedgerProofs`, `PanelProofs`,
`ServicesProofs`, `ScreensProofs` and `ConsoleProofs` hold lemmas and theorems; `MCTraffic`,
`MCPanel`, `MCServices`, `MCAnswers`, `MCConsole` and `MCScreens` values for the
instances.

Conventions of the service's modules:

- **One step is one router call or one statement.** What a handler computes
  between two of them is part of the step. `thr[t]` and `call[q]` hold the
  locals, the copies of rows first of all, so a stale copy is visible.
- **A router call has three outcomes** (`RouterCall`): done; refused, when the
  object is not there or the call failed before it arrived; and done although
  an error is reported, because the client gave up. With `"router"` not in
  `Faults` a call that can be carried out is.
- **A statement** that fails changes nothing (`"db"`). A statement on a row
  that is gone changes nothing and is no error; `Save` (the resets) inserts it.
- **A crash** drops all locals and keeps the database and the router.
- **Identities.** A peer stands for a row and for the router object it names;
  they are not used again. In `Panel` names and addresses are not modelled, so
  neither are clashes between peers; `AddressPool` and `RouterSync` have them.
  The router refuses a second scheduler or queue of the same name, as RouterOS
  does.
- **Schedulers** have no interval (`common/constants.go:27`): they run once, at
  00:00 of their start date, if they are on then.
- **Side by side.** `Services`, `Answers` and `Screens` compose modules that
  share no state: a behaviour is about one of them, chosen at the start, and
  the variables of the others stand still.
- **What `RouterSync` repeats.** It has requests of its own, as far as a
  synchronisation can tell them apart (read a row, call the router, write the
  row), and an administrator who changes the router by other means.

Conventions of the client's modules:

- **One step is one handler**: a click, an answer that arrives, a timer, with
  every state update and effect it makes. JavaScript runs one at a time.
- **The libraries** (the query cache, the table, the router, the dialogs) are
  modelled from how the code uses them: when an answer is read again, joined or
  dropped, what stays mounted. Those definitions are marked external.
- **Staleness is a choice.** The cache reads an answer again when it is older
  than ten seconds; the models have no clock for that and allow both.
- **The server** may carry a request out and answer, refuse it, answer too
  late, or never. Another administrator may change its tables (`MaxChanges`).
- **Forms** that edit send the row they were opened on (`Rewriting`), so one
  opened on an old list writes old settings back.
- **A session pass** of `PeerSessions` reads the router and the open sessions
  in one step and writes in a second, or leaves some of its statements out. Two
  passes may overlap, as the job takes no mutex; with the dialog beside it they
  come one at a time (`OnePass`). A session's bytes and end points are left out.

**Mutants.** Operators with a `Name_Variant` next to `Name` are never used by a
specification: each is a plausible bug, put in place of `Name` to see that the
property it names is violated.

**History variables** (read by no action but to be recorded). `fwd` counts the
bytes forwarded, `base` and `seen` are its values at the last reset and at the
last stored reading, `slop` adds up `RestartSlop` per restart, `told` holds the
thresholds alerted since the flags were cleared, and `charged` the bytes added
to usage columns since the total was zero. `tgHandled` and `tgEver` hold the
updates handled since the process started and ever, `tgReceived` the chats an
alert arrived at. Some record a circumstance under which a property is known
not to hold, and the property excuses it by name: `hasty` (a dialog opened
while another fades, or closed while its request is on its way, or Sync Selected
clicked again before the first synchronisation was done), `shTrusted`
(somebody else shared, an answer was lost, the dialog was left waiting),
`psTrusted` (passes overlapped, the router lost the peer, or a peer switched on
has no handshake), `tvLost` (since the reset dialog was opened the list lost its
row or one before it), `efUnnamed` (a server saved without a name),
`overtaken` (of a read and the answer it left: a change of one's own was
answered while it was on its way, and nothing restarted it), `shpFailed` (a
question for the details of a share failed since the last one was answered), `slAlone` (another tab wrote the theme, or the sidebar's
cookie expired); in the service `srvEdited` (a server renamed or moved since
the process started), `srvSet` (the addresses set under a name since) and
`rsTouched` (objects others changed while a synchronisation runs). Each is a
hazard in `PROJECT.json`.

What is abstracted: bandwidths are `none`, `same` or `new`; the config and QR
file are present or absent; of the expiry date the day counts. The alert step
sends all due thresholds at once, as the three calls touch nothing between
them; a failure of any of them is a subset. Of the alerts `TelegramLinks` has
one threshold, and of an update what it does, not its text. In `RouterSync`
what only the table has of a peer (usage, limit, expiry, flags) is `kept`. An
address in `AddressPool` has `Width` octets of `Base` values, in the client two
parts; a pool's addresses are known by how many masks were appended to them;
texts are empty or not; of the theme, the browser's own colour bar is left out.

## 3. Runs

| Run | Specification | Shows | States |
|---|---|---|---|
| `ledger` | 2 peers, traffic, reset; router, db, crash | `MeteringIsALedger` | 752 025 |
| `alerts` | 2 traffic threads, reset; nothing fails | `AlertedOnce`, `TotalExact` | 147 052 |
| `policy` | 2 traffic threads, expiry, reset; router, db, notify, crash, restart | `TypeOK`, `NeverOvercharged`, `FlagMeansAlerted`, `OverLimitIsOff`, `NeverReenables` | 871 883 |
| `enforced` | `FairSpec`, traffic, expiry; router faults | `OverLimitCut`, `ExpiredCut` | 1 574 |
| `match` | `PanelSpec`, traffic, expiry, one request at a time; nothing fails | `TableMatchesRouter` | 351 893 |
| `applied` | `PanelSpec`, one request at a time; router, db, files, crash | `PanelTypeOK`, `SuccessMeansApplied` | 52 387 |
| `console` | `ConsoleSpec`, `AllTours` | `ConsoleTypeOK`, `OwnWritesShown`, `OpenIsShown`, `DeleteIsConfirmed`, `ClosesForAReason`, `SessionEndsForAReason` | 2 796 999 |
| `services` | `ServicesSpec`, four services | one or two properties of each service, below | 2 926 097 |
| `answers` | `AnswersSpec`: `FewTours` of the console, or four updates to the bot | `NothingHangs`, `UpdatesAreHandled`, `AlertGetsThrough` | 43 647 |
| `screens` | `ScreensSpec`, ten modules of screens | one to three properties of each screen, below | 1 132 072 |
| `edit_race` | `FairPanelSpec`; nothing fails | `ExpiredCut` violated | |
| `row` | `DailyTraffic` | `RowIsSinceTheLast` violated | |

The properties of `services`:

| Service | Property | In words |
|---|---|---|
| `TelegramLinks` | `HandledOnce` | no update is handled twice in one life of the process, however polls fail and are repeated |
| | `FlaggedWasReceived` | the flag that keeps an alert from being sent again is stored only if a chat received it |
| `RouterClients` | `ServersAreDialled` | a stored server has a client that dials its address, unless it was edited since the start or another server was asked for under its name |
| `AddressPool` | `OfferIsNext` | a suggestion is the next after the highest address of the interface, or the first of its pool; no peer of the interface has it, and it is not past the end; it is the text of an empty address when peers have addresses of which none parses |
| `RouterSync` | `SyncAgrees` | a synchronisation that ends well made the rows what the router says, and left a peer's own columns alone |

The properties of `screens`:

| Screen | Property | In words |
|---|---|---|
| `PeerForm` | `AddressOfInterface` | the address suggested is one of the interface chosen, whatever order the suggestions come in, unless the last one failed |
| `PeerForm`, `EntityForms` | `ChoicesStay` | defaults of a peer's form do not come twice; the same list read again does not change the pool's interface (another list does) |
| | `FieldsAreSent` | bandwidth, limit and date are sent as the fields show them, but for a bandwidth of another form and for dates west of Greenwich, where the day before is shown; edits of edits of a pool still parse |
| `EntityForms` | `EditMakesNoRow` | an edit stays an edit |
| `ConfigDialog` | `ConfigOfRow` | no configuration under another peer's name |
| `ShareDialog`, `SyncDialog` | `ClicksDoAsShown` | a click on Stop stops, although the request says toggle; a tick of an earlier filter or opening is not sent |
| `PeerSessions` | `SessionsDoNotOverlap` | no moment is counted twice, only the last session is open; what overlapping passes opened twice is one again after the next pass |
| | `HistoryIsRight` | the limit does not cut off the session that goes on; durations are right at a day and beyond |
| `TableView` | `TableShows` | in the order asked for, no empty page while rows pass the filter |
| `TableView`, `DashboardScreen` | `ResetsAsAsked` | a reset goes to the peer whose button was clicked, as long as neither it nor a peer before it is gone from the list; the answer closes its own dialog only |
| `SharePage` | `RevokedIsHidden` | after a refusal configuration and QR code are off the screen, however late their answers come, until a question for the details fails or is on its way for a page that never had them |
| `DashboardScreen` | `ChartOfRange` | a late answer does not draw the chart of another range |
| `Shell` | `LooksAsChosen` | the page is painted in the theme chosen; a reload keeps theme, font and sidebar |

**Bounds of the service.** `MaxCounter` stands for 2^32: 7 where wraps matter,
so that a few bursts of one or two bytes go round and both branches of
`calculateDelta` are taken, from both sides of the half range; 11 where they do
not, above all that is forwarded. `MaxForwarded` ends the traffic, `MaxSlop`
bounds the restarts, `LastDay` allows one midnight. `MaxUnread` bounds what
passes between two stored readings; it is the largest value for which no wrap
can be taken for a restart (`ExactWindow - 1`) in `ledger` and out of the way
elsewhere. Overlapping threads are two of a kind: a third can only wait for the
same mutex. One peer is enough where rows do not meet; `ledger` has two, for a
run that is between them when a reset, a failure or a crash comes. Views leave
out `total` and `charged` where no property reads them, nothing else reads them.

**Bounds of the other services.** *Telegram*: two chats and two peers, one of
them over its limit; two updates, of any of the ten kinds the dialogue tells
apart (`answers` has the four that decide who is alerted), so that both are in
one batch or in two, and one restart; a flag cleared once, so that the alert is
due again. *Clients*: two names and two addresses, two rows, a request beside
deletions and restarts; two requests at once are covered by the theorem.
*Addresses*: three values per octet and two octets, so that one and both carry;
a pool that begins where an octet wraps, one within a block, one that ends
before it begins; peers of two interfaces, given addresses under two masks and
a list of several. *Synchronisation*: an interface that may be renamed or lost,
two peers with two addresses, one synchronisation, whole or selective, and two
changes by a request or at the router, between any two of its steps.

**Bounds of the client.** A behaviour of `Console` is a *tour*: the pages that
may be visited, the rows they begin with, the requests that may be on their way
at once, the changes others make, and the dialogs used. `AllTours` has twelve,
which between them use every page with every dialog it has, switches and forms
that overlap (two slots), two synchronisations from one dialog, a page left with a request on its way, and
sessions that end and begin again (`MaxTokens` 2) while a request of the first
is still unanswered; `FewTours` has three, as liveness needs one request of each kind.
Two rows let a dialog be about the wrong one. `MaxFades` 1: the timers clear
the row alike, so that a second changes nothing; the theorems hold for any.

The screens: two interfaces and three questions about addresses
(`MaxQuestions`), so that an interface is left and chosen again while a
question is unanswered; amounts 1 and 20, days 0 and 1 in zones -5, 0 and 3;
two rows of an entity and two reads of the list its form uses; two peers and
one edit for the configuration; two slots and two changes of the share at the
server (`MaxToggles`); a peer on each of two interfaces for the
synchronisation; three moments, two sessions and a history of one
(`MaxClock`, `MaxSessions`, `HistoryLimit`), a tick of 43 205 seconds, so that
two of them make a day and some seconds; three rows on pages of two, their
addresses chosen so that order as text and as number differ; the three ranges
of the chart, two openings of its dialog; two fonts.

The traces end when the bounds are used up, and a screen may be left alone, so
deadlock is not checked: a panel nobody uses stops as well.

**Fairness** (`Fairness`, `PanelFairness`). The job scheduler starts each job
for ever and Go's mutex does not starve a waiter, so starting a run is strongly
fair; a run that holds the mutex goes on, since every call returns within five
seconds, so it is weakly fair. Of infinitely many calls of one kind to one peer
some succeed: a router that never answers can be made to do nothing. Requests
under way go on; nothing is assumed to be requested, forwarded or to fall due.
`ConsoleFairness` asks nothing of the server or the administrator: an answer
that is there is delivered, a request without one is given up after thirty
seconds (`axios-instance.ts:6`), and a timer runs out. `TelegramFairness`: the
loop of `run` and an alert being sent go on, as each call of theirs has a
timeout (weak); of infinitely many polls, messages to a chat and writes of the
flag some succeed, and the traffic job comes to every peer for ever (strong). It
does not say that somebody subscribes, which `AlertGetsThrough` has as a
condition.

**What the passing runs show.** Under every interleaving and fault of the
bounds, the mutex keeps runs from undoing resets and counting twice; half a
counter range per restart is the most that is ever charged too much; within the
window metering implements the ledger; the limit and the expiry are enforced
although any call may fail, as long as nobody interferes. `ExpiredCut` holds in
`enforced` without resets only: a failed limit call marks the row disabled, and
after a reset of the usage neither job looks at the peer again.
`TableMatchesRouter` and `SuccessMeansApplied` take one request at a time, and
the former leaves out requests without the field `disabled`, which fail half
way (`service/peer.go:805`). The calendar stands still in `applied`: an update
over midnight can be overtaken by the router's scheduler, listed as a hazard.

In the client, a read that was on its way when a change was answered is thrown
away and made again if its list is on the screen and has been loaded. If it is
not, nothing restarts the read, and its answer clears the mark of the
invalidation: a list believed current then lacks the change until it is read
again. `OwnWritesShown` excuses that one answer (`overtaken`) and asks it of
every other. Likewise a share: when its page was told that the peer is not
shared, and a later question for the details fails for another reason, the
error is no 404 and the cards that are still cached are drawn again
(`share/index.tsx:65`); `RevokedIsHidden` excuses a page with such a failure
(`shpFailed`). A row gone from the list moves the rows after it by one, and
with them an open reset dialog, which then resets another peer: `ResetsAsAsked`
excuses it (`tvLost`). Deletes are confirmed on
the row shown; the toggle that closes a dialog and the timer that clears its
row are harmless as long as the administrator is slower than half a second and
waits for answers (`hasty`), and not otherwise: the button of the
synchronisation dialog stays enabled, and the answer to a second click closes
whatever is open by then. `SessionEndsForAReason` has to
excuse the 401 to a request sent with an earlier token: it drops the new one.

Of the other services: the offset of the poll is what keeps an update from
being handled twice, and it lives in memory, so a restart may handle the last
batch again. An alert that no chat received stays due until somebody
subscribes. A server that is renamed or moved keeps the client it had until the
process restarts (`srvEdited`). An address offered stays the next, and of the interface nobody's,
through carries, deletions and pools changed under it. The code compares it
with the end of the pool alone: a pool stored after its peers may begin after
it. When an interface has peers and no address of theirs parses, `<nil>/32` is
offered with success (`NoAddress`). That two requests may be offered the same
one is the index's business (`allowed_address` is unique). `SyncAgrees` excuses
what others touch while a synchronisation runs (`rsTouched`): it saves whole
rows read before and takes them back. A peer created between the reading of the
router and that of the table is taken for stale. One that
finds as many objects at the router as rows looks no further, whatever they
look like (`service/sync.go:48`), and does not count as ended; one that finds a
stale interface fails every time (`service/sync.go:317` passes an id where a
model is expected).

**What the violated runs show.**

- `edit_race`: the expiry job switches a peer off, an edit switches it on again
  and stores its row, then the job stores `disabled`. The row is off, the
  router on, and the job skips disabled rows from then on. No call fails.
- `row`: the daily rows subtract differences from readings.

Three more are hazards without a run. A delete that failed half way fails at
the same place for ever, since the row keeps the ids of what is gone
(`service/peer.go:482`). The flags of alerts sent for an old
limit may be stored after `UpdatePeer` cleared them for the new one, which then
gets no alerts (`service/peer.go:799`). And a reset, which saves whole rows,
writes back settings it read before its router call
(`cmd/jobs/traffic.go:152`).

## 4. Proofs

Every theorem holds for all values of the constants that satisfy the assumptions
declared beside them; these say that `Null` is none of the values it stands
beside, that counters and bounds are numbers, and where zones end. What a theorem
assumes beyond that it says in its own `ASSUME`, or left of the arrow.

**Metering.** `TrafficProofs` proves, for any number of peers and threads, any
counter width and all faults:

- `AheadExact`, of `calculateDelta`: within `ExactWindow` it is exact. With it
  come the facts the other proofs need: it returns a natural number, `n` more
  bytes add at most `n`, a restart adds at most `RestartSlop`.
- `TypeCorrect`: `Spec => []TypeOK`. Inductive with `AtPeer`: a thread that is
  at a peer holds a copy of its row (otherwise the copy's fields mean nothing).
  It rules out negative deltas and usages.
- `NeverOverchargedHolds`: `Spec => []NeverOvercharged`. The property speaks of
  the table; a run works on copies and writes them later, so it is not
  inductive. `ChargeInv` adds that a thread in a run holds the mutex
  (`MutexHeld`) and that the copies are covered too (`CopiesCovered`): before
  a reset has read the counters relative to `base`, afterwards relative to the
  value `base` is about to get. Two runs at once would break the last part: one
  could save a copy made before the other's reset. Each lemma treats the steps
  of one operation (`TrafficCharge`, `ExpireCharge`, `ResetCharge`,
  `EnvironmentCovers`), `NextCharge` puts them together.

`PolicyProofs` proves, under the same assumptions:

- `FlagMeansAlertedHolds` and `OverLimitIsOffHolds`. Both properties speak of
  the table, while the decision was taken on a copy some steps before. The
  inductive invariant `PolicyInv` therefore adds `CopiesAgree`: the copy of a
  run has the row's limit, is disabled if the row is (only the expiry job marks
  rows beside a run, and a run or a reset holds the mutex), has no flag whose
  alert was not told, and when it is about to be written (`persist`) an over
  limit copy is marked and, if the router never fails a call, cut there.
- `NeverReenablesHolds`: a step may write a row only from such a copy, so a
  disable is never taken back (`OnlyOff` states this of every operation).
- `AlertedOnceHolds` and `TotalExactHolds`, if no statement fails and the
  process does not stop (`Faults` without `db` and `crash`; the router and the
  notifier may fail). With either fault both can be false: an alert goes out before
  its flag is stored, and total and usage are two statements. `ExactInv` says
  how far a run is between the two: an alert told is flagged in the row or about
  to be stored by the thread at that peer (`Unsaved`), a run's copies have the
  flags of the table, and the total is ahead of the table by exactly the delta
  the run has yet to store.

`LedgerProofs` proves the refinement, `MeteringRefines`: if `ExactReadings`
holds (no router restart, and fewer than half a counter range between two
readings, the assumption the code itself makes), `Spec` implements
`UsageLedger`. `LedgerInv` ties the three places a byte can be in: in the table
usage is what was seen less the base of the last reset, and the router's
counter is ahead of the last reading by what was forwarded and not seen
(`TableMetered`); a copy that is about to be written stands for the same
(`CopiesMetered`). Four lemmas send each step of the calculator to a step of
the ledger or a stutter: `Arrives` (a byte is forwarded), `Counts` (a run's row
is persisted), `Resets` (a reset's row is saved) and `Stutters` (all others).

**Requests.** `PanelProofs` is about requests at any number of
peers, at once or one after another:

- `PanelTypeCorrect`: `PanelSpec => []PanelTypeOK`, with all jobs and faults.
  Inductive with `CallInv`: a request is at a peer, and past its first read it
  holds a row.
- `SuccessMeansAppliedHolds`, without jobs, resets and midnights, as in the run
  `applied`; every fault is allowed. A request's calls and statements each
  may fail, and most that fail end it; `StageInv` says for every place a request
  can be at what the switch, the row and the files of its peer are by then
  (after the peer was patched the switch is as wanted, before a `reread` it is
  as the row says, and so on), whatever the tolerated failures left undone.
- `TableMatchesRouterHolds`, beside any number of traffic and
  expiry jobs, midnights and counter restarts, when nothing but an alert fails
  and updates carry `disabled` (`Careful`; without the field an update fails
  half way). `MatchInv` follows which of peer, scheduler, queue and row are
  there at each place of a request (`Matches`), and says that a peer no request
  is at is `AtRest`. The jobs only change what `Agree` does not look at
  (`SameShape`).

Both of the last two assume `[]OnePerPeer`: no two requests are at one peer at
the same moment. The code does not enforce it, and two updates of one peer can
break both properties; it holds when requests are made one after another, as by
one administrator who waits for each answer (`OneRequest`, the case the runs
check), and for administrators who keep to different peers.

**Services.** `ServicesProofs` proves:

- `HandledOnceTheorem`. The step that handles looks only at the head of its
  batch; `DeliveryInv` adds that the batch is a run of consecutive ids that
  begins at the offset and that everything handled is below the offset, which a
  repeated or failed poll leaves so.
- `FlaggedTheorem`. The flag is stored at the end of an alert from what the
  notifier counted; `AlertInv` adds that what an alert under way counts as sent
  was received.
- `ServersAreDialledTheorem`, for any number of requests at once. `ClientsInv`
  adds that every client dials an address that was set for its name, and that
  the rows not edited, and those a request is about to insert, are known by
  name and address.
- `SyncAgreesTheorem`. The property compares rows and router at the end of a
  synchronisation; the rows are saved one by one from a list that may be old.
  `SyncInv` says of each object that nobody else touched: the list still shows
  it as it is (`ListedAsIs`), its row is as listed once it was saved
  (`SavedAsListed`), and an object neither listed nor known has no row
  (`GoneIsGone`, so that only what was read can be left to remove).
- `OfferIsNextTheorem`, for addresses of any `Width` and `Base`: the address
  after the highest in use is above all of them by one, so that no peer of the interface has it, and not
  past the pool's end; when no address parses, the offer is the empty one.
  The number of an address is a recursive function, and that `Increment` adds
  one to it however far it carries needs induction over the octets. The
  library's induction theorems take an operator, so the proof speaks of the set
  of octets a fact fails for: were it not empty it had a least element
  (`LeastNumber`, from the well-foundedness of `<`), and there it does not fail
  (`OctetInduction`). The same shows that among the addresses in use there is a
  highest although nothing bounds the number of peers (`HighestExists`).

**Screens.** `ScreensProofs` proves all thirteen properties of `screens` from
`ScreensSpec`: a step is a step of one screen or leaves it alone
(`ScreensMove`), and each screen has an invariant of its own.

- `RevokedIsHiddenHolds`. The property speaks of the verdict last given while
  the page decides by the error it keeps; `ShareInv` adds that a refusal is kept
  until the details are answered again or a question for them fails, and that the
  card holds a text only while the page is drawn.
- `ConfigOfRowHolds`: the text shown and the answer a reader has begun are of the
  dialog's row (`TextOfRow`).
- `SessionsDoNotOverlapHolds`. `SessionsInv` has four parts: types; a pass that
  no other overlapped is alone and the sessions are as it read them
  (`LoneIsAlone`); until passes overlap, and after one that did not, at most one
  is open (`MergedInv`); and while all goes well sessions are in order, what a
  pass observed fits them, and a session that ended stays ended: any handshake
  the router has is later, or too old to count (`Over`, `TrustedInv`).
- `ClicksDoAsShownHolds`. A request says toggle, not on or off, so the answer
  on the screen must still be right when the request arrives. `TrustInv`: at
  most one toggle is out, while it is due the server is as it was at the click,
  and unless one has been carried out what is shown, or about to be, is what
  the server has. Of the other dialog: ticks were listed (`TickedWasListed`).
- `EditMakesNoRowHolds` and `FieldsAreSentHolds`. `EFInv` knows for each row,
  form and request how many masks its address has (`OnePrefix`) and that only a
  server without a name turns an edit into an addition (`UnnamedInv`); the
  fields of a peer's form hold what they show (`FieldsInv`, with the day counted
  in the zone, `DayOfZone`, from Greenwich eastwards).
- `ChoicesStayHolds` needs nothing but the lists that can be read (`ListInv`); of
  a pool's form it speaks while the list read again is the same.
- `AddressOfInterfaceHolds`: the last question is about the interface in the
  form, and once answered without an error the address is its answer or typed
  (`LastQuestionIsCurrent`).
- `ChartOfRangeHolds`: an answer kept under a range is about it (`ChartsInv`).
- `ResetsAsAskedHolds`: until that peer or one before it is gone from the list, the
  dialog's cell shows the peer asked about wherever the table draws it
  (`AskedIsAt`); the answer to a reset belongs to the opening that
  sent it (`OpenSentIt`).
- `TableShowsHolds`. A sort is described by places: the row at place `k` is the
  one with `k - 1` rows before it (`StableSort` in `ScreenBase`). That there is
  one for every place is not obvious, and an induction over the length is not
  needed for it: two rows never have equally many before them (`BeforeGrows`), so
  counting is an injection into as many places as there are rows, hence onto
  (`StableSortSorts`). `TableInv` adds that a page but the first was turned to
  under the list, filter and order the table has now.
- `HistoryIsRightHolds`, with the same lemma for the order of the database.
  `EndsAfterItBegins`: while all goes well a session ends no earlier than it
  began, so the one that goes on began last. The parts of a duration add up by
  the uniqueness of remainders (`PartsAgree`).
- `LooksAsChosenHolds`: the page is painted and the browser has kept what was
  chosen (`ShellInv`: `Painting`, `Keeping`).

**The pages.** `ConsoleProofs` proves all six safety properties of `Console` from
one invariant, for any tours and any number of rows, requests, sign-ins,
changes and timers:

- `ConsoleTypeCorrect`, `OwnWritesShownHolds`, `OpenIsShownHolds`,
  `DeleteIsConfirmedHolds`, `ClosesForAReasonHolds`,
  `SessionEndsForAReasonHolds`.

`ConsoleInv` has five parts beside the types. `ReadsInv`: a read that was answered
shows every change of one's own or was overtaken by one, and one that was
refused carries no token the server accepts now; it is what is still on its way when `ListsInv` speaks of
the cache. `RequestsInv`: whoever waits for a request is on the page shown, so
that an answer closes nothing after its page was left, and a refused request
carries no accepted token (`SessionEndsForAReason` follows: the token dropped is
another one). `CalmInv`, unless the administrator was hasty: a row is kept
exactly for the dialog that is open or for one that fades (`RowIsOfDialog`); a
name was typed into this dialog; the dialog of a request on its way is still
open, on the same row, and has sent no other (`OpenWhileAsked`, without which
the toggle of a late answer would open or close another); and what is to be
deleted was named (`DeletesAreSure`). What a step does to the requests already
on their way is one relation, `Continues`, so that each action needs a lemma for
the request it sends or settles only (`GoOn`, `FormsKept`). The attempt showed two
mistakes of the model, now mended: a second click on Sync Selected had not
counted as hasty, and a form whose page was gone could count as closed.

Only model-checked: the liveness properties and `ExpiredCut`, which are beyond the
prover.

## 5. Plan

Next to prove: `NeverOvercharged` for `PanelSpec` (requests never touch usage or
readings, a created row starts covered).

Next to model, in this order:

1. A session pass against `DeletePeer`, which leaves the session of a peer that
   is gone.
2. Two synchronisations at once, and a synchronisation against the calculator
   on the rows of `PanelState`.
3. Concurrent requests on one peer in `Panel`; unit conversion on edit.

## 6. What is not modelled

Of the service: what Telegram's messages say and the lists they show; the files
a synchronisation writes for the peers it finds; counts of free addresses
(`getIPCounts`); password hashing and seeding, the router's own figures, the
export and logging, which keep no state of their own or one row each; RouterOS
beyond what the panel relies on. Key generation, formatting and QR encoding
have no property to tell them apart.

Of the client: the primitives of `components/ui` except the sidebar's provider,
and `routeTree.gen.ts`, which is generated, as they hold no state of the panel;
the screens for a forgotten password and a one-time code, which wait a second
and call nothing; the markup of cards, cells and charts; the wording of
validation and messages; the Telegram card's link on the shared page.
