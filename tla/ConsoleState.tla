---------------------------- MODULE ConsoleState ----------------------------
(***************************************************************************)
(* What the parts of the web interface (src/ui/src) share.  One browser    *)
(* tab: a page, the state of its dialogs, the sign-in, the cache of the    *)
(* server's lists and the requests on their way.  JavaScript runs one      *)
(* handler at a time, so a step is one handler: a click, an answer that    *)
(* arrives, a timer, and every state update they make.                     *)
(***************************************************************************)
EXTENDS Naturals, FiniteSets

CONSTANTS
    MaxId,        \* rows are numbered 1 .. MaxId, in the order the server lists them
    Slot,         \* at most this many requests of the administrator at a time
    MaxChanges,   \* bound on the changes made to the server's tables
    MaxTokens,    \* bound on the sign-ins
    Tours,        \* what may happen in one behaviour, see Tour
    Null

Id == 1 .. MaxId
Token == 1 .. MaxTokens

(* The pages, by path, and the lists (queries) each of them keeps mounted.  *)
(* The peers page mounts the interfaces for its synchronisation dialog.     *)
List == {"device_data", "peers_list", "interfaces_list", "ip_pools_list", "servers_list"}
Page == {"/sign-in", "/", "/peers", "/interfaces", "/pools", "/servers", "/settings/account"}

Mounted(page) ==
    CASE page = "/" -> {"device_data"}
      [] page = "/peers" -> {"peers_list", "interfaces_list"}
      [] page = "/interfaces" -> {"interfaces_list"}
      [] page = "/pools" -> {"ip_pools_list"}
      [] page = "/servers" -> {"servers_list"}
      [] OTHER -> {}

(* Dialogs that show the row they were opened on, and those that show none.   *)
(* A download of a configuration opens a dialog that renders nothing and      *)
(* closes itself: it is modelled in ConfigDialog.                               *)
RowDialog == {"edit", "delete", "share", "sessions", "qrCode", "show_config"}
PlainDialog == {"add", "sync"}
Dialog == RowDialog \cup PlainDialog

(* A behaviour is bounded: the pages visited, the rows there are at first, the *)
(* requests at a time, the changes to the tables, the dialogs opened, and      *)
(* whether sessions begin and end in it or the administrator stays signed in.  *)
Tour == [pages : SUBSET Page, rows : 0 .. MaxId, slots : SUBSET Slot, changes : 0 .. MaxChanges,
         dialogs : SUBSET Dialog, session : BOOLEAN]

ASSUME BoundsAssumption ==
    /\ MaxId \in Nat /\ MaxChanges \in Nat /\ MaxTokens \in Nat \ {0}
    /\ Tours \subseteq Tour
    /\ Null \notin Id \cup Token /\ Null \notin Dialog
    /\ Null \notin [id : Id, was : {"on", "off"}]

VARIABLES
    table,     \* server: the rows of each list, "on" or "off", or "none" when there is none
    version,   \* server: the changes made to each list so far
    live,      \* server: the tokens it accepts
    issued,    \* server: the tokens it has issued
    cache,     \* [List -> the last answer, or Null]
    invalid,   \* [List -> BOOLEAN] the cache knows its answer is out of date
    fetch,     \* [List -> the read on its way, or Null]
    due,       \* history: the version that shows our own changes so far
    net,       \* [Slot -> a request of the administrator on its way, or Null]
    token,     \* the cookie access_token, or Null
    user,      \* the cookie username: the token it was stored with, or Null
    path,      \* the page shown
    open,      \* the dialog the page's context says is open, or Null
    row,       \* the row it was opened on: a copy [id, was], or Null
    fades,     \* timers running that will set the row to Null
    typed,     \* the name typed into the delete dialog, or Null
    retyped,   \* history: it was typed since the dialog was opened
    hasty,     \* history: the administrator did not wait for a dialog to finish
    tour       \* what this behaviour is about

serverVars == <<table, version, live, issued>>
queryVars == <<cache, invalid, fetch, due>>
authVars == <<token, user>>
dialogVars == <<open, row, fades, typed, retyped, hasty>>
vars == <<serverVars, queryVars, net, authVars, path, dialogVars, tour>>

Status == {"on", "off", "none"}
Answer == [rows : [Id -> Status], asof : 0 .. MaxChanges]

(* overtaken is history, of a read and of the answer it left in the cache:  *)
(* a change of our own was carried out while the read was on its way, and   *)
(* nothing restarted it.                                                    *)
Read == [with : Token \cup {Null}, phase : {"sent", "ok", "failed", "denied"}, answer : Answer \cup {Null},
         overtaken : BOOLEAN]
Kept == [rows : [Id -> Status], asof : 0 .. MaxChanges, overtaken : BOOLEAN]

Listed(rows) == {r \in Id : rows[r] # "none"}

(* Where a row stands in the table on the screen: react-table numbers the   *)
(* rows of the answer, and what a cell keeps belongs to the number.         *)
Position(rows, r) == Cardinality({q \in Listed(rows) : q <= r})

Shown(list) == IF cache[list] = Null THEN [r \in Id |-> "none"] ELSE cache[list].rows

Loading(list) == cache[list] = Null /\ fetch[list] # Null

(* A dialog is on the screen: one of a row is rendered only with a row.     *)
OnScreen(d) == open = d /\ (d \in RowDialog => row # Null)
NoDialog == \A d \in Dialog : ~OnScreen(d)

=============================================================================
