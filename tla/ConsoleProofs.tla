---------------------------- MODULE ConsoleProofs ----------------------------
(***************************************************************************)
(* What the web interface keeps to, for any tours, any number of rows,     *)
(* requests, sign-ins and changes, in whatever order clicks, answers and   *)
(* timers come.                                                            *)
(***************************************************************************)
EXTENDS Console, FiniteSetTheorems, TLAPS

(* A read that was refused was sent without a token the server accepts now, *)
(* and one that was answered shows all our changes, or was overtaken by one. *)
ReadsInv ==
    \A list \in List : fetch[list] # Null =>
        /\ fetch[list].with \in issued \cup {Null}
        /\ fetch[list].phase = "denied" => fetch[list].with \notin live
        /\ fetch[list].phase = "ok" =>
             fetch[list].answer \in Answer /\ (fetch[list].overtaken \/ fetch[list].answer.asof >= due[list])

(* An answer the cache believes in shows all our changes.                   *)
ListsInv ==
    \A list \in List :
        /\ due[list] <= version[list]
        /\ cache[list] # Null /\ ~invalid[list] => cache[list].overtaken \/ cache[list].asof >= due[list]

(* Whoever waits for a request belongs to the page that is shown; a refused   *)
(* one was sent without a token the server accepts now, and a sign-in that    *)
(* was answered brings a token the server has issued.                       *)
RequestFacts(rq) ==
    /\ rq.here => rq.waiting
    /\ rq.op \in {"create", "update", "delete"} /\ rq.form # "gone" => rq.here
    /\ rq.here /\ rq.op \in {"create", "update", "delete", "sync"} => rq.list \in Mounted(path)
    /\ rq.with \in issued \cup {Null}
    /\ rq.phase = "denied" => rq.with \notin live
    /\ rq.phase = "reading" => rq.op = "sync"
    /\ rq.op = "login" /\ rq.phase = "ok" => rq.id \in issued

RequestsInv == \A s \in Slot : net[s] # Null => RequestFacts(net[s])

(* The dialogs that send a request, and close when it is done.              *)
Asking == {"edit", "add", "delete", "sync"}
WaitsIn(s, d) == net[s] # Null /\ net[s].op = OpOf(d) /\ net[s].here

(* While the administrator is not hasty: a row is kept for the dialog that is *)
(* open, or for one that fades; a name was typed into this dialog; the dialog *)
(* of a request on its way is still open, on the same row, and has sent no    *)
(* other; and what is deleted was named.                                     *)
RowIsOfDialog ==
    /\ open \in RowDialog => row # Null /\ fades = 0
    /\ row # Null => open \in RowDialog \/ fades > 0

OpenWhileAsked ==
    \A s \in Slot : \A d \in Asking : WaitsIn(s, d) =>
        /\ open = d /\ (d # "sync" => net[s].form = "open")
        /\ d \in {"edit", "delete"} => net[s].id = row.id
        /\ \A t \in Slot : WaitsIn(t, d) => t = s

DeletesAreSure == \A s \in Slot : net[s] # Null /\ net[s].op = "delete" => net[s].sure

CalmInv == ~hasty => RowIsOfDialog /\ (typed # Null => retyped) /\ OpenWhileAsked /\ DeletesAreSure

ConsoleInv == ConsoleTypeOK /\ tour \in Tours /\ ReadsInv /\ ListsInv /\ RequestsInv /\ CalmInv

-----------------------------------------------------------------------------
(* What the clicks of the four pages do                                    *)

Op == {"status", "create", "update", "delete", "sync", "reset", "login", "profile"}
MutationType == [op : Op, list : List, lists : SUBSET List, rewrites : BOOLEAN]

(* The mutations of the page that is shown.                                 *)
OfPage(op) == {m \in MutationType : m.op = op /\ m.list \in Mounted(path)}

PageStep ==
    \/ \E m \in OfPage("status") : \E r \in Id : Switch(m, r)
    \/ \E list \in List : \E d \in RowDialog : \E r \in Id : OpenOn(list, d, r)
    \/ \E d \in PlainDialog : OpenPlain(d)
    \/ \E list \in List : Refresh(list)
    \/ \E d \in Dialog : Dismiss(d)
    \/ \E m \in OfPage("create") : Save(m, "add")
    \/ \E m \in OfPage("update") : Save(m, "edit")
    \/ TypeName
    \/ \E m \in OfPage("delete") : handleDelete(m)
    \/ \E m \in OfPage("sync") : SyncSelected(m)

LEMMA PeersSteps == ASSUME Peers PROVE PageStep
<1>1. path = "/peers" /\ "peers_list" \in List /\ "peers_list" \in Mounted(path) BY DEF Peers, List, Mounted
<1>2. /\ useUpdatePeerStatusMutation \in OfPage("status") /\ useCreatePeerMutation \in OfPage("create")
      /\ useUpdatePeerMutation \in OfPage("update") /\ useDeletePeerMutation \in OfPage("delete")
      /\ syncSelectedPeers \in OfPage("sync")
  BY <1>1 DEF OfPage, MutationType, Op, Mutation, Rewriting, usePeersListQuery, useUpdatePeerStatusMutation,
       useCreatePeerMutation, useUpdatePeerMutation, useDeletePeerMutation, syncSelectedPeers, List
<1>3. "sync" \in PlainDialog /\ "add" \in PlainDialog BY DEF PlainDialog
<1>4. ASSUME NEW r \in Id, handlePeerToggle(r) \/ PeersTableRowActions(r) PROVE PageStep
  BY <1>1, <1>2, <1>4 DEF handlePeerToggle, PeersTableRowActions, PageStep, usePeersListQuery
<1>5. CASE PeersPrimaryButtons BY <1>1, <1>3, <1>5 DEF PeersPrimaryButtons, PageStep, usePeersListQuery
<1>6. CASE PeersDialogs BY <1>2, <1>6 DEF PeersDialogs, PageStep
<1> QED BY <1>4, <1>5, <1>6 DEF Peers

LEMMA InterfacesSteps == ASSUME Interfaces PROVE PageStep
<1>1. /\ path = "/interfaces" /\ "interfaces_list" \in List /\ "interfaces_list" \in Mounted(path)
  BY DEF Interfaces, List, Mounted
<1>2. /\ useUpdateInterfaceStatusMutation \in OfPage("status") /\ useCreateInterfaceMutation \in OfPage("create")
      /\ useUpdateInterfaceMutation \in OfPage("update") /\ useDeleteInterfaceMutation \in OfPage("delete")
      /\ syncSelectedInterfaces \in OfPage("sync")
  BY <1>1 DEF OfPage, MutationType, Op, Mutation, useInterfacesListQuery, useUpdateInterfaceStatusMutation,
       useCreateInterfaceMutation, useUpdateInterfaceMutation, useDeleteInterfaceMutation, syncSelectedInterfaces, List
<1>3. /\ "sync" \in PlainDialog /\ "add" \in PlainDialog /\ {"sync", "add", "edit", "delete"} \subseteq Dialog
      /\ {"edit", "delete"} \subseteq RowDialog
  BY DEF PlainDialog, RowDialog, Dialog
<1>4. ASSUME NEW r \in Id, handleInterfaceToggle(r) \/ InterfacesTableRowActions(r) PROVE PageStep
  BY <1>1, <1>2, <1>3, <1>4 DEF handleInterfaceToggle, InterfacesTableRowActions, PageStep, useInterfacesListQuery
<1>5. CASE InterfacesPrimaryButtons
  BY <1>1, <1>3, <1>5 DEF InterfacesPrimaryButtons, PageStep, useInterfacesListQuery
<1>6. CASE InterfacesDialogs BY <1>2, <1>3, <1>6 DEF InterfacesDialogs, PageStep
<1> QED BY <1>4, <1>5, <1>6 DEF Interfaces

LEMMA PoolsSteps == ASSUME Pools PROVE PageStep
<1>1. path = "/pools" /\ "ip_pools_list" \in List /\ "ip_pools_list" \in Mounted(path) BY DEF Pools, List, Mounted
<1>2. /\ useCreateIPPoolMutation \in OfPage("create") /\ useUpdateIPPoolMutation \in OfPage("update")
      /\ useDeleteIPPoolMutation \in OfPage("delete")
  BY <1>1 DEF OfPage, MutationType, Op, Mutation, useIPPoolsListQuery, useCreateIPPoolMutation,
       useUpdateIPPoolMutation, useDeleteIPPoolMutation, List
<1>3. /\ "add" \in PlainDialog /\ {"add", "edit", "delete"} \subseteq Dialog /\ {"edit", "delete"} \subseteq RowDialog
  BY DEF PlainDialog, RowDialog, Dialog
<1>4. ASSUME NEW r \in Id, PoolsTableRowActions(r) PROVE PageStep
  BY <1>1, <1>3, <1>4 DEF PoolsTableRowActions, PageStep, useIPPoolsListQuery
<1>5. CASE PoolsPrimaryButtons BY <1>1, <1>3, <1>5 DEF PoolsPrimaryButtons, PageStep, useIPPoolsListQuery
<1>6. CASE PoolsDialogs BY <1>2, <1>3, <1>6 DEF PoolsDialogs, PageStep
<1> QED BY <1>4, <1>5, <1>6 DEF Pools

LEMMA ServersSteps == ASSUME Servers PROVE PageStep
<1>1. path = "/servers" /\ "servers_list" \in List /\ "servers_list" \in Mounted(path) BY DEF Servers, List, Mounted
<1>2. /\ useUpdateServerStatusMutation \in OfPage("status") /\ useCreateServerMutation \in OfPage("create")
      /\ useUpdateServerMutation \in OfPage("update") /\ useDeleteServerMutation \in OfPage("delete")
  BY <1>1 DEF OfPage, MutationType, Op, Mutation, useServersListQuery, useUpdateServerStatusMutation,
       useCreateServerMutation, useUpdateServerMutation, useDeleteServerMutation, List
<1>3. /\ "add" \in PlainDialog /\ {"add", "edit", "delete"} \subseteq Dialog /\ {"edit", "delete"} \subseteq RowDialog
  BY DEF PlainDialog, RowDialog, Dialog
<1>4. ASSUME NEW r \in Id, handleServerToggle(r) \/ ServersTableRowActions(r) PROVE PageStep
  BY <1>1, <1>2, <1>3, <1>4 DEF handleServerToggle, ServersTableRowActions, PageStep, useServersListQuery
<1>5. CASE ServersPrimaryButtons BY <1>1, <1>3, <1>5 DEF ServersPrimaryButtons, PageStep, useServersListQuery
<1>6. CASE ServersDialogs BY <1>2, <1>3, <1>6 DEF ServersDialogs, PageStep
<1> QED BY <1>4, <1>5, <1>6 DEF Servers

-----------------------------------------------------------------------------
(* What becomes of a request that was on its way already: it asks for the   *)
(* same thing, nobody begins to wait for it, and it is refused only without *)
(* a token the server accepts.                                             *)
Continues(a, b) ==
    /\ b \in Request
    /\ b.op = a.op /\ b.list = a.list /\ b.id = a.id /\ b.sure = a.sure /\ b.with = a.with
    /\ b.here => a.here /\ b.waiting
    /\ b.form # "gone" => a.form # "gone" /\ (a.here /\ a.op \in {"create", "update", "delete"} => b.here)
    /\ b.phase # a.phase =>
         /\ b.phase = "ok" => a.op # "login"
         /\ b.phase = "denied" => a.with \notin live
         /\ b.phase = "reading" => a.op = "sync"

Requests == [Slot -> Request \cup {Null}]

(* The requests of f go on from those on their way.                          *)
GoOn(f) == f \in Requests /\ \A s \in Slot : f[s] # Null => net[s] # Null /\ Continues(net[s], f[s])

(* The dialogs still wait for them in the same form.                         *)
FormsKept(f) ==
    \A s \in Slot : f[s] # Null /\ f[s].here /\ f[s].op \in {"create", "update", "delete"} => f[s].form = net[s].form

LEMMA SameGoOn == ASSUME net \in Requests, RequestsInv PROVE GoOn(net) /\ FormsKept(net)
BY DEF GoOn, FormsKept, Continues, Requests, RequestsInv, RequestFacts

LEMMA SettledGoOn ==
    ASSUME net \in Requests, RequestsInv, CalmInv, NEW s \in Slot, net[s] # Null
    PROVE  GoOn(Settled(s)) /\ Settled(s)[s] = Null /\ (~hasty => FormsKept(Settled(s)))
<1> DEFINE f == Settled(s)
<1>1. f \in Requests BY SMT DEF Settled, SameDialog, Requests, Request
<1>2. ASSUME NEW t \in Slot, f[t] # Null PROVE net[t] # Null /\ Continues(net[t], f[t])
  <2>1. t # s /\ net[t] # Null /\ net[t] \in Request BY <1>2 DEF Settled, SameDialog, Requests
  <2>2. CASE f[t] = net[t] BY <2>1, <2>2 DEF Continues, RequestsInv, RequestFacts
  <2>3. CASE f[t] = [net[t] EXCEPT !.form = "closed"] /\ net[t].form # "gone"
    BY <2>1, <2>3 DEF Continues, RequestsInv, RequestFacts, Request
  <2> QED BY <2>1, <2>2, <2>3 DEF Settled, SameDialog
<1>3. ASSUME ~hasty, NEW t \in Slot, f[t] # Null, f[t].here, f[t].op \in {"create", "update", "delete"}
      PROVE  f[t].form = net[t].form
  <2>1. t # s /\ net[t] # Null /\ net[t] \in Request BY <1>3 DEF Settled, SameDialog, Requests
  <2>2. CASE SameDialog(s, t)
    <3>1. net[s].here /\ net[t].here BY <2>1, <2>2 DEF SameDialog, RequestsInv, RequestFacts
    <3>2. PICK d \in Asking : net[s].op = OpOf(d) /\ net[t].op = OpOf(d)
      BY <2>2 DEF SameDialog, Asking, OpOf
    <3> QED BY <2>1, <3>1, <3>2, <1>3 DEF CalmInv, OpenWhileAsked, WaitsIn
  <2> QED BY <2>1, <2>2 DEF Settled
<1> QED BY <1>1, <1>2, <1>3 DEF GoOn, FormsKept, Settled

LEMMA OrphanedGoOn ==
    ASSUME net \in Requests, RequestsInv, NEW ops, NEW form \in {"closed", "gone"},
           form = "gone" => \A s \in Slot : net[s] # Null => (net[s].op \in ops => net[s].op \in {"update", "delete"})
    PROVE  GoOn(Orphaned(ops, form))
<1> DEFINE f == Orphaned(ops, form)
<1>1. f \in Requests BY SMT DEF Orphaned, Requests, Request
<1>2. ASSUME NEW t \in Slot, f[t] # Null PROVE net[t] # Null /\ Continues(net[t], f[t])
  <2>1. net[t] # Null /\ net[t] \in Request BY <1>2 DEF Orphaned, Requests
  <2>2. CASE f[t] = net[t] BY <2>1, <2>2 DEF Continues, RequestsInv, RequestFacts
  <2>3. CASE f[t] = [net[t] EXCEPT !.form = form] /\ net[t].form # "gone"
    BY <2>1, <2>3 DEF Continues, RequestsInv, RequestFacts, Request
  <2> QED BY <2>1, <2>2, <2>3 DEF Orphaned
<1> QED BY <1>1, <1>2 DEF GoOn

(* A request of which one field changes is still that request.               *)
Alike(a, b) ==
    /\ b \in Request
    /\ b.op = a.op /\ b.list = a.list /\ b.id = a.id /\ b.sure = a.sure /\ b.with = a.with

InPhase(r, phase) == [r EXCEPT !.phase = phase]
CellGone(r) == [r EXCEPT !.here = FALSE]
PageLeft(r) == [r EXCEPT !.here = FALSE, !.form = "gone"]
GivenUp(r) == [r EXCEPT !.waiting = FALSE, !.here = FALSE, !.form = "gone"]

LEMMA InPhaseFacts ==
    ASSUME NEW r \in Request, NEW phase \in {"sent", "ok", "failed", "denied", "reading"}
    PROVE  LET b == InPhase(r, phase)
           IN  Alike(r, b) /\ b.phase = phase /\ b.here = r.here /\ b.waiting = r.waiting /\ b.form = r.form
BY DEF Alike, Request, InPhase

LEMMA CellGoneFacts ==
    ASSUME NEW r \in Request
    PROVE  LET b == CellGone(r)
           IN  Alike(r, b) /\ b.phase = r.phase /\ ~b.here /\ b.waiting = r.waiting /\ b.form = r.form
BY DEF Alike, Request, CellGone

LEMMA PageLeftFacts ==
    ASSUME NEW r \in Request
    PROVE  LET b == PageLeft(r)
           IN  Alike(r, b) /\ b.phase = r.phase /\ ~b.here /\ b.waiting = r.waiting /\ b.form = "gone"
BY DEF Alike, Request, PageLeft

LEMMA GivenUpFacts ==
    ASSUME NEW r \in Request
    PROVE  LET b == GivenUp(r)
           IN  Alike(r, b) /\ b.phase = r.phase /\ ~b.here /\ ~b.waiting /\ b.form = "gone"
BY DEF Alike, Request, GivenUp

LEMMA CellsLeftGoOn ==
    ASSUME net \in Requests, RequestsInv, NEW list, NEW rows
    PROVE  GoOn(CellsLeft(list, rows)) /\ FormsKept(CellsLeft(list, rows))
<1> DEFINE f == CellsLeft(list, rows)
<1>1. ASSUME NEW t \in Slot
      PROVE  \/ f[t] = net[t]
             \/ net[t] # Null /\ net[t].op = "status" /\ f[t] = CellGone(net[t])
  BY DEF CellsLeft, CellGone
<1>2. f \in Requests
  <2>1. ASSUME NEW t \in Slot PROVE f[t] \in Request \cup {Null} BY <1>1, CellGoneFacts DEF Requests, Alike
  <2> QED BY <2>1 DEF CellsLeft, Requests
<1>3. ASSUME NEW t \in Slot, f[t] # Null
      PROVE  net[t] # Null /\ Continues(net[t], f[t]) /\ f[t].form = net[t].form
  <2>1. CASE f[t] = net[t] BY <1>3, <2>1, SameGoOn DEF GoOn
  <2>2. CASE net[t] # Null /\ net[t].op = "status" /\ f[t] = CellGone(net[t])
    BY <2>2, CellGoneFacts DEF Requests, Alike, Continues
  <2> QED BY <1>1, <2>1, <2>2
<1>4. FormsKept(f) BY <1>3 DEF FormsKept
<1> QED BY <1>2, <1>3, <1>4 DEF GoOn

LEMMA AnsweredGoOn ==
    ASSUME net \in Requests, RequestsInv, NEW s \in Slot, net[s] # Null,
           NEW phase \in {"ok", "failed", "denied"},
           phase = "ok" => net[s].op # "login", phase = "denied" => net[s].with \notin live
    PROVE  GoOn(Answered(s, phase)) /\ FormsKept(Answered(s, phase))
<1> DEFINE f == Answered(s, phase)
<1>1. net[s] \in Request BY DEF Requests
<1>2. ASSUME NEW t \in Slot
      PROVE  f[t] = net[t] \/ (t = s /\ (f[t] = Null \/ f[t] = InPhase(net[t], phase)))
  BY DEF Answered, Requests, InPhase
<1>3. f \in Requests
  <2>1. ASSUME NEW t \in Slot PROVE f[t] \in Request \cup {Null} BY <1>1, <1>2, InPhaseFacts DEF Requests, Alike
  <2> QED BY <2>1 DEF Answered, Requests
<1>4. ASSUME NEW t \in Slot, f[t] # Null
      PROVE  net[t] # Null /\ Continues(net[t], f[t]) /\ f[t].form = net[t].form
  <2>1. CASE f[t] = net[t] BY <1>4, <2>1, SameGoOn DEF GoOn
  <2>2. CASE t = s /\ f[t] = InPhase(net[t], phase)
    BY <1>1, <2>2, InPhaseFacts DEF Alike, Continues, RequestsInv, RequestFacts
  <2> QED BY <1>2, <1>4, <2>1, <2>2
<1>5. FormsKept(f) BY <1>4 DEF FormsKept
<1> QED BY <1>3, <1>4, <1>5 DEF GoOn

LEMMA AbandonedGoOn ==
    ASSUME NEW f, GoOn(f)
    PROVE  GoOn(Abandoned(f)) /\ \A s \in Slot : Abandoned(f)[s] # Null => ~Abandoned(f)[s].here
<1>1. ASSUME NEW t \in Slot
      PROVE  /\ Abandoned(f)[t] \in Request \cup {Null}
             /\ Abandoned(f)[t] # Null =>
                  net[t] # Null /\ Continues(net[t], Abandoned(f)[t]) /\ ~Abandoned(f)[t].here
  <2>1. CASE f[t] = Null BY <2>1 DEF Abandoned
  <2>2. CASE f[t] # Null
    <3>1. f[t] \in Request /\ net[t] # Null /\ Continues(net[t], f[t]) BY <2>2 DEF GoOn, Continues
    <3>2. Abandoned(f)[t] = PageLeft(f[t]) BY <2>2 DEF Abandoned, PageLeft
    <3> QED BY <3>1, <3>2, PageLeftFacts DEF Alike, Continues
  <2> QED BY <2>1, <2>2
<1>2. Abandoned(f) = [t \in Slot |-> Abandoned(f)[t]] BY DEF Abandoned
<1>3. Abandoned(f) \in Requests BY <1>1, <1>2 DEF Requests
<1> QED BY <1>1, <1>3 DEF GoOn

LEMMA GivenUpGoOn ==
    ASSUME net \in Requests, RequestsInv, CalmInv, NEW s \in Slot, net[s] # Null
    PROVE  LET f == [Settled(s) EXCEPT ![s] = GivenUp(net[s])] IN GoOn(f) /\ (~hasty => FormsKept(f))
<1> DEFINE f == [Settled(s) EXCEPT ![s] = GivenUp(net[s])]
<1>1. GoOn(Settled(s)) /\ (~hasty => FormsKept(Settled(s))) BY SettledGoOn
<1>2. net[s] \in Request BY DEF Requests
<1>3. Continues(net[s], GivenUp(net[s])) /\ ~GivenUp(net[s]).here BY <1>2, GivenUpFacts DEF Continues, Alike
<1>4. f \in Requests BY <1>1, <1>3 DEF GoOn, Requests, Continues
<1>5. ASSUME NEW t \in Slot PROVE f[t] = IF t = s THEN GivenUp(net[s]) ELSE Settled(s)[t]
  BY DEF Settled
<1> HIDE DEF f
<1>6. GoOn(f) BY <1>1, <1>3, <1>4, <1>5 DEF GoOn
<1>7. ~hasty => FormsKept(f) BY <1>1, <1>3, <1>5 DEF FormsKept
<1> QED BY <1>6, <1>7 DEF f

(* A token that the server has not issued yet is in no request.              *)
LiveKept == issued \subseteq issued' /\ \A t \in issued \cup {Null} : t \in live' => t \in live

LEMMA RequestsKept ==
    ASSUME RequestsInv, GoOn(net'), LiveKept,
           path' = path \/ \A s \in Slot : net'[s] # Null => ~net'[s].here
    PROVE  RequestsInv'
<1> SUFFICES ASSUME NEW s \in Slot, net'[s] # Null PROVE RequestFacts(net[s])' BY DEF RequestsInv
<1>1. net[s] # Null /\ Continues(net[s], net'[s]) /\ RequestFacts(net[s]) BY DEF GoOn, RequestsInv
<1> QED BY <1>1 DEF LiveKept, RequestFacts, Continues

LEMMA WaitedBefore ==
    ASSUME GoOn(net'), NEW s \in Slot, NEW d, WaitsIn(s, d)'
    PROVE  WaitsIn(s, d) /\ net'[s].id = net[s].id
BY DEF GoOn, WaitsIn, Continues

LEMMA SureKept == ASSUME DeletesAreSure, GoOn(net') PROVE DeletesAreSure'
BY DEF GoOn, DeletesAreSure, Continues

LEMMA AskedKept ==
    ASSUME OpenWhileAsked, GoOn(net'), FormsKept(net'), UNCHANGED <<open, row>>
    PROVE  OpenWhileAsked'
<1> SUFFICES ASSUME NEW s \in Slot, NEW d \in Asking, WaitsIn(s, d)'
             PROVE  /\ open = d /\ (d # "sync" => net'[s].form = "open")
                    /\ d \in {"edit", "delete"} => net'[s].id = row.id
                    /\ \A t \in Slot : WaitsIn(t, d)' => t = s
  BY DEF OpenWhileAsked
<1>1. WaitsIn(s, d) /\ net'[s].id = net[s].id BY WaitedBefore
<1>2. d # "sync" => net'[s].form = net[s].form BY DEF FormsKept, WaitsIn, Asking, OpOf
<1>3. \A t \in Slot : WaitsIn(t, d)' => WaitsIn(t, d) BY WaitedBefore
<1> QED BY <1>1, <1>2, <1>3 DEF OpenWhileAsked

LEMMA CalmKept ==
    ASSUME CalmInv, GoOn(net'), ~hasty => FormsKept(net'), UNCHANGED dialogVars
    PROVE  CalmInv'
BY AskedKept, SureKept DEF CalmInv, dialogVars, RowIsOfDialog

(* The dialog of a request closes when nobody else waits in a dialog.        *)
LEMMA CalmWithout ==
    ASSUME CalmInv, GoOn(net'), hasty => hasty',
           ~hasty' => \A s \in Slot, d \in Asking : ~WaitsIn(s, d)',
           ~hasty' => RowIsOfDialog' /\ (typed # Null => retyped)'
    PROVE  CalmInv'
BY SureKept DEF CalmInv, OpenWhileAsked

-----------------------------------------------------------------------------
(* What becomes of the reads                                               *)

Reads == [List -> Read \cup {Null}]

LEMMA NewReadType == ASSUME NEW w \in Token \cup {Null} PROVE NewRead(w) \in Read
BY DEF NewRead, Read

(* Each read of f is one on its way, or one that begins.                     *)
ReadsFrom(f, g, w) == \A list \in List : f[list] \in {Null, g[list], NewRead(w)}

LEMMA MountReads ==
    ASSUME NEW g \in Reads, NEW bad, NEW page, NEW stale, NEW w \in Token \cup {Null}
    PROVE  ReadsOnMount(g, bad, page, stale, w) \in Reads /\ ReadsFrom(ReadsOnMount(g, bad, page, stale, w), g, w)
BY NewReadType DEF ReadsOnMount, Reads, ReadsFrom

LEMMA ReadsKept ==
    ASSUME ReadsInv, LiveKept, NEW w \in issued' \cup {Null},
           \A list \in List : \/ fetch'[list] \in {Null, NewRead(w)}
                              \/ fetch'[list] = fetch[list] /\ due'[list] = due[list]
    PROVE  ReadsInv'
<1> SUFFICES ASSUME NEW list \in List, fetch'[list] # Null
             PROVE  /\ fetch'[list].with \in issued' \cup {Null}
                    /\ fetch'[list].phase = "denied" => fetch'[list].with \notin live'
                    /\ fetch'[list].phase = "ok" =>
                         fetch'[list].answer \in Answer
                         /\ (fetch'[list].overtaken \/ fetch'[list].answer.asof >= due'[list])
  BY DEF ReadsInv
<1>1. CASE fetch'[list] = NewRead(w) BY <1>1 DEF NewRead
<1>2. CASE fetch'[list] = fetch[list] /\ due'[list] = due[list] BY <1>2 DEF ReadsInv, LiveKept
<1> QED BY <1>1, <1>2

Passed(read) == [read EXCEPT !.overtaken = TRUE]

LEMMA PassedRead ==
    ASSUME NEW read \in Read
    PROVE  /\ Passed(read) \in Read /\ Passed(read).overtaken
           /\ Passed(read).with = read.with /\ Passed(read).phase = read.phase /\ Passed(read).answer = read.answer
BY DEF Passed, Read

(* invalidateQueries: a read is begun anew, or marked as overtaken, or it is  *)
(* of a list that nothing happened to.                                      *)
LEMMA InvalidationReads ==
    ASSUME ConsoleTypeOK, NEW lists
    PROVE  /\ MarkedReads(lists) \in Reads
           /\ Invalidated(lists) \in [List -> BOOLEAN]
           /\ DueAfter(lists) \in [List -> 0 .. MaxChanges]
           /\ \A list \in List :
                /\ \/ MarkedReads(lists)[list] \in {Null, NewRead(token)}
                   \/ MarkedReads(lists)[list] = fetch[list] /\ DueAfter(lists)[list] = due[list]
                   \/ fetch[list] # Null /\ MarkedReads(lists)[list] = Passed(fetch[list])
                /\ Invalidated(lists)[list] \/ (~invalid[list] /\ DueAfter(lists)[list] = due[list])
                /\ DueAfter(lists)[list] \in {due[list], version[list]}
<1>1. token \in Token \cup {Null} BY DEF ConsoleTypeOK
<1>2. Invalidated(lists) \in [List -> BOOLEAN] BY DEF ConsoleTypeOK, Invalidated
<1>3. DueAfter(lists) \in [List -> 0 .. MaxChanges] BY DEF ConsoleTypeOK, DueAfter
<1>4. ASSUME NEW list \in List
      PROVE  /\ \/ MarkedReads(lists)[list] \in {Null, NewRead(token)}
                \/ MarkedReads(lists)[list] = fetch[list] /\ DueAfter(lists)[list] = due[list]
                \/ fetch[list] # Null /\ MarkedReads(lists)[list] = Passed(fetch[list])
             /\ MarkedReads(lists)[list] \in Read \cup {Null}
  <2>1. ReadsAfter(lists)[list]
          = IF list \in lists /\ Restarted(list, path) THEN NewRead(token) ELSE fetch[list]
    BY DEF ReadsAfter
  <2>2. fetch[list] \in Read \cup {Null} BY DEF ConsoleTypeOK
  <2>3. CASE list \in Overtaken(lists)
    <3>1. fetch[list] # Null /\ ~Restarted(list, path) BY <2>3 DEF Overtaken, Restarted
    <3>2. MarkedReads(lists)[list] = Passed(fetch[list])
      BY <2>1, <2>3, <3>1 DEF MarkedReads, Passed
    <3> QED BY <2>2, <3>1, <3>2, PassedRead
  <2>4. CASE list \notin Overtaken(lists)
    <3>1. MarkedReads(lists)[list] = ReadsAfter(lists)[list] BY <2>4 DEF MarkedReads
    <3>2. \/ MarkedReads(lists)[list] \in {Null, NewRead(token)}
          \/ MarkedReads(lists)[list] = fetch[list] /\ list \notin lists
      BY <2>1, <2>4, <3>1 DEF Overtaken, Restarted
    <3> QED BY <1>1, <2>2, <3>2, NewReadType DEF DueAfter
  <2> QED BY <2>3, <2>4
<1>5. MarkedReads(lists) \in Reads BY <1>4 DEF MarkedReads, Reads
<1>6. ASSUME NEW list \in List
      PROVE  /\ Invalidated(lists)[list] \/ (~invalid[list] /\ DueAfter(lists)[list] = due[list])
             /\ DueAfter(lists)[list] \in {due[list], version[list]}
  BY DEF Invalidated, DueAfter
<1> QED BY <1>2, <1>3, <1>4, <1>5, <1>6

LEMMA ListsKept ==
    ASSUME ConsoleTypeOK, ListsInv, cache' = cache,
           \A list \in List :
             /\ version'[list] \in Nat /\ version[list] <= version'[list]
             /\ due'[list] \in {due[list], version[list]}
             /\ invalid'[list] \/ (~invalid[list] /\ due'[list] = due[list])
    PROVE  ListsInv'
<1> SUFFICES ASSUME NEW list \in List
             PROVE  /\ due'[list] <= version'[list]
                    /\ cache'[list] # Null /\ ~invalid'[list] => cache'[list].overtaken \/ cache'[list].asof >= due'[list]
  BY DEF ListsInv
<1>1. version[list] \in Nat /\ due[list] \in Nat BY BoundsAssumption DEF ConsoleTypeOK
<1> QED BY <1>1 DEF ListsInv

-----------------------------------------------------------------------------
(* Every step keeps the invariant: the answers that only settle a request,  *)
(* and the reads                                                           *)

LEMMA LiveSame == ASSUME UNCHANGED <<live, issued>> PROVE LiveKept
BY DEF LiveKept

LEMMA ReadsSame == ASSUME ReadsInv, LiveKept, UNCHANGED <<fetch, due>> PROVE ReadsInv'
<1>1. Null \in issued' \cup {Null} OBVIOUS
<1> QED BY <1>1, ReadsKept

LEMMA ListsSame == ASSUME ListsInv, UNCHANGED <<cache, invalid, due, version>> PROVE ListsInv'
BY DEF ListsInv

LEMMA RequestStep ==
    ASSUME ConsoleInv, GoOn(net'), ~hasty => FormsKept(net'),
           UNCHANGED <<serverVars, queryVars, authVars, path, dialogVars, tour>>
    PROVE  ConsoleInv'
<1>1. LiveKept BY LiveSame DEF serverVars
<1>2. RequestsInv' BY <1>1, RequestsKept DEF ConsoleInv
<1>3. ReadsInv' /\ ListsInv' BY <1>1, ReadsSame, ListsSame DEF ConsoleInv, serverVars, queryVars
<1>4. CalmInv' BY CalmKept DEF ConsoleInv
<1>5. ConsoleTypeOK'
  BY DEF ConsoleInv, ConsoleTypeOK, GoOn, Requests, serverVars, queryVars, authVars, dialogVars
<1> QED BY <1>2, <1>3, <1>4, <1>5 DEF ConsoleInv

LEMMA InvParts ==
    ASSUME ConsoleInv
    PROVE  /\ net \in Requests /\ RequestsInv /\ CalmInv /\ fetch \in Reads
           /\ token \in issued \cup {Null} /\ token \in Token \cup {Null}
BY DEF ConsoleInv, ConsoleTypeOK, Requests, Reads

LEMMA ServeRefusalStep == ASSUME ConsoleInv, NEW s \in Slot, ServeRefusal(s) PROVE ConsoleInv'
<1>1. /\ RefusalOf(net[s]) \in {"ok", "failed", "denied"}
      /\ RefusalOf(net[s]) = "ok" => net[s].op # "login"
      /\ RefusalOf(net[s]) = "denied" => net[s].with \notin live
  BY DEF RefusalOf
<1>2. GoOn(net') /\ FormsKept(net') BY <1>1, InvParts, AnsweredGoOn DEF ServeRefusal
<1> QED BY <1>2, RequestStep DEF ServeRefusal

LEMMA ServeProfileStep == ASSUME ConsoleInv, NEW s \in Slot, ServeProfile(s) PROVE ConsoleInv'
<1>1. GoOn(net') /\ FormsKept(net') BY InvParts, AnsweredGoOn DEF ServeProfile
<1> QED BY <1>1, RequestStep DEF ServeProfile

LEMMA GiveUpStep == ASSUME ConsoleInv, NEW s \in Slot, GiveUp(s) PROVE ConsoleInv'
<1>1. net' = [Settled(s) EXCEPT ![s] = GivenUp(net[s])] BY DEF GiveUp, GivenUp
<1>2. GoOn(net') /\ (~hasty => FormsKept(net')) BY <1>1, InvParts, GivenUpGoOn DEF GiveUp
<1> QED BY <1>2, RequestStep DEF GiveUp

LEMMA FailedStep == ASSUME ConsoleInv, NEW s \in Slot, Failed(s) PROVE ConsoleInv'
<1>1. GoOn(net') /\ (~hasty => FormsKept(net')) BY InvParts, SettledGoOn DEF Failed
<1> QED BY <1>1, RequestStep DEF Failed

LEMMA ReadStep ==
    ASSUME ConsoleInv, fetch' \in Reads, ReadsInv',
           UNCHANGED <<serverVars, cache, invalid, due, net, authVars, path, dialogVars, tour>>
    PROVE  ConsoleInv'
<1>1. GoOn(net') /\ FormsKept(net') BY InvParts, SameGoOn
<1>2. RequestsInv' BY <1>1, LiveSame, RequestsKept DEF ConsoleInv, serverVars
<1>3. ListsInv' BY ListsSame DEF ConsoleInv, serverVars
<1>4. CalmInv' BY <1>1, CalmKept DEF ConsoleInv
<1>5. ConsoleTypeOK' BY DEF ConsoleInv, ConsoleTypeOK, Reads, serverVars, authVars, dialogVars
<1> QED BY <1>2, <1>3, <1>4, <1>5 DEF ConsoleInv

LEMMA ServeReadStep == ASSUME ConsoleInv, NEW list \in List, ServeRead(list) PROVE ConsoleInv'
<1>1. PICK phase \in {"ok", "failed", "denied"} :
        /\ phase = "denied" <=> fetch[list].with \notin live
        /\ fetch' = [fetch EXCEPT ![list].phase = phase,
                       ![list].answer = IF phase = "ok"
                           THEN [rows |-> table[list], asof |-> version[list]] ELSE Null]
  BY DEF ServeRead
<1>2. fetch[list] \in Read /\ fetch[list] # Null BY InvParts DEF ServeRead, Reads
<1>3. [rows |-> table[list], asof |-> version[list]] \in Answer /\ version[list] >= due[list]
  BY BoundsAssumption DEF ConsoleInv, ConsoleTypeOK, ListsInv, Answer
<1> DEFINE answer == IF phase = "ok" THEN [rows |-> table[list], asof |-> version[list]] ELSE Null
           f == [fetch[list] EXCEPT !.phase = phase, !.answer = answer]
<1>4. f \in Read /\ f.with = fetch[list].with /\ f.phase = phase /\ f.answer = answer
  BY <1>2, <1>3 DEF Read
<1>5. fetch' = [fetch EXCEPT ![list] = f] BY <1>1, <1>2, InvParts DEF Reads, Read
<1> HIDE DEF f
<1>6. fetch' \in Reads BY <1>4, <1>5, InvParts DEF Reads
<1>7. ReadsInv'
  <2> SUFFICES ASSUME NEW l \in List, fetch'[l] # Null
               PROVE  /\ fetch'[l].with \in issued' \cup {Null}
                      /\ fetch'[l].phase = "denied" => fetch'[l].with \notin live'
                      /\ fetch'[l].phase = "ok" =>
                           fetch'[l].answer \in Answer
                           /\ (fetch'[l].overtaken \/ fetch'[l].answer.asof >= due'[l])
    BY DEF ReadsInv
  <2>1. UNCHANGED <<live, issued, due>> BY DEF ServeRead, serverVars
  <2>2. CASE l = list
    <3>1. fetch'[l] = f BY <2>2, <1>5, InvParts DEF Reads
    <3> QED BY <2>1, <2>2, <3>1, <1>1, <1>2, <1>3, <1>4 DEF ConsoleInv, ReadsInv
  <2>3. CASE l # list
    <3>1. fetch'[l] = fetch[l] BY <2>3, <1>5, InvParts DEF Reads
    <3> QED BY <2>1, <3>1 DEF ConsoleInv, ReadsInv
  <2> QED BY <2>2, <2>3
<1> QED BY <1>6, <1>7, ReadStep DEF ServeRead

(* Reads that begin, or end with nothing to show.                           *)
LEMMA BegunReadStep ==
    ASSUME ConsoleInv, fetch' \in Reads, ReadsFrom(fetch', fetch, token),
           UNCHANGED <<serverVars, cache, invalid, due, net, authVars, path, dialogVars, tour>>
    PROVE  ConsoleInv'
<1>1. \A list \in List : \/ fetch'[list] \in {Null, NewRead(token)}
                         \/ fetch'[list] = fetch[list] /\ due'[list] = due[list]
  BY DEF ReadsFrom
<1>2. token \in issued' \cup {Null} BY InvParts DEF serverVars
<1>3. LiveKept BY LiveSame DEF serverVars
<1>4. ReadsInv' BY <1>1, <1>2, <1>3, ReadsKept DEF ConsoleInv
<1> QED BY <1>4, ReadStep

LEMMA ReadFailedStep == ASSUME ConsoleInv, NEW list \in List, ReadFailed(list) PROVE ConsoleInv'
<1>1. fetch' \in Reads /\ ReadsFrom(fetch', fetch, token) BY InvParts DEF ReadFailed, Reads, ReadsFrom
<1> QED BY <1>1, BegunReadStep DEF ReadFailed

LEMMA RefreshStep == ASSUME ConsoleInv, NEW list \in List, Refresh(list) PROVE ConsoleInv'
<1>1. NewRead(token) \in Read BY InvParts, NewReadType
<1>2. fetch' \in Reads /\ ReadsFrom(fetch', fetch, token) BY <1>1, InvParts DEF Refresh, Reads, ReadsFrom
<1> QED BY <1>2, BegunReadStep DEF Refresh

LEMMA WindowFocusStep == ASSUME ConsoleInv, WindowFocus PROVE ConsoleInv'
<1>1. fetch' \in Reads /\ ReadsFrom(fetch', fetch, token) BY InvParts, MountReads DEF WindowFocus
<1> QED BY <1>1, BegunReadStep DEF WindowFocus

(* An answer lands: it shows what it was begun for.                          *)
LEMMA ReadDoneStep == ASSUME ConsoleInv, NEW list \in List, ReadDone(list) PROVE ConsoleInv'
<1> DEFINE answer == fetch[list].answer
<1>1. answer \in Answer /\ (fetch[list].overtaken \/ answer.asof >= due[list])
  BY DEF ReadDone, ConsoleInv, ReadsInv
<1> DEFINE kept == Landed(fetch[list])
<1>10. /\ kept \in Kept /\ (kept.overtaken \/ kept.asof >= due[list]) /\ cache' = [cache EXCEPT ![list] = kept]
  <2>1. fetch[list] \in Read BY InvParts DEF ReadDone, Reads
  <2>2. kept.asof = answer.asof /\ kept.overtaken = fetch[list].overtaken BY DEF Landed
  <2>3. kept \in Kept BY <1>1, <2>1 DEF Landed, Answer, Read, Kept
  <2> QED BY <1>1, <2>2, <2>3 DEF ReadDone
<1> HIDE DEF kept
<1>2. GoOn(net') /\ FormsKept(net') BY InvParts, CellsLeftGoOn DEF ReadDone
<1>3. LiveKept BY LiveSame DEF ReadDone, serverVars
<1>4. RequestsInv' BY <1>2, <1>3, RequestsKept DEF ReadDone, ConsoleInv
<1>5. CalmInv' BY <1>2, CalmKept DEF ReadDone, ConsoleInv
<1>6. fetch' \in Reads /\ ReadsFrom(fetch', fetch, token) BY InvParts DEF ReadDone, Reads, ReadsFrom
<1>7. ReadsInv'
  <2>1. token \in issued' \cup {Null} BY InvParts DEF ReadDone, serverVars
  <2>2. \A l \in List : \/ fetch'[l] \in {Null, NewRead(token)}
                        \/ fetch'[l] = fetch[l] /\ due'[l] = due[l]
    BY <1>6 DEF ReadsFrom, ReadDone
  <2> QED BY <2>1, <2>2, <1>3, ReadsKept DEF ConsoleInv
<1>8. ListsInv'
  <2> SUFFICES ASSUME NEW l \in List
               PROVE  /\ due'[l] <= version'[l]
                      /\ cache'[l] # Null /\ ~invalid'[l] => cache'[l].overtaken \/ cache'[l].asof >= due'[l]
    BY DEF ListsInv
  <2>1. UNCHANGED <<due, version>> BY DEF ReadDone, serverVars
  <2>2. CASE l = list BY <1>10, <2>1, <2>2 DEF ConsoleInv, ConsoleTypeOK, ListsInv
  <2>3. CASE l # list BY <1>10, <2>1, <2>3 DEF ReadDone, ConsoleInv, ConsoleTypeOK, ListsInv
  <2> QED BY <2>2, <2>3
<1>9. ConsoleTypeOK'
  <2>1. cache' \in [List -> Kept \cup {Null}] BY <1>10 DEF ConsoleInv, ConsoleTypeOK
  <2>2. invalid' \in [List -> BOOLEAN] BY DEF ReadDone, ConsoleInv, ConsoleTypeOK
  <2> QED BY <1>2, <1>6, <2>1, <2>2
        DEF ReadDone, ConsoleInv, ConsoleTypeOK, GoOn, Requests, Reads, serverVars, authVars, dialogVars
<1> QED BY <1>4, <1>5, <1>7, <1>8, <1>9 DEF ConsoleInv, ReadDone

-----------------------------------------------------------------------------
(* The server                                                              *)

LEMMA ChangesBounded ==
    ASSUME ConsoleInv, NEW list \in List, Changes < tour.changes
    PROVE  version[list] \in Nat /\ version[list] + 1 \in 0 .. MaxChanges
<1>1. /\ version["device_data"] \in Nat /\ version["peers_list"] \in Nat /\ version["interfaces_list"] \in Nat
      /\ version["ip_pools_list"] \in Nat /\ version["servers_list"] \in Nat
  BY BoundsAssumption DEF ConsoleInv, ConsoleTypeOK, List
<1>2. tour.changes \in 0 .. MaxChanges BY BoundsAssumption DEF ConsoleInv, Tour
<1>3. version[list] \in Nat /\ version[list] <= Changes BY <1>1 DEF Changes, List
<1>4. Changes \in Nat BY <1>1 DEF Changes
<1> QED BY <1>2, <1>3, <1>4, BoundsAssumption

(* A list changes; what the interface knows stays what it was.               *)
LEMMA ChangeStep ==
    ASSUME ConsoleInv, GoOn(net'), FormsKept(net'), NEW list \in List, NEW rows \in [Id -> Status],
           Changes < tour.changes,
           table' = [table EXCEPT ![list] = rows], version' = [version EXCEPT ![list] = @ + 1],
           UNCHANGED <<live, issued, queryVars, authVars, path, dialogVars, tour>>
    PROVE  ConsoleInv'
<1>1. LiveKept BY LiveSame
<1>2. RequestsInv' BY <1>1, RequestsKept DEF ConsoleInv
<1>3. ReadsInv' BY <1>1, ReadsSame DEF ConsoleInv, queryVars
<1>4. CalmInv' BY CalmKept DEF ConsoleInv
<1>5. version[list] + 1 \in 0 .. MaxChanges BY ChangesBounded
<1>6. version' \in [List -> 0 .. MaxChanges] BY <1>5 DEF ConsoleInv, ConsoleTypeOK
<1>7. \A l \in List : version[l] \in Nat /\ version'[l] \in Nat /\ version[l] <= version'[l]
  BY <1>5, <1>6, BoundsAssumption DEF ConsoleInv, ConsoleTypeOK
<1>8. ListsInv' BY <1>7, ListsKept DEF ConsoleInv, queryVars, ListsInv, ConsoleTypeOK
<1>9. ConsoleTypeOK'
  BY <1>6 DEF ConsoleInv, ConsoleTypeOK, GoOn, Requests, queryVars, authVars, dialogVars
<1> QED BY <1>2, <1>3, <1>4, <1>8, <1>9 DEF ConsoleInv

LEMMA ServeChangeStep == ASSUME ConsoleInv, NEW s \in Slot, ServeChange(s) PROVE ConsoleInv'
<1>1. net[s] \in Request /\ net[s] # Null BY InvParts DEF ServeChange, Requests
<1>2. net[s].list \in List /\ table[net[s].list] \in [Id -> Status]
  BY <1>1 DEF Request, ConsoleInv, ConsoleTypeOK
<1>3. PICK rows \in Carried(net[s], table[net[s].list]) : table' = [table EXCEPT ![net[s].list] = rows]
  BY DEF ServeChange
<1>4. rows \in [Id -> Status]
  <2> DEFINE old == table[net[s].list]
  <2>1. ASSUME NEW f \in [Id -> Status], NEW r, NEW status \in Status PROVE [f EXCEPT ![r] = status] \in [Id -> Status]
    OBVIOUS
  <2>2. net[s].was \in Status /\ "on" \in Status /\ "off" \in Status /\ "none" \in Status BY <1>1 DEF Request, Status
  <2>3. \/ rows = old
        \/ \E r \in Id \cup {net[s].id}, status \in Status : rows = [old EXCEPT ![r] = status]
    BY <1>3, <2>2 DEF Carried
  <2> QED BY <1>2, <2>1, <2>3
<1>5. GoOn(net') /\ FormsKept(net') BY InvParts, AnsweredGoOn DEF ServeChange
<1> QED BY <1>2, <1>3, <1>4, <1>5, ChangeStep DEF ServeChange

LEMMA OthersChangeStep == ASSUME ConsoleInv, NEW list \in List, OthersChange(list) PROVE ConsoleInv'
<1>1. PICK r \in Id, status \in Status : table' = [table EXCEPT ![list][r] = status] BY DEF OthersChange
<1>2. table[list] \in [Id -> Status] BY DEF ConsoleInv, ConsoleTypeOK
<1> DEFINE rows == [table[list] EXCEPT ![r] = status]
<1>3. rows \in [Id -> Status] /\ table' = [table EXCEPT ![list] = rows] BY <1>1, <1>2
<1>4. GoOn(net') /\ FormsKept(net') BY InvParts, SameGoOn DEF OthersChange
<1> HIDE DEF rows
<1> QED BY <1>3, <1>4, ChangeStep DEF OthersChange

(* Tokens come and go; a token is in no request before it is issued.         *)
LEMMA TokensStep ==
    ASSUME ConsoleInv, RequestsInv', net' \in Requests, CalmInv', LiveKept,
           live' \subseteq issued', issued' \subseteq Token,
           UNCHANGED <<table, version, queryVars, authVars, path, dialogVars, tour>>
    PROVE  ConsoleInv'
<1>1. ReadsInv' BY ReadsSame DEF ConsoleInv, queryVars
<1>2. ListsInv' BY ListsSame DEF ConsoleInv, queryVars
<1>3. ConsoleTypeOK'
  BY DEF ConsoleInv, ConsoleTypeOK, Requests, queryVars, authVars, dialogVars, LiveKept
<1> QED BY <1>1, <1>2, <1>3 DEF ConsoleInv

LEMMA TokenExpiresStep == ASSUME ConsoleInv, NEW t \in Token, TokenExpires(t) PROVE ConsoleInv'
<1>1. LiveKept /\ live' \subseteq issued' /\ issued' \subseteq Token
  BY DEF TokenExpires, LiveKept, ConsoleInv, ConsoleTypeOK
<1>2. GoOn(net') /\ FormsKept(net') BY InvParts, SameGoOn DEF TokenExpires
<1>3. RequestsInv' BY <1>1, <1>2, RequestsKept DEF TokenExpires, ConsoleInv
<1>4. CalmInv' BY <1>2, CalmKept DEF TokenExpires, ConsoleInv
<1> QED BY <1>1, <1>3, <1>4, InvParts, TokensStep DEF TokenExpires, GoOn

LEMMA ServeLoginStep == ASSUME ConsoleInv, NEW s \in Slot, ServeLogin(s) PROVE ConsoleInv'
<1>1. PICK t \in Token :
        /\ \A u \in Token : u < t <=> u \in issued
        /\ live' = live \cup {t} /\ issued' = issued \cup {t}
        /\ net' = IF net[s].waiting
                  THEN [net EXCEPT ![s].phase = "ok", ![s].id = t] ELSE [net EXCEPT ![s] = Null]
  BY DEF ServeLogin
<1>2. t \notin issued /\ t # Null BY <1>1, BoundsAssumption DEF Token
<1>3. LiveKept /\ live' \subseteq issued' /\ issued' \subseteq Token
  BY <1>1, <1>2 DEF LiveKept, ConsoleInv, ConsoleTypeOK
<1>4. net[s] \in Request /\ net[s].op = "login" /\ net[s] # Null BY InvParts DEF ServeLogin, Requests
<1> DEFINE b == [net[s] EXCEPT !.phase = "ok", !.id = t]
<1>5. /\ b \in Request /\ b.op = "login" /\ b.with = net[s].with /\ b.phase = "ok" /\ b.id = t
      /\ b.here = net[s].here /\ b.waiting = net[s].waiting
  BY <1>4 DEF Request
<1>6. net' = [net EXCEPT ![s] = b] \/ net' = [net EXCEPT ![s] = Null] BY <1>1, <1>4, InvParts DEF Requests, Request
<1> HIDE DEF b
<1>7. net' \in Requests BY <1>5, <1>6, InvParts DEF Requests
<1>8. \A r \in Slot : net'[r] = net[r] \/ (r = s /\ net'[r] \in {b, Null}) BY <1>6, InvParts DEF Requests
<1>9. RequestsInv'
  <2> SUFFICES ASSUME NEW r \in Slot, net'[r] # Null PROVE RequestFacts(net[r])' BY DEF RequestsInv
  <2>1. UNCHANGED path BY DEF ServeLogin
  <2>2. RequestFacts(net[s]) BY <1>4 DEF ConsoleInv, RequestsInv
  <2>3. CASE r = s /\ net'[r] = b
    BY <1>1, <1>5, <2>1, <2>2, <2>3 DEF RequestFacts
  <2>4. CASE net'[r] = net[r] BY <1>1, <1>3, <2>1, <2>4 DEF RequestFacts, ConsoleInv, RequestsInv, LiveKept
  <2> QED BY <1>8, <2>3, <2>4
<1>10. CalmInv'
  <2>1. UNCHANGED dialogVars BY DEF ServeLogin
  <2>2. ASSUME NEW r \in Slot, NEW d \in Asking
        PROVE  WaitsIn(r, d)' <=> (WaitsIn(r, d) /\ net'[r] = net[r])
    BY <1>4, <1>5, <1>8 DEF WaitsIn, Asking, OpOf
  <2>3. OpenWhileAsked => OpenWhileAsked' BY <2>1, <2>2 DEF OpenWhileAsked, dialogVars
  <2>4. DeletesAreSure => DeletesAreSure' BY <1>5, <1>8 DEF DeletesAreSure
  <2> QED BY <2>1, <2>3, <2>4 DEF ConsoleInv, CalmInv, RowIsOfDialog, dialogVars
<1> QED BY <1>3, <1>7, <1>9, <1>10, TokensStep DEF ServeLogin

-----------------------------------------------------------------------------
(* A request is sent                                                       *)

LEMMA PostStep ==
    ASSUME ConsoleInv, NEW m \in MutationType, NEW id \in 0 .. MaxId, NEW was \in {"on", "off"},
           NEW at \in 0 .. MaxId, NEW sure \in BOOLEAN, Post(m, id, was, at, sure),
           hasty' \in BOOLEAN, hasty => hasty',
           m.op \in {"create", "update", "delete", "sync"} => m.list \in Mounted(path),
           ~hasty' => \A d \in Asking : m.op = OpOf(d) =>
               open = d /\ (d \in {"edit", "delete"} => id = row.id) /\ \A s \in Slot : ~WaitsIn(s, d),
           ~hasty' /\ m.op = "delete" => sure
    PROVE  ConsoleInv'
<1> DEFINE b == NewRequest(m, id, was, at, sure)
<1>1. /\ b \in Request /\ b.op = m.op /\ b.list = m.list /\ b.id = id /\ b.sure = sure /\ b.with = token
      /\ b.phase = "sent" /\ b.waiting /\ b.here /\ b.form = "open"
  BY InvParts DEF NewRequest, Request, MutationType, Op
<1>2. net' = [net EXCEPT ![Lowest(Free)] = b] BY DEF Post
<1> HIDE DEF b
<1>3. net' \in Requests BY <1>1, <1>2, InvParts DEF Requests
<1>4. \A s \in Slot : net'[s] = net[s] \/ (s = Lowest(Free) /\ net'[s] = b) BY <1>2, InvParts DEF Requests
<1>5. UNCHANGED <<serverVars, queryVars, authVars, path, open, row, fades, typed, retyped, tour>> BY DEF Post
<1>6. LiveKept BY <1>5, LiveSame DEF serverVars
<1>7. ReadsInv' /\ ListsInv' BY <1>5, <1>6, ReadsSame, ListsSame DEF ConsoleInv, serverVars, queryVars
<1>8. RequestsInv'
  <2> SUFFICES ASSUME NEW s \in Slot, net'[s] # Null PROVE RequestFacts(net[s])' BY DEF RequestsInv
  <2>1. CASE net'[s] = net[s]
    BY <2>1, <1>5 DEF ConsoleInv, RequestsInv, RequestFacts, serverVars
  <2>2. CASE net'[s] = b BY <2>2, <1>1, <1>5, InvParts DEF RequestFacts, serverVars
  <2> QED BY <1>4, <2>1, <2>2
<1>9. CalmInv'
  <2> SUFFICES ASSUME ~hasty' PROVE RowIsOfDialog' /\ (typed # Null => retyped)' /\ OpenWhileAsked' /\ DeletesAreSure'
    BY DEF CalmInv
  <2>1. RowIsOfDialog /\ (typed # Null => retyped) /\ OpenWhileAsked /\ DeletesAreSure BY DEF ConsoleInv, CalmInv
  <2>2. RowIsOfDialog' /\ (typed # Null => retyped)' BY <2>1, <1>5 DEF RowIsOfDialog
  <2>3. DeletesAreSure' BY <2>1, <1>1, <1>4 DEF DeletesAreSure
  <2>4. ASSUME NEW s \in Slot, NEW d \in Asking, WaitsIn(s, d)'
        PROVE  /\ open = d /\ (d # "sync" => net'[s].form = "open")
               /\ d \in {"edit", "delete"} => net'[s].id = row.id
               /\ \A t \in Slot : WaitsIn(t, d)' => t = s
    <3>1. CASE m.op = OpOf(d)
      <4>1. \A t \in Slot : WaitsIn(t, d)' => t = Lowest(Free) /\ net'[t] = b
        BY <3>1, <1>4 DEF WaitsIn
      <4> QED BY <4>1, <3>1, <2>4, <1>1
    <3>2. CASE m.op # OpOf(d)
      <4>1. \A t \in Slot : WaitsIn(t, d)' => WaitsIn(t, d) /\ net'[t] = net[t]
        BY <3>2, <1>1, <1>4 DEF WaitsIn
      <4> QED BY <4>1, <2>4, <2>1 DEF OpenWhileAsked
    <3> QED BY <3>1, <3>2
  <2>5. OpenWhileAsked' BY <2>4, <1>5 DEF OpenWhileAsked
  <2> QED BY <2>2, <2>3, <2>5
<1>10. ConsoleTypeOK' BY <1>3, <1>5 DEF ConsoleInv, ConsoleTypeOK, Requests, serverVars, queryVars, authVars
<1> QED BY <1>5, <1>7, <1>8, <1>9, <1>10 DEF ConsoleInv

(* Requests that no dialog waits for.                                        *)
LEMMA SendStep ==
    ASSUME ConsoleInv, NEW m \in MutationType, NEW id \in 0 .. MaxId, NEW was \in {"on", "off"},
           NEW at \in 0 .. MaxId, Send(m, id, was, at, TRUE), m.op \in {"status", "reset", "login", "profile"}
    PROVE  ConsoleInv'
<1>1. \A d \in Asking : m.op # OpOf(d) BY DEF Asking, OpOf
<1>2. hasty' = hasty /\ hasty \in BOOLEAN BY DEF Send, ConsoleInv, ConsoleTypeOK
<1>3. hasty' \in BOOLEAN /\ (hasty => hasty') BY <1>2
<1>4. m.op \notin {"create", "update", "delete", "sync"} OBVIOUS
<1>5. Post(m, id, was, at, TRUE) BY DEF Send
<1> QED BY <1>1, <1>3, <1>4, <1>5, PostStep

LEMMA ShownType ==
    ASSUME ConsoleInv, NEW list \in List
    PROVE  Shown(list) \in [Id -> Status] /\ \A r \in Listed(Shown(list)) : r \in Id /\ Shown(list)[r] \in {"on", "off"}
<1>1. cache[list] \in Kept \cup {Null} BY DEF ConsoleInv, ConsoleTypeOK
<1>2. Shown(list) \in [Id -> Status] BY <1>1 DEF Shown, Kept, Status
<1> QED BY <1>2 DEF Listed, Status

LEMMA PositionType == ASSUME NEW rows, NEW r PROVE Position(rows, r) \in 0 .. MaxId
<1> DEFINE S == {q \in Listed(rows) : q <= r}
<1>0. MaxId \in Nat BY BoundsAssumption
<1>1. IsFiniteSet(1 .. MaxId) /\ Cardinality(1 .. MaxId) = (IF 1 > MaxId THEN 0 ELSE MaxId - 1 + 1)
  BY <1>0, FS_Interval
<1>2. S \subseteq 1 .. MaxId BY DEF Listed, Id
<1>3. IsFiniteSet(S) /\ Cardinality(S) <= MaxId
  <2>1. IsFiniteSet(S) /\ Cardinality(S) <= Cardinality(1 .. MaxId) BY <1>1, <1>2, FS_Subset
  <2> QED BY <2>1, <1>0, <1>1
<1>4. Cardinality(S) \in Nat BY <1>3, FS_CardinalityType
<1> QED BY <1>0, <1>3, <1>4 DEF Position

LEMMA SwitchStep == ASSUME ConsoleInv, NEW m \in OfPage("status"), NEW r \in Id, Switch(m, r) PROVE ConsoleInv'
<1> DEFINE at == Position(Shown(m.list), r)
<1>1. m \in MutationType /\ m.op = "status" /\ m.list \in List BY DEF OfPage, MutationType
<1>2. at \in 0 .. MaxId BY PositionType
<1>3. Shown(m.list)[r] \in {"on", "off"} BY <1>1, ShownType DEF Switch
<1>4. r \in 0 .. MaxId BY DEF Id
<1>5. Send(m, r, Shown(m.list)[r], at, TRUE) BY DEF Switch
<1> HIDE DEF at
<1> QED BY <1>1, <1>2, <1>3, <1>4, <1>5, SendStep

LEMMA OtherSends == ASSUME ConsoleInv, Dashboard \/ UserAuthForm \/ AccountForm PROVE ConsoleInv'
<1>1. /\ useResetTotalTrafficMutation \in MutationType
      /\ Mutation("login", "device_data", {"device_data"}) \in MutationType
      /\ Mutation("profile", "device_data", {}) \in MutationType
      /\ useResetTotalTrafficMutation.op = "reset"
      /\ Mutation("login", "device_data", {"device_data"}).op = "login"
      /\ Mutation("profile", "device_data", {}).op = "profile"
  BY DEF useResetTotalTrafficMutation, Mutation, MutationType, Op, List
<1>2. 0 \in 0 .. MaxId BY BoundsAssumption
<1>3. CASE Dashboard BY <1>1, <1>2, <1>3, SendStep DEF Dashboard
<1>4. CASE UserAuthForm BY <1>1, <1>2, <1>4, SendStep DEF UserAuthForm
<1>5. CASE AccountForm BY <1>1, <1>2, <1>5, SendStep DEF AccountForm
<1> QED BY <1>3, <1>4, <1>5

(* A request that is here is waited for by its dialog.                       *)
LEMMA NobodyWaits ==
    ASSUME ConsoleInv, NEW d \in Asking,
           ~hasty => ~Pending(d) \/ ~\E s \in Slot : InFlight(s, OpOf(d)) /\ net[s].here,
           d = "sync" => ~\E s \in Slot : InFlight(s, OpOf(d)) /\ net[s].here
    PROVE  ~hasty => \A s \in Slot : ~WaitsIn(s, d)
<1> SUFFICES ASSUME ~hasty, NEW s \in Slot, WaitsIn(s, d) PROVE FALSE OBVIOUS
<1>1. InFlight(s, OpOf(d)) /\ net[s].here BY DEF WaitsIn, InFlight, ConsoleInv, RequestsInv, RequestFacts
<1>2. d # "sync" => net[s].form = "open" BY DEF ConsoleInv, CalmInv, OpenWhileAsked
<1> QED BY <1>1, <1>2 DEF Pending

LEMMA DialogOfOp ==
    ASSUME NEW d \in Asking, NEW op \in {"create", "update", "delete", "sync"}, OpOf(d) = op
    PROVE  d = CASE op = "create" -> "add" [] op = "update" -> "edit" [] op = "delete" -> "delete" [] OTHER -> "sync"
BY DEF Asking, OpOf

LEMMA RowType == ASSUME ConsoleInv, row # Null PROVE row.id \in 0 .. MaxId /\ row.id \in Id /\ row.was \in {"on", "off"}
BY DEF ConsoleInv, ConsoleTypeOK, Id

LEMMA SaveStep ==
    ASSUME ConsoleInv, NEW m,
           (m \in OfPage("create") /\ Save(m, "add")) \/ (m \in OfPage("update") /\ Save(m, "edit"))
    PROVE  ConsoleInv'
<1>1. m \in MutationType /\ m.list \in Mounted(path) BY DEF OfPage
<1>2. hasty' = hasty /\ hasty \in BOOLEAN BY DEF Save, Send, ConsoleInv, ConsoleTypeOK
<1>3. 0 \in 0 .. MaxId BY BoundsAssumption
<1>4. CASE m \in OfPage("create") /\ Save(m, "add")
  <2>1. m.op = "create" /\ open = "add" /\ ~Pending("add") /\ Post(m, 0, "on", 0, TRUE)
    BY <1>4 DEF OfPage, Save, OnScreen, Send
  <2>2. ~hasty => \A s \in Slot : ~WaitsIn(s, "add") BY <2>1, NobodyWaits DEF Asking
  <2>3. \A d \in Asking : m.op = OpOf(d) => d = "add" BY <2>1, DialogOfOp
  <2> QED BY <1>1, <1>2, <1>3, <2>1, <2>2, <2>3, PostStep
<1>5. CASE m \in OfPage("update") /\ Save(m, "edit")
  <2>1. m.op = "update" /\ open = "edit" /\ row # Null /\ ~Pending("edit") /\ Post(m, row.id, row.was, 0, TRUE)
    BY <1>5 DEF OfPage, Save, OnScreen, RowDialog, Send
  <2>2. ~hasty => \A s \in Slot : ~WaitsIn(s, "edit") BY <2>1, NobodyWaits DEF Asking
  <2>3. \A d \in Asking : m.op = OpOf(d) => d = "edit" BY <2>1, DialogOfOp
  <2> QED BY <1>1, <1>2, <1>3, <2>1, <2>2, <2>3, PostStep, RowType
<1> QED BY <1>4, <1>5

(* What is deleted was named: the name typed is the name of this row.        *)
LEMMA handleDeleteStep == ASSUME ConsoleInv, NEW m \in OfPage("delete"), handleDelete(m) PROVE ConsoleInv'
<1>1. m \in MutationType /\ m.list \in Mounted(path) /\ m.op = "delete" BY DEF OfPage
<1>2. hasty' = hasty /\ hasty \in BOOLEAN /\ retyped \in BOOLEAN BY DEF handleDelete, Send, ConsoleInv, ConsoleTypeOK
<1>3. 0 \in 0 .. MaxId BY BoundsAssumption
<1>4. /\ open = "delete" /\ row # Null /\ typed = row.id /\ ~Pending("delete")
      /\ Post(m, row.id, row.was, 0, retyped)
  BY DEF handleDelete, OnScreen, RowDialog, Send
<1>5. ~hasty => \A s \in Slot : ~WaitsIn(s, "delete") BY <1>4, NobodyWaits DEF Asking
<1>6. \A d \in Asking : m.op = OpOf(d) => d = "delete" BY <1>1, DialogOfOp
<1>7. typed # Null BY <1>4, RowType, BoundsAssumption
<1>8. ~hasty => retyped BY <1>7 DEF ConsoleInv, CalmInv
<1> QED BY <1>1, <1>2, <1>3, <1>4, <1>5, <1>6, <1>8, PostStep, RowType

LEMMA SyncSelectedStep == ASSUME ConsoleInv, NEW m \in OfPage("sync"), SyncSelected(m) PROVE ConsoleInv'
<1>1. m \in MutationType /\ m.list \in Mounted(path) /\ m.op = "sync" BY DEF OfPage
<1>2. hasty \in BOOLEAN BY DEF ConsoleInv, ConsoleTypeOK
<1>3. 0 \in 0 .. MaxId BY BoundsAssumption
<1>4. /\ open = "sync" /\ Post(m, 0, "on", 0, TRUE)
      /\ hasty' = (hasty \/ \E s \in Slot : InFlight(s, "sync") /\ net[s].here)
  BY DEF SyncSelected, OnScreen
<1>5. ~hasty' => \A s \in Slot : ~WaitsIn(s, "sync")
  BY <1>4 DEF WaitsIn, OpOf, InFlight, ConsoleInv, RequestsInv, RequestFacts
<1>6. \A d \in Asking : m.op = OpOf(d) => d = "sync" BY <1>1, DialogOfOp
<1> QED BY <1>1, <1>2, <1>3, <1>4, <1>5, <1>6, PostStep

-----------------------------------------------------------------------------
(* The dialogs                                                             *)

RowCopy == [id : Id, was : {"on", "off"}]

DialogType ==
    /\ open \in Dialog \cup {Null} /\ row \in RowCopy \cup {Null} /\ fades \in 0 .. MaxFades
    /\ typed \in Id \cup {Null} /\ retyped \in BOOLEAN /\ hasty \in BOOLEAN

LEMMA InvDialogs == ASSUME ConsoleInv PROVE DialogType
BY DEF ConsoleInv, ConsoleTypeOK, DialogType, RowCopy

LEMMA DialogStep ==
    ASSUME ConsoleInv, GoOn(net'), CalmInv', DialogType',
           UNCHANGED <<serverVars, queryVars, authVars, path, tour>>
    PROVE  ConsoleInv'
<1>1. LiveKept BY LiveSame DEF serverVars
<1>2. RequestsInv' BY <1>1, RequestsKept DEF ConsoleInv
<1>3. ReadsInv' /\ ListsInv' BY <1>1, ReadsSame, ListsSame DEF ConsoleInv, serverVars, queryVars
<1>4. ConsoleTypeOK'
  BY DEF ConsoleInv, ConsoleTypeOK, DialogType, RowCopy, GoOn, Requests, serverVars, queryVars, authVars
<1> QED BY <1>2, <1>3, <1>4 DEF ConsoleInv

(* With nothing on the screen, and nobody hasty, nothing is open.            *)
LEMMA NothingOpen == ASSUME ConsoleInv, ~hasty PROVE NoDialog <=> open = Null
<1>1. open \in Dialog \cup {Null} /\ Null \notin Dialog BY BoundsAssumption DEF ConsoleInv, ConsoleTypeOK
<1>2. open \in RowDialog => row # Null BY DEF ConsoleInv, CalmInv, RowIsOfDialog
<1> QED BY <1>1, <1>2 DEF NoDialog, OnScreen

LEMMA NobodyAsks ==
    ASSUME ConsoleInv, GoOn(net'), ~hasty, open \notin Asking
    PROVE  \A s \in Slot, d \in Asking : ~WaitsIn(s, d)'
BY WaitedBefore DEF ConsoleInv, CalmInv, OpenWhileAsked

LEMMA OpenOnStep ==
    ASSUME ConsoleInv, NEW list \in List, NEW d \in RowDialog, NEW r \in Id, OpenOn(list, d, r)
    PROVE  ConsoleInv'
<1>1. GoOn(net') BY InvParts, SameGoOn DEF OpenOn
<1>2. d \in Dialog /\ Null \notin Dialog BY BoundsAssumption DEF Dialog
<1>3. Shown(list)[r] \in {"on", "off"} BY ShownType DEF OpenOn
<1>4. row' \in RowCopy /\ row' # Null BY <1>3, BoundsAssumption DEF OpenOn, RowCopy
<1>5. DialogType' BY <1>2, <1>4, InvDialogs DEF OpenOn, DialogType, setOpen
<1>6. hasty => hasty' BY InvDialogs DEF OpenOn, DialogType
<1>7. ASSUME ~hasty'
      PROVE  RowIsOfDialog' /\ (typed # Null => retyped)' /\ \A s \in Slot, e \in Asking : ~WaitsIn(s, e)'
  <2>1. fades \in Nat BY InvDialogs, FadesAssumption DEF DialogType
  <2>2. ~hasty /\ ~(fades > 0) BY <1>7, Zenon DEF OpenOn
  <2>3. fades = 0 BY <2>1, <2>2
  <2>4. open = Null BY <2>2, NothingOpen DEF OpenOn
  <2>5. open \notin Asking /\ open \notin RowDialog
    BY <2>4, BoundsAssumption DEF Asking, Dialog, RowDialog, PlainDialog
  <2>6. row = Null BY <2>2, <2>3, <2>5 DEF ConsoleInv, CalmInv, RowIsOfDialog
  <2>7. open' = d /\ typed' = Null /\ fades' = 0 BY <1>2, <2>3, <2>4, <2>6 DEF OpenOn, setOpen
  <2> QED BY <1>1, <1>4, <2>2, <2>5, <2>7, NobodyAsks DEF RowIsOfDialog
<1>8. CalmInv' BY <1>1, <1>6, <1>7, CalmWithout DEF ConsoleInv
<1> QED BY <1>1, <1>5, <1>8, DialogStep DEF OpenOn

LEMMA OpenPlainStep == ASSUME ConsoleInv, NEW d \in PlainDialog, OpenPlain(d) PROVE ConsoleInv'
<1>1. GoOn(net') BY InvParts, SameGoOn DEF OpenPlain
<1>2. d \in Dialog /\ d \notin RowDialog BY DEF Dialog, PlainDialog, RowDialog
<1>3. DialogType' BY <1>2, InvDialogs DEF OpenPlain, DialogType, setOpen
<1>4. hasty' = hasty BY DEF OpenPlain
<1>5. ASSUME ~hasty'
      PROVE  RowIsOfDialog' /\ (typed # Null => retyped)' /\ \A s \in Slot, e \in Asking : ~WaitsIn(s, e)'
  <2>1. ~hasty BY <1>4, <1>5
  <2>2. open = Null BY <2>1, NothingOpen DEF OpenPlain
  <2>3. open \notin Asking /\ open \notin RowDialog
    BY <2>2, BoundsAssumption DEF Asking, Dialog, RowDialog, PlainDialog
  <2>4. open' = d \/ open' = Null BY DEF OpenPlain, setOpen
  <2>5. open' \notin RowDialog BY <1>2, <2>2, <2>3, <2>4
  <2>6. RowIsOfDialog /\ (typed # Null => retyped) BY <2>1 DEF ConsoleInv, CalmInv
  <2> QED BY <1>1, <2>1, <2>3, <2>5, <2>6, NobodyAsks DEF RowIsOfDialog, OpenPlain
<1>6. CalmInv' BY <1>1, <1>4, <1>5, CalmWithout DEF ConsoleInv
<1> QED BY <1>1, <1>3, <1>6, DialogStep DEF OpenPlain

LEMMA Fading == ASSUME fades \in 0 .. MaxFades PROVE fading \in 0 .. MaxFades /\ fading > 0
BY FadesAssumption DEF fading

LEMMA DismissStep == ASSUME ConsoleInv, NEW d \in Dialog, Dismiss(d) PROVE ConsoleInv'
<1>1. GoOn(net') BY InvParts, OrphanedGoOn DEF Dismiss
<1>2. d # Null /\ open = d BY BoundsAssumption DEF Dismiss, OnScreen
<1>3. /\ open' = Null /\ row' = row
      /\ d \in RowDialog => fades' = fading
      /\ d \notin RowDialog => fades' = fades
  BY <1>2 DEF Dismiss, handleClose, setOpen, RowDialog
<1>4. fading \in 0 .. MaxFades /\ fading > 0 BY InvDialogs, Fading DEF DialogType
<1>5. DialogType' BY <1>3, <1>4, InvDialogs DEF Dismiss, DialogType
<1>6. hasty => hasty' BY InvDialogs DEF Dismiss, DialogType
<1>7. ASSUME ~hasty'
      PROVE  RowIsOfDialog' /\ (typed # Null => retyped)' /\ \A s \in Slot, e \in Asking : ~WaitsIn(s, e)'
  <2>1. ~hasty /\ ~\E s \in Slot : InFlight(s, OpOf(d)) /\ net[s].here
    BY <1>7, InvDialogs DEF Dismiss, DialogType
  <2>2. ASSUME NEW s \in Slot, NEW e \in Asking, WaitsIn(s, e)' PROVE FALSE
    <3>1. WaitsIn(s, e) BY <1>1, <2>2, WaitedBefore
    <3>2. e = d BY <1>2, <2>1, <3>1 DEF ConsoleInv, CalmInv, OpenWhileAsked
    <3> QED BY <2>1, <3>1, <3>2 DEF WaitsIn, InFlight, ConsoleInv, RequestsInv, RequestFacts
  <2>3. RowIsOfDialog /\ (typed # Null => retyped) BY <2>1 DEF ConsoleInv, CalmInv
  <2>4. open' \notin RowDialog BY <1>3, BoundsAssumption DEF Dialog
  <2>5. RowIsOfDialog' BY <1>2, <1>3, <1>4, <2>3, <2>4 DEF RowIsOfDialog
  <2> QED BY <2>2, <2>3, <2>5 DEF Dismiss
<1>8. CalmInv' BY <1>1, <1>6, <1>7, CalmWithout DEF ConsoleInv
<1> QED BY <1>1, <1>5, <1>8, DialogStep DEF Dismiss

LEMMA FadeOutStep == ASSUME ConsoleInv, FadeOut PROVE ConsoleInv'
<1>1. GoOn(net') BY InvParts, OrphanedGoOn DEF FadeOut
<1>2. DialogType'
  <2>1. DialogType BY InvDialogs
  <2>2. fades' \in 0 .. MaxFades BY <2>1, FadesAssumption DEF FadeOut, DialogType
  <2> QED BY <2>1, <2>2 DEF FadeOut, DialogType
<1>3. CalmInv'
  <2> SUFFICES ASSUME ~hasty' PROVE RowIsOfDialog' /\ (typed # Null => retyped)' /\ OpenWhileAsked' /\ DeletesAreSure'
    BY DEF CalmInv
  <2>1. RowIsOfDialog /\ OpenWhileAsked /\ DeletesAreSure BY DEF FadeOut, ConsoleInv, CalmInv
  <2>2. open \notin RowDialog BY <2>1 DEF FadeOut, RowIsOfDialog
  <2>3. DeletesAreSure' BY <1>1, <2>1, SureKept
  <2>4. ASSUME NEW s \in Slot, NEW d \in Asking, WaitsIn(s, d)'
        PROVE  d \in {"add", "sync"} /\ WaitsIn(s, d) /\ net'[s] = net[s]
    <3>1. WaitsIn(s, d) BY <1>1, <2>4, WaitedBefore
    <3>2. d \in {"add", "sync"} BY <2>1, <2>2, <3>1 DEF OpenWhileAsked, Asking, RowDialog
    <3>3. net[s].op \notin {"update", "delete"} BY <3>1, <3>2 DEF WaitsIn, OpOf
    <3> QED BY <3>1, <3>2, <3>3 DEF FadeOut, Orphaned
  <2>5. OpenWhileAsked' BY <2>1, <2>4 DEF OpenWhileAsked, FadeOut
  <2>6. RowIsOfDialog' /\ (typed # Null => retyped)' BY <2>2 DEF RowIsOfDialog, FadeOut
  <2> QED BY <2>3, <2>5, <2>6
<1> QED BY <1>1, <1>2, <1>3, DialogStep DEF FadeOut

LEMMA TypeNameStep == ASSUME ConsoleInv, TypeName PROVE ConsoleInv'
<1>1. GoOn(net') /\ FormsKept(net') BY InvParts, SameGoOn DEF TypeName
<1>2. row # Null BY DEF TypeName, OnScreen, RowDialog
<1>3. DialogType' BY <1>2, RowType, InvDialogs DEF TypeName, DialogType
<1>4. CalmInv'
  <2>1. DeletesAreSure => DeletesAreSure' BY <1>1, SureKept
  <2>2. OpenWhileAsked => OpenWhileAsked' BY <1>1, AskedKept DEF TypeName
  <2> QED BY <2>1, <2>2 DEF ConsoleInv, CalmInv, RowIsOfDialog, TypeName
<1> QED BY <1>1, <1>3, <1>4, DialogStep DEF TypeName

(* A click on one of the four pages.                                        *)
LEMMA PageSteps == ASSUME ConsoleInv, PageStep PROVE ConsoleInv'
BY SwitchStep, OpenOnStep, OpenPlainStep, RefreshStep, DismissStep, SaveStep, TypeNameStep,
   handleDeleteStep, SyncSelectedStep DEF PageStep

-----------------------------------------------------------------------------
(* Another page is shown, and the session begins or ends                   *)

SessionType ==
    /\ token \in issued \cup {Null} /\ user \in issued \cup {Null}
    /\ path \in tour.pages \cup {"/", "/sign-in"}

(* The page shown stays, or is left with everything on it.                   *)
LEMMA GoToCalm ==
    ASSUME ConsoleInv, NEW page, NEW reads, NEW bad, NEW with, NEW f, GoTo(page, reads, bad, with, f),
           GoOn(f), ~hasty => FormsKept(f)
    PROVE  /\ GoOn(net') /\ DialogType' /\ CalmInv'
           /\ path' = path \/ \A s \in Slot : net'[s] # Null => ~net'[s].here
<1>1. CASE page = path
  <2>1. path' = path /\ net' = f /\ UNCHANGED dialogVars BY <1>1 DEF GoTo
  <2>2. CalmInv' BY <2>1, CalmKept DEF ConsoleInv
  <2> QED BY <2>1, <2>2, InvDialogs DEF DialogType, dialogVars
<1>2. CASE page # path
  <2>1. net' = Abandoned(f) /\ ClosedWithPage BY <1>2 DEF GoTo
  <2>2. GoOn(net') /\ \A s \in Slot : net'[s] # Null => ~net'[s].here BY <2>1, AbandonedGoOn
  <2>3. 0 \in 0 .. MaxFades BY FadesAssumption
  <2>4. DialogType' BY <2>1, <2>3, InvDialogs DEF ClosedWithPage, DialogType
  <2>5. open' \notin RowDialog BY <2>1, BoundsAssumption DEF ClosedWithPage, Dialog
  <2>6. CalmInv'
    BY <2>1, <2>2, <2>5, CalmWithout DEF ConsoleInv, ClosedWithPage, RowIsOfDialog, WaitsIn
  <2> QED BY <2>2, <2>4, <2>6
<1> QED BY <1>1, <1>2

LEMMA GoToReads ==
    ASSUME NEW page, NEW reads \in Reads, NEW bad, NEW with \in Token \cup {Null}, NEW f,
           GoTo(page, reads, bad, with, f)
    PROVE  fetch' \in Reads /\ ReadsFrom(fetch', reads, with)
<1>1. CASE page = path BY <1>1 DEF GoTo, ReadsFrom
<1>2. CASE page # path BY <1>2, MountReads DEF GoTo
<1> QED BY <1>1, <1>2

(* Leaving a page begins reads, and invalidates nothing.                     *)
LEMMA LeaveStep ==
    ASSUME ConsoleInv, NEW page, NEW reads \in Reads, NEW with \in issued \cup {Null}, ReadsFrom(reads, fetch, with),
           NEW f, GoTo(page, reads, invalid, with, f), GoOn(f), ~hasty => FormsKept(f), SessionType',
           UNCHANGED <<serverVars, cache, invalid, due, tour>>
    PROVE  ConsoleInv'
<1>1. /\ GoOn(net') /\ DialogType' /\ CalmInv'
      /\ path' = path \/ \A s \in Slot : net'[s] # Null => ~net'[s].here
  BY GoToCalm
<1>2. with \in Token \cup {Null} /\ with \in issued' \cup {Null} BY DEF ConsoleInv, ConsoleTypeOK, serverVars
<1>3. fetch' \in Reads /\ ReadsFrom(fetch', reads, with) BY <1>2, GoToReads
<1>4. \A list \in List : \/ fetch'[list] \in {Null, NewRead(with)}
                         \/ fetch'[list] = fetch[list] /\ due'[list] = due[list]
  BY <1>3 DEF ReadsFrom
<1>5. LiveKept BY LiveSame DEF serverVars
<1>6. ReadsInv' BY <1>2, <1>4, <1>5, ReadsKept DEF ConsoleInv
<1>7. RequestsInv' BY <1>1, <1>5, RequestsKept DEF ConsoleInv
<1>8. ListsInv' BY ListsSame DEF ConsoleInv, serverVars
<1>9. ConsoleTypeOK'
  BY <1>1, <1>3 DEF ConsoleInv, ConsoleTypeOK, SessionType, DialogType, RowCopy, Reads, GoOn, Requests, serverVars
<1> QED BY <1>1, <1>6, <1>7, <1>8, <1>9 DEF ConsoleInv

LEMMA InvSession == ASSUME ConsoleInv PROVE SessionType
BY DEF ConsoleInv, ConsoleTypeOK, SessionType

LEMMA SameReads == ASSUME ConsoleInv, NEW with PROVE fetch \in Reads /\ ReadsFrom(fetch, fetch, with)
BY InvParts DEF ReadsFrom

LEMMA NavigateStep == ASSUME ConsoleInv, NEW page \in Page, Navigate(page) PROVE ConsoleInv'
<1>1. GoOn(net) /\ FormsKept(net) BY InvParts, SameGoOn
<1>2. SessionType' BY InvSession DEF Navigate, GoTo, SessionType, authVars, serverVars
<1> QED BY <1>1, <1>2, InvParts, SameReads, LeaveStep DEF Navigate

LEMMA SessionEnds ==
    ASSUME ConsoleInv, NEW reads \in Reads, ReadsFrom(reads, fetch, Null), NEW f, GoOn(f), ~hasty => FormsKept(f),
           GoTo("/sign-in", reads, invalid, Null, f), token' = Null, user' \in {user, Null},
           UNCHANGED <<serverVars, cache, invalid, due, tour>>
    PROVE  ConsoleInv'
<1>1. SessionType' BY InvSession DEF GoTo, SessionType, serverVars
<1> QED BY <1>1, LeaveStep

LEMMA LogOutStep == ASSUME ConsoleInv, LogOut PROVE ConsoleInv'
<1>1. GoOn(net) /\ FormsKept(net) BY InvParts, SameGoOn
<1> QED BY <1>1, SameReads, SessionEnds DEF LogOut, resetAccessToken

LEMMA ProfileUpdatedStep == ASSUME ConsoleInv, NEW s \in Slot, ProfileUpdated(s) PROVE ConsoleInv'
<1>1. GoOn(Settled(s)) /\ (~hasty => FormsKept(Settled(s))) BY InvParts, SettledGoOn DEF ProfileUpdated
<1> QED BY <1>1, SameReads, SessionEnds DEF ProfileUpdated, resetAccessToken

LEMMA RequestDeniedStep == ASSUME ConsoleInv, NEW s \in Slot, RequestDenied(s) PROVE ConsoleInv'
<1>1. GoOn(Settled(s)) /\ (~hasty => FormsKept(Settled(s))) BY InvParts, SettledGoOn DEF RequestDenied
<1> QED BY <1>1, SameReads, SessionEnds DEF RequestDenied, reset

LEMMA ReadDeniedStep == ASSUME ConsoleInv, NEW list \in List, ReadDenied(list) PROVE ConsoleInv'
<1> DEFINE reads == [fetch EXCEPT ![list] = Null]
<1>1. GoOn(net) /\ FormsKept(net) BY InvParts, SameGoOn
<1>2. reads \in Reads /\ ReadsFrom(reads, fetch, Null) BY InvParts DEF Reads, ReadsFrom
<1>3. reset(reads, net) BY DEF ReadDenied
<1> HIDE DEF reads
<1> QED BY <1>1, <1>2, <1>3, SessionEnds DEF reset

(* What an answer invalidates, whatever becomes of the page.                 *)
LEMMA InvalidationStep ==
    ASSUME ConsoleInv, NEW lists, invalid' = Invalidated(lists), due' = DueAfter(lists),
           NEW with \in issued \cup {Null}, fetch' \in Reads, ReadsFrom(fetch', MarkedReads(lists), with),
           GoOn(net'), CalmInv', DialogType', SessionType',
           path' = path \/ \A s \in Slot : net'[s] # Null => ~net'[s].here,
           UNCHANGED <<serverVars, cache, tour>>
    PROVE  ConsoleInv'
<1>1. ConsoleTypeOK BY DEF ConsoleInv
<1>2. LiveKept BY LiveSame DEF serverVars
<1>3. RequestsInv' BY <1>2, RequestsKept DEF ConsoleInv
<1>4. /\ invalid' \in [List -> BOOLEAN] /\ due' \in [List -> 0 .. MaxChanges]
      /\ \A list \in List :
           /\ \/ MarkedReads(lists)[list] \in {Null, NewRead(token)}
              \/ MarkedReads(lists)[list] = fetch[list] /\ due'[list] = due[list]
              \/ fetch[list] # Null /\ MarkedReads(lists)[list] = Passed(fetch[list])
           /\ invalid'[list] \/ (~invalid[list] /\ due'[list] = due[list])
           /\ due'[list] \in {due[list], version[list]}
  BY <1>1, InvalidationReads
<1>5. \A list \in List : version[list] \in Nat /\ version' = version
  BY <1>1, BoundsAssumption DEF ConsoleTypeOK, serverVars
<1>6. ListsInv' BY <1>1, <1>4, <1>5, ListsKept DEF ConsoleInv
<1>7. ReadsInv'
  <2> SUFFICES ASSUME NEW list \in List, fetch'[list] # Null
               PROVE  /\ fetch'[list].with \in issued' \cup {Null}
                      /\ fetch'[list].phase = "denied" => fetch'[list].with \notin live'
                      /\ fetch'[list].phase = "ok" =>
                           fetch'[list].answer \in Answer
                           /\ (fetch'[list].overtaken \/ fetch'[list].answer.asof >= due'[list])
    BY DEF ReadsInv
  <2>1. UNCHANGED <<live, issued>> /\ token \in issued \cup {Null} BY InvParts DEF serverVars
  <2>2. CASE fetch'[list] = NewRead(with) \/ fetch'[list] = NewRead(token) BY <2>1, <2>2 DEF NewRead
  <2>3. CASE fetch'[list] = fetch[list] /\ due'[list] = due[list] BY <2>1, <2>3 DEF ConsoleInv, ReadsInv
  <2>4. CASE fetch[list] # Null /\ fetch'[list] = Passed(fetch[list])
    <3>1. fetch[list] \in Read BY <2>4, InvParts DEF Reads
    <3> QED BY <2>1, <2>4, <3>1, PassedRead DEF ConsoleInv, ReadsInv
  <2> QED BY <1>4, <2>2, <2>3, <2>4 DEF ReadsFrom
<1>8. ConsoleTypeOK'
  BY <1>1, <1>4 DEF ConsoleTypeOK, SessionType, DialogType, RowCopy, Reads, GoOn, Requests, serverVars
<1> QED BY <1>3, <1>6, <1>7, <1>8 DEF ConsoleInv

LEMMA SignedInStep == ASSUME ConsoleInv, NEW s \in Slot, SignedIn(s) PROVE ConsoleInv'
<1>1. GoOn(Settled(s)) /\ (~hasty => FormsKept(Settled(s))) BY InvParts, SettledGoOn DEF SignedIn
<1>2. net[s].id \in issued BY DEF SignedIn, ConsoleInv, RequestsInv, RequestFacts
<1>3. net[s].id \in Token \cup {Null} BY <1>2 DEF ConsoleInv, ConsoleTypeOK
<1>4. MarkedReads(net[s].lists) \in Reads BY InvalidationReads DEF ConsoleInv
<1>5. GoTo("/", MarkedReads(net[s].lists), invalid', net[s].id, Settled(s)) BY DEF SignedIn
<1>6. fetch' \in Reads /\ ReadsFrom(fetch', MarkedReads(net[s].lists), net[s].id) BY <1>3, <1>4, <1>5, GoToReads
<1>7. /\ GoOn(net') /\ DialogType' /\ CalmInv'
      /\ path' = path \/ \A r \in Slot : net'[r] # Null => ~net'[r].here
  BY <1>1, <1>5, GoToCalm
<1>8. SessionType' BY <1>2, <1>5, InvSession DEF SignedIn, GoTo, SessionType, serverVars
<1> QED BY <1>2, <1>6, <1>7, <1>8, InvalidationStep DEF SignedIn

LEMMA SyncedStep == ASSUME ConsoleInv, NEW s \in Slot, Synced(s) PROVE ConsoleInv'
<1>1. net[s] \in Request /\ net[s] # Null BY InvParts DEF Synced, Requests
<1> DEFINE b == InPhase(net[s], "reading")
<1>2. /\ Alike(net[s], b) /\ b.phase = "reading"
      /\ b.here = net[s].here /\ b.waiting = net[s].waiting /\ b.form = net[s].form
  BY <1>1, InPhaseFacts
<1>3. net' = [net EXCEPT ![s] = b] BY <1>1, InvParts DEF Synced, InPhase, Requests, Request
<1> HIDE DEF b
<1>4. net' \in Requests BY <1>2, <1>3, InvParts DEF Requests, Alike
<1>5. GoOn(net) /\ FormsKept(net) BY InvParts, SameGoOn
<1>6. Continues(net[s], b)
  BY <1>1, <1>2 DEF Alike, Continues, Synced, ConsoleInv, RequestsInv, RequestFacts
<1>7. \A r \in Slot : net'[r] = IF r = s THEN b ELSE net[r] BY <1>3, InvParts DEF Requests
<1>8. GoOn(net') /\ FormsKept(net') BY <1>1, <1>2, <1>4, <1>5, <1>6, <1>7 DEF GoOn, FormsKept
<1>9. CalmInv' BY <1>8, CalmKept DEF ConsoleInv, Synced
<1>10. DialogType' /\ SessionType'
  BY InvDialogs, InvSession DEF Synced, DialogType, SessionType, dialogVars, authVars, serverVars
<1>11. fetch' \in Reads /\ ReadsFrom(fetch', MarkedReads(net[s].lists), token)
  BY InvalidationReads DEF ConsoleInv, Synced, ReadsFrom
<1> QED BY <1>8, <1>9, <1>10, <1>11, InvParts, InvalidationStep DEF Synced

(* The dialog of a request that is done closes, and no other.                *)
LEMMA OnlyItsDialog ==
    ASSUME ConsoleInv, ~hasty, NEW s \in Slot, NEW d \in Asking, WaitsIn(s, d)
    PROVE  /\ open = d /\ (d \in {"edit", "delete"} => net[s].id = row.id)
           /\ GoOn(net') /\ net'[s] = Null => \A t \in Slot, e \in Asking : ~WaitsIn(t, e)'
<1>1. open = d /\ (d \in {"edit", "delete"} => net[s].id = row.id) BY DEF ConsoleInv, CalmInv, OpenWhileAsked
<1>2. ASSUME GoOn(net'), net'[s] = Null, NEW t \in Slot, NEW e \in Asking, WaitsIn(t, e)' PROVE FALSE
  <2>1. WaitsIn(t, e) BY <1>2, WaitedBefore
  <2>2. e = d BY <1>1, <2>1 DEF ConsoleInv, CalmInv, OpenWhileAsked
  <2>3. t = s BY <2>1, <2>2 DEF ConsoleInv, CalmInv, OpenWhileAsked
  <2> QED BY <1>2, <2>3 DEF WaitsIn
<1> QED BY <1>1, <1>2

LEMMA SyncClosedStep == ASSUME ConsoleInv, NEW s \in Slot, SyncClosed(s) PROVE ConsoleInv'
<1>1. net' = [net EXCEPT ![s] = Null] /\ net[s] # Null BY DEF SyncClosed
<1>2. GoOn(net) /\ FormsKept(net) BY InvParts, SameGoOn
<1>3. \A r \in Slot : net'[r] = IF r = s THEN Null ELSE net[r] BY <1>1, InvParts DEF Requests
<1>4. net' \in Requests BY <1>1, InvParts DEF Requests
<1>5. GoOn(net') /\ FormsKept(net') BY <1>2, <1>3, <1>4 DEF GoOn, FormsKept
<1>6. open' = IF net[s].here THEN Null ELSE open BY DEF SyncClosed, setOpen
<1>7. DialogType' BY <1>6, InvDialogs DEF SyncClosed, DialogType
<1>8. CalmInv'
  <2>1. CASE ~net[s].here BY <2>1, <1>5, <1>6, CalmKept DEF ConsoleInv, SyncClosed, dialogVars
  <2>2. CASE net[s].here
    <3>1. WaitsIn(s, "sync") /\ "sync" \in Asking
      BY <1>1, <2>2 DEF WaitsIn, Asking, OpOf, SyncClosed, ConsoleInv, RequestsInv, RequestFacts
    <3>2. ASSUME ~hasty PROVE open = "sync" /\ \A t \in Slot, e \in Asking : ~WaitsIn(t, e)'
      BY <3>1, <3>2, <1>3, <1>5, OnlyItsDialog
    <3>3. ~hasty => RowIsOfDialog' /\ (typed # Null => retyped)'
      BY <3>2, <1>6, <2>2, BoundsAssumption DEF ConsoleInv, CalmInv, RowIsOfDialog, SyncClosed, Dialog, RowDialog
    <3> QED BY <3>2, <3>3, <1>5, CalmWithout DEF ConsoleInv, SyncClosed
  <2> QED BY <2>1, <2>2
<1> QED BY <1>5, <1>7, <1>8, DialogStep DEF SyncClosed

(* A change was carried out: its lists are read again, its dialog closes.     *)
LEMMA SucceededStep == ASSUME ConsoleInv, NEW s \in Slot, Succeeded(s) PROVE ConsoleInv'
<1>1. net[s] # Null /\ net' = Settled(s) BY DEF Succeeded
<1>2. GoOn(net') /\ net'[s] = Null /\ (~hasty => FormsKept(net')) BY <1>1, InvParts, SettledGoOn
<1>3. fading \in 0 .. MaxFades /\ fading > 0 BY InvDialogs, Fading DEF DialogType
<1>4. {"edit", "delete", "add"} \subseteq Dialog BY DEF Dialog, RowDialog, PlainDialog
<1>5. DialogType' BY <1>3, <1>4, InvDialogs DEF Succeeded, handleClose, setOpen, DialogType
<1>6. SessionType' BY InvSession DEF Succeeded, SessionType, authVars, serverVars
<1>7. fetch' \in Reads /\ ReadsFrom(fetch', MarkedReads(net[s].lists), token)
  BY InvalidationReads DEF ConsoleInv, Succeeded, ReadsFrom
<1>8. CalmInv'
  <2>1. CASE ~(net[s].here /\ net[s].op \in {"create", "update", "delete"})
    <3>1. UNCHANGED dialogVars BY <2>1 DEF Succeeded, dialogVars
    <3> QED BY <3>1, <1>2, CalmKept DEF ConsoleInv
  <2>2. ASSUME NEW d \in {"edit", "add", "delete"}, net[s].here, net[s].op = OpOf(d) PROVE CalmInv'
    <3>1. WaitsIn(s, d) /\ d \in Asking BY <1>1, <2>2 DEF WaitsIn, Asking
    <3>2. ASSUME ~hasty PROVE open = d /\ \A t \in Slot, e \in Asking : ~WaitsIn(t, e)'
      BY <3>1, <3>2, <1>2, OnlyItsDialog
    <3>3. /\ open' = IF open = d THEN Null ELSE d
          /\ row' = row /\ (d \in {"edit", "delete"} => fades' = fading) /\ (d = "add" => fades' = fades)
      BY <2>2 DEF Succeeded, handleClose, setOpen, OpOf
    <3>4. ASSUME ~hasty PROVE RowIsOfDialog' /\ (typed # Null => retyped)'
      <4>1. open' = Null /\ open = d BY <3>2, <3>3, <3>4
      <4>2. open' \notin RowDialog BY <4>1, BoundsAssumption DEF Dialog
      <4>3. RowIsOfDialog /\ (typed # Null => retyped) BY <3>4 DEF ConsoleInv, CalmInv
      <4>4. row' # Null => fades' > 0
        <5>1. CASE d = "add" BY <5>1, <4>1, <4>3, <3>3 DEF RowIsOfDialog, RowDialog
        <5>2. CASE d # "add" BY <5>2, <3>3, <1>3
        <5> QED BY <5>1, <5>2
      <4> QED BY <4>2, <4>3, <4>4 DEF RowIsOfDialog, Succeeded
    <3> QED BY <3>2, <3>4, <1>2, CalmWithout DEF ConsoleInv, Succeeded
  <2>3. net[s].op = "create" \/ net[s].op = "update" \/ net[s].op = "delete" =>
          \E d \in {"edit", "add", "delete"} : net[s].op = OpOf(d)
    BY DEF OpOf
  <2> QED BY <2>1, <2>2, <2>3
<1> QED BY <1>2, <1>5, <1>6, <1>7, <1>8, InvParts, InvalidationStep DEF Succeeded

-----------------------------------------------------------------------------
(* The theorems                                                            *)

LEMMA InitInv == ConsoleInit => ConsoleInv
<1> SUFFICES ASSUME ConsoleInit PROVE ConsoleInv OBVIOUS
<1>1. issued \subseteq Token /\ live = issued /\ token \in issued \cup {Null} /\ user = token
  BY BoundsAssumption DEF ConsoleInit, Token
<1>2. token \in Token \cup {Null} BY <1>1
<1>3. table \in [List -> [Id -> Status]]
  <2>1. ASSUME NEW list PROVE Initially(list) \in [Id -> Status] BY DEF Initially, Status
  <2> QED BY <2>1 DEF ConsoleInit
<1>4. NewRead(token) \in Read BY <1>2, NewReadType
<1>5. ConsoleTypeOK
  <2>1. 0 \in 0 .. MaxChanges /\ 0 \in 0 .. MaxFades BY BoundsAssumption, FadesAssumption
  <2>2. fetch \in [List -> Read \cup {Null}] BY <1>4 DEF ConsoleInit
  <2> QED BY <1>1, <1>3, <2>1, <2>2 DEF ConsoleInit, ConsoleTypeOK
<1>6. ReadsInv BY <1>1 DEF ReadsInv, ConsoleInit, NewRead
<1>7. ListsInv BY DEF ListsInv, ConsoleInit
<1>8. RequestsInv BY DEF RequestsInv, ConsoleInit
<1>9. open \notin RowDialog BY BoundsAssumption DEF ConsoleInit, Dialog
<1>10. CalmInv BY <1>9 DEF CalmInv, RowIsOfDialog, OpenWhileAsked, DeletesAreSure, WaitsIn, ConsoleInit
<1> QED BY <1>5, <1>6, <1>7, <1>8, <1>10 DEF ConsoleInv, ConsoleInit

LEMMA AdministratorSteps ==
    ASSUME Administrator
    PROVE  \/ PageStep \/ Dashboard \/ UserAuthForm \/ AccountForm \/ LogOut \/ WindowFocus
           \/ \E page \in Page : Navigate(page)
BY PeersSteps, InterfacesSteps, PoolsSteps, ServersSteps DEF Administrator

LEMMA StutterStep == ASSUME ConsoleInv, UNCHANGED vars PROVE ConsoleInv'
<1>1. GoOn(net') /\ FormsKept(net') BY InvParts, SameGoOn DEF vars
<1> QED BY <1>1, RequestStep DEF vars

LEMMA StepInv == ConsoleInv /\ [ConsoleNext]_vars => ConsoleInv'
<1> SUFFICES ASSUME ConsoleInv, [ConsoleNext]_vars PROVE ConsoleInv' OBVIOUS
<1>1. CASE Administrator
  BY <1>1, AdministratorSteps, PageSteps, OtherSends, LogOutStep, WindowFocusStep, NavigateStep
<1>2. CASE Server
  BY <1>2, ServeReadStep, ServeChangeStep, ServeRefusalStep, ServeLoginStep, ServeProfileStep, OthersChangeStep,
     TokenExpiresStep DEF Server, Visited, Mounted, List
<1>3. CASE Browser
  BY <1>3, ReadDoneStep, ReadFailedStep, ReadDeniedStep, SucceededStep, SyncedStep, SyncClosedStep, FailedStep,
     SignedInStep, ProfileUpdatedStep, RequestDeniedStep, GiveUpStep, FadeOutStep DEF Browser, Arrive
<1>4. CASE UNCHANGED vars BY <1>4, StutterStep
<1> QED BY <1>1, <1>2, <1>3, <1>4 DEF ConsoleNext

LEMMA ConsoleAlways == ConsoleSpec => []ConsoleInv
BY InitInv, StepInv, PTL DEF ConsoleSpec

(* The variables of the web interface keep their types.                      *)
THEOREM ConsoleTypeCorrect == ConsoleSpec => []ConsoleTypeOK
<1>1. ConsoleInv => ConsoleTypeOK BY DEF ConsoleInv
<1> QED BY <1>1, ConsoleAlways, PTL

(* A list the interface believes to be current shows every change its own    *)
(* administrator has made to it (invalidateQueries in the onSuccess of the   *)
(* hooks), but for the answer of a read that a change overtook.              *)
THEOREM OwnWritesShownHolds == ConsoleSpec => []OwnWritesShown
<1>1. ConsoleInv => OwnWritesShown BY DEF ConsoleInv, ListsInv, OwnWritesShown
<1> QED BY <1>1, ConsoleAlways, PTL

(* A dialog that the page's context says is open is on the screen, as long   *)
(* as its administrator waits for the one before (handleClose).              *)
THEOREM OpenIsShownHolds == ConsoleSpec => []OpenIsShown
<1>1. ConsoleInv => OpenIsShown BY NothingOpen DEF OpenIsShown
<1> QED BY <1>1, ConsoleAlways, PTL

(* Whatever is deleted was named in the dialog that deletes it.              *)
THEOREM DeleteIsConfirmedHolds == ConsoleSpec => []DeleteIsConfirmed
<1>1. ConsoleInv => DeleteIsConfirmed BY DEF ConsoleInv, CalmInv, DeletesAreSure, DeleteIsConfirmed
<1> QED BY <1>1, ConsoleAlways, PTL

LEMMA PageDialogs ==
    ASSUME PageStep, NEW d \in Dialog, OnScreen(d), ~OnScreen(d)'
    PROVE  Dismiss(d)
<1>1. \A e \in Dialog : Dismiss(e) => e = d BY DEF Dismiss, OnScreen
<1>2. ~NoDialog /\ ~UNCHANGED <<open, row>> BY DEF NoDialog, OnScreen
<1> QED BY <1>1, <1>2
      DEF PageStep, Switch, OpenOn, OpenPlain, Refresh, Save, Send, Post, TypeName, handleDelete, SyncSelected,
          dialogVars

LEMMA ClosingStep ==
    ASSUME ConsoleInv, ConsoleNext, NEW d \in Dialog, OnScreen(d), ~OnScreen(d)', ~hasty', path' = path
    PROVE  Dismiss(d) \/ OwnRequestDone(d)
<1>1. ~NoDialog /\ ~UNCHANGED <<open, row>> BY DEF NoDialog, OnScreen
<1>2. ASSUME NEW page, NEW reads, NEW bad, NEW with, NEW f, GoTo(page, reads, bad, with, f) PROVE FALSE
  BY <1>1, <1>2 DEF GoTo, dialogVars
<1>3. CASE Administrator
  BY <1>1, <1>2, <1>3, AdministratorSteps, PageDialogs
     DEF Dashboard, UserAuthForm, AccountForm, Send, Post, LogOut, WindowFocus, Navigate, dialogVars
<1>4. CASE Server
  BY <1>1, <1>4
     DEF Server, ServeRead, ServeChange, ServeRefusal, ServeLogin, ServeProfile, OthersChange, TokenExpires, dialogVars
<1>5. CASE FadeOut
  <2>1. RowIsOfDialog BY <1>5 DEF FadeOut, ConsoleInv, CalmInv
  <2>2. open \notin RowDialog BY <1>5, <2>1 DEF FadeOut, RowIsOfDialog
  <2> QED BY <1>5, <2>2 DEF FadeOut, OnScreen
<1>6. ASSUME NEW s \in Slot, NEW e \in Asking, WaitsIn(s, e), ~hasty, net'[s] = Null,
             net[s].phase \in {"ok", "reading"}
      PROVE  OwnRequestDone(d)
  <2>1. open = e /\ (e \in {"edit", "delete"} => net[s].id = row.id) BY <1>6 DEF ConsoleInv, CalmInv, OpenWhileAsked
  <2>2. e = d BY <2>1 DEF OnScreen
  <2>3. net[s].list \in Mounted(path)
    BY <1>6 DEF WaitsIn, Asking, OpOf, ConsoleInv, RequestsInv, RequestFacts
  <2> QED BY <1>6, <2>1, <2>2, <2>3 DEF WaitsIn, OwnRequestDone
<1>7. ASSUME NEW s \in Slot, Succeeded(s) PROVE OwnRequestDone(d)
  <2>1. net[s].here /\ net[s].op \in {"create", "update", "delete"} BY <1>1, <1>7 DEF Succeeded
  <2>2. PICK e \in Asking : net[s].op = OpOf(e) BY <2>1 DEF Asking, OpOf
  <2>3. WaitsIn(s, e) BY <1>7, <2>1, <2>2 DEF WaitsIn, Succeeded
  <2> QED BY <1>6, <1>7, <2>3 DEF Succeeded, Settled
<1>8. ASSUME NEW s \in Slot, SyncClosed(s) PROVE OwnRequestDone(d)
  <2>1. net[s].here BY <1>1, <1>8 DEF SyncClosed
  <2>2. WaitsIn(s, "sync") /\ "sync" \in Asking
    BY <1>8, <2>1 DEF WaitsIn, Asking, OpOf, SyncClosed, ConsoleInv, RequestsInv, RequestFacts
  <2>3. net'[s] = Null BY <1>8, InvParts DEF SyncClosed, Requests
  <2> QED BY <1>6, <1>8, <2>2, <2>3 DEF SyncClosed
<1>9. ASSUME NEW list \in List, ReadDone(list) \/ ReadFailed(list) \/ ReadDenied(list) PROVE FALSE
  BY <1>1, <1>2, <1>9 DEF ReadDone, ReadFailed, ReadDenied, reset, dialogVars
<1>10. ASSUME NEW s \in Slot, Synced(s) \/ Failed(s) \/ GiveUp(s) PROVE FALSE
  BY <1>1, <1>10 DEF Synced, Failed, GiveUp, dialogVars
<1>11. ASSUME NEW s \in Slot, SignedIn(s) \/ ProfileUpdated(s) \/ RequestDenied(s) PROVE FALSE
  BY <1>2, <1>11 DEF SignedIn, ProfileUpdated, RequestDenied, resetAccessToken, reset
<1>12. CASE Browser BY <1>5, <1>7, <1>8, <1>9, <1>10, <1>11, <1>12 DEF Browser, Arrive
<1> QED BY <1>3, <1>4, <1>12 DEF ConsoleNext

(* A dialog closes because its administrator dismisses it, because its own   *)
(* request was carried out, or because its page is left: never by the answer *)
(* to a request of another page or another dialog.                          *)
THEOREM ClosesForAReasonHolds == ConsoleSpec => ClosesForAReason
<1>1. ConsoleInv /\ [ConsoleNext]_vars
        => [\A d \in Dialog :
              OnScreen(d) /\ ~OnScreen(d)' => hasty' \/ path' # path \/ Dismiss(d) \/ OwnRequestDone(d)]_vars
  BY ClosingStep
<1> QED BY <1>1, ConsoleAlways, PTL DEF ConsoleSpec, ClosesForAReason

LEMMA EndingStep ==
    ASSUME ConsoleInv, ConsoleNext, token \in live, token' = Null
    PROVE  LogOut \/ (\E s \in Slot : ProfileUpdated(s)) \/ DeniedAnother
<1>1. token # Null BY BoundsAssumption DEF ConsoleInv, ConsoleTypeOK
<1>2. ~UNCHANGED authVars BY <1>1 DEF authVars
<1>3. CASE Administrator
  <2>1. ~PageStep
    BY <1>2
       DEF PageStep, Switch, OpenOn, OpenPlain, Refresh, Dismiss, Save, Send, Post, TypeName, handleDelete,
           SyncSelected
  <2> QED BY <1>2, <1>3, <2>1, AdministratorSteps
        DEF Dashboard, UserAuthForm, AccountForm, Send, Post, WindowFocus, Navigate
<1>4. CASE Server
  BY <1>2, <1>4
     DEF Server, ServeRead, ServeChange, ServeRefusal, ServeLogin, ServeProfile, OthersChange, TokenExpires
<1>5. ASSUME NEW s \in Slot, SignedIn(s) PROVE FALSE
  <2>1. token' \in Token BY <1>5 DEF SignedIn, ConsoleInv, ConsoleTypeOK, RequestsInv, RequestFacts
  <2> QED BY <2>1, BoundsAssumption
<1>6. ASSUME NEW s \in Slot, RequestDenied(s) PROVE DeniedAnother
  BY <1>6 DEF RequestDenied, DeniedAnother, ConsoleInv, RequestsInv, RequestFacts
<1>7. ASSUME NEW list \in List, ReadDenied(list) PROVE DeniedAnother
  BY <1>7 DEF ReadDenied, DeniedAnother, ConsoleInv, ReadsInv
<1>8. ASSUME NEW list \in List, ReadDone(list) \/ ReadFailed(list) PROVE FALSE
  BY <1>2, <1>8 DEF ReadDone, ReadFailed
<1>9. ASSUME NEW s \in Slot, Synced(s) \/ SyncClosed(s) \/ Failed(s) \/ GiveUp(s) PROVE FALSE
  BY <1>2, <1>9 DEF Synced, SyncClosed, Failed, GiveUp
<1>10. ASSUME NEW s \in Slot, Succeeded(s) PROVE FALSE BY <1>2, <1>10 DEF Succeeded
<1>11. CASE FadeOut BY <1>2, <1>11 DEF FadeOut
<1>12. CASE Browser BY <1>5, <1>6, <1>7, <1>8, <1>9, <1>10, <1>11, <1>12 DEF Browser, Arrive
<1> QED BY <1>3, <1>4, <1>12 DEF ConsoleNext

(* A session whose token the server still accepts ends only because the      *)
(* administrator logs out, because a new user name or password was saved, or *)
(* because of a 401 to a request sent without this token                    *)
(* (handleGlobalHttpError).                                                 *)
THEOREM SessionEndsForAReasonHolds == ConsoleSpec => SessionEndsForAReason
<1>1. ConsoleInv /\ [ConsoleNext]_vars
        => [(token \in live /\ token' = Null)
              => (LogOut \/ (\E s \in Slot : ProfileUpdated(s)) \/ DeniedAnother)]_vars
  BY EndingStep
<1> QED BY <1>1, ConsoleAlways, PTL DEF ConsoleSpec, SessionEndsForAReason
=============================================================================
