------------------------------- MODULE EntityForms --------------------------
(***************************************************************************)
(* The forms of interfaces, servers and pools, with what the service does  *)
(* with what they send.  A form is empty or a copy of a row; a schema      *)
(* checks it and leaves out what it does not name; PoolForm asks for the   *)
(* list of interfaces and chooses the first whenever that list changes.    *)
(***************************************************************************)
EXTENDS ScreenBase

CONSTANTS EntityId, MaxReads

VARIABLES
    efKind,      \* "interface", "server" or "pool"
    efRows,      \* server: [EntityId -> a row, or Null]
    efForm,      \* the form open: the row it was opened on and its fields, or Null
    efList,      \* the interfaces as last read, Null before
    efReads,     \* the reads of that list so far
    efSent,      \* the request on its way, or Null
    efUnnamed    \* history: a server was saved without a name
efVars == <<efKind, efRows, efForm, efList, efReads, efSent, efUnnamed>>

(* The fields of all three: a text is blank or "x"; start counts the "/32" behind  *)
(* the first address.                                                         *)
Blank == ""
Text == {Blank, "x"}
Fields == [name : Text, port : Text, login : Text \cup {Null}, start : 0 .. 3 \cup {Null}, iface : {1, 2} \cup {Null}]
Empty == [name |-> Blank, port |-> Blank, login |-> Null, start |-> Null, iface |-> Null]

(* A row shows neither a server's login nor a pool's interface.                *)
Shown(row) == [row EXCEPT !.login = Null, !.iface = Null]

EFInit ==
    /\ efKind = "pool" /\ efRows = [r \in EntityId |-> Null]
    /\ efForm = Null /\ efList = Null /\ efReads = 0 /\ efSent = Null /\ efUnnamed = FALSE

FormOpened ==
    /\ efForm = Null /\ efSent = Null
    /\ \/ efForm' = [of |-> Null, row |-> Empty, now |-> Empty]
       \/ \E r \in EntityId :
            efRows[r] # Null /\ efForm' = [of |-> r, row |-> Shown(efRows[r]), now |-> Shown(efRows[r])]
    /\ efList' = Null
    /\ UNCHANGED <<efKind, efRows, efReads, efSent, efUnnamed>>

(* (Closed and opened while a request is on its way: Console.)                *)
FormClosed ==
    /\ efForm # Null /\ efForm' = Null /\ efSent = Null
    /\ UNCHANGED <<efKind, efRows, efList, efReads, efSent, efUnnamed>>

(* The page is left for one of another kind. *)
OtherKind ==
    /\ efForm = Null /\ efSent = Null /\ \A r \in EntityId : efRows[r] = Null
    /\ efKind' \in {"interface", "server"} \ {efKind}
    /\ UNCHANGED <<efRows, efForm, efList, efReads, efSent, efUnnamed>>

FieldTyped ==
    /\ efForm # Null
    /\ \E text \in Text : \E field \in
          CASE efKind = "interface" -> {"name", "port"} [] efKind = "server" -> {"name", "port", "login"}
            [] OTHER -> {"name"} :
          efForm' = [efForm EXCEPT !.now[field] = text]
    /\ UNCHANGED <<efKind, efRows, efList, efReads, efSent, efUnnamed>>

PoolAddressTyped ==
    /\ efForm # Null /\ efKind = "pool"
    /\ \E tail \in {0, 1} : efForm' = [efForm EXCEPT !.now.start = tail]
    /\ UNCHANGED <<efKind, efRows, efList, efReads, efSent, efUnnamed>>

(* PoolForm: the list is read on mount and again on focus.  useQuery keeps the  *)
(* list it has when the same one is read again, and the effect does not run.    *)
Differs(list) == list # efList

PoolInterfacesRead ==
    /\ efForm # Null /\ efKind = "pool" /\ efReads < MaxReads
    /\ efReads' = efReads + 1
    /\ efList' \in {<<1>>, <<1, 2>>}
    /\ efForm' = IF efForm.of = Null /\ Differs(efList')
                 THEN [efForm EXCEPT !.now.iface = Head(efList')] ELSE efForm
    /\ UNCHANGED <<efKind, efRows, efSent, efUnnamed>>

PoolInterfaceSelect ==
    /\ efForm # Null /\ efKind = "pool" /\ efList # Null
    /\ \E i \in ToSet(efList) : efForm' = [efForm EXCEPT !.now.iface = i]
    /\ UNCHANGED <<efKind, efRows, efList, efReads, efSent, efUnnamed>>

(* ServerForm tells an edit from an addition by the NAME of its row.           *)
isEdit_Comment(form) == form.of # Null /\ (efKind = "server" => form.row.port # Blank)
isEdit(form) == form.of # Null /\ (efKind = "server" => form.row.name # Blank)

(* The schemas: what a creation must name, what an update may leave out.        *)
Valid(form) ==
    /\ efKind = "pool" => form.now.name # Blank /\ form.now.start # Null /\ (isEdit(form) \/ form.now.iface # Null)
    /\ efKind # "pool" /\ ~isEdit(form) => form.now.name # Blank /\ form.now.port # Blank
    /\ efKind = "server" /\ ~isEdit(form) => form.now.login \notin {Blank, Null}

(* PoolForm appends "/32" where it is missing; UpdateInterfaceSchema does not   *)
(* name the port and drops it.                                                *)
Masked_Again(start) == start + 1
Masked(start) == IF start = 0 THEN 1 ELSE start

Patched(form) ==
    CASE efKind = "pool" -> [form.now EXCEPT !.start = Masked(@)]
      [] efKind = "interface" /\ isEdit(form) -> [form.now EXCEPT !.port = Blank]
      [] OTHER -> form.now

EntitySubmit ==
    /\ efForm # Null /\ efSent = Null /\ Valid(efForm)
    /\ efSent' = [of |-> IF isEdit(efForm) THEN efForm.of ELSE Null, fields |-> Patched(efForm),
                  answer |-> "due", from |-> efForm.of]
    /\ UNCHANGED <<efKind, efRows, efForm, efList, efReads, efUnnamed>>

(* The service.  UpdateServer reads every field of the request: one that was    *)
(* left out ends it in a panic, and nothing is saved.  UpdateInterface saves     *)
(* the port of its own request, which has none.  A pool keeps its interface.     *)
Stored(rq) ==
    IF efKind = "pool" /\ rq.of # Null THEN [rq.fields EXCEPT !.iface = efRows[rq.of].iface] ELSE rq.fields

(* ParseCIDR wants one prefix length.                                         *)

Accepts(rq) ==
    /\ efKind = "pool" => rq.fields.start = 1
    /\ rq.of # Null => efRows[rq.of] # Null /\ (efKind = "server" => rq.fields.login # Null)
    /\ rq.of = Null => \E r \in EntityId : efRows[r] = Null

EntityServed ==
    /\ efSent # Null /\ efSent.answer = "due"
    /\ \/ /\ Accepts(efSent)
          /\ LET at == IF efSent.of # Null THEN efSent.of
                       ELSE CHOOSE r \in EntityId : efRows[r] = Null /\ \A q \in EntityId : q < r => efRows[q] # Null
             IN efRows' = [efRows EXCEPT ![at] = Stored(efSent)]
          /\ efSent' = [efSent EXCEPT !.answer = "ok"]
          /\ efUnnamed' = (efUnnamed \/ (efKind = "server" /\ efSent.fields.name = Blank))
       \/ efSent' = [efSent EXCEPT !.answer = "failed"] /\ UNCHANGED <<efRows, efUnnamed>>
    /\ UNCHANGED <<efKind, efForm, efList, efReads>>

(* Success closes the form that is open; an error leaves it open.              *)
EntityAnswered ==
    /\ efSent # Null /\ efSent.answer # "due"
    /\ efForm' = IF efSent.answer = "ok" THEN Null ELSE efForm
    /\ efSent' = Null
    /\ UNCHANGED <<efKind, efRows, efList, efReads, efUnnamed>>

EFNext ==
    \/ FormOpened \/ FormClosed \/ OtherKind \/ FieldTyped \/ PoolAddressTyped
    \/ PoolInterfacesRead \/ PoolInterfaceSelect
    \/ EntitySubmit \/ EntityServed \/ EntityAnswered

(* However often a pool is edited, and whatever is typed, the service can parse *)
(* the addresses it is sent: they have one prefix length (pool-form.tsx).       *)
PoolAddressParses == efKind = "pool" /\ efSent # Null => efSent.fields.start = 1

(* Saving the form of a row never makes a second row, unless a server was saved *)
(* without a name: the form of that row is an addition (server-form.tsx).       *)
EditMakesNoRow ==
    [][\A r \in EntityId :
          efRows[r] = Null /\ efRows'[r] # Null => efSent.from = Null \/ efUnnamed]_efVars

(* The interface of a pool is changed by the administrator alone as long as the *)
(* interfaces read again are the same (pool-form.tsx's effect).                 *)
PoolChoiceStays ==
    [][efForm # Null /\ efForm' # Null /\ efForm'.now.iface # efForm.now.iface
         => PoolInterfaceSelect \/ efList' # efList]_efVars

=============================================================================
