------------------------------- MODULE TableView ----------------------------
(***************************************************************************)
(* The table of a page (shared-components/table, *-columns.tsx): the list  *)
(* it is given, filtered, sorted and cut into pages, and the dialog in a   *)
(* cell of a peer that resets its usage.  A row is known to the table by   *)
(* its index in the list, not by the id of what it shows.                  *)
(***************************************************************************)
EXTENDS ScreenBase

CONSTANTS
    MaxRows,       \* ids of the rows
    Address,       \* [1 .. MaxRows -> <<part, part>>], two parts stand for the four
    PageSize,      \* ten by default
    Named          \* the sets of rows whose names hold a text that is typed

ASSUME TableAssumption ==
    /\ MaxRows \in Nat /\ PageSize \in Nat \ {0}
    /\ Address \in [1 .. MaxRows -> (0 .. 255) \X (0 .. 255)]

VARIABLES
    tvKind,      \* whose table it is
    tvData,      \* the list: [id, status]
    tvFilter,    \* the statuses ticked
    tvName,      \* the ids whose name holds the text typed
    tvSort,      \* "asc", "desc", or Null for the list's order
    tvPage,      \* pageIndex
    tvCrashed,   \* a filter threw: the page shows an error
    tvReset,     \* the reset dialog that is open: [at: an index, asked: the id it was opened for], or Null
    tvSent,      \* the reset last sent: [at, id, here: its cell is still on the screen], or Null
    tvLost       \* history: since the dialog was opened the list has lost its row, or one before it
tvVars == <<tvKind, tvData, tvFilter, tvName, tvSort, tvPage, tvCrashed, tvReset, tvSent, tvLost>>

TableId == 1 .. MaxRows

(* What a row can be, and the options of the filter (data-table-toolbar.tsx).   *)
RowStatus(kind) ==
    IF kind = "Peers" THEN {{"active"}, {"inactive", "expired"}}
    ELSE IF kind = "Servers" THEN {{"available"}, {"not_available"}} ELSE {{}}
StatusOptions(kind) ==
    IF kind = "Peers" THEN {"active", "inactive", "expired", "suspended"}
    ELSE IF kind = "Servers" THEN {"available", "not_available"} ELSE {"running", "not_running"}

TVInit ==
    /\ tvKind \in {"Peers", "Servers", "Interfaces"}
    /\ tvData = <<>> /\ tvFilter = {} /\ tvName = TableId
    /\ tvSort = IF tvKind = "Peers" THEN "asc" ELSE Null
    /\ tvPage = 0 /\ tvCrashed = FALSE /\ tvReset = Null /\ tvSent = Null /\ tvLost = FALSE

(* A peer's statuses are a list, a server's is a text that includes its parts:   *)
(* "not_available" includes "available".                                       *)
Includes(kind, status, value) ==
    value \in status \/ (kind = "Servers" /\ value = "available" /\ status = {"not_available"})

filterFn(row, filter, name) ==
    /\ row.id \in name
    /\ filter = {} \/ \E value \in filter : Includes(tvKind, row.status, value)

(* The comparison of two addresses (peers-columns.tsx): the first parts that    *)
(* differ decide, as numbers.                                                  *)
sortingFn_FirstOnly(a, b) == a[1] < b[1]
sortingFn(a, b) == \E i \in DOMAIN a : a[i] < b[i] /\ \A j \in 1 .. i - 1 : a[j] = b[j]

(* The indices of the rows, as the table shows them.                           *)
FilteredRows(data, filter, name) == {i \in DOMAIN data : filterFn(data[i], filter, name)}
SortedRows(data, filter, name, sort) ==
    LET rows == FilteredRows(data, filter, name)
        address(i) == Address[data[i].id]
    IN StableSort(rows, {p \in {<<i, j>> : i, j \in rows} :
                            \/ sort = "asc" /\ sortingFn(address(p[1]), address(p[2]))
                            \/ sort = "desc" /\ sortingFn(address(p[2]), address(p[1]))})
PageOf(rows, page) == SubSeq(rows, page * PageSize + 1, Min({(page + 1) * PageSize, Len(rows)}))

AllRows == SortedRows(tvData, tvFilter, tvName, tvSort)
Visible == PageOf(AllRows, tvPage)

(* The table is drawn with a list, a filter and an order: the page goes back to  *)
(* the first; a cell that is no longer on it loses its dialog.  An interface has *)
(* no property named status: filtering on it throws, if there is a row.          *)
Draw(data, filter, name, sort, page) ==
    /\ tvData' = data /\ tvFilter' = filter /\ tvName' = name /\ tvSort' = sort /\ tvPage' = page
    /\ LET rows == ToSet(PageOf(SortedRows(data, filter, name, sort), page)) IN
         /\ tvReset' = IF tvReset # Null /\ tvReset.at \in rows THEN tvReset ELSE Null
         /\ tvSent' = IF tvSent # Null /\ tvSent.at \notin rows THEN [tvSent EXCEPT !.here = FALSE] ELSE tvSent
    /\ tvCrashed' = (tvKind = "Interfaces" /\ filter # {} /\ data # <<>>)

Usable == ~tvCrashed /\ tvReset = Null       \* the dialog is modal

(* A list is read: a row came, went, or is in another state.                   *)
ListRead ==
    /\ ~tvCrashed
    /\ \E status \in RowStatus(tvKind) :
         \/ \E id \in TableId \ {tvData[i].id : i \in DOMAIN tvData} :
              /\ Draw(Append(tvData, [id |-> id, status |-> status]), tvFilter, tvName, tvSort, 0)
              /\ UNCHANGED tvLost
         \/ \E i \in DOMAIN tvData :
              /\ Draw([tvData EXCEPT ![i].status = status], tvFilter, tvName, tvSort, 0)
              /\ UNCHANGED tvLost
    /\ UNCHANGED tvKind

RowLost ==
    /\ ~tvCrashed
    /\ \E i \in DOMAIN tvData :
         /\ Draw(RemoveAt(tvData, i), tvFilter, tvName, tvSort, 0)
         /\ tvLost' = (tvLost \/ (tvReset # Null /\ i <= tvReset.at))
    /\ UNCHANGED tvKind

setFilterValue ==
    /\ Usable
    /\ \/ \E option \in StatusOptions(tvKind) :
            Draw(tvData, IF option \in tvFilter THEN tvFilter \ {option} ELSE tvFilter \cup {option},
                 tvName, tvSort, 0)
       \/ \E ids \in Named : Draw(tvData, tvFilter, ids, tvSort, 0)
    /\ UNCHANGED <<tvKind, tvLost>>

resetColumnFilters ==
    /\ Usable /\ (tvFilter # {} \/ tvName # TableId)
    /\ Draw(tvData, {}, TableId, tvSort, 0)
    /\ UNCHANGED <<tvKind, tvLost>>

toggleSorting ==
    /\ Usable
    /\ \E sort \in {"asc", "desc"} : Draw(tvData, tvFilter, tvName, sort, 0)
    /\ UNCHANGED <<tvKind, tvLost>>

setPageIndex ==
    /\ Usable
    /\ \E page \in {page \in 0 .. MaxRows : page * PageSize < Cardinality(FilteredRows(tvData, tvFilter, tvName))} :
         Draw(tvData, tvFilter, tvName, tvSort, page)
    /\ UNCHANGED <<tvKind, tvLost>>

ShownState == <<tvKind, tvData, tvFilter, tvName, tvSort, tvPage, tvCrashed>>

(* The row a cell shows: the one at its index in the list.                      *)
RowOf_Position(at) == tvData[Visible[IF at <= Len(Visible) THEN at ELSE 1]]
RowOf(at) == tvData[at]

setDialogOpen ==
    /\ Usable /\ tvKind = "Peers"
    /\ \E at \in DOMAIN tvData :
         at \in ToSet(Visible) /\ tvReset' = [at |-> at, asked |-> tvData[at].id]
    /\ tvLost' = FALSE
    /\ UNCHANGED <<ShownState, tvSent>>

SimpleDialogClosed == tvReset # Null /\ tvReset' = Null /\ UNCHANGED <<ShownState, tvSent, tvLost>>

(* The button is not disabled while the request is on its way.                 *)
handleResetUsage ==
    /\ tvReset # Null /\ ~tvCrashed
    /\ tvSent' = [at |-> tvReset.at, id |-> RowOf(tvReset.at).id, here |-> TRUE]
    /\ UNCHANGED <<ShownState, tvReset, tvLost>>

(* The answer, whatever it is, closes the dialog of its cell.                   *)
ResetAnswered ==
    /\ tvSent # Null /\ tvSent' = Null
    /\ tvReset' = IF tvReset # Null /\ tvSent.here /\ tvReset.at = tvSent.at THEN Null ELSE tvReset
    /\ UNCHANGED <<ShownState, tvLost>>

TVNext ==
    \/ ListRead \/ RowLost
    \/ setFilterValue \/ resetColumnFilters \/ toggleSorting \/ setPageIndex
    \/ setDialogOpen \/ SimpleDialogClosed \/ handleResetUsage \/ ResetAnswered

(* The table stands in the order asked for, the addresses compared as numbers,  *)
(* and the page shown has rows as long as any row passes the filter.            *)
Numeric(i) == 256 * Address[tvData[i].id][1] + Address[tvData[i].id][2]
InOrder ==
    LET rows == AllRows IN
    \A k \in 2 .. Len(rows) :
        IF tvSort = "asc" THEN Numeric(rows[k - 1]) <= Numeric(rows[k])
        ELSE tvSort = "desc" => Numeric(rows[k - 1]) >= Numeric(rows[k])
PageHasRows == Visible = <<>> => AllRows = <<>>
TableShows == ~tvCrashed => InOrder /\ PageHasRows

(* A reset goes to the peer whose button opened the dialog, although the table  *)
(* is read again in between, with rows that come, change or leave the filter, or  *)
(* that are gone from behind it in the list.  Excused is the reset of a dialog    *)
(* whose peer, or a peer before it, is gone from the list since it was opened:    *)
(* there the next peer has taken its place in the dialog.                       *)
ResetsPeerAsked == [][handleResetUsage => tvLost \/ tvSent'.id = tvReset.asked]_tvVars
=============================================================================
