---------------------------- MODULE DashboardScreen -------------------------
(***************************************************************************)
(* The dashboard (features/dashboard): its figures, the chart of the daily *)
(* traffic, of which one answer is kept for each range, and the dialog     *)
(* that resets the total.  (The dialog of the peers page that resets all   *)
(* usages has the same buttons and the same request.)                      *)
(***************************************************************************)
EXTENDS ScreenBase

CONSTANTS
    ChartRange,   \* the ranges of the chart, in days
    MaxTotal,     \* bound on the total
    MaxOpens      \* bound on the times the dialog is opened

ASSUME ChartAssumption == ChartRange # {} /\ ChartRange \subseteq Nat

VARIABLES
    dbTotal,     \* server: the total
    dbRange,     \* timeRange
    dbCharts,    \* [ChartRange -> the range the answer kept is about, or Null]
    dbReading,   \* the ranges whose answer is on its way
    dbFigure,    \* device_data: the total it shows, or Null
    dbFigureRead,\* the question on its way: Null, Unanswered, or an answer
    dbOpen,      \* the number of the dialog that is open, 0 when none is
    dbOpens,     \* history: dialogs opened so far
    dbReset      \* the request on its way: [dialog, answer], or Null
dbVars == <<dbTotal, dbRange, dbCharts, dbReading, dbFigure, dbFigureRead, dbOpen, dbOpens, dbReset>>

Unanswered == [phase |-> "sent"]

DBInit ==
    /\ dbTotal = 0
    /\ dbRange = Min(ChartRange) /\ dbCharts = [r \in ChartRange |-> Null] /\ dbReading = {Min(ChartRange)}
    /\ dbFigure = Null /\ dbFigureRead = Unanswered
    /\ dbOpen = 0 /\ dbOpens = 0 /\ dbReset = Null

(* The key of an answer names its range (useDailyTrafficUsageQuery).             *)
QueryKey_NoRange(r) == Min(ChartRange)
QueryKey(r) == r

(* Another range: the answer kept for it is shown, and read when it is old.      *)
setTimeRange ==
    /\ \E r \in ChartRange \ {dbRange}, stale \in BOOLEAN :
         /\ dbRange' = r
         /\ dbReading' = IF dbCharts[QueryKey(r)] = Null \/ stale THEN dbReading \cup {r} ELSE dbReading
    /\ UNCHANGED <<dbTotal, dbCharts, dbFigure, dbFigureRead, dbOpen, dbOpens, dbReset>>

DailyTrafficRead(r) ==
    /\ r \in dbReading /\ dbReading' = dbReading \ {r}
    /\ dbCharts' \in {dbCharts, [dbCharts EXCEPT ![QueryKey(r)] = r]}    \* refused, or answered
    /\ UNCHANGED <<dbTotal, dbRange, dbFigure, dbFigureRead, dbOpen, dbOpens, dbReset>>

(* The chart is hidden by a skeleton while its answer is read.                  *)
Charted == IF dbRange \in dbReading THEN Null ELSE dbCharts[QueryKey(dbRange)]

Metered ==
    /\ dbTotal < MaxTotal /\ dbTotal' = dbTotal + 1
    /\ UNCHANGED <<dbRange, dbCharts, dbReading, dbFigure, dbFigureRead, dbOpen, dbOpens, dbReset>>

GetDeviceData ==
    /\ dbFigureRead = Unanswered /\ dbFigureRead' = [total |-> dbTotal]
    /\ UNCHANGED <<dbTotal, dbRange, dbCharts, dbReading, dbFigure, dbOpen, dbOpens, dbReset>>

DeviceDataRead ==
    /\ dbFigureRead # Null
    /\ dbFigure' \in {dbFigure} \cup (IF dbFigureRead = Unanswered THEN {} ELSE {dbFigureRead.total})
    /\ dbFigureRead' = Null
    /\ UNCHANGED <<dbTotal, dbRange, dbCharts, dbReading, dbOpen, dbOpens, dbReset>>

DashboardFocused ==
    /\ dbFigureRead = Null /\ dbFigureRead' = Unanswered
    /\ UNCHANGED <<dbTotal, dbRange, dbCharts, dbReading, dbFigure, dbOpen, dbOpens, dbReset>>

(* The button that opens the dialog waits for the figures and for the request.   *)
Openable == (dbFigure # Null \/ dbFigureRead = Null) /\ dbReset = Null

ResetDialogOpened ==
    /\ dbOpen = 0 /\ Openable /\ dbOpens < MaxOpens
    /\ dbOpen' = dbOpens + 1 /\ dbOpens' = dbOpens + 1
    /\ UNCHANGED <<dbTotal, dbRange, dbCharts, dbReading, dbFigure, dbFigureRead, dbReset>>

ResetDialogDismissed ==
    /\ dbOpen # 0 /\ dbOpen' = 0
    /\ UNCHANGED <<dbTotal, dbRange, dbCharts, dbReading, dbFigure, dbFigureRead, dbOpens, dbReset>>

handleReset ==
    /\ dbOpen # 0 /\ dbReset = Null
    /\ dbReset' = [dialog |-> dbOpen, answer |-> Null]
    /\ UNCHANGED <<dbTotal, dbRange, dbCharts, dbReading, dbFigure, dbFigureRead, dbOpen, dbOpens>>

ResetTotalTraffic ==
    /\ dbReset # Null /\ dbReset.answer = Null
    /\ \/ dbTotal' = 0 /\ \E answer \in {"ok", "failed"} : dbReset' = [dbReset EXCEPT !.answer = answer]
       \/ dbReset' = [dbReset EXCEPT !.answer = "failed"] /\ UNCHANGED dbTotal
    /\ UNCHANGED <<dbRange, dbCharts, dbReading, dbFigure, dbFigureRead, dbOpen, dbOpens>>

(* Carried out: the dialog closes and the figures are read again, from the start  *)
(* when there were any; refused: it stays.                                    *)
ResetAnswer ==
    /\ dbReset # Null /\ dbReset.answer # Null /\ dbReset' = Null
    /\ IF dbReset.answer = "ok"
       THEN /\ dbOpen' = 0
            /\ dbFigureRead' = IF dbFigureRead = Null \/ dbFigure # Null THEN Unanswered ELSE dbFigureRead
       ELSE UNCHANGED <<dbOpen, dbFigureRead>>
    /\ UNCHANGED <<dbTotal, dbRange, dbCharts, dbReading, dbFigure, dbOpens>>

DBNext ==
    \/ setTimeRange \/ (\E r \in ChartRange : DailyTrafficRead(r))
    \/ Metered \/ GetDeviceData \/ DeviceDataRead \/ DashboardFocused
    \/ ResetDialogOpened \/ ResetDialogDismissed \/ handleReset \/ ResetTotalTraffic \/ ResetAnswer

(* The chart is the one of the range selected, in whatever order the answers to    *)
(* the ranges selected before come.                                            *)
ChartOfRange == Charted \in {dbRange, Null}

(* The answer to a reset never closes a dialog that was opened after it was sent.  *)
ResetClosesOwn ==
    [][ResetAnswer /\ dbOpen # 0 /\ dbOpen' = 0 => dbOpen = dbReset.dialog]_dbVars
=============================================================================
