---------------------------- MODULE DailyTraffic ----------------------------
(***************************************************************************)
(* CalculateDailyTraffic: at midnight, one row of the traffic table for    *)
(* each interface, from the interface's byte counter and the row stored    *)
(* before.  The chart of the dashboard shows the rows as they are.         *)
(*                                                                         *)
(* Downloads, uploads and their sum are treated alike and apart from each  *)
(* other: one number stands for any of the three.                          *)
(***************************************************************************)
EXTENDS Integers, SequencesExt

CONSTANTS
    Interface,    (* the interfaces of the table                           *)
    Bursts,       (* bound: bytes forwarded at once                        *)
    MaxBytes,     (* bound: bytes an interface forwards                    *)
    MaxDays       (* bound: rows of an interface                           *)

VARIABLES
    ctr,     (* the router's byte counter of each interface                *)
    traffic, (* the stored usages of each interface, oldest first          *)
    bytes,   (* history: bytes the interface forwarded                     *)
    marks    (* history: bytes at each stored row                          *)

dailyVars == <<ctr, traffic, bytes, marks>>

Init ==
    /\ ctr = [i \in Interface |-> 0]
    /\ traffic = [i \in Interface |-> <<>>]
    /\ bytes = [i \in Interface |-> 0]
    /\ marks = [i \in Interface |-> <<>>]

(* The difference to the usage stored in the last row. *)
diffTotal(current, rows) == IF rows = <<>> THEN current ELSE current - Last(rows)

(* One interface of a run.  When the counter cannot be read or the row     *)
(* cannot be stored, the interface gets no row that day: nothing happens.  *)
CalculateDailyTraffic(i) ==
    /\ Len(traffic[i]) < MaxDays
    /\ traffic' = [traffic EXCEPT ![i] = Append(@, diffTotal(ctr[i], @))]
    /\ marks' = [marks EXCEPT ![i] = Append(@, bytes[i])]
    /\ UNCHANGED <<ctr, bytes>>

Forward(i, n) ==
    /\ bytes[i] + n <= MaxBytes
    /\ bytes' = [bytes EXCEPT ![i] = @ + n]
    /\ ctr' = [ctr EXCEPT ![i] = @ + n]
    /\ UNCHANGED <<traffic, marks>>

RestartCounter(i) ==
    /\ ctr[i] # 0
    /\ ctr' = [ctr EXCEPT ![i] = 0]
    /\ UNCHANGED <<traffic, bytes, marks>>

Next ==
    \E i \in Interface :
        \/ CalculateDailyTraffic(i)
        \/ \E n \in Bursts : Forward(i, n)
        \/ RestartCounter(i)

Spec == Init /\ [][Next]_dailyVars

-----------------------------------------------------------------------------
(* Until the counter restarts (ctr and bytes are the same so far), a row   *)
(* holds the bytes forwarded since the row before (CalculateDailyTraffic,  *)
(* the chart of the daily usage).                                          *)
RowIsSinceTheLast ==
    \A i \in Interface : ctr[i] = bytes[i] =>
        \A n \in DOMAIN traffic[i] :
            traffic[i][n] = marks[i][n] - IF n = 1 THEN 0 ELSE marks[i][n - 1]
=============================================================================
