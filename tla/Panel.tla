-------------------------------- MODULE Panel --------------------------------
(***************************************************************************)
(* The panel: the jobs and resets of the Calculator, the peer requests of  *)
(* the HTTP server and the router, on one table.  The Calculator's mutex   *)
(* orders its own runs; no request takes it.                               *)
(***************************************************************************)
EXTENDS TrafficProperties, PeerService

CONSTANT Old     (* the peers that exist at the start                      *)

ASSUME OldAssumption == Old \subseteq Peer

calculatorVars == <<mu, thr, total, charged>>
panelVars == <<vars, serviceVars>>

PanelTypeOK == TypeOK /\ ServiceTypeOK

PanelInit == StateInit(Old) /\ CalculatorInit /\ ServiceInit(Old)

(* The process stops and is started again. *)
PanelCrash ==
    /\ "crash" \in Faults
    /\ mu' = NoThread
    /\ thr' = [t \in Thread |-> Idle]
    /\ UNCHANGED <<stateVars, total, charged>>
    /\ LoseCalls

PanelNext ==
    \/ CalculatorNext /\ UNCHANGED serviceVars
    \/ ServiceNext /\ UNCHANGED calculatorVars
    \/ EnvironmentStep /\ UNCHANGED serviceVars
    \/ PanelCrash

PanelSpec == PanelInit /\ [][PanelNext]_panelVars

(* A request goes on until it is answered; none need ever be made. *)
Serve(q) == ~At(q, "idle") /\ Step(q) /\ UNCHANGED calculatorVars

PanelFairness ==
    /\ Fairness
    /\ \A q \in Request : WF_panelVars(Serve(q))

FairPanelSpec == PanelSpec /\ PanelFairness

-----------------------------------------------------------------------------
(* What the panel must do while jobs, resets and requests are interleaved  *)

(* No run and no request is under way. *)
Quiet == mu = NoThread /\ \A q \in Request : At(q, "idle")

(* When requests come one at a time and no call fails, the table and the   *)
(* router hold the same peers, and a row has exactly the schedulers and    *)
(* queues that exist (CreatePeer, UpdatePeer and DeletePeer against the    *)
(* jobs, which write the same rows and entries meanwhile).  A row with the *)
(* id of a missing object can never be updated, toggled or deleted again.  *)
TableMatchesRouter ==
    Quiet => \A p \in Peer :
        /\ db[p] = NoRow <=> router[p].wg = "none"
        /\ db[p] # NoRow => /\ db[p].sched <=> router[p].sched # "none"
                            /\ db[p].queue <=> router[p].queue # "none"

(* A request that is answered with success, when requests come one at a    *)
(* time, leaves row and router in agreement, whatever calls, statements    *)
(* and requests failed before it: whether the peer is on, and that nothing *)
(* but a scheduler or a queue is left of a deleted one.                    *)
SuccessMeansApplied ==
    \A q \in Request : At(q, "ok") =>
        LET p == call[q].p IN
        IF db[p] = NoRow THEN router[p].wg = "none" /\ files[p] = {}
        ELSE \/ router[p].wg = SwitchOf(db[p].disabled)
             \/ router[p].wg = "off" /\ IsPeerExpired(db[p])
=============================================================================
