------------------------------- MODULE Services -------------------------------
(***************************************************************************)
(* Four services side by side: the Telegram bot with its notifier, the     *)
(* clients that dial the routers, the addresses of an interface, and the   *)
(* synchronisation with the router.  They share no state that the models   *)
(* keep, so each is looked at on its own: a behaviour is about one of      *)
(* them, chosen at the start.                                              *)
(***************************************************************************)
EXTENDS TelegramLinks, RouterClients, AddressPool, RouterSync

VARIABLE service

servicesVars == <<service, tgVars, clientVars, poolVars, rsVars>>

(* What stands still begins in one state. *)
ServicesInit ==
    /\ service \in {"telegram", "clients", "pool", "sync"}
    /\ TelegramInit /\ ClientsInit
    /\ PoolInit
    /\ service = "pool" \/ (Stored = {} /\ \A i \in Interface : apPools[i] = Nothing)
    /\ SyncInit
    /\ service = "sync" \/ rsMade = {}

ServicesNext ==
    \/ /\ service = "telegram" /\ TelegramNext
       /\ UNCHANGED <<service, clientVars, poolVars, rsVars>>
    \/ /\ service = "clients" /\ ClientsNext
       /\ UNCHANGED <<service, tgVars, poolVars, rsVars>>
    \/ /\ service = "pool" /\ PoolNext
       /\ UNCHANGED <<service, tgVars, clientVars, rsVars>>
    \/ /\ service = "sync" /\ SyncNext
       /\ UNCHANGED <<service, tgVars, clientVars, poolVars>>

ServicesSpec == ServicesInit /\ [][ServicesNext]_servicesVars
=============================================================================
