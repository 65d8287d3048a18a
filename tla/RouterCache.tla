------------------------------ MODULE RouterCache ------------------------------
(***************************************************************************)
(* The shared router (api.get_router): request threads read and write its  *)
(* three fields one by one, with no lock. A router that was built while    *)
(* the database copilot was unavailable is degraded, and is meant to be    *)
(* rebuilt after a while.                                                  *)
(***************************************************************************)
EXTENDS Naturals

CONSTANTS
    RouterThreads,   \* request threads
    RecheckAfter,    \* _ROUTER_RECHECK_SECONDS
    MaxRouterClock   \* bound: the monotonic clock

ASSUME RouterCacheAssumption ==
    /\ RecheckAfter \in Nat
    /\ MaxRouterClock \in Nat

VARIABLES
    routerState,     \* router ("none", "degraded", "full"), available, checked_at
    callers,         \* each thread's call of get_router: its step, the router, now
    copilotUp,       \* whether validate_ready passes
    routerClock

cacheVars == <<routerState, callers, copilotUp, routerClock>>

IdleCaller == [at |-> "idle", router |-> "none", now |-> 0]

CacheInit ==
    /\ routerState = [router |-> "none", available |-> FALSE, checked_at |-> 0]
    /\ callers = [t \in RouterThreads |-> IdleCaller]
    /\ copilotUp = FALSE
    /\ routerClock = 0

Goes(t, step) == callers' = [callers EXCEPT ![t].at = step]

ReadRouter(t) ==
    /\ callers[t].at = "idle"
    /\ callers' = [callers EXCEPT ![t] =
           [at |-> "look", router |-> routerState.router, now |-> routerClock]]
    /\ UNCHANGED <<routerState, copilotUp, routerClock>>

(* An available router is returned, and a degraded one that was checked     *)
(* recently; the caller is done with it at once.                            *)
LookAtState(t) ==
    LET c == callers[t] IN
    /\ c.at = "look"
    /\ IF /\ c.router # "none"
          /\ \/ routerState.available
             \/ routerClock < routerState.checked_at + RecheckAfter
       THEN callers' = [callers EXCEPT ![t] = IdleCaller]
       ELSE callers' = [callers EXCEPT ![t].at = "build", ![t].now = routerClock]
    /\ UNCHANGED <<routerState, copilotUp, routerClock>>

BuildRouter(t) ==
    /\ callers[t].at = "build"
    /\ callers' = [callers EXCEPT ![t].at = "router",
           ![t].router = IF copilotUp THEN "full" ELSE "degraded"]
    /\ UNCHANGED <<routerState, copilotUp, routerClock>>

StoreRouter(t) ==
    /\ callers[t].at = "router"
    /\ routerState' = [routerState EXCEPT !.router = callers[t].router]
    /\ Goes(t, "available")
    /\ UNCHANGED <<copilotUp, routerClock>>

StoreAvailable(t) ==
    /\ callers[t].at = "available"
    /\ routerState' = [routerState EXCEPT !.available = callers[t].router = "full"]
    /\ Goes(t, "checked")
    /\ UNCHANGED <<copilotUp, routerClock>>

StoreChecked(t) ==
    /\ callers[t].at = "checked"
    /\ routerState' = [routerState EXCEPT !.checked_at = callers[t].now]
    /\ callers' = [callers EXCEPT ![t] = IdleCaller]
    /\ UNCHANGED <<copilotUp, routerClock>>

(* The catalog or the database configuration is fixed. *)
CopilotRecovers ==
    /\ ~copilotUp
    /\ copilotUp' = TRUE
    /\ UNCHANGED <<routerState, callers, routerClock>>

RouterTick ==
    /\ routerClock < MaxRouterClock
    /\ routerClock' = routerClock + 1
    /\ UNCHANGED <<routerState, callers, copilotUp>>

GetRouter(t) ==
    \/ ReadRouter(t) \/ LookAtState(t) \/ BuildRouter(t)
    \/ StoreRouter(t) \/ StoreAvailable(t) \/ StoreChecked(t)

CacheNext == CopilotRecovers \/ RouterTick \/ \E t \in RouterThreads : GetRouter(t)

CacheSpec == CacheInit /\ [][CacheNext]_cacheVars

------------------------------------------------------------------------------
(* "a copilot that recovers is picked up without a process restart": what   *)
(* is kept for good, because it is marked available, is a full router.      *)
KeptRouterIsFull ==
    (\A t \in RouterThreads : callers[t].at \in {"idle", "look", "build"})
        /\ routerState.available => routerState.router = "full"
================================================================================
