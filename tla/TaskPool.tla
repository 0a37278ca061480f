------------------------------ MODULE TaskPool ------------------------------
(***************************************************************************)
(* What the agent's worker pool promises its callers, without queue, lock  *)
(* or goroutines: while it is open it may accept a task; an accepted task  *)
(* is handled exactly once, in any order; once closing it accepts nothing, *)
(* and it reports that it is closed only when every accepted task has been *)
(* handled (internal/agent/worker_pool_test.go, StopDrainsPendingTasks).   *)
(***************************************************************************)
CONSTANT Task

VARIABLES
    phase,     \* "open", "closing" or "closed"
    accepted,  \* tasks the pool has taken
    handled    \* tasks whose sending has ended

poolVars == <<phase, accepted, handled>>

PoolInit ==
    /\ phase = "open"
    /\ accepted = {}
    /\ handled = {}

Accept(t) ==
    /\ phase = "open"
    /\ t \notin accepted
    /\ accepted' = accepted \union {t}
    /\ UNCHANGED <<phase, handled>>

Handle(t) ==
    /\ t \in accepted \ handled
    /\ handled' = handled \union {t}
    /\ UNCHANGED <<phase, accepted>>

Close ==
    /\ phase = "open"
    /\ phase' = "closing"
    /\ UNCHANGED <<accepted, handled>>

Closed ==
    /\ phase = "closing"
    /\ accepted = handled
    /\ phase' = "closed"
    /\ UNCHANGED <<accepted, handled>>

PoolNext ==
    \/ \E t \in Task : Accept(t) \/ Handle(t)
    \/ Close
    \/ Closed

PoolSpec == PoolInit /\ [][PoolNext]_poolVars
=============================================================================
