-------------------------- MODULE ServiceLifecycle --------------------------
(***************************************************************************)
(* What a service promises about its life, without tasks, locks or events: *)
(* one lifecycle operation at a time, each either concluded in a resting   *)
(* state of the transition table or, when MayAbandon, dropped half way.    *)
(* ServiceRuntime (core/runtime/app_state.py) implements it; Pipeline      *)
(* (core/runtime/pipeline.py) keeps every one of its services within it.   *)
(***************************************************************************)
EXTENDS Naturals

CONSTANT MayAbandon   \* BOOLEAN: may an operation vanish before its hook?

VARIABLES state,      \* ServiceState of the service
          busy        \* the operation whose outcome is still open, or "none"

lifeVars == <<state, busy>>

ServiceState == {"uninitialized", "initializing", "running", "degraded",
                 "stopping", "stopped", "error"}

\* _TRANSITIONS: the states that may follow each state.
Transitions ==
    [s \in ServiceState |->
        CASE s = "uninitialized" -> {"initializing"}
          [] s = "initializing"  -> {"running", "error"}
          [] s = "running"       -> {"degraded", "stopping"}
          [] s = "degraded"      -> {"running", "stopping"}
          [] s = "stopping"      -> {"stopped", "error"}
          [] s = "stopped"       -> {"initializing"}
          [] s = "error"         -> {"initializing", "stopping"}]

\* is_running: the service is up.
Up == {"running", "degraded"}

\* The states in which an operation is under way.
Passing == {"initializing", "stopping"}

-----------------------------------------------------------------------------
LifeInit == state = "uninitialized" /\ busy = "none"

\* start() enters INITIALIZING from any state that allows it.
BeginStart ==
    /\ busy = "none"
    /\ "initializing" \in Transitions[state]
    /\ state' = "initializing"
    /\ busy' = "start"

\* stop() enters STOPPING: from an up service, or from ERROR to clean up.
BeginStop ==
    /\ busy = "none"
    /\ "stopping" \in Transitions[state]
    /\ state' = "stopping"
    /\ busy' = "stop"

\* The hook of the operation answered, failed, timed out or was cancelled.
Conclude ==
    /\ busy # "none"
    /\ state' \in Transitions[state]
    /\ busy' = "none"

\* A health verdict moves an up service between RUNNING and DEGRADED; it
\* never interferes with an operation whose outcome is open.
Judge ==
    /\ busy = "none"
    /\ {state, state'} = Up
    /\ busy' = busy

\* The task of the operation is cancelled before the hook is called: nobody
\* will ever conclude it.
Abandon ==
    /\ MayAbandon
    /\ busy # "none"
    /\ busy' = "none"
    /\ UNCHANGED state

LifeNext == BeginStart \/ BeginStop \/ Conclude \/ Judge \/ Abandon

LifeSpec == LifeInit /\ [][LifeNext]_lifeVars

\* Hooks have timeouts, so an operation under way does end.
LifeFairSpec == LifeSpec /\ WF_lifeVars(Conclude \/ Abandon)

=============================================================================
