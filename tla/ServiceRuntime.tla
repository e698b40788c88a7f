--------------------------- MODULE ServiceRuntime ---------------------------
(***************************************************************************)
(* One ServiceRuntime (core/runtime/app_state.py) used by several asyncio  *)
(* tasks: start() and stop() run under the runtime's asyncio.Lock,         *)
(* check_health() runs without it, and a task may be cancelled wherever it *)
(* is suspended.  A step of the model is the code between two suspension   *)
(* points; the event bus appears only as such a point ("publish").         *)
(***************************************************************************)
EXTENDS Sequences, SequencesExt

CONSTANTS Tasks,         \* the tasks that call the runtime
          NoTask,        \* "the lock is free"
          CancelPoints   \* where a task may be cancelled

\* A task is cancellable at the lock and in a hook; it is cancellable in a
\* publication if a handler matches the event, a synchronous one included
\* (_deliver() awaits gather(), event_bus.py:244), or a middleware suspends.
ASSUME RuntimeAssumption ==
    /\ NoTask \notin Tasks
    /\ CancelPoints \subseteq {"lock", "hook", "publish"}

VARIABLES state,      \* _state
          lastError,  \* the kind of _last_error
          started,    \* is _t_started set?
          stopped,    \* is _t_stopped set?
          holder,     \* the task that holds _lock
          queue,      \* the tasks waiting for _lock, in arrival order
          pc,         \* where each task is suspended
          op,         \* the method each task called last
          good,       \* what its hook said: ok / healthy
          ret         \* what that method returned or raised

service == <<state, lastError, started, stopped>>
vars == <<state, lastError, started, stopped, holder, queue, pc, op, good, ret>>

\* "announce", "conclude", "abort": publishing a state change of start/stop;
\* "flip", "report": publishing in check_health; "hook", "probe": in a hook.
Locked == {"announce", "hook", "conclude", "abort"}
Publishing == {"announce", "conclude", "abort", "flip", "report"}
Points == {"idle", "waiting", "probe", "flip", "report"} \cup Locked
Methods == {"start", "stop", "check_health"}
Results == {"none", "true", "false", "cancelled", "invalid"}
Errors == {"none", "hook", "cancelled", "unhealthy"}

\* The lifecycle operation whose outcome is open.
busy == IF holder \in Tasks /\ pc[holder] \in {"announce", "hook"}
        THEN op[holder] ELSE "none"

Life == INSTANCE ServiceLifecycle WITH MayAbandon <- "publish" \in CancelPoints

Init ==
    /\ state = "uninitialized"
    /\ lastError = "none"
    /\ started = FALSE
    /\ stopped = FALSE
    /\ holder = NoTask
    /\ queue = <<>>
    /\ pc = [t \in Tasks |-> "idle"]
    /\ op = [t \in Tasks |-> "check_health"]
    /\ good = [t \in Tasks |-> FALSE]
    /\ ret = [t \in Tasks |-> "none"]

-----------------------------------------------------------------------------
(* Building blocks *)

Bool(b) == IF b THEN "true" ELSE "false"

Goto(t, point) == pc' = [pc EXCEPT ![t] = point]

\* Fault: the lock is not given back.
ReturnKeepingLock(t, result) ==
    /\ Goto(t, "idle")
    /\ good' = [good EXCEPT ![t] = FALSE]
    /\ ret' = [ret EXCEPT ![t] = result]
    /\ UNCHANGED <<op, holder>>

\* The method of t ends; "async with" gives the lock back if t has it.
Return(t, result) ==
    /\ Goto(t, "idle")
    /\ good' = [good EXCEPT ![t] = FALSE]
    /\ ret' = [ret EXCEPT ![t] = result]
    /\ holder' = IF holder = t THEN NoTask ELSE holder
    /\ UNCHANGED op

\* Fault: the arguments are swapped.
SetStateSwapped(new, err) ==
    /\ state' = err /\ lastError' = new
    /\ UNCHANGED <<started, stopped>>

\* Fault: a restart does not clear the marks of the last run.
SetStateKeepingMarks(new, err) ==
    /\ state' = new /\ lastError' = err
    /\ started' = (started \/ (new = "running" /\ state = "initializing"))
    /\ stopped' = (stopped \/ new = "stopping")

\* Fault: an error is never cleared.
SetStateKeepingError(new, err) ==
    /\ state' = new
    /\ lastError' = IF err = "none" THEN lastError ELSE err
    /\ started' = (new # "initializing" /\ (started \/ (new = "running" /\ state = "initializing")))
    /\ stopped' = (new # "initializing" /\ (stopped \/ new = "stopping"))

\* _set_state, once the transition is known to be legal.
SetState(new, err) ==
    /\ state' = new
    /\ lastError' = err
    /\ started' = IF new = "initializing" THEN FALSE
                  ELSE started \/ (new = "running" /\ state = "initializing")
    /\ stopped' = IF new = "initializing" THEN FALSE
                  ELSE stopped \/ new = "stopping"

\* Fault: the table is not consulted.
TransitionUnchecked(t, new, err, point, owner, ok) ==
    /\ SetState(new, err)
    /\ Goto(t, point)
    /\ holder' = owner
    /\ good' = [good EXCEPT ![t] = ok]
    /\ UNCHANGED <<op, ret>>

\* _transition: change the state, then suspend in the publication at point;
\* an illegal transition raises InvalidTransitionError out of the method.
\* owner is the holder of the lock while the method goes on.
Transition(t, new, err, point, owner, ok) ==
    IF new \in Life!Transitions[state]
    THEN /\ SetState(new, err)
         /\ Goto(t, point)
         /\ holder' = owner
         /\ good' = [good EXCEPT ![t] = ok]
         /\ UNCHANGED <<op, ret>>
    ELSE /\ Return(t, "invalid")
         /\ UNCHANGED service

-----------------------------------------------------------------------------
(* start() and stop() *)

\* A task calls start() or stop() and asks for the lock.
Call(t, method) ==
    /\ pc[t] = "idle"
    /\ Goto(t, "waiting")
    /\ op' = [op EXCEPT ![t] = method]
    /\ ret' = [ret EXCEPT ![t] = "none"]
    /\ queue' = Append(queue, t)
    /\ UNCHANGED <<service, holder, good>>

\* Fault: start() and stop() take no lock.
AcquireNothing(t, method) ==
    /\ pc[t] = "waiting" /\ op[t] = method
    /\ \E i \in 1..Len(queue) : queue[i] = t /\ queue' = RemoveAt(queue, i)

\* asyncio.Lock is handed over in arrival order.
Acquire(t, method) ==
    /\ pc[t] = "waiting" /\ op[t] = method
    /\ holder = NoTask
    /\ queue # <<>> /\ Head(queue) = t
    /\ queue' = Tail(queue)

\* Fault: start() does not look whether the service is up.
StartAgain(t) ==
    /\ Acquire(t, "start")
    /\ Transition(t, "initializing", "none", "announce", t, FALSE)

\* start() up to its first suspension.
Start(t) ==
    /\ Acquire(t, "start")
    /\ \/ /\ state \in Life!Up
          /\ Return(t, "true")
          /\ UNCHANGED service
       \/ /\ state \notin Life!Up
          /\ Transition(t, "initializing", "none", "announce", t, FALSE)

\* stop() up to its first suspension.
Stop(t) ==
    /\ Acquire(t, "stop")
    /\ \/ /\ state \in {"uninitialized", "stopped"}
          /\ Return(t, "true")
          /\ UNCHANGED service
       \/ /\ state \notin {"uninitialized", "stopped"}
          /\ Transition(t, "stopping", "none", "announce", t, FALSE)

\* INITIALIZING or STOPPING is published; the hook is called.
Announced(t) ==
    /\ pc[t] = "announce"
    /\ Goto(t, "hook")
    /\ UNCHANGED <<service, holder, queue, op, good, ret>>

\* initialize() succeeded, or failed or timed out.
InitializeReturns(t, ok) ==
    /\ pc[t] = "hook" /\ op[t] = "start"
    /\ IF ok THEN Transition(t, "running", "none", "conclude", holder, TRUE)
             ELSE Transition(t, "error", "hook", "conclude", holder, FALSE)
    /\ UNCHANGED queue

\* shutdown() succeeded, or failed or timed out.
ShutdownReturns(t, ok) ==
    /\ pc[t] = "hook" /\ op[t] = "stop"
    /\ IF ok THEN Transition(t, "stopped", "none", "conclude", holder, TRUE)
             ELSE Transition(t, "error", "hook", "conclude", holder, FALSE)
    /\ UNCHANGED queue

\* Fault: start() and stop() return True whatever the hook said.
ConcludedTrue(t) ==
    /\ pc[t] = "conclude"
    /\ Return(t, "true")
    /\ UNCHANGED <<service, queue>>

\* The new state is published; start() or stop() returns the hook's outcome.
Concluded(t) ==
    /\ pc[t] = "conclude"
    /\ Return(t, Bool(good[t]))
    /\ UNCHANGED <<service, queue>>

\* Fault: no handler for CancelledError around the hook.
HookCancelledBare(t) ==
    /\ "hook" \in CancelPoints
    /\ pc[t] = "hook"
    /\ Return(t, "cancelled")
    /\ UNCHANGED <<service, queue>>

\* Cancelled inside initialize() or shutdown(): to ERROR first.
HookCancelled(t) ==
    /\ "hook" \in CancelPoints
    /\ pc[t] = "hook"
    /\ Transition(t, "error", "cancelled", "abort", holder, FALSE)
    /\ UNCHANGED queue

\* ERROR is published; CancelledError goes on to the caller.
Aborted(t) ==
    /\ pc[t] = "abort"
    /\ Return(t, "cancelled")
    /\ UNCHANGED <<service, queue>>

-----------------------------------------------------------------------------
(* check_health(), which takes no lock *)

\* A service that is not up is unhealthy and says so silently.
CheckHealthDown(t) ==
    /\ pc[t] = "idle"
    /\ state \notin Life!Up
    /\ op' = [op EXCEPT ![t] = "check_health"]
    /\ ret' = [ret EXCEPT ![t] = "false"]
    /\ UNCHANGED <<service, holder, queue, pc, good>>

\* The service is up: its hook is called.
CheckHealth(t) ==
    /\ pc[t] = "idle"
    /\ state \in Life!Up
    /\ Goto(t, "probe")
    /\ op' = [op EXCEPT ![t] = "check_health"]
    /\ ret' = [ret EXCEPT ![t] = "none"]
    /\ UNCHANGED <<service, holder, queue, good>>

\* Fault: the verdict is applied to the state the check began with.
ProbeReturnsStale(t, healthy, err) ==
    /\ pc[t] = "probe"
    /\ healthy <=> err = "none"
    /\ \/ /\ ~healthy /\ state # "degraded"
          /\ Transition(t, "degraded", err, "flip", holder, FALSE)
       \/ /\ healthy \/ state = "degraded"
          /\ Goto(t, "report")
          /\ good' = [good EXCEPT ![t] = healthy]
          /\ UNCHANGED <<service, holder, op, ret>>
    /\ UNCHANGED queue

\* The hook answered; the state is read again and flipped on this verdict.
ProbeReturns(t, healthy, err) ==
    /\ pc[t] = "probe"
    /\ healthy <=> err = "none"
    /\ \/ /\ state = "running" /\ ~healthy
          /\ Transition(t, "degraded", err, "flip", holder, FALSE)
       \/ /\ state = "degraded" /\ healthy
          /\ Transition(t, "running", "none", "flip", holder, TRUE)
       \/ /\ ~(state = "running" /\ ~healthy)
          /\ ~(state = "degraded" /\ healthy)
          /\ Goto(t, "report")
          /\ good' = [good EXCEPT ![t] = healthy]
          /\ UNCHANGED <<service, holder, op, ret>>
    /\ UNCHANGED queue

\* The flip is published; HEALTH_CHECK is published next.
Flipped(t) ==
    /\ pc[t] = "flip"
    /\ Goto(t, "report")
    /\ UNCHANGED <<service, holder, queue, op, good, ret>>

Reported(t) ==
    /\ pc[t] = "report"
    /\ Return(t, Bool(good[t]))
    /\ UNCHANGED <<service, queue>>

-----------------------------------------------------------------------------
(* Cancellation where no handler in the code catches it *)

\* While waiting for the lock: the waiter leaves the queue.
LockCancelled(t) ==
    /\ "lock" \in CancelPoints
    /\ pc[t] = "waiting"
    /\ Return(t, "cancelled")
    /\ \E i \in 1..Len(queue) : queue[i] = t /\ queue' = RemoveAt(queue, i)
    /\ UNCHANGED service

\* In check_health()'s hook: nothing was changed yet.
ProbeCancelled(t) ==
    /\ "hook" \in CancelPoints
    /\ pc[t] = "probe"
    /\ Return(t, "cancelled")
    /\ UNCHANGED <<service, queue>>

\* In a publication: the lock is released, the state stays as it was set.
PublishCancelled(t) ==
    /\ "publish" \in CancelPoints
    /\ pc[t] \in Publishing
    /\ Return(t, "cancelled")
    /\ UNCHANGED <<service, queue>>

-----------------------------------------------------------------------------
\* What a task does once it is in a method, left to itself.
Proceed(t) ==
    \/ Start(t) \/ Stop(t) \/ Announced(t)
    \/ \E ok \in BOOLEAN : InitializeReturns(t, ok) \/ ShutdownReturns(t, ok)
    \/ Concluded(t) \/ Aborted(t)
    \/ \E healthy \in BOOLEAN, err \in Errors \ {"cancelled"} :
            ProbeReturns(t, healthy, err)
    \/ Flipped(t) \/ Reported(t)

Cancelled(t) ==
    LockCancelled(t) \/ HookCancelled(t) \/ ProbeCancelled(t) \/ PublishCancelled(t)

Next ==
    \E t \in Tasks :
        \/ Call(t, "start") \/ Call(t, "stop")
        \/ CheckHealth(t) \/ CheckHealthDown(t)
        \/ Proceed(t)
        \/ Cancelled(t)

Spec == Init /\ [][Next]_vars

\* Every hook has a timeout (30, 10 and 5 s by default), every handler of the
\* bus too, and the event loop resumes a task whose await is done.
FairSpec == Spec /\ \A t \in Tasks : WF_vars(Proceed(t))

-----------------------------------------------------------------------------
(* Properties *)

\* The variables keep their types.
TypeOK ==
    /\ state \in Life!ServiceState
    /\ lastError \in Errors
    /\ started \in BOOLEAN /\ stopped \in BOOLEAN
    /\ holder \in Tasks \cup {NoTask}
    /\ queue \in Seq(Tasks)
    /\ pc \in [Tasks -> Points]
    /\ op \in [Tasks -> Methods]
    /\ good \in [Tasks -> BOOLEAN]
    /\ ret \in [Tasks -> Results]

\* start() and stop() exclude each other: a task is in their section exactly
\* when it holds the lock.
LockExcludes == \A t \in Tasks : pc[t] \in Locked <=> holder = t

\* What the task in the section knows of the state, whatever the health checks
\* that run beside it do.
PhaseOf(t) ==
    CASE pc[t] \in {"announce", "hook"} /\ op[t] = "start" -> {"initializing"}
      [] pc[t] \in {"announce", "hook"} /\ op[t] = "stop"  -> {"stopping"}
      [] pc[t] = "conclude" /\ ~good[t]                    -> {"error"}
      [] pc[t] = "conclude" /\ good[t] /\ op[t] = "start"  -> Life!Up
      [] pc[t] = "conclude" /\ good[t] /\ op[t] = "stop"   -> {"stopped"}
      [] pc[t] = "abort"                                   -> {"error"}
      [] OTHER                                             -> Life!ServiceState

\* A lock-free check_health() never changes the state under a start() or a
\* stop() in progress: the section finds the state it set (RUNNING may have
\* become DEGRADED while it is being published).
PhaseAgrees == \A t \in Tasks : state \in PhaseOf(t)

\* The uptime clock of get_state() runs exactly while the service is up:
\* health flips neither reset nor stop it, no failed or cancelled start leaves
\* it running.
ClockRuns == (started /\ ~stopped) <=> state \in Life!Up

\* last_error explains the current state: present in ERROR and DEGRADED, where
\* only a hook or a verdict can have put it, and cleared everywhere else.
ErrorExplains ==
    lastError \in CASE state = "error"    -> {"hook", "cancelled"}
                    [] state = "degraded" -> {"hook", "unhealthy"}
                    [] OTHER              -> {"none"}

\* "ServiceRuntime.check_health does not raise" (pipeline.py:153): the flip it
\* decides on is legal at the moment it is made, whoever ran in between.
HealthNeverRaises ==
    \A t \in Tasks : op[t] = "check_health" => ret[t] # "invalid"

\* What start() and stop() return is true of the service at that moment.
Truthful(t) ==
    /\ op[t] = "start" /\ ret'[t] = "true"  => state' \in Life!Up
    /\ op[t] = "stop"  /\ ret'[t] = "true"  => state' \in {"uninitialized", "stopped"}
    /\ op[t] # "check_health" /\ ret'[t] = "false" => state' = "error"

\* start() returns True only for a service that is up, stop() only for one that
\* is down, and False leaves the service in ERROR.
ResultsAreTrue ==
    [][\A t \in Tasks : (pc[t] # "idle" /\ pc'[t] = "idle") => Truthful(t)]_vars

\* Seen from outside, the runtime is one serialised lifecycle.
ImplementsLifecycle == Life!LifeSpec

\* The service is INITIALIZING or STOPPING and no task will ever conclude that.
Abandoned == state \in Life!Passing /\ busy = "none"

\* INITIALIZING and STOPPING have a task that will leave them: through all
\* failures, timeouts, verdicts and cancellations only one thing takes it away,
\* a cancellation in the publication before the hook (app_state.py:171, :198).
OnlyPublicationAbandons ==
    [][Abandoned' /\ ~Abandoned
          => \E t \in Tasks : pc[t] = "announce" /\ ret'[t] = "cancelled"]_vars

\* No call of start() or stop() runs into a transition the table forbids
\* (InvalidTransitionError is a programmer's error), unless the service it
\* finds is abandoned.
InvalidOnlyIfAbandoned ==
    [][\A t \in Tasks : ret[t] # "invalid" /\ ret'[t] = "invalid" => Abandoned]_vars

\* Every call ends: the lock is always given back, and in arrival order.
CallsReturn == \A t \in Tasks : pc[t] # "idle" ~> pc[t] = "idle"

=============================================================================
