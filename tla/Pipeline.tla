------------------------------ MODULE Pipeline ------------------------------
(***************************************************************************)
(* Pipeline (core/runtime/pipeline.py): an ordered group of services that  *)
(* are started one after the other, rolled back when one fails or the      *)
(* start is cancelled, and stopped in reverse order.                       *)
(*                                                                         *)
(* A step is the code between two suspension points, down to those inside  *)
(* ServiceRuntime.start() and stop(), which are kept here as what          *)
(* ServiceRuntime shows them to be: announce, hook, conclude.  The lock of *)
(* a runtime is free or held by a driver: a pipeline call, or a rollback   *)
(* that asyncio.shield runs as a task of its own.                          *)
(***************************************************************************)
EXTENDS Naturals

CONSTANTS N,             \* number of services, in start order 1..N
          Callers,       \* the tasks that call the pipeline
          NoOne,         \* "the lock is free"
          CancelPoints   \* where CancelledError may reach a driver

\* "shield": a second cancellation, while the caller awaits its rollback.
ASSUME PipelineAssumption ==
    /\ N \in Nat \ {0}
    /\ NoOne \notin Callers
    /\ NoOne \notin Callers \X {"call", "job"}
    /\ CancelPoints \subseteq {"lock", "hook", "publish", "shield"}

VARIABLES pstate,     \* PipelineState
          rt,         \* ServiceState of each service
          plock,      \* the caller that holds the pipeline's lock
          rlock,      \* the driver that holds the lock of each runtime
          pc,         \* where each caller is
          op,         \* the method it called last
          ret,        \* what that method returned or raised
          attempted,  \* how many services its start() has attempted
          frame       \* the runtime call each driver is in

vars == <<pstate, rt, plock, rlock, pc, op, ret, attempted, frame>>

Services == 1..N
Drivers == Callers \X {"call", "job"}
Me(c) == <<c, "call">>
Job(c) == <<c, "job">>

PipelineState ==
    {"uninitialized", "starting", "running", "stopping", "stopped", "error"}

\* "raising", "unwinding", "lowering": in a runtime call of start(), of its
\* rollback, of stop(); "shielded": awaiting the rollback of a cancelled start;
\* the others publish a pipeline state.
Points == {"idle", "waiting", "starting", "raising", "unwinding", "failed",
           "shielded", "cancelled", "up", "stopping", "lowering", "down"}
InCall == {"raising", "unwinding", "lowering"}
Publishing == {"starting", "failed", "cancelled", "up", "stopping", "down"}

\* svc: the service; at: where in its start() or stop(), or how a shielded
\* rollback ended; good: what the hook said; all: every stop() so far returned
\* True.
Frames == [at: {"none", "lock", "announce", "hook", "conclude", "abort",
                "done", "broke", "lost"},
           svc: 0..N, good: BOOLEAN, all: BOOLEAN]
NoFrame == [at |-> "none", svc |-> 0, good |-> FALSE, all |-> TRUE]
Entering(i) == [NoFrame EXCEPT !.at = "lock", !.svc = i]

\* Only start()'s loop raises services; rollback, stop() and jobs lower them.
Rising(d) == d[2] = "call" /\ pc[d[1]] = "raising"

\* The lifecycle operation open on service i.
Opening(i) == {d \in Drivers : frame[d].svc = i /\ frame[d].at \in {"announce", "hook"}}
busyOn(i) == IF Opening(i) = {} THEN "none"
             ELSE IF \E d \in Opening(i) : Rising(d) THEN "start" ELSE "stop"

Life(i) == INSTANCE ServiceLifecycle
           WITH state <- rt[i], busy <- busyOn(i), MayAbandon <- "publish" \in CancelPoints
Table == INSTANCE ServiceLifecycle
         WITH state <- pstate, busy <- "none", MayAbandon <- FALSE
Up == Table!Up

\* Fault: _set_state does not look at the table.
AnythingGoes(s, new) == TRUE

\* _set_state would not raise.
Legal(s, new) == new \in Table!Transitions[s]

Init ==
    /\ pstate = "uninitialized"
    /\ rt = [i \in Services |-> "uninitialized"]
    /\ plock = NoOne
    /\ rlock = [i \in Services |-> NoOne]
    /\ pc = [c \in Callers |-> "idle"]
    /\ op = [c \in Callers |-> "stop"]
    /\ ret = [c \in Callers |-> "none"]
    /\ attempted = [c \in Callers |-> 0]
    /\ frame = [d \in Drivers |-> NoFrame]

-----------------------------------------------------------------------------
(* The caller: entering and leaving start() and stop() *)

Goto(c, point) == pc' = [pc EXCEPT ![c] = point]

Return(c, result) ==
    /\ Goto(c, "idle")
    /\ ret' = [ret EXCEPT ![c] = result]
    /\ attempted' = [attempted EXCEPT ![c] = 0]
    /\ plock' = IF plock = c THEN NoOne ELSE plock

\* A task calls start() or stop(); one that was cancelled out of its rollback
\* is gone until that rollback ends.
Call(c, method) ==
    /\ pc[c] = "idle" /\ frame[Job(c)].at = "none"
    /\ Goto(c, "waiting")
    /\ op' = [op EXCEPT ![c] = method]
    /\ ret' = [ret EXCEPT ![c] = "none"]
    /\ UNCHANGED <<pstate, rt, plock, rlock, attempted, frame>>

\* start(): True for a running pipeline, else STARTING is published.
Start(c) ==
    /\ pc[c] = "waiting" /\ op[c] = "start" /\ plock = NoOne
    /\ \/ /\ pstate = "running"
          /\ Return(c, "true")
          /\ UNCHANGED pstate
       \/ /\ pstate # "running"
          /\ pstate' = "starting"
          /\ plock' = c
          /\ Goto(c, "starting")
          /\ UNCHANGED <<ret, attempted>>
    /\ UNCHANGED <<rt, rlock, op, frame>>

\* STARTING is published; the loop calls start() of the first service.
StartLoop(c) ==
    /\ pc[c] = "starting"
    /\ Goto(c, "raising")
    /\ attempted' = [attempted EXCEPT ![c] = 1]
    /\ frame' = [frame EXCEPT ![Me(c)] = Entering(1)]
    /\ UNCHANGED <<pstate, rt, plock, rlock, op, ret>>

\* stop(): True if there is nothing to stop, else STOPPING is published.
Stop(c) ==
    /\ pc[c] = "waiting" /\ op[c] = "stop" /\ plock = NoOne
    /\ \/ /\ pstate \in {"uninitialized", "stopped"}
          /\ Return(c, "true")
          /\ UNCHANGED pstate
       \/ /\ pstate \notin {"uninitialized", "stopped"}
          /\ pstate' = "stopping"
          /\ plock' = c
          /\ Goto(c, "stopping")
          /\ UNCHANGED <<ret, attempted>>
    /\ UNCHANGED <<rt, rlock, op, frame>>

\* STOPPING is published; _stop_all calls stop() of the last service.
StopLoop(c) ==
    /\ pc[c] = "stopping"
    /\ Goto(c, "lowering")
    /\ frame' = [frame EXCEPT ![Me(c)] = Entering(N)]
    /\ UNCHANGED <<pstate, rt, plock, rlock, op, ret, attempted>>

\* The final state of the pipeline is published; the method ends.
Finish(c) ==
    /\ \/ pc[c] = "up" /\ Return(c, "true")
       \/ pc[c] = "failed" /\ Return(c, "false")
       \/ pc[c] = "cancelled" /\ Return(c, "cancelled")
       \/ pc[c] = "down" /\ pstate = "stopped" /\ Return(c, "true")
       \/ pc[c] = "down" /\ pstate # "stopped" /\ Return(c, "false")
    /\ UNCHANGED <<pstate, rt, rlock, op, frame>>

-----------------------------------------------------------------------------
(* The driver: one runtime call after the other *)

Resume(d, f) == frame' = [frame EXCEPT ![d] = f]

\* start()'s loop: runtime.start() returned result.
Raised(d, result) ==
    LET c == d[1]
        i == frame[d].svc
    IN /\ Rising(d)
       /\ \/ /\ result /\ i < N                          \* the next service
             /\ Resume(d, Entering(i + 1))
             /\ attempted' = [attempted EXCEPT ![c] = i + 1]
             /\ UNCHANGED <<pstate, pc>>
          \/ /\ result /\ i = N                          \* all are up
             /\ Resume(d, NoFrame)
             /\ pstate' = "running" /\ Goto(c, "up")
             /\ UNCHANGED attempted
          \/ /\ ~result                                  \* roll back
             /\ Resume(d, Entering(i))
             /\ Goto(c, "unwinding")
             /\ UNCHANGED <<pstate, attempted>>

\* _stop_all: runtime.stop() returned result.
Lowered(d, result) ==
    LET c == d[1]
        i == frame[d].svc
        ok == frame[d].all /\ result
    IN /\ ~Rising(d)
       /\ \/ /\ i > 1                                    \* the one before
             /\ Resume(d, [Entering(i - 1) EXCEPT !.all = ok])
             /\ UNCHANGED <<pstate, pc>>
          \/ /\ i = 1 /\ d = Job(c)                      \* shielded: done
             /\ Resume(d, [NoFrame EXCEPT !.at = "done"])
             /\ UNCHANGED <<pstate, pc>>
          \/ /\ i = 1 /\ d = Me(c) /\ pc[c] = "unwinding"
             /\ Resume(d, NoFrame)
             /\ pstate' = "error" /\ Goto(c, "failed")
          \/ /\ i = 1 /\ d = Me(c) /\ pc[c] = "lowering"
             /\ Resume(d, NoFrame)
             /\ pstate' = IF ok THEN "stopped" ELSE "error"
             /\ Goto(c, "down")
       /\ UNCHANGED attempted

\* Fault: start() goes on to the next service when one did not come up.
AdvanceIgnoringFailure(d, result) == Raised(d, TRUE) \/ Lowered(d, result)

\* Fault: _stop_all forgets that a stop() failed.
AdvanceForgettingFailure(d, result) == Raised(d, result) \/ Lowered(d, TRUE)

\* Fault: stop() breaks off at the first service that fails.
AdvanceBreakingOff(d, result) ==
    IF d = Me(d[1]) /\ pc[d[1]] = "lowering" /\ ~result
    THEN /\ Resume(d, NoFrame)
         /\ pstate' = "error" /\ Goto(d[1], "down")
         /\ UNCHANGED attempted
    ELSE Raised(d, result) \/ Lowered(d, result)

\* The runtime call of d returned result: what the loop around it does next.
Advance(d, result) == Raised(d, result) \/ Lowered(d, result)

\* InvalidTransitionError leaves the loop: no handler of the pipeline catches it.
Raise(d) ==
    /\ IF d = Job(d[1])
       THEN /\ frame' = [frame EXCEPT ![d] = [NoFrame EXCEPT !.at = "broke"]]
            /\ UNCHANGED <<pc, ret, attempted, plock>>
       ELSE /\ frame' = [frame EXCEPT ![d] = NoFrame]
            /\ Return(d[1], "invalid")
    /\ UNCHANGED pstate

\* The call obtains the runtime's lock and runs up to its first suspension.
Enter(d) ==
    LET i == frame[d].svc
        goal == IF Rising(d) THEN Up ELSE {"uninitialized", "stopped"}
        new == IF Rising(d) THEN "initializing" ELSE "stopping"
    IN /\ frame[d].at = "lock" /\ rlock[i] = NoOne
       /\ \/ /\ rt[i] \in goal
             /\ Advance(d, TRUE)
             /\ UNCHANGED <<rt, rlock, plock, ret>>
          \/ /\ rt[i] \notin goal /\ Legal(rt[i], new)
             /\ rt' = [rt EXCEPT ![i] = new]
             /\ rlock' = [rlock EXCEPT ![i] = d]
             /\ frame' = [frame EXCEPT ![d].at = "announce"]
             /\ UNCHANGED <<pstate, plock, pc, ret, attempted>>
          \/ /\ rt[i] \notin goal /\ ~Legal(rt[i], new)
             /\ Raise(d)
             /\ UNCHANGED <<rt, rlock>>
       /\ UNCHANGED op

\* INITIALIZING or STOPPING is published; the hook is called.
Announced(d) ==
    /\ frame[d].at = "announce"
    /\ frame' = [frame EXCEPT ![d].at = "hook"]
    /\ UNCHANGED <<pstate, rt, plock, rlock, pc, op, ret, attempted>>

\* initialize() or shutdown() succeeded, or failed or timed out.
HookReturns(d, ok) ==
    LET i == frame[d].svc
        done == IF Rising(d) THEN "running" ELSE "stopped"
    IN /\ frame[d].at = "hook"
       /\ rt' = [rt EXCEPT ![i] = IF ok THEN done ELSE "error"]
       /\ frame' = [frame EXCEPT ![d].at = "conclude", ![d].good = ok]
       /\ UNCHANGED <<pstate, plock, rlock, pc, op, ret, attempted>>

\* Fault: the runtime's lock is not given back.
UnlockNothing(d) == UNCHANGED rlock

\* "async with" of the runtime's lock ends.
Unlock(d) == rlock' = [i \in Services |-> IF rlock[i] = d THEN NoOne ELSE rlock[i]]

\* The outcome is published; the runtime call returns to the loop.
Concluded(d) ==
    /\ frame[d].at = "conclude"
    /\ Unlock(d)
    /\ Advance(d, frame[d].good)
    /\ UNCHANGED <<rt, plock, op, ret>>

\* An in-flight check_health() of a service that is up reaches its verdict.
Judge(i) ==
    /\ rt[i] \in Up
    /\ \E s \in Up \ {rt[i]} : rt' = [rt EXCEPT ![i] = s]
    /\ UNCHANGED <<pstate, plock, rlock, pc, op, ret, attempted, frame>>

-----------------------------------------------------------------------------
(* Cancellation *)

\* Fault: start() has no handler for CancelledError.
UnwindWithoutRollback(c) ==
    /\ Return(c, "cancelled")
    /\ frame' = [frame EXCEPT ![Me(c)] = NoFrame]

\* CancelledError arrives in the pipeline: start() shields a rollback of what it
\* attempted, stop() lets it pass.
Unwind(c) ==
    \/ /\ op[c] = "start"
       /\ Goto(c, "shielded")
       /\ frame' = [frame EXCEPT ![Me(c)] = NoFrame, ![Job(c)] = Entering(attempted[c])]
       /\ UNCHANGED <<plock, ret, attempted>>
    \/ /\ op[c] = "stop"
       /\ Return(c, "cancelled")
       /\ frame' = [frame EXCEPT ![Me(c)] = NoFrame]

\* CancelledError leaves a runtime call: it reaches the pipeline, or ends the
\* task of a shielded rollback.
Break(d) ==
    \/ /\ d = Me(d[1])
       /\ Unwind(d[1])
    \/ /\ d = Job(d[1])
       /\ frame' = [frame EXCEPT ![d] = [NoFrame EXCEPT !.at = "lost"]]
       /\ UNCHANGED <<pc, ret, attempted, plock>>

\* In a hook, because the driver's task is cancelled or the hook itself raises
\* CancelledError: the runtime goes to ERROR and publishes that first.
HookCancelled(d) ==
    /\ "hook" \in CancelPoints
    /\ frame[d].at = "hook"
    /\ rt' = [rt EXCEPT ![frame[d].svc] = "error"]
    /\ frame' = [frame EXCEPT ![d].at = "abort"]
    /\ UNCHANGED <<pstate, plock, rlock, pc, op, ret, attempted>>

\* ERROR is published; the runtime re-raises.
Aborted(d) ==
    /\ frame[d].at = "abort"
    /\ Unlock(d)
    /\ Break(d)
    /\ UNCHANGED <<pstate, rt, op>>

\* In a publication of the runtime, or waiting for its lock: the runtime's state
\* stays as it is.
RuntimeCancelled(d) ==
    /\ \/ "publish" \in CancelPoints /\ frame[d].at \in {"announce", "conclude", "abort"}
       \/ "lock" \in CancelPoints /\ frame[d].at = "lock" /\ rlock[frame[d].svc] # NoOne
    /\ Unlock(d)
    /\ Break(d)
    /\ UNCHANGED <<pstate, rt, op>>

\* While publishing the ERROR of a failed start, which is still inside the try.
FailedCancelled(c) ==
    /\ "publish" \in CancelPoints
    /\ pc[c] = "failed"
    /\ Unwind(c)
    /\ UNCHANGED <<pstate, rt, rlock, op>>

\* Anywhere else the code catches nothing: the lock is given back, the state
\* of the pipeline stays as it is, a shielded rollback goes on by itself.
PlainCancelled(c) ==
    /\ \/ "lock" \in CancelPoints /\ pc[c] = "waiting"
       \/ "publish" \in CancelPoints /\ pc[c] \in Publishing \ {"failed"}
       \/ "shield" \in CancelPoints /\ pc[c] = "shielded"
    /\ Return(c, "cancelled")
    /\ UNCHANGED <<pstate, rt, rlock, op, frame>>

\* The shielded rollback is over: ERROR is published before CancelledError goes
\* on, unless the rollback itself raised or was broken off by CancelledError.
ShieldReturns(c) ==
    /\ pc[c] = "shielded"
    /\ \/ /\ frame[Job(c)].at = "done"
          /\ pstate' = "error"
          /\ Goto(c, "cancelled")
          /\ UNCHANGED <<plock, ret, attempted>>
       \/ /\ frame[Job(c)].at = "broke"
          /\ Return(c, "invalid")
          /\ UNCHANGED pstate
       \/ /\ frame[Job(c)].at = "lost"
          /\ Return(c, "cancelled")
          /\ UNCHANGED pstate
    /\ frame' = [frame EXCEPT ![Job(c)] = NoFrame]
    /\ UNCHANGED <<rt, rlock, op>>

\* Nobody awaits the rollback any more: its outcome is dropped.
OrphanEnds(c) ==
    /\ pc[c] # "shielded"
    /\ frame[Job(c)].at \in {"done", "broke", "lost"}
    /\ frame' = [frame EXCEPT ![Job(c)] = NoFrame]
    /\ UNCHANGED <<pstate, rt, plock, rlock, pc, op, ret, attempted>>

-----------------------------------------------------------------------------
Obtain(c) == Start(c) \/ Stop(c)
Carry(c) == StartLoop(c) \/ StopLoop(c) \/ Finish(c) \/ ShieldReturns(c) \/ OrphanEnds(c)
Drive(d) == Announced(d) \/ Concluded(d) \/ Aborted(d) \/ \E ok \in BOOLEAN : HookReturns(d, ok)

Next ==
    \/ \E c \in Callers : \/ Call(c, "start") \/ Call(c, "stop") \/ Obtain(c) \/ Carry(c)
                          \/ FailedCancelled(c) \/ PlainCancelled(c)
    \/ \E d \in Drivers : Enter(d) \/ Drive(d) \/ HookCancelled(d) \/ RuntimeCancelled(d)
    \/ \E i \in Services : Judge(i)

Spec == Init /\ [][Next]_vars

\* Hooks and handlers have timeouts; asyncio.Lock is handed over in arrival
\* order, so a lock that is free again and again is obtained (strong fairness).
FairSpec ==
    /\ Spec
    /\ \A c \in Callers : SF_vars(Obtain(c)) /\ WF_vars(Carry(c))
    /\ \A d \in Drivers : SF_vars(Enter(d)) /\ WF_vars(Drive(d))

-----------------------------------------------------------------------------
(* Properties *)

\* The variables keep their types.
TypeOK ==
    /\ pstate \in PipelineState
    /\ rt \in [Services -> Table!ServiceState]
    /\ plock \in Callers \cup {NoOne}
    /\ rlock \in [Services -> Drivers \cup {NoOne}]
    /\ pc \in [Callers -> Points]
    /\ op \in [Callers -> {"start", "stop"}]
    /\ ret \in [Callers -> {"none", "true", "false", "cancelled", "invalid"}]
    /\ attempted \in [Callers -> 0..N]
    /\ frame \in [Drivers -> Frames]

NoneUp == \A i \in Services : rt[i] \notin Up

\* One caller at a time is inside start() or stop(), and one driver inside a
\* runtime: also a rollback that outlived its caller.
LocksExclude ==
    /\ \A c \in Callers : pc[c] \notin {"idle", "waiting"} <=> plock = c
    /\ \A d \in Drivers : \A i \in Services :
          (frame[d].svc = i /\ frame[d].at \in {"announce", "hook", "conclude", "abort"})
              <=> rlock[i] = d

\* A service runs, or is being initialised, only while all services before it
\* (the ones it may depend on) are up.
DependencyOrder ==
    \A i \in Services : rt[i] \in Up \cup {"initializing"} =>
        \A j \in 1..(i - 1) : rt[j] \in Up

\* pipeline.py:102: a RUNNING pipeline has all its services up.
RunningMeansAllUp == pstate = "running" => \A i \in Services : rt[i] \in Up

\* Every service of the pipeline lives the life ServiceLifecycle promises, with
\* every driver that works on it taken together.
ServicesLive ==
    /\ \A i \in Services : Life(i)!LifeInit
    /\ [][\A i \in Services :
            Life(i)!LifeNext \/ UNCHANGED <<rt[i], busyOn(i)>>]_vars

Ends(c) == pc[c] # "idle" /\ pc'[c] = "idle"

StartFails(c) ==
    /\ Ends(c) /\ op[c] = "start"
    /\ pc[c] \in {"raising", "unwinding", "failed", "shielded", "cancelled"}

\* pipeline.py:122: a start() that does not bring the pipeline up, failed or
\* cancelled in any service, abandons no running service.
StartAbandonsNone == [][\A c \in Callers : StartFails(c) => NoneUp']_vars

\* A service left half way, with nobody at work on it: it can neither be started
\* nor stopped any more.  ServiceRuntimeProofs shows when that does not happen.
SomeWedged ==
    \E i \in Services : rt[i] \in {"initializing", "stopping"} /\ rlock[i] = NoOne

\* pipeline.py:122: a start() that fails, or is cancelled at any point, leaves no
\* service running, unless its rollback was broken off: by a wedged service, or
\* by a CancelledError in the shielded rollback itself (app_state.py:201).
AbandonsOnlyIfBrokenOff ==
    [][\A c \in Callers :
         StartFails(c) => NoneUp' \/ SomeWedged' \/ frame[Job(c)].at = "lost"]_vars

\* pipeline.py:134: unless CancelledError leaves it, stop() reaches every service,
\* whichever of them fail, or raises because one is wedged.
StopReachesAll ==
    [][\A c \in Callers :
         (Ends(c) /\ op[c] = "stop" /\ pc[c] # "waiting" /\ ret'[c] # "cancelled")
            => \/ NoneUp' /\ ret'[c] # "invalid"
               \/ SomeWedged' /\ ret'[c] = "invalid"]_vars

\* What start() and stop() return is true of the services at that moment.
ResultsAreTrue ==
    [][\A c \in Callers : (Ends(c) /\ ret'[c] = "true") =>
         \A i \in Services :
            rt'[i] \in IF op[c] = "start" THEN Up ELSE {"uninitialized", "stopped"}]_vars

\* Every call ends, and so does a rollback whose caller is gone.
CallsReturn ==
    \A c \in Callers :
        (pc[c] # "idle" \/ frame[Job(c)].at # "none")
            ~> (pc[c] = "idle" /\ frame[Job(c)].at = "none")

=============================================================================
