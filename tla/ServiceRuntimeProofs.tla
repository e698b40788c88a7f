------------------------ MODULE ServiceRuntimeProofs ------------------------
(***************************************************************************)
(* What ServiceRuntime guarantees for any number of tasks and any choice   *)
(* of cancellation points.  The inductive invariant is IInv: types, the    *)
(* lock, and what the task in the section knows of the state.              *)
(***************************************************************************)
EXTENDS ServiceRuntime, SequenceTheorems, TLAPS

-----------------------------------------------------------------------------
(* Types *)

\* The transition table, unfolded: every set is a set of states.
LEMMA TransitionTable ==
    /\ Life!Transitions["uninitialized"] = {"initializing"}
    /\ Life!Transitions["initializing"] = {"running", "error"}
    /\ Life!Transitions["running"] = {"degraded", "stopping"}
    /\ Life!Transitions["degraded"] = {"running", "stopping"}
    /\ Life!Transitions["stopping"] = {"stopped", "error"}
    /\ Life!Transitions["stopped"] = {"initializing"}
    /\ Life!Transitions["error"] = {"initializing", "stopping"}
  BY DEF Life!Transitions, Life!ServiceState

\* Returning from a method keeps the types.
LEMMA ReturnType ==
    ASSUME TypeOK, NEW t \in Tasks, NEW result \in Results, Return(t, result)
    PROVE  /\ pc' \in [Tasks -> Points] /\ op' \in [Tasks -> Methods]
           /\ good' \in [Tasks -> BOOLEAN] /\ ret' \in [Tasks -> Results]
           /\ holder' \in Tasks \cup {NoTask}
  BY DEF TypeOK, Return, Goto, Points

\* _transition keeps the types, whether it changes the state or raises.
LEMMA TransitionType ==
    ASSUME TypeOK, NEW t \in Tasks, NEW new \in Life!ServiceState, NEW err \in Errors,
           NEW point \in Points, NEW owner \in Tasks \cup {NoTask}, NEW ok \in BOOLEAN,
           Transition(t, new, err, point, owner, ok)
    PROVE  /\ state' \in Life!ServiceState /\ lastError' \in Errors
           /\ started' \in BOOLEAN /\ stopped' \in BOOLEAN
           /\ pc' \in [Tasks -> Points] /\ op' \in [Tasks -> Methods]
           /\ good' \in [Tasks -> BOOLEAN] /\ ret' \in [Tasks -> Results]
           /\ holder' \in Tasks \cup {NoTask}
  <1>1. CASE new \in Life!Transitions[state]
    BY <1>1 DEF TypeOK, Transition, SetState, Goto
  <1>2. CASE new \notin Life!Transitions[state]
    <2>1. Return(t, "invalid") /\ UNCHANGED service
      BY <1>2 DEF Transition
    <2>2. "invalid" \in Results
      BY DEF Results
    <2> QED
      BY <2>1, <2>2, ReturnType DEF TypeOK, service
  <1> QED
    BY <1>1, <1>2

\* A waiter that leaves the queue leaves a queue of tasks.
LEMMA RemoveAtType ==
    ASSUME NEW s \in Seq(Tasks), NEW i \in 1..Len(s)
    PROVE  RemoveAt(s, i) \in Seq(Tasks)
  <1>1. SubSeq(s, 1, i - 1) \in Seq(Tasks)
    BY SubSeqProperties
  <1>2. SubSeq(s, i + 1, Len(s)) \in Seq(Tasks)
    BY SubSeqProperties
  <1> QED
    BY <1>1, <1>2, ConcatProperties DEF RemoveAt

\* The constants the actions mention have the types the lemmas ask for.
LEMMA Vocabulary ==
    /\ {"initializing", "stopping", "running", "stopped", "error", "degraded"}
            \subseteq Life!ServiceState
    /\ {"none", "hook", "cancelled", "unhealthy"} \subseteq Errors
    /\ {"announce", "hook", "conclude", "abort", "flip", "report", "probe",
        "idle", "waiting"} \subseteq Points
    /\ {"none", "true", "false", "cancelled", "invalid"} \subseteq Results
    /\ \A b : Bool(b) \in Results
  BY DEF Life!ServiceState, Errors, Points, Locked, Results, Bool

LEMMA TypeInit == Init => TypeOK
  BY EmptySeq DEF Init, TypeOK, Life!ServiceState, Errors, Points, Methods, Results

\* Every step keeps the types.
LEMMA TypeStep == TypeOK /\ [Next]_vars => TypeOK'
  <1> SUFFICES ASSUME TypeOK, [Next]_vars PROVE TypeOK'
    OBVIOUS
  <1> USE Vocabulary
  <1>1. CASE UNCHANGED vars
    BY <1>1 DEF TypeOK, vars
  <1>2. ASSUME NEW t \in Tasks, NEW m \in {"start", "stop"}, Call(t, m) PROVE TypeOK'
    BY <1>2, AppendProperties DEF TypeOK, Call, Goto, service, Methods
  <1>3. ASSUME NEW t \in Tasks, CheckHealth(t) \/ CheckHealthDown(t) PROVE TypeOK'
    BY <1>3 DEF TypeOK, CheckHealth, CheckHealthDown, Goto, service, Methods
  <1>4. ASSUME NEW t \in Tasks, Start(t) PROVE TypeOK'
    <2>1. queue' \in Seq(Tasks)
      BY <1>4, HeadTailProperties DEF TypeOK, Start, Acquire
    <2>2. CASE Return(t, "true") /\ UNCHANGED service
      BY <2>1, <2>2, ReturnType DEF TypeOK, service
    <2>3. CASE Transition(t, "initializing", "none", "announce", t, FALSE)
      BY <2>1, <2>3, TransitionType DEF TypeOK
    <2> QED BY <1>4, <2>2, <2>3 DEF Start
  <1>5. ASSUME NEW t \in Tasks, Stop(t) PROVE TypeOK'
    <2>1. queue' \in Seq(Tasks)
      BY <1>5, HeadTailProperties DEF TypeOK, Stop, Acquire
    <2>2. CASE Return(t, "true") /\ UNCHANGED service
      BY <2>1, <2>2, ReturnType DEF TypeOK, service
    <2>3. CASE Transition(t, "stopping", "none", "announce", t, FALSE)
      BY <2>1, <2>3, TransitionType DEF TypeOK
    <2> QED BY <1>5, <2>2, <2>3 DEF Stop
  <1>6. ASSUME NEW t \in Tasks, Announced(t) \/ Flipped(t) PROVE TypeOK'
    BY <1>6 DEF TypeOK, Announced, Flipped, Goto, service
  <1>7. ASSUME NEW t \in Tasks, NEW ok \in BOOLEAN,
               InitializeReturns(t, ok) \/ ShutdownReturns(t, ok)
        PROVE TypeOK'
    <2>1. holder \in Tasks \cup {NoTask} /\ queue' \in Seq(Tasks)
      BY <1>7 DEF TypeOK, InitializeReturns, ShutdownReturns
    <2>2. \/ Transition(t, "running", "none", "conclude", holder, TRUE)
          \/ Transition(t, "stopped", "none", "conclude", holder, TRUE)
          \/ Transition(t, "error", "hook", "conclude", holder, FALSE)
      BY <1>7 DEF InitializeReturns, ShutdownReturns
    <2> QED BY <2>1, <2>2, TransitionType DEF TypeOK
  <1>8. ASSUME NEW t \in Tasks, HookCancelled(t) PROVE TypeOK'
    <2>1. holder \in Tasks \cup {NoTask} /\ queue' \in Seq(Tasks)
          /\ Transition(t, "error", "cancelled", "abort", holder, FALSE)
      BY <1>8 DEF TypeOK, HookCancelled
    <2> QED BY <2>1, TransitionType DEF TypeOK
  <1>9. ASSUME NEW t \in Tasks, Concluded(t) \/ Aborted(t) \/ Reported(t) PROVE TypeOK'
    <2>1. PICK r \in Results : Return(t, r) /\ UNCHANGED <<service, queue>>
      BY <1>9 DEF Concluded, Aborted, Reported
    <2> QED BY <2>1, ReturnType DEF TypeOK, service
  <1>10. ASSUME NEW t \in Tasks, ProbeCancelled(t) \/ PublishCancelled(t) PROVE TypeOK'
    BY <1>10, ReturnType DEF TypeOK, service, ProbeCancelled, PublishCancelled
  <1>11. ASSUME NEW t \in Tasks, LockCancelled(t) PROVE TypeOK'
    BY <1>11, ReturnType, RemoveAtType DEF TypeOK, service, LockCancelled
  <1>12. ASSUME NEW t \in Tasks, NEW healthy \in BOOLEAN, NEW err \in Errors,
                ProbeReturns(t, healthy, err)
         PROVE TypeOK'
    <2>1. holder \in Tasks \cup {NoTask} /\ queue' \in Seq(Tasks)
      BY <1>12 DEF TypeOK, ProbeReturns
    <2>2. CASE Transition(t, "degraded", err, "flip", holder, FALSE)
      BY <2>1, <2>2, TransitionType DEF TypeOK
    <2>3. CASE Transition(t, "running", "none", "flip", holder, TRUE)
      BY <2>1, <2>3, TransitionType DEF TypeOK
    <2>4. CASE /\ Goto(t, "report")
               /\ good' = [good EXCEPT ![t] = healthy]
               /\ UNCHANGED <<service, holder, op, ret>>
      BY <2>1, <2>4 DEF TypeOK, Goto, service
    <2> QED BY <1>12, <2>2, <2>3, <2>4 DEF ProbeReturns
  <1>13. ASSUME NEW t \in Tasks, Proceed(t) PROVE TypeOK'
    BY <1>4, <1>5, <1>6, <1>7, <1>9, <1>12, <1>13, Zenon DEF Proceed
  <1>14. ASSUME NEW t \in Tasks, Cancelled(t) PROVE TypeOK'
    BY <1>8, <1>10, <1>11, <1>14 DEF Cancelled
  <1> QED
    BY <1>1, <1>2, <1>3, <1>13, <1>14 DEF Next

\* The variables keep their types, for any set of tasks.
THEOREM TypeCorrect == Spec => []TypeOK
  BY TypeInit, TypeStep, PTL DEF Spec

-----------------------------------------------------------------------------
(* The section *)

\* What a task in the section knows; the conjuncts of PhaseAgrees.
Phase(t) ==
    /\ pc[t] \in {"announce", "hook"} /\ op[t] = "start" => state = "initializing"
    /\ pc[t] \in {"announce", "hook"} /\ op[t] = "stop" => state = "stopping"
    /\ pc[t] = "conclude" /\ ~good[t] => state = "error"
    /\ pc[t] = "conclude" /\ good[t] /\ op[t] = "start" => state \in Life!Up
    /\ pc[t] = "conclude" /\ good[t] /\ op[t] = "stop" => state = "stopped"
    /\ pc[t] = "abort" => state = "error"
    /\ pc[t] \in Locked \cup {"waiting"} => op[t] \in {"start", "stop"}
    /\ pc[t] \in {"probe", "flip", "report"} => op[t] = "check_health"

IInv == TypeOK /\ LockExcludes /\ \A t \in Tasks : Phase(t)

LEMMA PhaseIsPhaseAgrees == TypeOK /\ (\A t \in Tasks : Phase(t)) => PhaseAgrees
  BY DEF PhaseAgrees, PhaseOf, Phase, TypeOK

\* A step of t leaves what another task knows alone, because the section is
\* exclusive and a health verdict only moves the state within Up.
LEMMA OthersKeepPhase ==
    ASSUME IInv, TypeOK', NEW t \in Tasks, NEW u \in Tasks, u # t,
           pc'[u] = pc[u], op'[u] = op[u], good'[u] = good[u],
           \/ state' = state
           \/ {state, state'} \subseteq Life!Up
           \/ pc[u] \notin Locked
    PROVE  Phase(u)'
  BY DEF IInv, Phase, TypeOK, Life!Up, Locked

\* To keep the invariant, a step of t has to keep the lock, to know what it
\* leaves behind, and to change the state of no other section.
LEMMA StepOfOne ==
    ASSUME IInv, TypeOK', NEW t \in Tasks, LockExcludes', Phase(t)',
           \A u \in Tasks \ {t} : pc'[u] = pc[u] /\ op'[u] = op[u] /\ good'[u] = good[u],
           \/ state' = state
           \/ {state, state'} \subseteq Life!Up
           \/ \A u \in Tasks \ {t} : pc[u] \notin Locked
    PROVE  IInv'
  <1>1. ASSUME NEW u \in Tasks, u # t PROVE Phase(u)'
    BY <1>1, OthersKeepPhase
  <1> QED
    BY <1>1 DEF IInv

\* Only the holder is in the section.
LEMMA HolderAlone ==
    ASSUME IInv, NEW t \in Tasks, holder \in {t, NoTask}
    PROVE  \A u \in Tasks \ {t} : pc[u] \notin Locked
  BY RuntimeAssumption DEF IInv, LockExcludes

\* start() and stop() obtain the lock: they return at once, enter the section
\* with the state they set, or raise and give the lock back.
LEMMA AcquireStep ==
    ASSUME IInv, TypeOK', NEW t \in Tasks, Start(t) \/ Stop(t)
    PROVE  IInv'
  <1>1. holder = NoTask /\ pc[t] = "waiting" /\ op[t] \in {"start", "stop"} /\ op' = op
    BY DEF Start, Stop, Acquire, Transition, Return
  <1>2. \A u \in Tasks \ {t} : pc'[u] = pc[u] /\ op'[u] = op[u] /\ good'[u] = good[u]
    BY <1>1 DEF IInv, TypeOK, Start, Stop, Transition, Return, Goto
  <1>3. CASE holder' = NoTask /\ pc'[t] = "idle" 
    BY <1>1, <1>2, <1>3, HolderAlone, StepOfOne, RuntimeAssumption
    DEF IInv, TypeOK, LockExcludes, Phase, Locked
  <1>4. CASE /\ holder' = t /\ pc'[t] = "announce"
             /\ op[t] = "start" => state' = "initializing"
             /\ op[t] = "stop" => state' = "stopping"
    BY <1>1, <1>2, <1>4, HolderAlone, StepOfOne, RuntimeAssumption
    DEF IInv, TypeOK, LockExcludes, Phase, Locked
  <1> QED
    BY <1>1, <1>3, <1>4, RuntimeAssumption
    DEF IInv, TypeOK, Start, Stop, Acquire, Transition, SetState, Return, Goto

\* The hook of the section ends, or its task is cancelled in it.
LEMMA HookStep ==
    ASSUME IInv, TypeOK', NEW t \in Tasks, pc[t] = "hook",
           NEW new \in {"running", "stopped", "error"}, NEW err \in Errors,
           NEW point \in {"conclude", "abort"}, NEW ok \in BOOLEAN,
           new = "running" => op[t] = "start",
           new = "stopped" => op[t] = "stop",
           point = "conclude" => ok = (new # "error"),
           point = "abort" => new = "error",
           Transition(t, new, err, point, holder, ok)
    PROVE  IInv'
  <1>1. /\ holder = t /\ op[t] \in {"start", "stop"}
        /\ op[t] = "start" => state = "initializing"
        /\ op[t] = "stop" => state = "stopping"
    BY DEF IInv, LockExcludes, Phase, Locked
  <1>2. new \in Life!Transitions[state]
    BY <1>1, TransitionTable
  <1>3. /\ state' = new /\ holder' = t /\ op' = op
        /\ pc' = [pc EXCEPT ![t] = point] /\ good' = [good EXCEPT ![t] = ok]
    BY <1>1, <1>2 DEF Transition, SetState, Goto
  <1>4. \A u \in Tasks \ {t} : pc'[u] = pc[u] /\ op'[u] = op[u] /\ good'[u] = good[u]
    BY <1>3 DEF IInv, TypeOK
  <1>5. LockExcludes'
    BY <1>1, <1>3 DEF IInv, TypeOK, LockExcludes, Locked
  <1>6. Phase(t)'
    <2>1. pc'[t] = point /\ good'[t] = ok /\ op'[t] = op[t]
      BY <1>3 DEF IInv, TypeOK
    <2> QED
      BY <1>1, <1>3, <2>1 DEF Phase, Life!Up
  <1> QED
    BY <1>1, <1>4, <1>5, <1>6, HolderAlone, StepOfOne

\* A method returns, or is cancelled where the code catches nothing: the lock,
\* if held, is given back and the state is left alone.
LEMMA ReturnStep ==
    ASSUME IInv, TypeOK', NEW t \in Tasks, NEW result \in Results,
           Return(t, result), UNCHANGED service
    PROVE  IInv'
  <1>1. state' = state /\ op' = op
    BY DEF Return, service
  <1>2. \A u \in Tasks \ {t} : pc'[u] = pc[u] /\ op'[u] = op[u] /\ good'[u] = good[u]
    BY DEF IInv, TypeOK, Return, Goto
  <1>3. LockExcludes'
    BY RuntimeAssumption DEF IInv, TypeOK, LockExcludes, Return, Goto, Locked
  <1>4. Phase(t)'
    BY DEF IInv, TypeOK, Return, Goto, Phase, Locked
  <1> QED
    BY <1>1, <1>2, <1>3, <1>4, StepOfOne

\* check_health() moves outside the section, and flips the state within Up.
LEMMA HealthStep ==
    ASSUME IInv, TypeOK', NEW t \in Tasks, NEW healthy \in BOOLEAN, NEW err \in Errors,
           ProbeReturns(t, healthy, err)
    PROVE  IInv'
  <1>1. /\ holder' = holder /\ op' = op
        /\ pc' = [pc EXCEPT ![t] = pc'[t]] /\ pc'[t] \in {"flip", "report"}
        /\ \A u \in Tasks \ {t} : good'[u] = good[u]
        /\ state' = state \/ {state, state'} \subseteq Life!Up
    BY TransitionTable
    DEF IInv, TypeOK, ProbeReturns, Transition, SetState, Goto, service, Life!Up
  <1>2. pc[t] = "probe"
    BY DEF ProbeReturns
  <1>3. \A u \in Tasks \ {t} : pc'[u] = pc[u] /\ op'[u] = op[u] /\ good'[u] = good[u]
    BY <1>1 DEF IInv, TypeOK
  <1>4. LockExcludes'
    BY <1>1, <1>2 DEF IInv, TypeOK, LockExcludes, Locked
  <1>5. Phase(t)'
    BY <1>1, <1>2 DEF IInv, Phase, Locked
  <1> QED
    BY <1>1, <1>3, <1>4, <1>5, StepOfOne

\* Steps that change neither the state nor the lock.
LEMMA QuietStep ==
    ASSUME IInv, TypeOK', NEW t \in Tasks,
           \/ \E m \in {"start", "stop"} : Call(t, m)
           \/ CheckHealth(t) \/ CheckHealthDown(t) \/ Announced(t) \/ Flipped(t)
    PROVE  IInv'
  <1>1. state' = state /\ holder' = holder
    BY DEF Call, CheckHealth, CheckHealthDown, Announced, Flipped, service
  <1>2. \A u \in Tasks \ {t} : pc'[u] = pc[u] /\ op'[u] = op[u] /\ good'[u] = good[u]
    BY DEF IInv, TypeOK, Call, CheckHealth, CheckHealthDown, Announced, Flipped, Goto
  <1>3. LockExcludes'
    BY DEF IInv, TypeOK, LockExcludes, Locked,
           Call, CheckHealth, CheckHealthDown, Announced, Flipped, Goto
  <1>4. Phase(t)'
    BY <1>1 DEF IInv, TypeOK, Phase, Locked,
           Call, CheckHealth, CheckHealthDown, Announced, Flipped, Goto
  <1> QED
    BY <1>1, <1>2, <1>3, <1>4, StepOfOne

\* The invariant is inductive.
LEMMA InductiveStep == IInv /\ [Next]_vars => IInv'
  <1> SUFFICES ASSUME IInv, [Next]_vars PROVE IInv'
    OBVIOUS
  <1>0. TypeOK'
    BY TypeStep DEF IInv
  <1>1. CASE UNCHANGED vars
    BY <1>1 DEF IInv, TypeOK, LockExcludes, Phase, vars
  <1>2. ASSUME NEW t \in Tasks,
               \/ Call(t, "start") \/ Call(t, "stop")
               \/ CheckHealth(t) \/ CheckHealthDown(t) \/ Announced(t) \/ Flipped(t)
        PROVE  IInv'
    BY <1>0, <1>2, QuietStep
  <1>3. ASSUME NEW t \in Tasks, Start(t) \/ Stop(t) PROVE IInv'
    BY <1>0, <1>3, AcquireStep
  <1>4. ASSUME NEW t \in Tasks, NEW ok \in BOOLEAN,
               InitializeReturns(t, ok) \/ ShutdownReturns(t, ok)
        PROVE  IInv'
    <2>1. CASE InitializeReturns(t, ok) /\ ok
      BY <1>0, <2>1, HookStep, Vocabulary DEF InitializeReturns
    <2>2. CASE ShutdownReturns(t, ok) /\ ok
      BY <1>0, <2>2, HookStep, Vocabulary DEF ShutdownReturns
    <2>3. CASE ~ok
      <3>1. /\ pc[t] = "hook"
            /\ Transition(t, "error", "hook", "conclude", holder, FALSE)
        BY <1>4, <2>3 DEF InitializeReturns, ShutdownReturns
      <3> QED BY <1>0, <3>1, HookStep, Vocabulary
    <2> QED BY <1>4, <2>1, <2>2, <2>3
  <1>5. ASSUME NEW t \in Tasks, HookCancelled(t) PROVE IInv'
    BY <1>0, <1>5, HookStep, Vocabulary DEF HookCancelled
  <1>6. ASSUME NEW t \in Tasks,
               \/ Concluded(t) \/ Aborted(t) \/ Reported(t)
               \/ LockCancelled(t) \/ ProbeCancelled(t) \/ PublishCancelled(t)
        PROVE  IInv'
    <2>1. \E result \in Results : Return(t, result) /\ UNCHANGED service
      BY <1>6, Vocabulary DEF Concluded, Aborted, Reported,
         LockCancelled, ProbeCancelled, PublishCancelled
    <2> QED BY <1>0, <2>1, ReturnStep
  <1>7. ASSUME NEW t \in Tasks, NEW healthy \in BOOLEAN, NEW err \in Errors,
               ProbeReturns(t, healthy, err)
        PROVE  IInv'
    BY <1>0, <1>7, HealthStep
  <1>8. ASSUME NEW t \in Tasks, Proceed(t) PROVE IInv'
    BY <1>2, <1>3, <1>4, <1>6, <1>7, <1>8, Zenon DEF Proceed
  <1>9. ASSUME NEW t \in Tasks, Cancelled(t) PROVE IInv'
    BY <1>5, <1>6, <1>9 DEF Cancelled
  <1> QED
    BY <1>1, <1>2, <1>8, <1>9 DEF Next

LEMMA InductiveInit == Init => IInv
  <1>1. Init => TypeOK
    BY TypeInit
  <1>2. Init => LockExcludes /\ \A t \in Tasks : Phase(t)
    BY RuntimeAssumption DEF Init, LockExcludes, Phase, Locked
  <1> QED
    BY <1>1, <1>2 DEF IInv

THEOREM Inductive == Spec => []IInv
  BY InductiveInit, InductiveStep, PTL DEF Spec

\* start() and stop() are mutually exclusive for any number of tasks, wherever
\* tasks are cancelled.
THEOREM MutualExclusion == Spec => []LockExcludes
  <1>1. IInv => LockExcludes
    BY DEF IInv
  <1> QED
    BY <1>1, Inductive, PTL

\* No lock-free health check changes the state under a lifecycle operation.
THEOREM SectionsAreUndisturbed == Spec => []PhaseAgrees
  <1>1. IInv => PhaseAgrees
    BY PhaseIsPhaseAgrees DEF IInv
  <1> QED
    BY <1>1, Inductive, PTL

-----------------------------------------------------------------------------
(* What every step does to the service *)

\* The reason that goes with a state.
ErrorFits(s, err) ==
    err \in CASE s = "error"    -> {"hook", "cancelled"}
              [] s = "degraded" -> {"hook", "unhealthy"}
              [] OTHER          -> {"none"}

\* A step leaves the service alone or takes it through a legal transition, with
\* the reason of the new state.
LEMMA ServiceSteps ==
    ASSUME TypeOK, [Next]_vars
    PROVE  \/ UNCHANGED service
           \/ \E new \in Life!ServiceState, err \in Errors :
                 /\ new \in Life!Transitions[state] /\ ErrorFits(new, err)
                 /\ SetState(new, err)
  <1> DEFINE Goal == \/ UNCHANGED service
                     \/ \E new \in Life!ServiceState, err \in Errors :
                           /\ new \in Life!Transitions[state] /\ ErrorFits(new, err)
                           /\ SetState(new, err)
  <1>1. ASSUME NEW t \in Tasks, NEW new \in Life!ServiceState, NEW err \in Errors,
               NEW point, NEW owner, NEW ok, ErrorFits(new, err),
               Transition(t, new, err, point, owner, ok)
        PROVE  Goal
    BY <1>1 DEF Transition
  <1>2. ASSUME NEW t \in Tasks, Start(t) \/ Stop(t) PROVE Goal
    BY <1>1, <1>2, Vocabulary DEF Start, Stop, ErrorFits
  <1>3. ASSUME NEW t \in Tasks, NEW ok \in BOOLEAN,
               InitializeReturns(t, ok) \/ ShutdownReturns(t, ok)
        PROVE  Goal
    BY <1>1, <1>3, Vocabulary DEF InitializeReturns, ShutdownReturns, ErrorFits
  <1>4. ASSUME NEW t \in Tasks, HookCancelled(t) PROVE Goal
    BY <1>1, <1>4, Vocabulary DEF HookCancelled, ErrorFits
  <1>5. ASSUME NEW t \in Tasks, NEW healthy \in BOOLEAN, NEW err \in Errors \ {"cancelled"},
               ProbeReturns(t, healthy, err)
        PROVE  Goal
    <2>1. CASE Transition(t, "degraded", err, "flip", holder, FALSE) /\ ~healthy
      <3>1. ErrorFits("degraded", err)
        BY <1>5, <2>1 DEF ErrorFits, Errors, ProbeReturns
      <3> QED BY <1>1, <2>1, <3>1, Vocabulary
    <2>2. CASE Transition(t, "running", "none", "flip", holder, TRUE)
      <3>1. ErrorFits("running", "none")
        BY DEF ErrorFits
      <3> QED BY <1>1, <2>2, <3>1, Vocabulary
    <2>3. CASE UNCHANGED service
      BY <2>3
    <2> QED BY <1>5, <2>1, <2>2, <2>3 DEF ProbeReturns, service
  <1>6. ASSUME NEW t \in Tasks, Proceed(t) PROVE Goal
    <2>1. CASE Announced(t) \/ Flipped(t) \/ Concluded(t) \/ Aborted(t) \/ Reported(t)
      BY <2>1 DEF Announced, Flipped, Concluded, Aborted, Reported, service
    <2> QED BY <1>2, <1>3, <1>5, <1>6, <2>1, Zenon DEF Proceed
  <1>7. ASSUME NEW t \in Tasks, Cancelled(t) PROVE Goal
    BY <1>4, <1>7 DEF Cancelled, LockCancelled, ProbeCancelled, PublishCancelled, service
  <1>8. ASSUME NEW t \in Tasks,
               \/ Call(t, "start") \/ Call(t, "stop")
               \/ CheckHealth(t) \/ CheckHealthDown(t)
        PROVE  Goal
    BY <1>8 DEF Call, CheckHealth, CheckHealthDown, service
  <1>9. CASE UNCHANGED vars
    BY <1>9 DEF vars, service
  <1> QED
    BY <1>6, <1>7, <1>8, <1>9 DEF Next

\* ClockRuns by itself is not inductive: the marks of the other states matter.
Clock ==
    /\ state \in {"uninitialized", "initializing"} => ~started /\ ~stopped
    /\ state \in Life!Up => started /\ ~stopped
    /\ state \in {"stopping", "stopped"} => stopped
    /\ state = "error" => (started => stopped)

\* The uptime clock runs exactly while the service is up.
THEOREM ClockIsRight == Spec => []ClockRuns
  <1>1. Init => Clock
    BY DEF Init, Clock, Life!Up
  <1>2. TypeOK /\ Clock /\ [Next]_vars => Clock'
    <2> SUFFICES ASSUME TypeOK, Clock, [Next]_vars PROVE Clock'
      OBVIOUS
    <2>1. CASE UNCHANGED service
      BY <2>1 DEF Clock, service
    <2>2. ASSUME NEW new \in Life!ServiceState, NEW err \in Errors,
                 new \in Life!Transitions[state], SetState(new, err)
          PROVE  Clock'
      BY <2>2, TransitionTable DEF TypeOK, Clock, SetState, Life!Up, Life!ServiceState
    <2> QED
      BY <2>1, <2>2, ServiceSteps
  <1>3. TypeOK /\ Clock => ClockRuns
    BY DEF TypeOK, Clock, ClockRuns, Life!Up, Life!ServiceState
  <1> QED
    BY <1>1, <1>2, <1>3, TypeCorrect, PTL DEF Spec

\* last_error always explains the present state and no earlier one.
THEOREM ErrorsExplain == Spec => []ErrorExplains
  <1>1. Init => ErrorExplains
    BY DEF Init, ErrorExplains
  <1>2. TypeOK /\ ErrorExplains /\ [Next]_vars => ErrorExplains'
    BY ServiceSteps DEF ErrorExplains, ErrorFits, SetState, service
  <1> QED
    BY <1>1, <1>2, TypeCorrect, PTL DEF Spec

-----------------------------------------------------------------------------
(* Results *)

\* A step that raises InvalidTransitionError or moves on to another point.
LEMMA TransitionMoves ==
    ASSUME TypeOK, NEW t \in Tasks, NEW new, NEW err, NEW point \in Points \ {"idle"},
           NEW owner, NEW ok, Transition(t, new, err, point, owner, ok)
    PROVE  /\ pc' = [pc EXCEPT ![t] = pc'[t]]
           /\ op' = op
           /\ ret' = [ret EXCEPT ![t] = ret'[t]]
           /\ pc'[t] = "idle" => ret'[t] = "invalid" /\ new \notin Life!Transitions[state]
           /\ ret'[t] \in {ret[t], "invalid"}
           /\ new \in Life!Transitions[state] => ret' = ret
  BY DEF TypeOK, Transition, Return, Goto

\* Which steps end a method.
LEMMA ReturningStep ==
    ASSUME TypeOK, Next, NEW t \in Tasks, pc[t] # "idle", pc'[t] = "idle"
    PROVE  \/ Start(t) \/ Stop(t)
           \/ Concluded(t) \/ Aborted(t) \/ Reported(t)
           \/ LockCancelled(t) \/ ProbeCancelled(t) \/ PublishCancelled(t)
           \/ ret'[t] = "invalid"
  <1> DEFINE Goal == \/ Start(t) \/ Stop(t)
                     \/ Concluded(t) \/ Aborted(t) \/ Reported(t)
                     \/ LockCancelled(t) \/ ProbeCancelled(t) \/ PublishCancelled(t)
                     \/ ret'[t] = "invalid"
  <1>1. ASSUME NEW u \in Tasks, pc' = [pc EXCEPT ![u] = pc'[u]] PROVE u = t
    BY <1>1 DEF TypeOK
  <1>2. ASSUME NEW u \in Tasks, NEW m \in {"start", "stop"}, Call(u, m) PROVE FALSE
    BY <1>2 DEF TypeOK, Call, Goto
  <1>3. ASSUME NEW u \in Tasks, CheckHealth(u) \/ CheckHealthDown(u) PROVE FALSE
    BY <1>3 DEF TypeOK, CheckHealth, CheckHealthDown, Goto
  <1>4. ASSUME NEW u \in Tasks, Announced(u) \/ Flipped(u) PROVE FALSE
    BY <1>4 DEF TypeOK, Announced, Flipped, Goto
  <1>5. ASSUME NEW u \in Tasks, NEW result, Return(u, result) PROVE u = t
    BY <1>5 DEF TypeOK, Return, Goto
  <1>6. ASSUME NEW u \in Tasks, NEW new, NEW err, NEW point \in Points \ {"idle"},
               NEW owner, NEW ok, Transition(u, new, err, point, owner, ok)
        PROVE  u = t /\ ret'[t] = "invalid"
    BY <1>1, <1>6, TransitionMoves
  <1> HIDE DEF Goal
  <1>7. ASSUME NEW u \in Tasks, Start(u) \/ Stop(u) PROVE Goal
    <2>1. "announce" \in Points \ {"idle"}
      BY DEF Points, Locked
    <2>2. u = t
      BY <1>5, <1>6, <1>7, <2>1 DEF Start, Stop
    <2> QED BY <1>7, <2>2 DEF Goal
  <1>8. ASSUME NEW u \in Tasks, NEW ok \in BOOLEAN,
               InitializeReturns(u, ok) \/ ShutdownReturns(u, ok)
        PROVE  Goal
    <2>1. "conclude" \in Points \ {"idle"}
      BY DEF Points, Locked
    <2> QED BY <1>6, <1>8, <2>1 DEF Goal, InitializeReturns, ShutdownReturns
  <1>9. ASSUME NEW u \in Tasks, HookCancelled(u) PROVE Goal
    <2>1. "abort" \in Points \ {"idle"}
      BY DEF Points, Locked
    <2> QED BY <1>6, <1>9, <2>1 DEF Goal, HookCancelled
  <1>10. ASSUME NEW u \in Tasks, NEW healthy \in BOOLEAN, NEW err \in Errors,
                ProbeReturns(u, healthy, err)
         PROVE  Goal
    <2>1. "flip" \in Points \ {"idle"}
      BY DEF Points
    <2>2. ASSUME Goto(u, "report") PROVE FALSE
      BY <2>2 DEF TypeOK, Goto
    <2> QED BY <1>6, <1>10, <2>1, <2>2 DEF Goal, ProbeReturns
  <1>11. ASSUME NEW u \in Tasks, Concluded(u) \/ Aborted(u) \/ Reported(u) PROVE Goal
    <2>1. u = t
      BY <1>5, <1>11 DEF Concluded, Aborted, Reported
    <2> QED BY <1>11, <2>1 DEF Goal
  <1>12. ASSUME NEW u \in Tasks, LockCancelled(u) \/ ProbeCancelled(u) \/ PublishCancelled(u)
         PROVE  Goal
    <2>1. u = t
      BY <1>5, <1>12 DEF LockCancelled, ProbeCancelled, PublishCancelled
    <2> QED BY <1>12, <2>1 DEF Goal
  <1>13. ASSUME NEW u \in Tasks, Proceed(u) PROVE Goal
    BY <1>4, <1>7, <1>8, <1>10, <1>11, <1>13, Zenon DEF Proceed
  <1>14. ASSUME NEW u \in Tasks, Cancelled(u) PROVE Goal
    BY <1>9, <1>12, <1>14 DEF Cancelled
  <1>15. Goal
    BY <1>2, <1>3, <1>13, <1>14 DEF Next
  <1> QED
    BY <1>15 DEF Goal

\* start() returns True only for a service that is up, stop() only for one that
\* is down, and False leaves the service in ERROR.
THEOREM ResultsHold == Spec => ResultsAreTrue
  <1> DEFINE Told == \A t \in Tasks : (pc[t] # "idle" /\ pc'[t] = "idle") => Truthful(t)
  <1>1. ASSUME IInv, [Next]_vars PROVE [Told]_vars
    <2> SUFFICES ASSUME Next, NEW t \in Tasks, pc[t] # "idle", pc'[t] = "idle"
                 PROVE  Truthful(t)
      BY <1>1
    <2>1. \/ Start(t) \/ Stop(t)
          \/ Concluded(t) \/ Aborted(t) \/ Reported(t)
          \/ LockCancelled(t) \/ ProbeCancelled(t) \/ PublishCancelled(t)
          \/ ret'[t] = "invalid"
      BY <1>1, ReturningStep DEF IInv
    <2>2. CASE Start(t) \/ Stop(t)
      BY <1>1, <2>2
      DEF IInv, TypeOK, Start, Stop, Acquire, Transition, Return, Goto, Truthful, service
    <2>3. CASE Concluded(t)
      <3>1. ret'[t] = Bool(good[t]) /\ state' = state /\ pc[t] = "conclude"
        BY <1>1, <2>3 DEF IInv, TypeOK, Concluded, Return, service
      <3> QED
        BY <1>1, <3>1 DEF IInv, Phase, Truthful, Bool, Locked
    <2>4. CASE Reported(t)
      <3>1. pc[t] = "report" /\ ret'[t] = Bool(good[t])
        BY <1>1, <2>4 DEF IInv, TypeOK, Reported, Return
      <3> QED
        BY <1>1, <3>1 DEF IInv, Phase, Truthful
    <2>5. CASE \/ Aborted(t) \/ LockCancelled(t) \/ ProbeCancelled(t)
               \/ PublishCancelled(t) \/ ret'[t] = "invalid"
      BY <1>1, <2>5 DEF IInv, TypeOK, Aborted, LockCancelled, ProbeCancelled,
         PublishCancelled, Return, Truthful
    <2> QED
      BY <2>1, <2>2, <2>3, <2>4, <2>5
  <1> QED
    BY <1>1, Inductive, PTL DEF Spec, ResultsAreTrue

\* check_health() never raises InvalidTransitionError.
THEOREM HealthDoesNotRaise == Spec => []HealthNeverRaises
  <1>1. Init => HealthNeverRaises
    BY DEF Init, HealthNeverRaises
  <1>2. IInv /\ HealthNeverRaises /\ [Next]_vars => HealthNeverRaises'
    <2> SUFFICES ASSUME IInv, HealthNeverRaises, [Next]_vars PROVE HealthNeverRaises'
      OBVIOUS
    <2>1. CASE UNCHANGED <<op, ret>>
      BY <2>1 DEF HealthNeverRaises
    <2>2. ASSUME NEW t \in Tasks, NEW m, NEW r, r # "invalid",
                 op' = op \/ op' = [op EXCEPT ![t] = m], ret' = [ret EXCEPT ![t] = r]
          PROVE  HealthNeverRaises'
      BY <2>2 DEF IInv, TypeOK, HealthNeverRaises
    <2>3. ASSUME NEW t \in Tasks, op[t] # "check_health",
                 op' = op, ret' = [ret EXCEPT ![t] = ret'[t]]
          PROVE  HealthNeverRaises'
      BY <2>3 DEF IInv, TypeOK, HealthNeverRaises
    <2>4. ASSUME NEW t \in Tasks,
                 \/ Call(t, "start") \/ Call(t, "stop")
                 \/ CheckHealth(t) \/ CheckHealthDown(t) \/ Announced(t) \/ Flipped(t)
          PROVE  HealthNeverRaises'
      BY <2>1, <2>2, <2>4 DEF Call, CheckHealth, CheckHealthDown, Announced, Flipped
    <2>5. ASSUME NEW t \in Tasks, NEW r, r # "invalid", Return(t, r)
          PROVE  HealthNeverRaises'
      BY <2>2, <2>5 DEF Return
    <2>6. ASSUME NEW t \in Tasks, op[t] # "check_health", NEW new, NEW err,
                 NEW point \in {"announce", "conclude", "abort"}, NEW owner, NEW ok,
                 Transition(t, new, err, point, owner, ok)
          PROVE  HealthNeverRaises'
      BY <2>3, <2>6, TransitionMoves DEF IInv, Points, Locked
    <2>7. ASSUME NEW t \in Tasks, Start(t) \/ Stop(t) PROVE HealthNeverRaises'
      BY <2>5, <2>6, <2>7 DEF Start, Stop, Acquire
    <2>8. ASSUME NEW t \in Tasks, NEW ok \in BOOLEAN,
                 InitializeReturns(t, ok) \/ ShutdownReturns(t, ok)
          PROVE  HealthNeverRaises'
      BY <2>6, <2>8 DEF InitializeReturns, ShutdownReturns
    <2>9. ASSUME NEW t \in Tasks, HookCancelled(t) PROVE HealthNeverRaises'
      <3>1. op[t] # "check_health"
        BY <2>9 DEF HookCancelled, IInv, Phase, Locked
      <3> QED BY <2>6, <2>9, <3>1 DEF HookCancelled
    <2>10. ASSUME NEW t \in Tasks, NEW healthy \in BOOLEAN, NEW err \in Errors,
                  ProbeReturns(t, healthy, err)
           PROVE  HealthNeverRaises'
      <3>1. op' = op /\ ret' = ret
        BY <2>10, TransitionTable DEF ProbeReturns, Transition
      <3> QED BY <2>1, <3>1
    <2>11. ASSUME NEW t \in Tasks, Concluded(t) \/ Aborted(t) \/ Reported(t)
           PROVE  HealthNeverRaises'
      BY <2>5, <2>11 DEF Concluded, Aborted, Reported, Bool
    <2>12. ASSUME NEW t \in Tasks, Cancelled(t) PROVE HealthNeverRaises'
      BY <2>5, <2>9, <2>12 DEF Cancelled, LockCancelled, ProbeCancelled, PublishCancelled
    <2>13. ASSUME NEW t \in Tasks, Proceed(t) PROVE HealthNeverRaises'
      BY <2>4, <2>7, <2>8, <2>10, <2>11, <2>13, Zenon DEF Proceed
    <2>14. CASE UNCHANGED vars
      BY <2>1, <2>14 DEF vars
    <2> QED
      BY <2>4, <2>12, <2>13, <2>14 DEF Next
  <1> QED
    BY <1>1, <1>2, Inductive, PTL DEF Spec

-----------------------------------------------------------------------------
(* Abandoned operations and forbidden transitions *)

\* While the state is a passing one, a task of the section is before the end of
\* its hook.
Working == state \in Life!Passing =>
              \E t \in Tasks : pc[t] \in {"announce", "hook"}

LEMMA WorkingIsBusy == IInv => (Abandoned <=> ~Working)
  <1> SUFFICES ASSUME IInv, state \in Life!Passing
               PROVE  busy # "none" <=> \E t \in Tasks : pc[t] \in {"announce", "hook"}
    BY DEF Abandoned, Working
  <1>1. ASSUME NEW t \in Tasks, pc[t] \in {"announce", "hook"} PROVE busy # "none"
    <2>1. holder = t /\ op[t] \in {"start", "stop"}
      BY <1>1 DEF IInv, LockExcludes, Phase, Locked
    <2> QED
      BY <1>1, <2>1 DEF busy
  <1> QED
    BY <1>1 DEF busy

LEMMA WorkingIsBusyNext == IInv' => (Abandoned' <=> ~Working')
  BY WorkingIsBusy, PTL

\* What a step may do: take the last task from a passing state only by the
\* cancellation of a publication, refuse a transition only without such a task.
Dropped == \E t \in Tasks : pc[t] = "announce" /\ ret'[t] = "cancelled"
Refused == \E t \in Tasks : ret[t] # "invalid" /\ ret'[t] = "invalid"

LEMMA WorkingStep == IInv /\ Working /\ [Next]_vars => (Working' \/ Dropped) /\ ~Refused
  <1> DEFINE Kept == (Working' \/ Dropped) /\ ~Refused
  <1> SUFFICES ASSUME IInv, Working, [Next]_vars PROVE Kept
    OBVIOUS
  <1>1. CASE UNCHANGED vars
    BY <1>1 DEF Working, Refused, vars
  <1>2. ASSUME NEW t \in Tasks, pc[t] \notin {"announce", "hook"}, NEW r \in Results,
               r # "invalid", Return(t, r), UNCHANGED service
        PROVE  Kept
    BY <1>2 DEF IInv, TypeOK, Working, Refused, Return, Goto, service
  <1>3. ASSUME NEW t \in Tasks, NEW new \in Life!Transitions[state], NEW err,
               NEW point, NEW owner, NEW ok,
               new \notin Life!Passing \/ point = "announce",
               Transition(t, new, err, point, owner, ok)
        PROVE  Kept
    BY <1>3 DEF IInv, TypeOK, Working, Refused, Transition, SetState, Goto
  <1>4. ASSUME NEW t \in Tasks, Start(t) \/ Stop(t) PROVE Kept
    <2>1. state \notin Life!Passing /\ pc[t] \notin {"announce", "hook"}
      BY <1>4, RuntimeAssumption
      DEF IInv, LockExcludes, Working, Start, Stop, Acquire, Locked
    <2>2. /\ state \notin Life!Up => "initializing" \in Life!Transitions[state]
          /\ state \notin {"uninitialized", "stopped"} => "stopping" \in Life!Transitions[state]
      BY <2>1, TransitionTable DEF IInv, TypeOK, Life!ServiceState, Life!Up, Life!Passing
    <2>3. "true" \in Results
      BY DEF Results
    <2> QED
      BY <1>2, <1>3, <1>4, <2>1, <2>2, <2>3 DEF Start, Stop
  <1>5. ASSUME NEW t \in Tasks, pc[t] = "hook" PROVE
               /\ op[t] = "start" => state = "initializing"
               /\ op[t] = "stop" => state = "stopping"
               /\ "error" \in Life!Transitions[state]
    BY <1>5, TransitionTable DEF IInv, Phase, Locked
  <1>6. ASSUME NEW t \in Tasks, NEW ok \in BOOLEAN,
               InitializeReturns(t, ok) \/ ShutdownReturns(t, ok)
        PROVE  Kept
    <2>1. /\ op[t] = "start" => "running" \in Life!Transitions[state]
          /\ op[t] = "stop" => "stopped" \in Life!Transitions[state]
      BY <1>5, <1>6, TransitionTable DEF InitializeReturns, ShutdownReturns
    <2> QED
      BY <1>3, <1>5, <1>6, <2>1 DEF InitializeReturns, ShutdownReturns, Life!Passing
  <1>7. ASSUME NEW t \in Tasks, HookCancelled(t) PROVE Kept
    BY <1>3, <1>5, <1>7 DEF HookCancelled, Life!Passing
  <1>8. ASSUME NEW t \in Tasks, NEW healthy \in BOOLEAN, NEW err \in Errors,
               ProbeReturns(t, healthy, err)
        PROVE  Kept
    <2>1. CASE Goto(t, "report") /\ UNCHANGED <<service, ret>>
      BY <1>8, <2>1
      DEF IInv, TypeOK, ProbeReturns, Working, Refused, Goto, service
    <2>2. "degraded" \in Life!Transitions["running"] /\ "running" \in Life!Transitions["degraded"]
      BY TransitionTable
    <2> QED
      BY <1>3, <1>8, <2>1, <2>2 DEF ProbeReturns, Life!Passing
  <1>9. ASSUME NEW t \in Tasks,
               \/ Concluded(t) \/ Aborted(t) \/ Reported(t)
               \/ LockCancelled(t) \/ ProbeCancelled(t) \/ PublishCancelled(t)
        PROVE  Kept
    <2>1. pc[t] # "hook"
      BY <1>9 DEF Concluded, Aborted, Reported, LockCancelled, ProbeCancelled,
         PublishCancelled, Publishing
    <2>2. \E r \in Results \ {"invalid"} : Return(t, r) /\ UNCHANGED service
      BY <1>9 DEF Concluded, Aborted, Reported, LockCancelled, ProbeCancelled,
         PublishCancelled, Bool, Results
    <2>3. CASE pc[t] = "announce"
      <3>1. Return(t, "cancelled")
        BY <1>9, <2>3 DEF Concluded, Aborted, Reported, LockCancelled, ProbeCancelled,
           PublishCancelled
      <3> QED
        BY <2>3, <3>1 DEF IInv, TypeOK, Return, Dropped, Refused
    <2> QED
      BY <1>2, <2>1, <2>2, <2>3
  <1>10. ASSUME NEW t \in Tasks,
                \/ Call(t, "start") \/ Call(t, "stop")
                \/ CheckHealth(t) \/ CheckHealthDown(t) \/ Announced(t) \/ Flipped(t)
         PROVE  Kept
    BY <1>10 DEF IInv, TypeOK, Working, Refused, Goto, service,
       Call, CheckHealth, CheckHealthDown, Announced, Flipped
  <1>11. ASSUME NEW t \in Tasks, Proceed(t) PROVE Kept
    BY <1>4, <1>6, <1>8, <1>9, <1>10, <1>11, Zenon DEF Proceed
  <1>12. ASSUME NEW t \in Tasks, Cancelled(t) PROVE Kept
    BY <1>7, <1>9, <1>12 DEF Cancelled
  <1> QED
    BY <1>1, <1>10, <1>11, <1>12 DEF Next

\* For any tasks and any bus, an operation loses its task only to a cancellation
\* in the publication before its hook.
THEOREM PublicationAbandons == Spec => OnlyPublicationAbandons
  <1> DEFINE Step == Abandoned' /\ ~Abandoned =>
                        \E t \in Tasks : pc[t] = "announce" /\ ret'[t] = "cancelled"
  <1>1. IInv /\ IInv' /\ [Next]_vars => [Step]_vars
    BY WorkingStep, WorkingIsBusy, WorkingIsBusyNext DEF Dropped
  <1> QED
    BY <1>1, Inductive, PTL DEF Spec, OnlyPublicationAbandons

\* For any tasks and any bus, a transition is refused only where an operation
\* was abandoned.
THEOREM RefusedIfAbandoned == Spec => InvalidOnlyIfAbandoned
  <1> DEFINE Step == \A t \in Tasks : ret[t] # "invalid" /\ ret'[t] = "invalid" => Abandoned
  <1>1. IInv /\ [Next]_vars => [Step]_vars
    BY WorkingStep, WorkingIsBusy DEF Refused
  <1> QED
    BY <1>1, Inductive, PTL DEF Spec, InvalidOnlyIfAbandoned

-----------------------------------------------------------------------------
(* ServiceRuntime implements ServiceLifecycle *)

\* The refinement mapping, seen from the tasks.
BusyMatches ==
    /\ \A t \in Tasks : pc[t] \in {"announce", "hook"} => busy = op[t] /\ busy # "none"
    /\ (\A t \in Tasks : pc[t] \notin {"announce", "hook"}) => busy = "none"
    /\ busy # "none" => state \in Life!Passing

LEMMA BusyMeans == IInv => BusyMatches
  <1> SUFFICES ASSUME IInv PROVE BusyMatches
    OBVIOUS
  <1>1. ASSUME NEW t \in Tasks, pc[t] \in {"announce", "hook"}
        PROVE  busy = op[t] /\ op[t] \in {"start", "stop"} /\ state \in Life!Passing
    BY <1>1 DEF IInv, LockExcludes, Phase, Locked, busy, Life!Passing
  <1> QED
    BY <1>1 DEF BusyMatches, busy

LEMMA BusyMeansNext == IInv' => BusyMatches'
  BY BusyMeans, PTL

\* A step that moves no task into or out of an open operation.
LEMMA SameBusy ==
    ASSUME IInv, IInv', \A t \in Tasks : pc[t] \in {"announce", "hook"} => op'[t] = op[t],
           \A t \in Tasks : pc[t] \in {"announce", "hook"} <=> pc'[t] \in {"announce", "hook"}
    PROVE  busy' = busy
  <1>1. BusyMatches /\ BusyMatches'
    BY BusyMeans, BusyMeansNext
  <1>2. CASE \E t \in Tasks : pc[t] \in {"announce", "hook"}
    BY <1>1, <1>2 DEF BusyMatches
  <1>3. CASE \A t \in Tasks : pc[t] \notin {"announce", "hook"}
    BY <1>1, <1>3 DEF BusyMatches
  <1> QED
    BY <1>2, <1>3

\* A step of a task that is and stays outside announce and hook.
LEMMA OutsideStep ==
    ASSUME IInv, IInv', NEW t \in Tasks, pc' = [pc EXCEPT ![t] = pc'[t]],
           op' = op \/ (pc[t] = "idle" /\ op' = [op EXCEPT ![t] = op'[t]]),
           pc[t] \in {"announce", "hook"} <=> pc'[t] \in {"announce", "hook"}
    PROVE  busy' = busy
  BY SameBusy DEF IInv, TypeOK

\* Every step of the runtime is a step of the lifecycle or changes none of it.
LEMMA LifecycleStep ==
    ASSUME IInv, IInv', [Next]_vars
    PROVE  [Life!LifeNext]_(Life!lifeVars)
  <1> DEFINE Goal == [Life!LifeNext]_(Life!lifeVars)
  <1>0. BusyMatches /\ BusyMatches'
    BY BusyMeans, BusyMeansNext
  <1>1. ASSUME state' = state, busy' = busy PROVE Goal
    BY <1>1 DEF Life!lifeVars
  <1> HIDE DEF Goal
  <1>2. ASSUME NEW t \in Tasks, pc[t] \notin {"announce", "hook"}, NEW r,
               Return(t, r), UNCHANGED service
        PROVE  Goal
    <2>1. pc' = [pc EXCEPT ![t] = pc'[t]] /\ op' = op /\ pc'[t] = "idle"
      BY <1>2 DEF IInv, TypeOK, Return, Goto
    <2>2. busy' = busy
      BY <1>2, <2>1, OutsideStep
    <2> QED
      BY <1>1, <1>2, <2>2 DEF service
  <1>3. ASSUME NEW t \in Tasks, Start(t) \/ Stop(t) PROVE Goal
    <2>1. /\ holder = NoTask /\ pc[t] = "waiting" /\ op[t] \in {"start", "stop"}
          /\ op' = op
      BY <1>3 DEF Start, Stop, Acquire, Transition, Return
    <2>2. busy = "none"
      BY <2>1, RuntimeAssumption DEF busy
    <2>3. ASSUME pc'[t] = "announce", NEW new \in Life!Transitions[state],
                 SetState(new, "none"), op[t] = "start" => new = "initializing",
                 op[t] = "stop" => new = "stopping"
          PROVE  Goal
      <3>1. busy' = op[t]
        BY <1>0, <2>1, <2>3 DEF BusyMatches
      <3>2. Life!BeginStart \/ Life!BeginStop
        BY <2>1, <2>2, <2>3, <3>1 DEF SetState, Life!BeginStart, Life!BeginStop
      <3> QED
        BY <3>2 DEF Goal, Life!LifeNext
    <2>4. pc[t] \notin {"announce", "hook"}
      BY <2>1
    <2>5. Goto(t, "announce") => pc'[t] = "announce"
      BY DEF IInv, TypeOK, Goto
    <2> QED
      BY <1>2, <1>3, <2>1, <2>3, <2>4, <2>5 DEF Start, Stop, Acquire, Transition
  <1>4. ASSUME NEW t \in Tasks, pc[t] = "hook", NEW new, NEW err,
               NEW point \in {"conclude", "abort"}, NEW ok,
               new \in Life!Transitions[state],
               Transition(t, new, err, point, holder, ok)
        PROVE  Goal
    <2>1. state' = new /\ pc' = [pc EXCEPT ![t] = point]
      BY <1>4 DEF Transition, SetState, Goto
    <2>2. \A u \in Tasks \ {t} : pc[u] \notin {"announce", "hook"}
      BY <1>4 DEF IInv, LockExcludes, Locked
    <2>3. \A u \in Tasks : pc'[u] \notin {"announce", "hook"}
      BY <2>1, <2>2 DEF IInv, TypeOK
    <2>4. busy # "none" /\ busy' = "none"
      BY <1>0, <1>4, <2>3 DEF BusyMatches
    <2>5. Life!Conclude
      BY <1>4, <2>1, <2>4 DEF Life!Conclude
    <2> QED
      BY <2>5 DEF Goal, Life!LifeNext
  <1>5. ASSUME NEW t \in Tasks, pc[t] = "hook"
        PROVE  /\ op[t] = "start" => "running" \in Life!Transitions[state]
               /\ op[t] = "stop" => "stopped" \in Life!Transitions[state]
               /\ "error" \in Life!Transitions[state]
    BY <1>5, TransitionTable DEF IInv, Phase, Locked
  <1>6. ASSUME NEW t \in Tasks, NEW ok \in BOOLEAN,
               InitializeReturns(t, ok) \/ ShutdownReturns(t, ok)
        PROVE  Goal
    BY <1>4, <1>5, <1>6 DEF InitializeReturns, ShutdownReturns
  <1>7. ASSUME NEW t \in Tasks, HookCancelled(t) PROVE Goal
    BY <1>4, <1>5, <1>7 DEF HookCancelled
  <1>8. ASSUME NEW t \in Tasks, NEW healthy \in BOOLEAN, NEW err \in Errors,
               ProbeReturns(t, healthy, err)
        PROVE  Goal
    <2>1. /\ pc[t] = "probe" /\ op' = op
          /\ pc' = [pc EXCEPT ![t] = pc'[t]] /\ pc'[t] \in {"flip", "report"}
          /\ state' = state \/ {state, state'} = Life!Up
      BY <1>8, TransitionTable
      DEF IInv, TypeOK, ProbeReturns, Transition, SetState, Goto, service, Life!Up
    <2>2. busy' = busy
      BY <2>1, OutsideStep
    <2>3. ASSUME {state, state'} = Life!Up PROVE Goal
      <3>1. state \notin Life!Passing
        BY <2>3 DEF Life!Up, Life!Passing
      <3>2. Life!Judge
        BY <1>0, <2>2, <2>3, <3>1 DEF BusyMatches, Life!Judge
      <3> QED
        BY <3>2 DEF Goal, Life!LifeNext
    <2> QED
      BY <1>1, <2>1, <2>2, <2>3
  <1>9. ASSUME NEW t \in Tasks,
               \/ Call(t, "start") \/ Call(t, "stop")
               \/ CheckHealth(t) \/ CheckHealthDown(t) \/ Announced(t) \/ Flipped(t)
        PROVE  Goal
    <2>1. /\ pc' = [pc EXCEPT ![t] = pc'[t]]
          /\ op' = op \/ (pc[t] = "idle" /\ op' = [op EXCEPT ![t] = op'[t]])
          /\ pc[t] \in {"announce", "hook"} <=> pc'[t] \in {"announce", "hook"}
          /\ state' = state
      BY <1>9 DEF IInv, TypeOK, Goto, service,
         Call, CheckHealth, CheckHealthDown, Announced, Flipped
    <2> QED
      BY <1>1, <2>1, OutsideStep
  <1>10. ASSUME NEW t \in Tasks,
                \/ Concluded(t) \/ Aborted(t) \/ Reported(t)
                \/ LockCancelled(t) \/ ProbeCancelled(t)
                \/ PublishCancelled(t) /\ pc[t] # "announce"
         PROVE  Goal
    <2>1. pc[t] \notin {"announce", "hook"}
      BY <1>10 DEF Concluded, Aborted, Reported, LockCancelled, ProbeCancelled,
         PublishCancelled, Publishing
    <2> QED
      BY <1>2, <1>10, <2>1 DEF Concluded, Aborted, Reported, LockCancelled,
         ProbeCancelled, PublishCancelled
  <1>11. ASSUME NEW t \in Tasks, PublishCancelled(t), pc[t] = "announce" PROVE Goal
    <2>1. state' = state /\ pc' = [pc EXCEPT ![t] = "idle"] /\ "publish" \in CancelPoints
      BY <1>11 DEF PublishCancelled, Return, Goto, service
    <2>2. \A u \in Tasks : pc'[u] \notin {"announce", "hook"}
      BY <1>11, <2>1 DEF IInv, TypeOK, LockExcludes, Locked
    <2>3. busy # "none" /\ busy' = "none"
      BY <1>0, <1>11, <2>2 DEF BusyMatches
    <2>4. Life!Abandon
      BY <2>1, <2>3 DEF Life!Abandon
    <2> QED
      BY <2>4 DEF Goal, Life!LifeNext
  <1>12. ASSUME NEW t \in Tasks, Proceed(t) PROVE Goal
    BY <1>3, <1>6, <1>8, <1>9, <1>10, <1>12, Zenon DEF Proceed
  <1>13. ASSUME NEW t \in Tasks, Cancelled(t) PROVE Goal
    BY <1>7, <1>10, <1>11, <1>13 DEF Cancelled
  <1>14. ASSUME UNCHANGED vars PROVE Goal
    BY <1>1, <1>14 DEF vars, busy
  <1>15. Goal
    BY <1>9, <1>12, <1>13, <1>14 DEF Next
  <1> QED
    BY <1>15 DEF Goal

\* Any number of tasks that call, interleave and are cancelled look from outside
\* like one serialised lifecycle.
THEOREM Refinement == Spec => ImplementsLifecycle
  <1>1. Init => Life!LifeInit
    BY RuntimeAssumption DEF Init, Life!LifeInit, busy
  <1>2. IInv /\ IInv' /\ [Next]_vars => [Life!LifeNext]_(Life!lifeVars)
    BY LifecycleStep
  <1> QED
    BY <1>1, <1>2, Inductive, PTL DEF Spec, ImplementsLifecycle, Life!LifeSpec

=============================================================================
