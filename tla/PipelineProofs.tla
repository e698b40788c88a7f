--------------------------- MODULE PipelineProofs ---------------------------
(***************************************************************************)
(* What Pipeline guarantees for any number of services, any callers and    *)
(* any interleaving of calls, failures and cancellations.  The invariants  *)
(* say of one caller after the other what its place in the code, its       *)
(* runtime call (f) and its shielded rollback (j) know of each other       *)
(* (Framed) and of the services (Known).  Known needs that no caller is    *)
(* cancelled again while it awaits its rollback: a rollback that outlives  *)
(* its caller works on the services beside the next call.                  *)
(***************************************************************************)
EXTENDS Pipeline, TLAPS

Holding == {"announce", "hook", "conclude", "abort"}
Working == Holding \cup {"lock"}
Down == {"uninitialized", "stopped"}
Alive == Up \cup {"initializing"}

-----------------------------------------------------------------------------
(* The invariants *)

\* A caller at a point of a method, with f and j.
Framed(point, method, tried, f, j) ==
    /\ IF point \in InCall THEN f.at \in Working /\ f.svc \in Services ELSE f = NoFrame
    /\ IF j.at \in Working THEN j.svc \in Services ELSE j.svc = 0
    /\ j.at # "none" => point \in {"idle", "shielded"}
    /\ point \in {"starting", "raising", "unwinding", "failed", "shielded", "cancelled", "up"}
         => method = "start"
    /\ point \in {"stopping", "lowering", "down"} => method = "stop"
    /\ point \in {"raising", "unwinding", "failed"} => tried \in Services
    /\ point = "raising" => tried = f.svc
    /\ point = "unwinding" => f.svc <= tried

FramesFit ==
    TypeOK /\ \A c \in Callers : Framed(pc[c], op[c], attempted[c], frame[Me(c)], frame[Job(c)])

\* start() of service f.svc: those before it are up; once it is at work, those
\* after it are not.
Raising(f, table) ==
    /\ \A i \in Services : i < f.svc => table[i] \in Up
    /\ f.at # "lock" => \A i \in Services : i > f.svc => table[i] \notin Alive
    /\ f.at \in {"announce", "hook"} => table[f.svc] = "initializing"
    /\ f.at = "conclude" => table[f.svc] \in (IF f.good THEN Up ELSE {"error"})
    /\ f.at = "abort" => table[f.svc] = "error"

\* stop() of service f.svc: those after it are not up.
Lowering(f, table) ==
    /\ \A i \in Services : i > f.svc => table[i] \notin Alive
    /\ f.at \in {"announce", "hook"} => table[f.svc] = "stopping"
    /\ f.at = "conclude" => table[f.svc] = (IF f.good THEN "stopped" ELSE "error")
    /\ f.at = "abort" => table[f.svc] = "error"

AllDown(table) == \A i \in Services : table[i] \notin Alive

\* What a caller at a point knows of the services, and of the pipeline's state.
Known(point, f, j, state, table, wedged) ==
    /\ point = "raising" => Raising(f, table)
    /\ point \in {"unwinding", "lowering"} => Lowering(f, table)
    /\ point = "lowering" /\ f.all => \A i \in Services : i > f.svc => table[i] \in Down
    /\ j.at \in Working => Lowering(j, table)
    /\ j.at = "done" => AllDown(table)
    /\ j.at = "broke" => wedged
    /\ point \in {"failed", "cancelled", "down"} => AllDown(table)
    /\ point \in {"starting", "raising", "unwinding", "failed", "shielded", "cancelled",
                  "stopping", "lowering"} => state \notin Down \cup {"running"}
    /\ point = "up" => state = "running"
    /\ point = "down" => state \in {"stopped", "error"}
    /\ point = "idle" => j.at = "none"

StatesTrue ==
    /\ pstate = "running" => \A i \in Services : rt[i] \in Up
    /\ pstate \in Down => \A i \in Services : rt[i] \in Down

KnownTrue ==
    /\ DependencyOrder /\ StatesTrue
    /\ \A c \in Callers : Known(pc[c], frame[Me(c)], frame[Job(c)], pstate, rt, SomeWedged)

-----------------------------------------------------------------------------
(* What a step moves *)

\* Of the callers, only c moves: to a point p, with f and j.
Moves(c, p, method, tried, f, j) ==
    /\ pc' = [pc EXCEPT ![c] = p]
    /\ op' = [op EXCEPT ![c] = method]
    /\ attempted' = [attempted EXCEPT ![c] = tried]
    /\ frame' = [frame EXCEPT ![Me(c)] = f, ![Job(c)] = j]

LEMMA DriverNames ==
  /\ \A c \in Callers : Me(c) \in Drivers /\ Me(c)[1] = c /\ Job(c) \in Drivers /\ Job(c)[1] = c
  /\ \A c, e \in Callers : Me(c) # Job(e) /\ (Me(c) = Me(e) => c = e) /\ (Job(c) = Job(e) => c = e)
  /\ \A d \in Drivers : d[1] \in Callers /\ (d = Me(d[1]) \/ d = Job(d[1]))
  /\ \A c \in Callers : (Rising(Me(c)) <=> pc[c] = "raising") /\ ~Rising(Job(c))
  BY DEF Drivers, Me, Job, Rising

LEMMA TransitionTable ==
  /\ Table!ServiceState = {"uninitialized", "initializing", "running", "degraded",
                           "stopping", "stopped", "error"}
  /\ Up = {"running", "degraded"}
  /\ \A s \in Table!ServiceState :
       /\ Legal(s, "initializing") <=> s \in {"uninitialized", "stopped", "error"}
       /\ Legal(s, "stopping") <=> s \in {"running", "degraded", "error"}
  BY DEF Legal, Up, Table!Up, Table!ServiceState, Table!Transitions

LEMMA AtUpdate ==
  ASSUME NEW f \in Frames,
         NEW at \in {"none", "lock", "announce", "hook", "conclude", "abort", "done", "broke", "lost"}
  PROVE  /\ [f EXCEPT !.at = at] \in Frames
         /\ [f EXCEPT !.at = at].at = at /\ [f EXCEPT !.at = at].svc = f.svc
         /\ [f EXCEPT !.at = at].good = f.good /\ [f EXCEPT !.at = at].all = f.all
<1>1. /\ [f EXCEPT !.at = at] \in Frames
      /\ [f EXCEPT !.at = at].at = at /\ [f EXCEPT !.at = at].svc = f.svc
  BY DEF Frames
<1>2. [f EXCEPT !.at = at].good = f.good /\ [f EXCEPT !.at = at].all = f.all
  BY Zenon DEF Frames
<1> QED
  BY <1>1, <1>2

LEMMA SvcUpdate ==
  ASSUME NEW f \in Frames, NEW i \in 0..N
  PROVE  /\ [f EXCEPT !.svc = i] \in Frames
         /\ [f EXCEPT !.svc = i].svc = i /\ [f EXCEPT !.svc = i].at = f.at
         /\ [f EXCEPT !.svc = i].good = f.good /\ [f EXCEPT !.svc = i].all = f.all
<1>1. /\ [f EXCEPT !.svc = i] \in Frames
      /\ [f EXCEPT !.svc = i].svc = i /\ [f EXCEPT !.svc = i].at = f.at
  BY DEF Frames
<1>2. [f EXCEPT !.svc = i].good = f.good /\ [f EXCEPT !.svc = i].all = f.all
  BY Zenon DEF Frames
<1> QED
  BY <1>1, <1>2

LEMMA GoodUpdate ==
  ASSUME NEW f \in Frames, NEW ok \in BOOLEAN
  PROVE  /\ [f EXCEPT !.good = ok] \in Frames /\ [f EXCEPT !.good = ok].good = ok
         /\ [f EXCEPT !.good = ok].at = f.at /\ [f EXCEPT !.good = ok].svc = f.svc
         /\ [f EXCEPT !.good = ok].all = f.all
  BY Zenon DEF Frames

LEMMA AllUpdate ==
  ASSUME NEW f \in Frames, NEW ok \in BOOLEAN
  PROVE  /\ [f EXCEPT !.all = ok] \in Frames /\ [f EXCEPT !.all = ok].all = ok
         /\ [f EXCEPT !.all = ok].at = f.at /\ [f EXCEPT !.all = ok].svc = f.svc
  BY Zenon DEF Frames

LEMMA FrameTypes ==
  /\ NoFrame \in Frames /\ NoFrame.at = "none" /\ NoFrame.svc = 0
  /\ \A i \in Services, ok \in BOOLEAN :
       /\ Entering(i) \in Frames /\ Entering(i).at = "lock" /\ Entering(i).svc = i
       /\ Entering(i).all = TRUE
       /\ [Entering(i) EXCEPT !.all = ok] \in Frames
       /\ [Entering(i) EXCEPT !.all = ok].at = "lock"
       /\ [Entering(i) EXCEPT !.all = ok].svc = i
       /\ [Entering(i) EXCEPT !.all = ok].all = ok
  /\ \A at \in {"done", "broke", "lost"} :
       /\ [NoFrame EXCEPT !.at = at] \in Frames
       /\ [NoFrame EXCEPT !.at = at].at = at /\ [NoFrame EXCEPT !.at = at].svc = 0
  /\ 1 \in Services /\ N \in Services /\ \A i \in Services : i \in Nat /\ i >= 1 /\ i <= N
<1>1. 1 \in Services /\ N \in Services /\ \A i \in Services : i \in Nat /\ i >= 1 /\ i <= N
  BY PipelineAssumption DEF Services
<1>2. NoFrame \in Frames /\ NoFrame.at = "none" /\ NoFrame.svc = 0 /\ NoFrame.all = TRUE
  BY PipelineAssumption DEF Frames, NoFrame
<1>3. ASSUME NEW i \in Services, NEW ok \in BOOLEAN
      PROVE  /\ Entering(i) \in Frames /\ Entering(i).at = "lock" /\ Entering(i).svc = i
             /\ Entering(i).all = TRUE
             /\ [Entering(i) EXCEPT !.all = ok] \in Frames
             /\ [Entering(i) EXCEPT !.all = ok].at = "lock"
             /\ [Entering(i) EXCEPT !.all = ok].svc = i
             /\ [Entering(i) EXCEPT !.all = ok].all = ok
  <2>1. i \in 0..N
    BY <1>1, PipelineAssumption
  <2>2. PICK f \in Frames :
          f = [NoFrame EXCEPT !.at = "lock"] /\ f.at = "lock" /\ f.all = TRUE
    <3>1. "lock" \in {"none", "lock", "announce", "hook", "conclude", "abort", "done", "broke", "lost"}
      OBVIOUS
    <3>2. /\ [NoFrame EXCEPT !.at = "lock"] \in Frames /\ [NoFrame EXCEPT !.at = "lock"].at = "lock"
          /\ [NoFrame EXCEPT !.at = "lock"].all = NoFrame.all
      BY <1>2, <3>1, AtUpdate, Zenon
    <3> QED
      BY <1>2, <3>2, Zenon
  <2>3. Entering(i) = [f EXCEPT !.svc = i]
    BY <2>2, Zenon DEF Entering
  <2>4. /\ Entering(i) \in Frames /\ Entering(i).at = "lock" /\ Entering(i).svc = i
        /\ Entering(i).all = TRUE
    <3>1. /\ [f EXCEPT !.svc = i] \in Frames
          /\ [f EXCEPT !.svc = i].svc = i /\ [f EXCEPT !.svc = i].at = f.at
          /\ [f EXCEPT !.svc = i].all = f.all
      BY <2>1, SvcUpdate, Zenon
    <3> QED
      BY <2>2, <2>3, <3>1, Zenon
  <2> QED
    BY <2>4, AllUpdate, Zenon
<1>4. ASSUME NEW at \in {"done", "broke", "lost"}
      PROVE  /\ [NoFrame EXCEPT !.at = at] \in Frames
             /\ [NoFrame EXCEPT !.at = at].at = at /\ [NoFrame EXCEPT !.at = at].svc = 0
  <2>1. at \in {"none", "lock", "announce", "hook", "conclude", "abort", "done", "broke", "lost"}
    OBVIOUS
  <2>2. /\ [NoFrame EXCEPT !.at = at] \in Frames
        /\ [NoFrame EXCEPT !.at = at].at = at
        /\ [NoFrame EXCEPT !.at = at].svc = NoFrame.svc
    BY <1>2, <2>1, AtUpdate, Zenon
  <2> QED
    BY <1>2, <2>2, Zenon
<1> QED
  BY <1>1, <1>2, <1>3, <1>4

LEMMA EnteringTypes ==
  ASSUME NEW i \in Services
  PROVE  /\ Entering(i) \in Frames /\ Entering(i).at = "lock" /\ Entering(i).svc = i
         /\ Entering(i).all = TRUE
  BY FrameTypes, TRUE \in BOOLEAN

LEMMA EnteringSaid ==
  ASSUME NEW i \in Services, NEW ok \in BOOLEAN
  PROVE  /\ [Entering(i) EXCEPT !.all = ok].at = "lock" /\ [Entering(i) EXCEPT !.all = ok].svc = i
         /\ [Entering(i) EXCEPT !.all = ok].all = ok
<1>1. PICK f \in Frames : f = Entering(i) /\ f.at = "lock" /\ f.svc = i
  BY EnteringTypes
<1>2. /\ [f EXCEPT !.all = ok].at = f.at /\ [f EXCEPT !.all = ok].svc = f.svc
      /\ [f EXCEPT !.all = ok].all = ok
  BY AllUpdate
<1> QED
  BY <1>1, <1>2, Zenon

LEMMA OneMoves ==
  ASSUME FramesFit, NEW c \in Callers, NEW p, NEW method, NEW tried, NEW f, NEW j,
         Moves(c, p, method, tried, f, j)
  PROVE  /\ pc'[c] = p /\ op'[c] = method /\ attempted'[c] = tried
         /\ frame'[Me(c)] = f /\ frame'[Job(c)] = j
         /\ \A e \in Callers \ {c} :
              /\ pc'[e] = pc[e] /\ op'[e] = op[e] /\ attempted'[e] = attempted[e]
              /\ frame'[Me(e)] = frame[Me(e)] /\ frame'[Job(e)] = frame[Job(e)]
  BY DriverNames DEF FramesFit, TypeOK, Moves

LEMMA MovesFit ==
  ASSUME FramesFit, NEW c \in Callers,
         NEW p \in Points, NEW method \in {"start", "stop"}, NEW tried \in 0..N,
         NEW f \in Frames, NEW j \in Frames,
         Moves(c, p, method, tried, f, j), Framed(p, method, tried, f, j),
         pstate' \in PipelineState, rt' \in [Services -> Table!ServiceState],
         plock' \in Callers \cup {NoOne}, rlock' \in [Services -> Drivers \cup {NoOne}],
         ret' \in [Callers -> {"none", "true", "false", "cancelled", "invalid"}]
  PROVE  FramesFit'
<1>1. TypeOK'
  BY DriverNames DEF FramesFit, TypeOK, Moves
<1>2. \A e \in Callers : Framed(pc'[e], op'[e], attempted'[e], frame'[Me(e)], frame'[Job(e)])
  BY OneMoves DEF FramesFit
<1> QED
  BY <1>1, <1>2 DEF FramesFit

\* A step that leaves one of the functions of Moves alone.
LEMMA Stays ==
  ASSUME FramesFit, NEW c \in Callers
  PROVE  /\ pc = [pc EXCEPT ![c] = pc[c]] /\ op = [op EXCEPT ![c] = op[c]]
         /\ attempted = [attempted EXCEPT ![c] = attempted[c]]
         /\ frame = [frame EXCEPT ![Me(c)] = frame[Me(c)], ![Job(c)] = frame[Job(c)]]
         /\ \A f : [frame EXCEPT ![Me(c)] = f]
                     = [frame EXCEPT ![Me(c)] = f, ![Job(c)] = frame[Job(c)]]
         /\ \A j : [frame EXCEPT ![Job(c)] = j]
                     = [frame EXCEPT ![Me(c)] = frame[Me(c)], ![Job(c)] = j]
  BY DriverNames DEF FramesFit, TypeOK

LEMMA DriverStays ==
  ASSUME FramesFit, NEW c \in Callers, NEW d \in {Me(c), Job(c)}, NEW g
  PROVE  [frame EXCEPT ![d] = g]
           = [frame EXCEPT ![Me(c)] = IF d = Me(c) THEN g ELSE frame[Me(c)],
                           ![Job(c)] = IF d = Job(c) THEN g ELSE frame[Job(c)]]
<1>1. Me(c) # Job(c)
  BY DriverNames
<1>2. CASE d = Me(c)
  BY <1>1, <1>2, Stays
<1>3. CASE d = Job(c)
  BY <1>1, <1>3, Stays
<1> QED
  BY <1>2, <1>3

LEMMA DriverMoves ==
  ASSUME FramesFit, NEW c \in Callers, NEW d \in {Me(c), Job(c)}, NEW g,
         frame' = [frame EXCEPT ![d] = g], UNCHANGED <<pc, op, attempted>>
  PROVE  Moves(c, pc[c], op[c], attempted[c],
               IF d = Me(c) THEN g ELSE frame[Me(c)], IF d = Job(c) THEN g ELSE frame[Job(c)])
<1> DEFINE f == IF d = Me(c) THEN g ELSE frame[Me(c)]
           j == IF d = Job(c) THEN g ELSE frame[Job(c)]
<1>1. frame' = [frame EXCEPT ![Me(c)] = f, ![Job(c)] = j]
  BY DriverStays
<1> HIDE DEF f, j
<1>2. Moves(c, pc[c], op[c], attempted[c], f, j)
  BY <1>1, Stays DEF Moves
<1> QED
  BY <1>2 DEF f, j

\* The method of c ends: f is the frame it leaves.
LEMMA ReturnMoves ==
  ASSUME FramesFit, NEW c \in Callers, NEW result \in {"true", "false", "cancelled", "invalid"},
         NEW f, NEW j, Return(c, result), op' = op,
         frame' = [frame EXCEPT ![Me(c)] = f, ![Job(c)] = j]
  PROVE  /\ Moves(c, "idle", op[c], 0, f, j)
         /\ ret' = [ret EXCEPT ![c] = result] /\ plock' \in {plock, NoOne}
         /\ ret' \in [Callers -> {"none", "true", "false", "cancelled", "invalid"}]
         /\ plock' \in Callers \cup {NoOne}
  BY Stays DEF Return, Goto, Moves, FramesFit, TypeOK

\* The calls, up to the loops over the services.
LEMMA EntryMoves ==
  ASSUME FramesFit, NEW c \in Callers
  PROVE  /\ \A method : Call(c, method) =>
              pc[c] = "idle" /\ frame[Job(c)].at = "none"
              /\ Moves(c, "waiting", method, attempted[c], frame[Me(c)], frame[Job(c)])
         /\ Start(c) \/ Stop(c) =>
              /\ pc[c] = "waiting"
              /\ \/ Moves(c, "idle", op[c], 0, frame[Me(c)], frame[Job(c)]) /\ pstate' = pstate
                 \/ /\ op[c] = "start" /\ pstate' = "starting"
                    /\ Moves(c, "starting", op[c], attempted[c], frame[Me(c)], frame[Job(c)])
                 \/ /\ op[c] = "stop" /\ pstate' = "stopping"
                    /\ Moves(c, "stopping", op[c], attempted[c], frame[Me(c)], frame[Job(c)])
         /\ StartLoop(c) => pc[c] = "starting" /\ Moves(c, "raising", op[c], 1, Entering(1), frame[Job(c)])
         /\ StopLoop(c) => pc[c] = "stopping"
              /\ Moves(c, "lowering", op[c], attempted[c], Entering(N), frame[Job(c)])
         /\ Finish(c) => pc[c] \in {"up", "failed", "cancelled", "down"}
              /\ Moves(c, "idle", op[c], 0, frame[Me(c)], frame[Job(c)])
  BY Stays DEF Call, Start, Stop, StartLoop, StopLoop, Finish, Return, Goto, Moves

\* The loops over the services, once a runtime call has returned.
LEMMA AdvanceMoves ==
  ASSUME FramesFit, NEW c \in Callers, NEW d \in {Me(c), Job(c)}, NEW result \in BOOLEAN,
         Advance(d, result), frame[d].at \in Working, op' = op
  PROVE  LET f == frame[Me(c)]
             j == frame[Job(c)]
             i == frame[d].svc
             ok == frame[d].all /\ result
         IN  \/ /\ d = Me(c) /\ pc[c] = "raising" /\ result /\ i < N /\ pstate' = pstate
                /\ Moves(c, "raising", op[c], i + 1, Entering(i + 1), j)
             \/ /\ d = Me(c) /\ pc[c] = "raising" /\ result /\ i = N /\ pstate' = "running"
                /\ Moves(c, "up", op[c], attempted[c], NoFrame, j)
             \/ /\ d = Me(c) /\ pc[c] = "raising" /\ ~result /\ pstate' = pstate
                /\ Moves(c, "unwinding", op[c], attempted[c], Entering(i), j)
             \/ /\ d = Me(c) /\ pc[c] \in {"unwinding", "lowering"} /\ i > 1 /\ pstate' = pstate
                /\ Moves(c, pc[c], op[c], attempted[c], [Entering(i - 1) EXCEPT !.all = ok], j)
             \/ /\ d = Me(c) /\ pc[c] = "unwinding" /\ i = 1 /\ pstate' = "error"
                /\ Moves(c, "failed", op[c], attempted[c], NoFrame, j)
             \/ /\ d = Me(c) /\ pc[c] = "lowering" /\ i = 1
                /\ pstate' = IF ok THEN "stopped" ELSE "error"
                /\ Moves(c, "down", op[c], attempted[c], NoFrame, j)
             \/ /\ d = Job(c) /\ i > 1 /\ pstate' = pstate
                /\ Moves(c, pc[c], op[c], attempted[c], f, [Entering(i - 1) EXCEPT !.all = ok])
             \/ /\ d = Job(c) /\ i = 1 /\ pstate' = pstate
                /\ Moves(c, pc[c], op[c], attempted[c], f, [NoFrame EXCEPT !.at = "done"])
<1>1. d[1] = c /\ Framed(pc[c], op[c], attempted[c], frame[Me(c)], frame[Job(c)])
  BY DriverNames DEF FramesFit
<1>2. CASE d = Me(c)
  <2>1. pc[c] \in InCall
    BY <1>1, <1>2, FrameTypes DEF Framed, Working, Holding
  <2>2. CASE Raised(d, result)
    BY <1>1, <1>2, <2>2, Stays, DriverNames DEF Raised, Resume, Goto, Moves
  <2>3. CASE Lowered(d, result)
    BY <1>1, <1>2, <2>1, <2>3, Stays, DriverNames DEF Lowered, Resume, Goto, Moves, InCall
  <2> QED
    BY <2>2, <2>3 DEF Advance
<1>3. CASE d = Job(c)
  <2>1. Lowered(d, result) /\ d # Me(c)
    BY <1>3, DriverNames DEF Advance, Raised
  <2> QED
    BY <1>1, <1>3, <2>1, Stays DEF Lowered, Resume, Moves
<1> QED
  BY <1>2, <1>3

\* A runtime call that gets the lock.
LEMMA EnterMoves ==
  ASSUME FramesFit, NEW c \in Callers, NEW d \in {Me(c), Job(c)}, Enter(d)
  PROVE  LET f == frame[Me(c)]
             j == frame[Job(c)]
             i == frame[d].svc
             rising == d = Me(c) /\ pc[c] = "raising"
             next == [frame[d] EXCEPT !.at = "announce"]
         IN  /\ frame[d].at = "lock" /\ rlock[i] = NoOne /\ op' = op
             /\ \/ /\ rt[i] \in IF rising THEN Up ELSE Down
                   /\ Advance(d, TRUE) /\ UNCHANGED <<rt, rlock, plock, ret>>
                \/ /\ rt[i] \in IF rising THEN {"uninitialized", "stopped", "error"}
                                ELSE {"running", "degraded", "error"}
                   /\ rt' = [rt EXCEPT ![i] = IF rising THEN "initializing" ELSE "stopping"]
                   /\ rlock' = [rlock EXCEPT ![i] = d] /\ UNCHANGED <<pstate, plock, ret>>
                   /\ Moves(c, pc[c], op[c], attempted[c],
                            IF d = Me(c) THEN next ELSE f, IF d = Job(c) THEN next ELSE j)
                \/ /\ rt[i] \in {"initializing", "stopping"} /\ UNCHANGED <<pstate, rt, rlock>>
                   /\ d = Job(c) /\ UNCHANGED <<plock, ret>>
                   /\ Moves(c, pc[c], op[c], attempted[c], f, [NoFrame EXCEPT !.at = "broke"])
                \/ /\ rt[i] \in {"initializing", "stopping"} /\ UNCHANGED <<pstate, rt, rlock>>
                   /\ d = Me(c) /\ Return(c, "invalid")
                   /\ Moves(c, "idle", op[c], 0, NoFrame, j)
<1> DEFINE i == frame[d].svc
           rising == d = Me(c) /\ pc[c] = "raising"
           next == [frame[d] EXCEPT !.at = "announce"]
<1>1. d[1] = c /\ (Rising(d) <=> rising) /\ Me(c) # Job(c) /\ d \in Drivers
  BY DriverNames
<1>2. frame[d].at = "lock" /\ rlock[i] = NoOne /\ op' = op
  BY DEF Enter
<1>3. i \in Services /\ rt[i] \in Table!ServiceState
  BY <1>2 DEF FramesFit, TypeOK, Framed, Working, Holding, InCall, NoFrame
<1>4. CASE rt[i] \in IF rising THEN Up ELSE Down
  BY <1>1, <1>2, <1>4, TransitionTable DEF Enter, Down
<1>5. CASE /\ rt[i] \notin IF rising THEN Up ELSE Down
           /\ Legal(rt[i], IF rising THEN "initializing" ELSE "stopping")
  <2>1. /\ rt' = [rt EXCEPT ![i] = IF rising THEN "initializing" ELSE "stopping"]
        /\ rlock' = [rlock EXCEPT ![i] = d] /\ UNCHANGED <<pstate, plock, pc, ret, attempted>>
        /\ frame' = [frame EXCEPT ![d] = next]
    BY <1>1, <1>5 DEF Enter, Down
  <2>2. Moves(c, pc[c], op[c], attempted[c],
              IF d = Me(c) THEN next ELSE frame[Me(c)], IF d = Job(c) THEN next ELSE frame[Job(c)])
    BY <1>2, <2>1, DriverMoves, Zenon
  <2>3. rt[i] \in IF rising THEN {"uninitialized", "stopped", "error"} ELSE {"running", "degraded", "error"}
    BY <1>3, <1>5, TransitionTable
  <2> QED
    BY <1>2, <2>1, <2>2, <2>3
<1>6. CASE /\ rt[i] \notin IF rising THEN Up ELSE Down
           /\ ~Legal(rt[i], IF rising THEN "initializing" ELSE "stopping")
  <2>1. Raise(d) /\ UNCHANGED <<rt, rlock>>
    BY <1>1, <1>6 DEF Enter, Down
  <2>2. rt[i] \in {"initializing", "stopping"}
    BY <1>3, <1>6, TransitionTable DEF Down
  <2>3. CASE d = Job(c)
    <3>1. frame' = [frame EXCEPT ![Me(c)] = frame[Me(c)], ![Job(c)] = [NoFrame EXCEPT !.at = "broke"]]
      BY <1>1, <2>1, <2>3, Stays DEF Raise
    <3>2. UNCHANGED <<pstate, pc, plock, ret, attempted>>
      BY <1>1, <2>1, <2>3 DEF Raise
    <3>3. Moves(c, pc[c], op[c], attempted[c], frame[Me(c)], [NoFrame EXCEPT !.at = "broke"])
      BY <1>2, <3>1, <3>2, Stays DEF Moves
    <3> QED
      BY <1>2, <2>1, <2>2, <2>3, <3>2, <3>3
  <2>4. CASE d = Me(c)
    <3>1. /\ Return(c, "invalid") /\ pstate' = pstate
          /\ frame' = [frame EXCEPT ![Me(c)] = NoFrame, ![Job(c)] = frame[Job(c)]]
      BY <1>1, <2>1, <2>4, Stays DEF Raise
    <3>2. Moves(c, "idle", op[c], 0, NoFrame, frame[Job(c)])
      BY <1>2, <3>1, ReturnMoves
    <3> QED
      BY <1>2, <2>1, <2>2, <2>4, <3>1, <3>2
  <2> QED
    BY <2>3, <2>4
<1> QED
  BY <1>4, <1>5, <1>6

LEMMA DriveMoves ==
  ASSUME FramesFit, NEW c \in Callers, NEW d \in {Me(c), Job(c)}
  PROVE  /\ Announced(d) =>
              /\ frame[d].at = "announce" /\ UNCHANGED <<pstate, rt, plock, rlock, ret>>
              /\ Moves(c, pc[c], op[c], attempted[c],
                       IF d = Me(c) THEN [frame[d] EXCEPT !.at = "hook"] ELSE frame[Me(c)],
                       IF d = Job(c) THEN [frame[d] EXCEPT !.at = "hook"] ELSE frame[Job(c)])
         /\ \A ok \in BOOLEAN : HookReturns(d, ok) =>
              /\ frame[d].at = "hook" /\ UNCHANGED <<pstate, plock, rlock, ret>>
              /\ rt' = [rt EXCEPT ![frame[d].svc] =
                          IF ~ok THEN "error"
                          ELSE IF d = Me(c) /\ pc[c] = "raising" THEN "running" ELSE "stopped"]
              /\ Moves(c, pc[c], op[c], attempted[c],
                       IF d = Me(c) THEN [[frame[d] EXCEPT !.at = "conclude"] EXCEPT !.good = ok]
                                    ELSE frame[Me(c)],
                       IF d = Job(c) THEN [[frame[d] EXCEPT !.at = "conclude"] EXCEPT !.good = ok]
                                     ELSE frame[Job(c)])
<1>1. d[1] = c /\ (Rising(d) <=> d = Me(c) /\ pc[c] = "raising") /\ Me(c) # Job(c) /\ d \in Drivers
  BY DriverNames
<1>2. ASSUME Announced(d)
      PROVE  Moves(c, pc[c], op[c], attempted[c],
                   IF d = Me(c) THEN [frame[d] EXCEPT !.at = "hook"] ELSE frame[Me(c)],
                   IF d = Job(c) THEN [frame[d] EXCEPT !.at = "hook"] ELSE frame[Job(c)])
  <2>1. frame' = [frame EXCEPT ![d] = [frame[d] EXCEPT !.at = "hook"]]
    BY <1>1, <1>2 DEF Announced
  <2> QED
    BY <1>2, <2>1, DriverMoves, Zenon DEF Announced
<1>3. ASSUME NEW ok \in BOOLEAN, HookReturns(d, ok)
      PROVE  Moves(c, pc[c], op[c], attempted[c],
                   IF d = Me(c) THEN [[frame[d] EXCEPT !.at = "conclude"] EXCEPT !.good = ok]
                                ELSE frame[Me(c)],
                   IF d = Job(c) THEN [[frame[d] EXCEPT !.at = "conclude"] EXCEPT !.good = ok]
                                 ELSE frame[Job(c)])
  <2>1. frame' = [frame EXCEPT ![d] = [[frame[d] EXCEPT !.at = "conclude"] EXCEPT !.good = ok]]
    BY <1>1, <1>3 DEF HookReturns, FramesFit, TypeOK
  <2> QED
    BY <1>3, <2>1, DriverMoves, Zenon DEF HookReturns
<1> QED
  BY <1>1, <1>2, <1>3 DEF Announced, HookReturns

\* CancelledError in a runtime call or a publication of c reaches the pipeline.
Breaks(c) == RuntimeCancelled(Me(c)) \/ Aborted(Me(c)) \/ FailedCancelled(c)

LEMMA BreakMoves ==
  ASSUME NEW c \in Callers, Breaks(c)
  PROVE  /\ Unwind(c) /\ UNCHANGED <<pstate, rt, op>>
         /\ \/ pc[c] = "failed" /\ rlock' = rlock
            \/ /\ Unlock(Me(c)) /\ frame[Me(c)].at \in Working
               /\ frame[Me(c)].at = "lock" => rlock[frame[Me(c)].svc] # NoOne
               /\ frame[Me(c)].at = "announce" => "publish" \in CancelPoints
               /\ frame[Me(c)].at # "hook"
<1>1. \A d : d = Me(c) /\ Break(d) => Unwind(c)
  BY DriverNames DEF Break
<1> QED
  BY <1>1 DEF Breaks, RuntimeCancelled, Aborted, FailedCancelled, Working, Holding

\* CancelledError in a method.
LEMMA UnwindMoves ==
  ASSUME FramesFit, NEW c \in Callers, Unwind(c), op' = op
  PROVE  \/ /\ op[c] = "start" /\ UNCHANGED <<plock, ret>>
            /\ Moves(c, "shielded", op[c], attempted[c], NoFrame, Entering(attempted[c]))
         \/ /\ op[c] = "stop" /\ Return(c, "cancelled")
            /\ Moves(c, "idle", op[c], 0, NoFrame, frame[Job(c)])
<1>1. CASE op[c] = "start"
  BY <1>1, Stays DEF Unwind, Goto, Moves
<1>2. CASE op[c] = "stop"
  BY <1>2, Stays, ReturnMoves DEF Unwind
<1> QED
  BY <1>1, <1>2 DEF Unwind

LEMMA CancelMoves ==
  ASSUME FramesFit, NEW c \in Callers
  PROVE  /\ HookCancelled(Me(c)) =>
              /\ frame[Me(c)].at = "hook" /\ UNCHANGED <<pstate, plock, rlock, ret>>
              /\ rt' = [rt EXCEPT ![frame[Me(c)].svc] = "error"]
              /\ Moves(c, pc[c], op[c], attempted[c],
                       [frame[Me(c)] EXCEPT !.at = "abort"], frame[Job(c)])
         /\ PlainCancelled(c) =>
              /\ Return(c, "cancelled") /\ UNCHANGED <<pstate, rt, rlock>>
              /\ Moves(c, "idle", op[c], 0, frame[Me(c)], frame[Job(c)])
         /\ ShieldReturns(c) =>
              /\ pc[c] = "shielded" /\ UNCHANGED <<rt, rlock>>
              /\ \/ /\ frame[Job(c)].at = "done" /\ pstate' = "error" /\ UNCHANGED <<plock, ret>>
                    /\ Moves(c, "cancelled", op[c], attempted[c], frame[Me(c)], NoFrame)
                 \/ /\ pstate' = pstate
                    /\ \/ frame[Job(c)].at = "broke" /\ Return(c, "invalid")
                       \/ frame[Job(c)].at = "lost" /\ Return(c, "cancelled")
                    /\ Moves(c, "idle", op[c], 0, frame[Me(c)], NoFrame)
         /\ OrphanEnds(c) =>
              /\ pc[c] # "shielded" /\ frame[Job(c)].at \in {"done", "broke", "lost"}
              /\ UNCHANGED <<pstate, rt, plock, rlock, ret>>
              /\ Moves(c, pc[c], op[c], attempted[c], frame[Me(c)], NoFrame)
<1>1. ASSUME HookCancelled(Me(c))
      PROVE  Moves(c, pc[c], op[c], attempted[c], [frame[Me(c)] EXCEPT !.at = "abort"], frame[Job(c)])
  <2>1. frame' = [frame EXCEPT ![Me(c)] = [frame[Me(c)] EXCEPT !.at = "abort"]]
    BY <1>1 DEF HookCancelled
  <2> QED
    BY <1>1, <2>1, Stays DEF HookCancelled, Moves
<1>2. ASSUME PlainCancelled(c)
      PROVE  Moves(c, "idle", op[c], 0, frame[Me(c)], frame[Job(c)])
  BY <1>2, Stays, ReturnMoves DEF PlainCancelled
<1>3. ASSUME ShieldReturns(c)
      PROVE  \/ /\ frame[Job(c)].at = "done" /\ pstate' = "error" /\ UNCHANGED <<plock, ret>>
                /\ Moves(c, "cancelled", op[c], attempted[c], frame[Me(c)], NoFrame)
             \/ /\ pstate' = pstate
                /\ \/ frame[Job(c)].at = "broke" /\ Return(c, "invalid")
                   \/ frame[Job(c)].at = "lost" /\ Return(c, "cancelled")
                /\ Moves(c, "idle", op[c], 0, frame[Me(c)], NoFrame)
  <2>1. CASE /\ frame[Job(c)].at = "done" /\ pstate' = "error" /\ Goto(c, "cancelled")
             /\ UNCHANGED <<plock, ret, attempted>>
    <3>1. frame' = [frame EXCEPT ![Me(c)] = frame[Me(c)], ![Job(c)] = NoFrame] /\ op' = op
      BY <1>3, Stays DEF ShieldReturns
    <3>2. Moves(c, "cancelled", op[c], attempted[c], frame[Me(c)], NoFrame)
      BY <2>1, <3>1, Stays DEF Goto, Moves
    <3> QED
      BY <2>1, <3>2
  <2>2. CASE /\ pstate' = pstate
             /\ \/ frame[Job(c)].at = "broke" /\ Return(c, "invalid")
                \/ frame[Job(c)].at = "lost" /\ Return(c, "cancelled")
    <3>1. frame' = [frame EXCEPT ![Me(c)] = frame[Me(c)], ![Job(c)] = NoFrame] /\ op' = op
      BY <1>3, Stays DEF ShieldReturns
    <3>2. Moves(c, "idle", op[c], 0, frame[Me(c)], NoFrame)
      BY <2>2, <3>1, ReturnMoves
    <3> QED
      BY <2>2, <3>2
  <2> QED
    BY <1>3, <2>1, <2>2 DEF ShieldReturns
<1>4. ASSUME OrphanEnds(c)
      PROVE  Moves(c, pc[c], op[c], attempted[c], frame[Me(c)], NoFrame)
  BY <1>4, Stays DEF OrphanEnds, Moves
<1> QED
  BY <1>1, <1>2, <1>3, <1>4 DEF HookCancelled, PlainCancelled, ShieldReturns, OrphanEnds

\* CancelledError in the shielded rollback of c: in a hook, or it ends the task.
JobBreaks(c) == HookCancelled(Job(c)) \/ RuntimeCancelled(Job(c)) \/ Aborted(Job(c))

LEMMA JobMoves ==
  ASSUME FramesFit, NEW c \in Callers, JobBreaks(c)
  PROVE  /\ UNCHANGED <<pstate, plock, pc, ret>>
         /\ frame[Job(c)].at \in Working
         /\ \/ /\ frame[Job(c)].at = "hook" /\ rlock' = rlock
               /\ rt' = [rt EXCEPT ![frame[Job(c)].svc] = "error"]
               /\ Moves(c, pc[c], op[c], attempted[c],
                        frame[Me(c)], [frame[Job(c)] EXCEPT !.at = "abort"])
            \/ /\ rt' = rt /\ Unlock(Job(c))
               /\ frame[Job(c)].at \in {"announce", "hook"} => "publish" \in CancelPoints
               /\ Moves(c, pc[c], op[c], attempted[c],
                        frame[Me(c)], [NoFrame EXCEPT !.at = "lost"])
<1>1. CASE HookCancelled(Job(c))
  <2>1. frame' = [frame EXCEPT ![Job(c)] = [frame[Job(c)] EXCEPT !.at = "abort"]]
    BY <1>1 DEF HookCancelled
  <2>2. Moves(c, pc[c], op[c], attempted[c], frame[Me(c)], [frame[Job(c)] EXCEPT !.at = "abort"])
    BY <1>1, <2>1, Stays DEF HookCancelled, Moves
  <2> QED
    BY <1>1, <2>2 DEF HookCancelled, Working, Holding
<1>2. CASE RuntimeCancelled(Job(c)) \/ Aborted(Job(c))
  <2>1. /\ Break(Job(c)) /\ Unlock(Job(c)) /\ UNCHANGED <<pstate, rt, op>>
        /\ frame[Job(c)].at \in Working
        /\ frame[Job(c)].at \in {"announce", "hook"} => "publish" \in CancelPoints
    BY <1>2 DEF RuntimeCancelled, Aborted, Working, Holding
  <2>2. \A d : d = Job(c) /\ Break(d) =>
           /\ frame' = [frame EXCEPT ![d] = [NoFrame EXCEPT !.at = "lost"]]
           /\ UNCHANGED <<pc, ret, attempted, plock>>
    BY DriverNames DEF Break
  <2>3. /\ frame' = [frame EXCEPT ![Job(c)] = [NoFrame EXCEPT !.at = "lost"]]
        /\ UNCHANGED <<pc, ret, attempted, plock>>
    BY <2>1, <2>2
  <2>4. Moves(c, pc[c], op[c], attempted[c], frame[Me(c)], [NoFrame EXCEPT !.at = "lost"])
    BY <2>1, <2>3, Stays DEF Moves
  <2> QED
    BY <2>1, <2>3, <2>4
<1> QED
  BY <1>1, <1>2 DEF JobBreaks

-----------------------------------------------------------------------------
(* Types and frames *)

CallerStep(c) ==
    \/ Call(c, "start") \/ Call(c, "stop") \/ Obtain(c) \/ Carry(c)
    \/ HookCancelled(Me(c)) \/ Breaks(c) \/ PlainCancelled(c)

DriverStep(d) == Enter(d) \/ Announced(d) \/ Concluded(d) \/ \E ok \in BOOLEAN : HookReturns(d, ok)

\* A step of c: of its own, of one of its drivers, or its rollback is broken off.
StepOf(c) == CallerStep(c) \/ JobBreaks(c) \/ \E d \in {Me(c), Job(c)} : DriverStep(d)

LEMMA Steps ==
  Next => (\E c \in Callers : StepOf(c)) \/ \E i \in Services : Judge(i)
<1>1. ASSUME NEW d \in Drivers, Enter(d) \/ Drive(d) \/ HookCancelled(d) \/ RuntimeCancelled(d)
      PROVE  \E c \in Callers : StepOf(c)
  <2>1. PICK c \in Callers : d = Me(c) \/ d = Job(c)
    BY DriverNames
  <2>2. DriverStep(d) \/ HookCancelled(d) \/ RuntimeCancelled(d) \/ Aborted(d)
    BY <1>1 DEF DriverStep, Drive
  <2>3. StepOf(c)
    BY <2>1, <2>2, Zenon DEF StepOf, CallerStep, Breaks, JobBreaks
  <2> QED
    BY <2>3
<1>2. ASSUME NEW c \in Callers,
             \/ Call(c, "start") \/ Call(c, "stop") \/ Obtain(c) \/ Carry(c)
             \/ FailedCancelled(c) \/ PlainCancelled(c)
      PROVE  StepOf(c)
  BY <1>2, Zenon DEF StepOf, CallerStep, Breaks
<1> QED
  BY <1>1, <1>2, Zenon DEF Next

\* The variables that Moves does not speak of.
RestTyped ==
    /\ pstate' \in PipelineState /\ rt' \in [Services -> Table!ServiceState]
    /\ plock' \in Callers \cup {NoOne} /\ rlock' \in [Services -> Drivers \cup {NoOne}]
    /\ ret' \in [Callers -> {"none", "true", "false", "cancelled", "invalid"}]

LEMMA UnlockTyped ==
  ASSUME FramesFit, NEW d, Unlock(d)
  PROVE  rlock' \in [Services -> Drivers \cup {NoOne}]
  BY DEF FramesFit, TypeOK, Unlock

LEMMA AdvanceTyped ==
  ASSUME FramesFit, NEW d, NEW result, Advance(d, result)
  PROVE  pstate' \in PipelineState
  BY DEF FramesFit, TypeOK, Advance, Raised, Lowered, PipelineState

LEMMA CallerTyped ==
  ASSUME FramesFit, NEW c \in Callers, CallerStep(c)
  PROVE  RestTyped
<1>1. CASE Call(c, "start") \/ Call(c, "stop") \/ Obtain(c) \/ StartLoop(c) \/ StopLoop(c) \/ Finish(c)
  BY <1>1 DEF FramesFit, TypeOK, RestTyped, Call, Obtain, Start, Stop, StartLoop, StopLoop, Finish,
     Return, PipelineState
<1>2. CASE Breaks(c)
  <2>1. Unwind(c) /\ UNCHANGED <<pstate, rt>> /\ (Unlock(Me(c)) \/ rlock' = rlock)
    BY <1>2, BreakMoves
  <2>2. rlock' \in [Services -> Drivers \cup {NoOne}]
    BY <2>1, UnlockTyped DEF FramesFit, TypeOK
  <2> QED
    BY <2>1, <2>2 DEF FramesFit, TypeOK, RestTyped, Unwind, Return
<1>3. CASE ShieldReturns(c) \/ OrphanEnds(c) \/ HookCancelled(Me(c)) \/ PlainCancelled(c)
  BY <1>3, TransitionTable DEF FramesFit, TypeOK, RestTyped, ShieldReturns, OrphanEnds, HookCancelled,
     PlainCancelled, Return, PipelineState
<1> QED
  BY <1>1, <1>2, <1>3 DEF CallerStep, Carry

LEMMA DriverTyped ==
  ASSUME FramesFit, NEW c \in Callers, NEW d \in {Me(c), Job(c)}, DriverStep(d)
  PROVE  RestTyped
<1>0. d \in Drivers /\ d[1] = c
  BY DriverNames
<1>1. CASE Enter(d)
  <2>1. pstate' \in PipelineState
    BY <1>1, AdvanceTyped DEF Enter, Raise, FramesFit, TypeOK
  <2>2. /\ plock' \in Callers \cup {NoOne}
        /\ ret' \in [Callers -> {"none", "true", "false", "cancelled", "invalid"}]
    BY <1>0, <1>1 DEF Enter, Raise, Return, FramesFit, TypeOK
  <2>3. /\ rt' \in [Services -> Table!ServiceState]
        /\ rlock' \in [Services -> Drivers \cup {NoOne}]
    <3>1. \/ UNCHANGED <<rt, rlock>>
          \/ \E i, new : /\ new \in {"initializing", "stopping"}
                         /\ rt' = [rt EXCEPT ![i] = new] /\ rlock' = [rlock EXCEPT ![i] = d]
      BY <1>1, Zenon DEF Enter
    <3> QED
      BY <1>0, <3>1, TransitionTable DEF FramesFit, TypeOK
  <2> QED
    BY <2>1, <2>2, <2>3 DEF RestTyped
<1>2. CASE Announced(d) \/ \E ok \in BOOLEAN : HookReturns(d, ok)
  BY <1>2, TransitionTable DEF Announced, HookReturns, FramesFit, TypeOK, RestTyped
<1>3. CASE Concluded(d)
  BY <1>3, UnlockTyped, AdvanceTyped DEF Concluded, FramesFit, TypeOK, RestTyped
<1> QED
  BY <1>1, <1>2, <1>3 DEF DriverStep

LEMMA CallerFits ==
  ASSUME FramesFit, NEW c \in Callers, CallerStep(c)
  PROVE  FramesFit'
<1> DEFINE f == frame[Me(c)]
           j == frame[Job(c)]
           m == op[c]
           t == attempted[c]
<1>0. /\ f \in Frames /\ j \in Frames /\ m \in {"start", "stop"} /\ t \in 0..N /\ pc[c] \in Points
      /\ Framed(pc[c], m, t, f, j) /\ RestTyped /\ NoFrame \in Frames /\ 0 \in 0..N /\ 1 \in 0..N
  BY CallerTyped, DriverNames, FrameTypes, PipelineAssumption DEF FramesFit, TypeOK
<1> HIDE DEF f, j, m, t
<1>1. ASSUME NEW p \in Points, NEW m2 \in {"start", "stop"}, NEW t2 \in 0..N,
             NEW f2 \in Frames, NEW j2 \in Frames,
             Moves(c, p, m2, t2, f2, j2), Framed(p, m2, t2, f2, j2)
      PROVE  FramesFit'
  BY <1>0, <1>1, MovesFit DEF RestTyped
<1>2. CASE \E method \in {"start", "stop"} : Call(c, method)
  <2>1. PICK method \in {"start", "stop"} : Call(c, method)
    BY <1>2
  <2>2. pc[c] = "idle" /\ j.at = "none" /\ Moves(c, "waiting", method, t, f, j)
    BY <2>1, EntryMoves DEF f, j, t
  <2> QED
    BY <1>0, <1>1, <2>2 DEF Framed, Points, InCall
<1>3. CASE Obtain(c)
  <2>1. /\ pc[c] = "waiting"
        /\ \/ Moves(c, "idle", m, 0, f, j)
           \/ m = "start" /\ Moves(c, "starting", m, t, f, j)
           \/ m = "stop" /\ Moves(c, "stopping", m, t, f, j)
    BY <1>3, EntryMoves DEF Obtain, f, j, m, t
  <2>2. /\ Framed("idle", m, 0, f, j)
        /\ m = "start" => Framed("starting", m, t, f, j)
        /\ m = "stop" => Framed("stopping", m, t, f, j)
    BY <1>0, <2>1 DEF Framed, InCall
  <2>3. {"idle", "starting", "stopping"} \subseteq Points
    BY DEF Points
  <2> QED
    BY <1>0, <1>1, <2>1, <2>2, <2>3
<1>4. CASE StartLoop(c)
  <2>1. pc[c] = "starting" /\ Moves(c, "raising", m, 1, Entering(1), j)
    BY <1>4, EntryMoves DEF j, m
  <2>2. Entering(1) \in Frames /\ Framed("raising", m, 1, Entering(1), j)
    BY <1>0, <2>1, FrameTypes DEF Framed, InCall, Working
  <2> QED
    BY <1>0, <1>1, <2>1, <2>2 DEF Points
<1>5. CASE StopLoop(c)
  <2>1. pc[c] = "stopping" /\ Moves(c, "lowering", m, t, Entering(N), j)
    BY <1>5, EntryMoves DEF j, m, t
  <2>2. Entering(N) \in Frames /\ Framed("lowering", m, t, Entering(N), j)
    BY <1>0, <2>1, FrameTypes DEF Framed, InCall, Working
  <2> QED
    BY <1>0, <1>1, <2>1, <2>2 DEF Points
<1>6. CASE Finish(c) \/ PlainCancelled(c)
  <2>1. Moves(c, "idle", m, 0, f, j) /\ pc[c] \notin InCall
    BY <1>6, EntryMoves, CancelMoves DEF f, j, m, PlainCancelled, InCall, Publishing
  <2>2. Framed("idle", m, 0, f, j)
    BY <1>0, <2>1 DEF Framed, InCall
  <2> QED
    BY <1>0, <1>1, <2>1, <2>2 DEF Points
<1>7. CASE Breaks(c)
  <2>1. Unwind(c) /\ op' = op /\ pc[c] \in InCall \cup {"failed"}
    BY <1>0, <1>7, BreakMoves, FrameTypes DEF Working, Holding, Framed, f
  <2>2. \/ m = "start" /\ Moves(c, "shielded", m, t, NoFrame, Entering(t))
        \/ m = "stop" /\ Moves(c, "idle", m, 0, NoFrame, j)
    BY <2>1, UnwindMoves DEF j, m, t
  <2>3. CASE m = "start" /\ Moves(c, "shielded", m, t, NoFrame, Entering(t))
    <3>1. t \in Services
      BY <1>0, <2>1, <2>3 DEF Framed, InCall
    <3>2. Entering(t) \in Frames /\ Framed("shielded", m, t, NoFrame, Entering(t))
      BY <2>3, <3>1, FrameTypes DEF Framed, InCall, Working
    <3> QED
      BY <1>0, <1>1, <2>3, <3>2 DEF Points
  <2>4. CASE m = "stop" /\ Moves(c, "idle", m, 0, NoFrame, j)
    <3>1. Framed("idle", m, 0, NoFrame, j)
      BY <1>0, <2>1 DEF Framed, InCall
    <3> QED
      BY <1>0, <1>1, <2>4, <3>1 DEF Points
  <2> QED
    BY <2>2, <2>3, <2>4
<1>8. CASE HookCancelled(Me(c))
  <2> DEFINE next == [f EXCEPT !.at = "abort"]
  <2>1. f.at = "hook" /\ Moves(c, pc[c], m, t, next, j)
    BY <1>8, CancelMoves DEF f, j, m, t
  <2>2. next \in Frames /\ next.at = "abort" /\ next.svc = f.svc
    BY <1>0, AtUpdate
  <2> HIDE DEF next
  <2>3. Framed(pc[c], m, t, next, j)
    BY <1>0, <2>1, <2>2, FrameTypes DEF Framed, InCall, Working, Holding
  <2> QED
    BY <1>0, <1>1, <2>1, <2>2, <2>3
<1>9. CASE ShieldReturns(c) \/ OrphanEnds(c)
  <2>1. PICK p \in {"cancelled", "idle", pc[c]}, t2 \in {0, t} :
          /\ Moves(c, p, m, t2, f, NoFrame)
          /\ \/ pc[c] = "shielded" /\ (p = "idle" \/ p = "cancelled")
             \/ pc[c] # "shielded" /\ j.at # "none" /\ p = pc[c]
    BY <1>9, CancelMoves DEF f, j, m, t
  <2>2. Framed(p, m, t2, f, NoFrame) /\ p \in Points /\ t2 \in 0..N
    BY <1>0, <2>1, FrameTypes DEF Framed, InCall, Working, Holding, Points
  <2> QED
    BY <1>0, <1>1, <2>1, <2>2
<1> QED
  BY <1>2, <1>3, <1>4, <1>5, <1>6, <1>7, <1>8, <1>9 DEF CallerStep, Carry

LEMMA DriverFits ==
  ASSUME FramesFit, NEW c \in Callers, NEW d \in {Me(c), Job(c)}, DriverStep(d)
  PROVE  FramesFit'
<1> DEFINE f == frame[Me(c)]
           j == frame[Job(c)]
           m == op[c]
           t == attempted[c]
<1>0. /\ f \in Frames /\ j \in Frames /\ m \in {"start", "stop"} /\ t \in 0..N /\ pc[c] \in Points
      /\ Framed(pc[c], m, t, f, j) /\ RestTyped /\ NoFrame \in Frames /\ 0 \in 0..N /\ 1 \in 0..N
      /\ Me(c) # Job(c) /\ frame[d] = (IF d = Me(c) THEN f ELSE j) /\ frame[d] \in Frames
  BY DriverTyped, DriverNames, FrameTypes, PipelineAssumption DEF FramesFit, TypeOK
<1> HIDE DEF f, j, m, t
<1>1. ASSUME NEW p \in Points, NEW m2 \in {"start", "stop"}, NEW t2 \in 0..N,
             NEW f2 \in Frames, NEW j2 \in Frames,
             Moves(c, p, m2, t2, f2, j2), Framed(p, m2, t2, f2, j2)
      PROVE  FramesFit'
  BY <1>0, <1>1, MovesFit DEF RestTyped
\* The driver stays in its call.
<1>2. ASSUME NEW g \in Frames, g.at \in Working, g.svc = frame[d].svc, frame[d].at \in Working,
             Moves(c, pc[c], m, t, IF d = Me(c) THEN g ELSE f, IF d = Job(c) THEN g ELSE j)
      PROVE  FramesFit'
  <2>1. CASE d = Me(c)
    <3>1. Framed(pc[c], m, t, g, j)
      BY <1>0, <1>2, <2>1, FrameTypes DEF Framed, Working, Holding
    <3> QED
      BY <1>0, <1>1, <1>2, <2>1, <3>1
  <2>2. CASE d = Job(c)
    <3>1. Framed(pc[c], m, t, f, g)
      BY <1>0, <1>2, <2>2, FrameTypes DEF Framed, Working, Holding
    <3> QED
      BY <1>0, <1>1, <1>2, <2>2, <3>1
  <2> QED
    BY <2>1, <2>2
\* The loop around the call goes on.
<1>3. ASSUME NEW result \in BOOLEAN, Advance(d, result), frame[d].at \in Working, op' = op
      PROVE  FramesFit'
  <2> DEFINE i == frame[d].svc
             ok == frame[d].all /\ result
  <2>0. /\ i \in Services /\ ok \in BOOLEAN /\ 0 \in 0..N
        /\ (d = Me(c) => pc[c] \in InCall /\ i = f.svc) /\ (d = Job(c) => j.at \in Working)
    BY <1>0, <1>3, FrameTypes DEF Framed, Working, Holding
  <2>1. \/ /\ d = Me(c) /\ pc[c] = "raising" /\ i < N
           /\ Moves(c, "raising", m, i + 1, Entering(i + 1), j)
        \/ /\ d = Me(c) /\ pc[c] = "raising"
           /\ Moves(c, "up", m, t, NoFrame, j)
        \/ /\ d = Me(c) /\ pc[c] = "raising"
           /\ Moves(c, "unwinding", m, t, Entering(i), j)
        \/ /\ d = Me(c) /\ pc[c] \in {"unwinding", "lowering"} /\ i > 1
           /\ Moves(c, pc[c], m, t, [Entering(i - 1) EXCEPT !.all = ok], j)
        \/ /\ d = Me(c) /\ pc[c] = "unwinding"
           /\ Moves(c, "failed", m, t, NoFrame, j)
        \/ /\ d = Me(c) /\ pc[c] = "lowering"
           /\ Moves(c, "down", m, t, NoFrame, j)
        \/ /\ d = Job(c) /\ i > 1
           /\ Moves(c, pc[c], m, t, f, [Entering(i - 1) EXCEPT !.all = ok])
        \/ /\ d = Job(c)
           /\ Moves(c, pc[c], m, t, f, [NoFrame EXCEPT !.at = "done"])
    BY <1>3, AdvanceMoves DEF f, j, m, t
  <2> HIDE DEF i, ok
  <2>2. CASE d = Me(c) /\ pc[c] = "raising" /\ i < N /\ Moves(c, "raising", m, i + 1, Entering(i + 1), j)
    <3>1. i + 1 \in Services /\ i + 1 \in 0..N
      BY <2>0, <2>2, PipelineAssumption DEF Services
    <3>2. Entering(i + 1) \in Frames /\ Framed("raising", m, i + 1, Entering(i + 1), j)
      BY <1>0, <2>2, <3>1, FrameTypes DEF Framed, InCall, Working
    <3> QED
      BY <1>0, <1>1, <2>2, <3>1, <3>2
  <2>3. CASE d = Me(c) /\ pc[c] = "raising" /\ Moves(c, "up", m, t, NoFrame, j)
    <3>1. Framed("up", m, t, NoFrame, j)
      BY <1>0, <2>3 DEF Framed, InCall
    <3> QED
      BY <1>0, <1>1, <2>3, <3>1 DEF Points
  <2>4. CASE d = Me(c) /\ pc[c] = "raising" /\ Moves(c, "unwinding", m, t, Entering(i), j)
    <3>1. PICK e \in Frames : e = Entering(i) /\ e.at = "lock" /\ e.svc = i
      BY <2>0, EnteringTypes
    <3>2. t = i /\ i <= t
      BY <1>0, <2>0, <2>4, FrameTypes DEF Framed
    <3>3. Framed("unwinding", m, t, e, j)
      BY <1>0, <2>0, <2>4, <3>1, <3>2 DEF Framed, InCall, Working
    <3>4. Moves(c, "unwinding", m, t, e, j)
      BY <2>4, <3>1
    <3> QED
      BY <1>0, <1>1, <3>3, <3>4 DEF Points
  <2>5. ASSUME i > 1
        PROVE  /\ [Entering(i - 1) EXCEPT !.all = ok] \in Frames
               /\ [Entering(i - 1) EXCEPT !.all = ok].at = "lock"
               /\ [Entering(i - 1) EXCEPT !.all = ok].svc \in Services
               /\ \A k \in 0..N : i <= k => [Entering(i - 1) EXCEPT !.all = ok].svc <= k
    <3>1. PICK k \in Services : k = i - 1
      BY <2>0, <2>5, PipelineAssumption DEF Services
    <3>2. /\ [Entering(k) EXCEPT !.all = ok] \in Frames
          /\ [Entering(k) EXCEPT !.all = ok].at = "lock"
          /\ [Entering(k) EXCEPT !.all = ok].svc = k
      BY <2>0, FrameTypes
    <3>3. \A l \in 0..N : i <= l => k <= l
      BY <2>0, <3>1, FrameTypes
    <3> QED
      BY <3>1, <3>2, <3>3
  <2> DEFINE next == [Entering(i - 1) EXCEPT !.all = ok]
  <2> HIDE DEF next
  <2>6. CASE /\ d = Me(c) /\ pc[c] \in {"unwinding", "lowering"} /\ i > 1
             /\ Moves(c, pc[c], m, t, next, j)
    <3>1. next \in Frames /\ Framed(pc[c], m, t, next, j)
      BY <1>0, <2>0, <2>5, <2>6 DEF Framed, InCall, Working, next
    <3> QED
      BY <1>0, <1>1, <2>6, <3>1
  <2>7. CASE d = Me(c) /\ pc[c] = "unwinding" /\ Moves(c, "failed", m, t, NoFrame, j)
    <3>1. Framed("failed", m, t, NoFrame, j)
      BY <1>0, <2>7 DEF Framed, InCall
    <3> QED
      BY <1>0, <1>1, <2>7, <3>1 DEF Points
  <2>8. CASE d = Me(c) /\ pc[c] = "lowering" /\ Moves(c, "down", m, t, NoFrame, j)
    <3>1. Framed("down", m, t, NoFrame, j)
      BY <1>0, <2>8 DEF Framed, InCall
    <3> QED
      BY <1>0, <1>1, <2>8, <3>1 DEF Points
  <2>9. CASE d = Job(c) /\ i > 1 /\ Moves(c, pc[c], m, t, f, next)
    <3>1. next \in Frames /\ Framed(pc[c], m, t, f, next)
      BY <1>0, <2>0, <2>5, <2>9 DEF Framed, Working, Holding, next
    <3> QED
      BY <1>0, <1>1, <2>9, <3>1
  <2>10. CASE d = Job(c) /\ Moves(c, pc[c], m, t, f, [NoFrame EXCEPT !.at = "done"])
    <3>1. Framed(pc[c], m, t, f, [NoFrame EXCEPT !.at = "done"])
      BY <1>0, <2>0, <2>10, FrameTypes DEF Framed, Working, Holding
    <3> QED
      BY <1>0, <1>1, <2>10, <3>1, FrameTypes
  <2> QED
    BY <2>1, <2>2, <2>3, <2>4, <2>6, <2>7, <2>8, <2>9, <2>10 DEF next
<1>4. CASE Enter(d)
  <2> DEFINE next == [frame[d] EXCEPT !.at = "announce"]
  <2>1. /\ frame[d].at = "lock" /\ op' = op
        /\ \/ Advance(d, TRUE)
           \/ Moves(c, pc[c], m, t, IF d = Me(c) THEN next ELSE f, IF d = Job(c) THEN next ELSE j)
           \/ d = Job(c) /\ Moves(c, pc[c], m, t, f, [NoFrame EXCEPT !.at = "broke"])
           \/ d = Me(c) /\ Moves(c, "idle", m, 0, NoFrame, j)
    BY <1>4, EnterMoves DEF f, j, m, t
  <2>2. next \in Frames /\ next.at = "announce" /\ next.svc = frame[d].svc
    BY <1>0, AtUpdate
  <2> HIDE DEF next
  <2>3. CASE d = Job(c) /\ Moves(c, pc[c], m, t, f, [NoFrame EXCEPT !.at = "broke"])
    <3>1. Framed(pc[c], m, t, f, [NoFrame EXCEPT !.at = "broke"])
      BY <1>0, <2>1, <2>3, FrameTypes DEF Framed, Working, Holding
    <3> QED
      BY <1>0, <1>1, <2>3, <3>1, FrameTypes
  <2>4. CASE d = Me(c) /\ Moves(c, "idle", m, 0, NoFrame, j)
    <3>1. pc[c] \in InCall
      BY <1>0, <2>1, <2>4, FrameTypes DEF Framed
    <3>2. Framed("idle", m, 0, NoFrame, j)
      BY <1>0, <3>1 DEF Framed, InCall
    <3> QED
      BY <1>0, <1>1, <2>4, <3>2 DEF Points
  <2> QED
    BY <1>2, <1>3, <2>1, <2>2, <2>3, <2>4 DEF Working, Holding
<1>5. CASE Announced(d)
  <2> DEFINE next == [frame[d] EXCEPT !.at = "hook"]
  <2>1. /\ frame[d].at = "announce"
        /\ Moves(c, pc[c], m, t, IF d = Me(c) THEN next ELSE f, IF d = Job(c) THEN next ELSE j)
    BY <1>5, DriveMoves DEF f, j, m, t
  <2>2. next \in Frames /\ next.at = "hook" /\ next.svc = frame[d].svc
    BY <1>0, AtUpdate
  <2> HIDE DEF next
  <2> QED
    BY <1>2, <2>1, <2>2 DEF Working, Holding
<1>6. ASSUME NEW ok \in BOOLEAN, HookReturns(d, ok) PROVE FramesFit'
  <2> DEFINE at == [frame[d] EXCEPT !.at = "conclude"]
             next == [at EXCEPT !.good = ok]
  <2>1. /\ frame[d].at = "hook"
        /\ Moves(c, pc[c], m, t, IF d = Me(c) THEN next ELSE f, IF d = Job(c) THEN next ELSE j)
    BY <1>6, DriveMoves DEF f, j, m, t
  <2>2. at \in Frames /\ at.at = "conclude" /\ at.svc = frame[d].svc
    BY <1>0, AtUpdate
  <2> HIDE DEF at
  <2>3. next \in Frames /\ next.at = "conclude" /\ next.svc = frame[d].svc
    BY <2>2, GoodUpdate
  <2> HIDE DEF next
  <2> QED
    BY <1>2, <2>1, <2>3 DEF Working, Holding
<1>7. CASE Concluded(d)
  <2>1. frame[d].good \in BOOLEAN /\ Advance(d, frame[d].good) /\ frame[d].at = "conclude" /\ op' = op
    BY <1>0, <1>7 DEF Concluded, Frames
  <2> QED
    BY <1>3, <2>1 DEF Working, Holding
<1> QED
  BY <1>4, <1>5, <1>6, <1>7 DEF DriverStep

LEMMA JobFits ==
  ASSUME FramesFit, NEW c \in Callers, JobBreaks(c)
  PROVE  FramesFit'
<1> DEFINE f == frame[Me(c)]
           j == frame[Job(c)]
           m == op[c]
           t == attempted[c]
<1>0. /\ f \in Frames /\ j \in Frames /\ m \in {"start", "stop"} /\ t \in 0..N /\ pc[c] \in Points
      /\ Framed(pc[c], m, t, f, j) /\ rt \in [Services -> Table!ServiceState]
      /\ rlock \in [Services -> Drivers \cup {NoOne}] /\ j.at \in Working
  BY DriverNames, JobMoves DEF FramesFit, TypeOK
<1>1. PICK j2 \in Frames :
        /\ Moves(c, pc[c], m, t, f, j2)
        /\ (j2.at = "abort" /\ j2.svc = j.svc) \/ (j2.at = "lost" /\ j2.svc = 0)
  <2>1. /\ [j EXCEPT !.at = "abort"] \in Frames /\ [j EXCEPT !.at = "abort"].at = "abort"
        /\ [j EXCEPT !.at = "abort"].svc = j.svc
    BY <1>0, AtUpdate
  <2>2. /\ [NoFrame EXCEPT !.at = "lost"] \in Frames /\ [NoFrame EXCEPT !.at = "lost"].at = "lost"
        /\ [NoFrame EXCEPT !.at = "lost"].svc = 0
    BY FrameTypes
  <2>3. \/ Moves(c, pc[c], m, t, f, [j EXCEPT !.at = "abort"])
        \/ Moves(c, pc[c], m, t, f, [NoFrame EXCEPT !.at = "lost"])
    BY JobMoves
  <2> QED
    BY <2>1, <2>2, <2>3, Zenon
<1> HIDE DEF f, j, m, t
<1>2. Framed(pc[c], m, t, f, j2)
  BY <1>0, <1>1 DEF Framed, Working, Holding
<1>3. RestTyped
  <2>1. rlock' \in [Services -> Drivers \cup {NoOne}]
    BY <1>0, JobMoves, UnlockTyped
  <2>2. rt' \in [Services -> Table!ServiceState]
    BY <1>0, JobMoves, TransitionTable
  <2> QED
    BY <2>1, <2>2, JobMoves DEF RestTyped, FramesFit, TypeOK
<1> QED
  BY <1>0, <1>1, <1>2, <1>3, MovesFit DEF RestTyped

LEMMA FramesFitInit == Init => FramesFit
<1> SUFFICES ASSUME Init PROVE FramesFit
  OBVIOUS
<1>1. TypeOK
  BY TransitionTable, FrameTypes, PipelineAssumption DEF Init, TypeOK, PipelineState, Points
<1>2. \A c \in Callers : Framed(pc[c], op[c], attempted[c], frame[Me(c)], frame[Job(c)])
  BY DriverNames, FrameTypes DEF Init, Framed, InCall, Working, Holding
<1> QED
  BY <1>1, <1>2 DEF FramesFit

LEMMA FramesFitStep == FramesFit /\ [Next]_vars => FramesFit'
<1> SUFFICES ASSUME FramesFit, [Next]_vars PROVE FramesFit'
  OBVIOUS
<1>1. ASSUME NEW i \in Services, Judge(i) PROVE FramesFit'
  BY <1>1, TransitionTable DEF Judge, FramesFit, TypeOK
<1>2. CASE UNCHANGED vars
  BY <1>2 DEF vars, FramesFit, TypeOK
<1> QED
  BY <1>1, <1>2, Steps, CallerFits, DriverFits, JobFits DEF StepOf

\* The variables keep their types, whatever fails and is cancelled.
THEOREM TypeCorrect == Spec => []TypeOK
<1>1. FramesFit => TypeOK
  BY DEF FramesFit
<1> QED
  BY <1>1, FramesFitInit, FramesFitStep, PTL DEF Spec

-----------------------------------------------------------------------------
(* The locks *)

Outside == {"idle", "waiting"}

OneCallerIn == \A c \in Callers : pc[c] \notin Outside <=> plock = c

OneDriverIn ==
    \A d \in Drivers : \A i \in Services :
        (frame[d].svc = i /\ frame[d].at \in Holding) <=> rlock[i] = d

LEMMA LocksAre == LocksExclude <=> OneCallerIn /\ OneDriverIn
  BY DEF LocksExclude, OneCallerIn, OneDriverIn, Outside, Holding

\* A caller stays inside or outside, leaves, or enters.
LEMMA CallerKeeps ==
  ASSUME FramesFit, OneCallerIn, NEW c \in Callers,
         \A e \in Callers \ {c} : pc'[e] = pc[e],
         \/ plock' = plock /\ (pc'[c] \in Outside <=> pc[c] \in Outside)
         \/ plock' = (IF plock = c THEN NoOne ELSE plock) /\ pc'[c] \in Outside
         \/ plock = NoOne /\ plock' = c /\ pc'[c] \notin Outside
  PROVE  OneCallerIn'
  BY PipelineAssumption DEF OneCallerIn

\* The other drivers stay where they are, or outside.
OtherDrivers(d) ==
    \A e \in Drivers \ {d} :
        frame'[e] = frame[e] \/ (frame'[e].at \notin Holding /\ frame[e].at \notin Holding)

\* A driver stays outside, keeps its lock, gives it back, obtains it.
LEMMA DriverQueues ==
  ASSUME FramesFit, OneDriverIn, NEW d \in Drivers, OtherDrivers(d), rlock' = rlock,
         frame[d].at \notin Holding, frame'[d].at \notin Holding
  PROVE  OneDriverIn'
  BY DEF OneDriverIn, OtherDrivers

LEMMA DriverHolds ==
  ASSUME FramesFit, OneDriverIn, NEW d \in Drivers, OtherDrivers(d), rlock' = rlock,
         frame[d].at \in Holding, frame'[d].at \in Holding, frame'[d].svc = frame[d].svc
  PROVE  OneDriverIn'
  BY DEF OneDriverIn, OtherDrivers

LEMMA DriverUnlocks ==
  ASSUME FramesFit, OneDriverIn, NEW d \in Drivers, OtherDrivers(d), Unlock(d),
         frame'[d].at \notin Holding
  PROVE  OneDriverIn'
  BY PipelineAssumption DEF OneDriverIn, OtherDrivers, Unlock, Drivers

LEMMA DriverObtains ==
  ASSUME FramesFit, OneDriverIn, NEW d \in Drivers, OtherDrivers(d),
         NEW i \in Services, rlock[i] = NoOne, rlock' = [rlock EXCEPT ![i] = d],
         frame[d].at \notin Holding, frame'[d].at \in Holding, frame'[d].svc = i
  PROVE  OneDriverIn'
<1>0. rlock \in [Services -> Drivers \cup {NoOne}] /\ NoOne \notin Drivers
  BY PipelineAssumption DEF FramesFit, TypeOK, Drivers
<1>1. ASSUME NEW e \in Drivers \ {d}, NEW k \in Services
      PROVE  (frame'[e].svc = k /\ frame'[e].at \in Holding) <=> rlock'[k] = e
  BY <1>0 DEF OneDriverIn, OtherDrivers
<1>2. ASSUME NEW k \in Services
      PROVE  (frame'[d].svc = k /\ frame'[d].at \in Holding) <=> rlock'[k] = d
  BY <1>0 DEF OneDriverIn
<1> QED
  BY <1>1, <1>2 DEF OneDriverIn

LEMMA OthersStay ==
  ASSUME FramesFit, NEW c \in Callers, NEW p, NEW method, NEW tried, NEW f, NEW j,
         Moves(c, p, method, tried, f, j)
  PROVE  /\ \A e \in Drivers \ {Me(c), Job(c)} : frame'[e] = frame[e]
         /\ \A e \in Callers \ {c} : pc'[e] = pc[e]
  BY OneMoves, DriverNames

\* Between two runtime calls no lock is held.
LEMMA AdvanceLeaves ==
  ASSUME FramesFit, NEW c \in Callers, NEW d \in {Me(c), Job(c)}, NEW result \in BOOLEAN,
         Advance(d, result), frame[d].at \in Working, op' = op
  PROVE  /\ \A e \in Drivers \ {d} : frame'[e] = frame[e]
         /\ frame'[d].at \notin Holding
         /\ pc'[c] \in Outside <=> pc[c] \in Outside
         /\ \A e \in Callers \ {c} : pc'[e] = pc[e]
<1> DEFINE i == frame[d].svc
           ok == frame[d].all /\ result
           next == [Entering(i - 1) EXCEPT !.all = ok]
<1>0. i \in Services /\ ok \in BOOLEAN /\ frame[d] \in Frames /\ d \in Drivers
  BY DriverNames, FrameTypes DEF FramesFit, TypeOK, Framed, Working, Holding, Frames
<1>1. i < N => Entering(i + 1).at = "lock"
  <2>1. i < N => i + 1 \in Services
    BY <1>0, PipelineAssumption DEF Services
  <2> QED
    BY <2>1, FrameTypes
<1>2. i > 1 => next.at = "lock"
  <2>1. ASSUME i > 1 PROVE next.at = "lock"
    <3>1. PICK k \in Services : k = i - 1
      BY <1>0, <2>1, PipelineAssumption DEF Services
    <3>2. [Entering(k) EXCEPT !.all = ok].at = "lock"
      BY <1>0, EnteringSaid
    <3> QED
      BY <3>1, <3>2
  <2> QED
    BY <2>1
<1>3. Entering(i).at = "lock" /\ NoFrame.at = "none" /\ [NoFrame EXCEPT !.at = "done"].at = "done"
  BY <1>0, FrameTypes
<1>4. ASSUME NEW p, NEW t, NEW f, NEW j, Moves(c, p, op[c], t, f, j)
      PROVE  /\ pc'[c] = p /\ frame'[Me(c)] = f /\ frame'[Job(c)] = j
             /\ \A e \in Callers \ {c} : pc'[e] = pc[e]
             /\ \A e \in Drivers \ {Me(c), Job(c)} : frame'[e] = frame[e]
  BY <1>4, OneMoves, OthersStay
<1>5. \/ /\ d = Me(c) /\ pc[c] = "raising" /\ i < N
         /\ Moves(c, "raising", op[c], i + 1, Entering(i + 1), frame[Job(c)])
      \/ /\ d = Me(c) /\ pc[c] = "raising"
         /\ Moves(c, "up", op[c], attempted[c], NoFrame, frame[Job(c)])
      \/ /\ d = Me(c) /\ pc[c] = "raising"
         /\ Moves(c, "unwinding", op[c], attempted[c], Entering(i), frame[Job(c)])
      \/ /\ d = Me(c) /\ pc[c] \in {"unwinding", "lowering"} /\ i > 1
         /\ Moves(c, pc[c], op[c], attempted[c], next, frame[Job(c)])
      \/ /\ d = Me(c) /\ pc[c] = "unwinding"
         /\ Moves(c, "failed", op[c], attempted[c], NoFrame, frame[Job(c)])
      \/ /\ d = Me(c) /\ pc[c] = "lowering"
         /\ Moves(c, "down", op[c], attempted[c], NoFrame, frame[Job(c)])
      \/ /\ d = Job(c) /\ i > 1
         /\ Moves(c, pc[c], op[c], attempted[c], frame[Me(c)], next)
      \/ /\ d = Job(c)
         /\ Moves(c, pc[c], op[c], attempted[c], frame[Me(c)], [NoFrame EXCEPT !.at = "done"])
  BY AdvanceMoves
<1> HIDE DEF i, next, ok
<1>6. Me(c) # Job(c)
  BY DriverNames
<1>7. /\ \A e \in Callers \ {c} : pc'[e] = pc[e]
      /\ \A e \in Drivers \ {Me(c), Job(c)} : frame'[e] = frame[e]
      /\ pc'[c] \in Outside <=> pc[c] \in Outside
  BY <1>4, <1>5 DEF Outside
<1>8. CASE d = Me(c)
  <2>1. /\ frame'[Job(c)] = frame[Job(c)]
        /\ frame'[d].at \in {"lock", "none"}
    BY <1>1, <1>2, <1>3, <1>4, <1>5, <1>6, <1>8
  <2> QED
    BY <1>7, <1>8, <2>1 DEF Holding
<1>9. CASE d = Job(c)
  <2>1. /\ frame'[Me(c)] = frame[Me(c)]
        /\ frame'[d].at \in {"lock", "done"}
    BY <1>2, <1>3, <1>4, <1>5, <1>6, <1>9
  <2> QED
    BY <1>7, <1>9, <2>1 DEF Holding
<1> QED
  BY <1>8, <1>9

LEMMA CallerLocks ==
  ASSUME FramesFit, OneCallerIn, OneDriverIn, NEW c \in Callers, CallerStep(c)
  PROVE  (OneCallerIn /\ OneDriverIn)'
<1> DEFINE f == frame[Me(c)]
           j == frame[Job(c)]
<1>0. /\ f \in Frames /\ j \in Frames /\ Framed(pc[c], op[c], attempted[c], f, j)
      /\ Me(c) \in Drivers /\ Job(c) \in Drivers /\ Me(c) # Job(c)
  BY DriverNames DEF FramesFit, TypeOK
<1>1. ASSUME NEW p, NEW m, NEW t, NEW f2, NEW j2, Moves(c, p, m, t, f2, j2)
      PROVE  /\ pc'[c] = p /\ frame'[Me(c)] = f2 /\ frame'[Job(c)] = j2
             /\ \A e \in Callers \ {c} : pc'[e] = pc[e]
             /\ \A e \in Drivers \ {Me(c), Job(c)} : frame'[e] = frame[e]
  BY <1>1, OneMoves, OthersStay
<1>2. CASE Call(c, "start") \/ Call(c, "stop") \/ Obtain(c) \/ StartLoop(c) \/ StopLoop(c) \/ Finish(c)
           \/ PlainCancelled(c)
  <2>1. rlock' = rlock
    BY <1>2 DEF Call, Obtain, Start, Stop, StartLoop, StopLoop, Finish, PlainCancelled
  <2>2. ASSUME NEW p, NEW m, NEW t, NEW f2, Moves(c, p, m, t, f2, j),
               f2 = f \/ (f.at \notin Holding /\ f2.at \notin Holding)
        PROVE  OneDriverIn' /\ pc'[c] = p /\ \A e \in Callers \ {c} : pc'[e] = pc[e]
    BY <1>0, <1>1, <2>1, <2>2 DEF OneDriverIn
  <2>3. CASE Call(c, "start") \/ Call(c, "stop")
    <3>1. pc[c] = "idle" /\ \E method : Moves(c, "waiting", method, attempted[c], f, j)
      BY <2>3, EntryMoves
    <3>2. OneDriverIn' /\ pc'[c] = "waiting" /\ \A e \in Callers \ {c} : pc'[e] = pc[e]
      BY <2>2, <3>1
    <3> QED
      BY <2>3, <3>1, <3>2, CallerKeeps DEF Call, Outside
  <2>4. CASE Obtain(c)
    <3>1. \/ /\ plock = NoOne /\ plock' = (IF plock = c THEN NoOne ELSE plock)
             /\ Moves(c, "idle", op[c], 0, f, j)
          \/ /\ plock = NoOne /\ plock' = c
             /\ Moves(c, "starting", op[c], attempted[c], f, j) \/ Moves(c, "stopping", op[c], attempted[c], f, j)
      <4>1. CASE Return(c, "true") /\ plock = NoOne
        <5>1. frame' = [frame EXCEPT ![Me(c)] = f, ![Job(c)] = j] /\ op' = op
          BY <2>4, Stays DEF Obtain, Start, Stop
        <5>2. Moves(c, "idle", op[c], 0, f, j)
          BY <4>1, <5>1, ReturnMoves
        <5> QED
          BY <4>1, <5>2 DEF Return
      <4>2. CASE /\ plock = NoOne /\ plock' = c /\ UNCHANGED <<ret, attempted>>
                 /\ Goto(c, "starting") \/ Goto(c, "stopping")
        <5>1. frame' = [frame EXCEPT ![Me(c)] = f, ![Job(c)] = j] /\ op' = op
          BY <2>4, Stays DEF Obtain, Start, Stop
        <5>2. CASE Goto(c, "starting")
          BY <4>2, <5>1, <5>2, Stays DEF Goto, Moves
        <5>3. CASE Goto(c, "stopping")
          BY <4>2, <5>1, <5>3, Stays DEF Goto, Moves
        <5> QED
          BY <4>2, <5>2, <5>3
      <4> QED
        BY <2>4, <4>1, <4>2 DEF Obtain, Start, Stop
    <3>2. /\ OneDriverIn' /\ \A e \in Callers \ {c} : pc'[e] = pc[e]
          /\ \/ plock' = (IF plock = c THEN NoOne ELSE plock) /\ pc'[c] = "idle"
             \/ plock = NoOne /\ plock' = c /\ pc'[c] \in {"starting", "stopping"}
      BY <2>2, <3>1
    <3> QED
      BY <3>2, CallerKeeps DEF Outside
  <2>5. CASE StartLoop(c) \/ StopLoop(c)
    <3>1. /\ pc[c] \in {"starting", "stopping"} /\ plock' = plock
          /\ Entering(1).at = "lock" /\ Entering(N).at = "lock"
      BY <2>5, FrameTypes DEF StartLoop, StopLoop
    <3>2. f.at = "none"
      BY <1>0, <3>1, FrameTypes DEF Framed, InCall
    <3>3. \/ Moves(c, "raising", op[c], 1, Entering(1), j)
          \/ Moves(c, "lowering", op[c], attempted[c], Entering(N), j)
      BY <2>5, EntryMoves
    <3>4. OneDriverIn' /\ pc'[c] \in {"raising", "lowering"} /\ \A e \in Callers \ {c} : pc'[e] = pc[e]
      BY <2>2, <3>1, <3>2, <3>3 DEF Holding
    <3> QED
      BY <3>1, <3>4, CallerKeeps DEF Outside
  <2>6. CASE Finish(c) \/ PlainCancelled(c)
    <3>1. Moves(c, "idle", op[c], 0, f, j) /\ plock' = (IF plock = c THEN NoOne ELSE plock)
      BY <2>6, EntryMoves, CancelMoves DEF Finish, PlainCancelled, Return
    <3>2. OneDriverIn' /\ pc'[c] = "idle" /\ \A e \in Callers \ {c} : pc'[e] = pc[e]
      BY <2>2, <3>1
    <3> QED
      BY <3>1, <3>2, CallerKeeps DEF Outside
  <2> QED
    BY <1>2, <2>3, <2>4, <2>5, <2>6
<1>3. CASE Breaks(c)
  <2>1. /\ Unwind(c) /\ op' = op
        /\ \/ Unlock(Me(c)) /\ f.at \in Working
           \/ pc[c] = "failed" /\ rlock' = rlock
    BY <1>3, BreakMoves
  <2>2. pc[c] \in InCall \cup {"failed"} /\ (pc[c] = "failed" => f.at = "none")
    BY <1>0, <2>1, FrameTypes DEF Framed, InCall, Working, Holding
  <2>3. j.at = "none" /\ pc[c] \notin Outside /\ (op[c] = "start" => attempted[c] \in Services)
    BY <1>0, <2>2 DEF Framed, InCall, Outside
  <2>4. \/ /\ plock' = plock /\ op[c] = "start"
           /\ Moves(c, "shielded", op[c], attempted[c], NoFrame, Entering(attempted[c]))
        \/ /\ plock' = (IF plock = c THEN NoOne ELSE plock)
           /\ Moves(c, "idle", op[c], 0, NoFrame, j)
    BY <2>1, UnwindMoves DEF Return
  <2>5. /\ \/ plock' = plock /\ pc'[c] = "shielded"
           \/ plock' = (IF plock = c THEN NoOne ELSE plock) /\ pc'[c] = "idle"
        /\ frame'[Me(c)] = NoFrame /\ frame'[Job(c)].at \in {"none", "lock"}
        /\ \A e \in Callers \ {c} : pc'[e] = pc[e]
        /\ \A e \in Drivers \ {Me(c), Job(c)} : frame'[e] = frame[e]
    <3>1. CASE /\ plock' = plock /\ op[c] = "start"
               /\ Moves(c, "shielded", op[c], attempted[c], NoFrame, Entering(attempted[c]))
      <4>1. PICK e : e = Entering(attempted[c]) /\ e.at = "lock"
        BY <2>3, <3>1, EnteringTypes
      <4>2. Moves(c, "shielded", op[c], attempted[c], NoFrame, e)
        BY <3>1, <4>1
      <4> QED
        BY <1>1, <3>1, <4>1, <4>2
    <3>2. CASE /\ plock' = (IF plock = c THEN NoOne ELSE plock)
               /\ Moves(c, "idle", op[c], 0, NoFrame, j)
      BY <1>1, <2>3, <3>2
    <3> QED
      BY <2>4, <3>1, <3>2
  <2>6. OneCallerIn'
    BY <2>3, <2>5, CallerKeeps DEF Outside
  <2>7. OtherDrivers(Me(c)) /\ frame'[Me(c)].at \notin Holding
    BY <2>3, <2>5, FrameTypes DEF OtherDrivers, Holding
  <2>8. OneDriverIn'
    <3>1. CASE Unlock(Me(c))
      BY <1>0, <2>7, <3>1, DriverUnlocks
    <3>2. CASE pc[c] = "failed" /\ rlock' = rlock
      BY <1>0, <2>2, <2>7, <3>2, DriverQueues DEF Holding
    <3> QED
      BY <2>1, <3>1, <3>2
  <2> QED
    BY <2>6, <2>8
<1>4. CASE HookCancelled(Me(c))
  <2> DEFINE next == [f EXCEPT !.at = "abort"]
  <2>1. f.at = "hook" /\ Moves(c, pc[c], op[c], attempted[c], next, j) /\ UNCHANGED <<plock, rlock>>
    BY <1>4, CancelMoves
  <2>2. next.at = "abort" /\ next.svc = f.svc
    BY <1>0, AtUpdate
  <2> HIDE DEF next
  <2>3. OneCallerIn'
    BY <1>1, <2>1, CallerKeeps
  <2>4. OtherDrivers(Me(c)) /\ frame'[Me(c)] = next
    BY <1>1, <2>1 DEF OtherDrivers
  <2>5. OneDriverIn'
    BY <1>0, <2>1, <2>2, <2>4, DriverHolds DEF Holding
  <2> QED
    BY <2>3, <2>5
<1>5. CASE ShieldReturns(c) \/ OrphanEnds(c)
  <2>1. /\ rlock' = rlock /\ j.at \in {"done", "broke", "lost"}
        /\ \/ plock' = plock /\ pc[c] = "shielded" /\ Moves(c, "cancelled", op[c], attempted[c], f, NoFrame)
           \/ plock' = plock /\ Moves(c, pc[c], op[c], attempted[c], f, NoFrame)
           \/ plock' = (IF plock = c THEN NoOne ELSE plock) /\ Moves(c, "idle", op[c], 0, f, NoFrame)
    BY <1>5, CancelMoves DEF Return
  <2>2. ASSUME NEW p, NEW t, Moves(c, p, op[c], t, f, NoFrame)
        PROVE  /\ pc'[c] = p /\ frame'[Me(c)] = f /\ frame'[Job(c)] = NoFrame
               /\ \A e \in Callers \ {c} : pc'[e] = pc[e]
               /\ \A e \in Drivers \ {Me(c), Job(c)} : frame'[e] = frame[e]
    BY <1>1, <2>2
  <2>3. OneCallerIn'
    BY <2>1, <2>2, CallerKeeps DEF Outside
  <2>4. OtherDrivers(Job(c)) /\ frame'[Job(c)] = NoFrame
    BY <2>1, <2>2 DEF OtherDrivers
  <2>5. OneDriverIn'
    BY <1>0, <2>1, <2>4, FrameTypes, DriverQueues DEF Holding
  <2> QED
    BY <2>3, <2>5
<1> QED
  BY <1>2, <1>3, <1>4, <1>5 DEF CallerStep, Carry

LEMMA DriverLocks ==
  ASSUME FramesFit, OneCallerIn, OneDriverIn, NEW c \in Callers, NEW d \in {Me(c), Job(c)}, DriverStep(d)
  PROVE  (OneCallerIn /\ OneDriverIn)'
<1> DEFINE f == frame[Me(c)]
           j == frame[Job(c)]
<1>0. /\ frame[d] \in Frames /\ d \in Drivers /\ Me(c) \in Drivers /\ Job(c) \in Drivers /\ Me(c) # Job(c)
      /\ Framed(pc[c], op[c], attempted[c], f, j)
  BY DriverNames DEF FramesFit, TypeOK
<1>1. ASSUME NEW g, plock' = plock,
             Moves(c, pc[c], op[c], attempted[c], IF d = Me(c) THEN g ELSE f, IF d = Job(c) THEN g ELSE j)
      PROVE  OneCallerIn' /\ frame'[d] = g /\ OtherDrivers(d)
  <2>1. /\ pc'[c] = pc[c] /\ \A e \in Callers \ {c} : pc'[e] = pc[e]
        /\ \A e \in Drivers \ {Me(c), Job(c)} : frame'[e] = frame[e]
        /\ frame'[Me(c)] = (IF d = Me(c) THEN g ELSE f) /\ frame'[Job(c)] = (IF d = Job(c) THEN g ELSE j)
    BY <1>1, OneMoves, OthersStay
  <2> QED
    BY <1>0, <2>1, <1>1, CallerKeeps DEF OtherDrivers
<1>2. CASE Enter(d)
  <2> DEFINE i == frame[d].svc
             next == [frame[d] EXCEPT !.at = "announce"]
  <2>1. /\ frame[d].at = "lock" /\ rlock[i] = NoOne /\ op' = op
        /\ \/ Advance(d, TRUE) /\ UNCHANGED <<rlock, plock>>
           \/ /\ rlock' = [rlock EXCEPT ![i] = d] /\ UNCHANGED plock
              /\ Moves(c, pc[c], op[c], attempted[c],
                       IF d = Me(c) THEN next ELSE f, IF d = Job(c) THEN next ELSE j)
           \/ /\ d = Job(c) /\ UNCHANGED <<plock, rlock>>
              /\ Moves(c, pc[c], op[c], attempted[c], f, [NoFrame EXCEPT !.at = "broke"])
           \/ /\ d = Me(c) /\ Return(c, "invalid") /\ UNCHANGED rlock
              /\ Moves(c, "idle", op[c], 0, NoFrame, j)
    BY <1>2, EnterMoves
  <2>2. next.at = "announce" /\ next.svc = i /\ frame[d].at \notin Holding
    BY <1>0, <2>1, AtUpdate DEF Holding
  <2>3. i \in Services
    BY <1>0, <2>1, FrameTypes DEF Framed, Working
  <2>4. CASE Advance(d, TRUE) /\ UNCHANGED <<rlock, plock>>
    <3>1. /\ \A e \in Drivers \ {d} : frame'[e] = frame[e]
          /\ frame'[d].at \notin Holding
          /\ pc'[c] \in Outside <=> pc[c] \in Outside
          /\ \A e \in Callers \ {c} : pc'[e] = pc[e]
      BY <2>1, <2>4, AdvanceLeaves DEF Working
    <3> QED
      BY <1>0, <2>2, <2>4, <3>1, CallerKeeps, DriverQueues DEF OtherDrivers
  <2>5. CASE /\ rlock' = [rlock EXCEPT ![i] = d] /\ UNCHANGED plock
             /\ Moves(c, pc[c], op[c], attempted[c],
                      IF d = Me(c) THEN next ELSE f, IF d = Job(c) THEN next ELSE j)
    <3> HIDE DEF next
    <3>1. OneCallerIn' /\ frame'[d] = next /\ OtherDrivers(d)
      BY <1>1, <2>5
    <3> QED
      BY <1>0, <2>1, <2>2, <2>3, <2>5, <3>1, DriverObtains DEF Holding
  <2>6. CASE /\ d = Job(c) /\ UNCHANGED <<plock, rlock>>
             /\ Moves(c, pc[c], op[c], attempted[c], f, [NoFrame EXCEPT !.at = "broke"])
    <3>0. PICK end : end = [NoFrame EXCEPT !.at = "broke"] /\ end.at = "broke"
      BY FrameTypes
    <3>1. /\ pc'[c] = pc[c] /\ frame'[Me(c)] = f /\ frame'[Job(c)].at = "broke"
          /\ \A e \in Callers \ {c} : pc'[e] = pc[e]
          /\ \A e \in Drivers \ {Me(c), Job(c)} : frame'[e] = frame[e]
      <4>1. Moves(c, pc[c], op[c], attempted[c], f, end)
        BY <2>6, <3>0
      <4>2. frame'[Job(c)] = end /\ frame'[Me(c)] = f /\ pc'[c] = pc[c]
        BY <4>1, OneMoves
      <4> QED
        BY <3>0, <4>1, <4>2, OthersStay
    <3>2. OneCallerIn'
      BY <2>6, <3>1, CallerKeeps
    <3>3. OneDriverIn'
      BY <1>0, <2>2, <2>6, <3>1, DriverQueues DEF OtherDrivers, Holding
    <3> QED
      BY <3>2, <3>3
  <2>7. CASE d = Me(c) /\ Return(c, "invalid") /\ UNCHANGED rlock /\ Moves(c, "idle", op[c], 0, NoFrame, j)
    <3>1. /\ pc'[c] = "idle" /\ frame'[Me(c)] = NoFrame /\ frame'[Job(c)] = j
          /\ \A e \in Callers \ {c} : pc'[e] = pc[e]
          /\ \A e \in Drivers \ {Me(c), Job(c)} : frame'[e] = frame[e]
      BY <2>7, OneMoves, OthersStay
    <3>2. OneCallerIn'
      BY <2>7, <3>1, CallerKeeps DEF Return, Outside
    <3>3. OneDriverIn'
      BY <1>0, <2>2, <2>7, <3>1, FrameTypes, DriverQueues DEF OtherDrivers, Holding
    <3> QED
      BY <3>2, <3>3
  <2> QED
    BY <2>1, <2>4, <2>5, <2>6, <2>7
<1>3. CASE Announced(d)
  <2> DEFINE next == [frame[d] EXCEPT !.at = "hook"]
  <2>1. /\ frame[d].at = "announce" /\ UNCHANGED <<plock, rlock>>
        /\ Moves(c, pc[c], op[c], attempted[c],
                 IF d = Me(c) THEN next ELSE f, IF d = Job(c) THEN next ELSE j)
    BY <1>3, DriveMoves
  <2>2. next.at = "hook" /\ next.svc = frame[d].svc
    BY <1>0, AtUpdate
  <2> HIDE DEF next
  <2>3. OneCallerIn' /\ frame'[d] = next /\ OtherDrivers(d)
    BY <1>1, <2>1
  <2> QED
    BY <1>0, <2>1, <2>2, <2>3, DriverHolds DEF Holding
<1>4. ASSUME NEW ok \in BOOLEAN, HookReturns(d, ok) PROVE (OneCallerIn /\ OneDriverIn)'
  <2> DEFINE at == [frame[d] EXCEPT !.at = "conclude"]
             next == [at EXCEPT !.good = ok]
  <2>1. /\ frame[d].at = "hook" /\ UNCHANGED <<plock, rlock>>
        /\ Moves(c, pc[c], op[c], attempted[c],
                 IF d = Me(c) THEN next ELSE f, IF d = Job(c) THEN next ELSE j)
    BY <1>4, DriveMoves
  <2>2. at \in Frames /\ at.at = "conclude" /\ at.svc = frame[d].svc
    BY <1>0, AtUpdate
  <2> HIDE DEF at
  <2>3. next.at = "conclude" /\ next.svc = frame[d].svc
    BY <2>2, GoodUpdate
  <2> HIDE DEF next
  <2>4. OneCallerIn' /\ frame'[d] = next /\ OtherDrivers(d)
    BY <1>1, <2>1
  <2> QED
    BY <1>0, <2>1, <2>3, <2>4, DriverHolds DEF Holding
<1>5. CASE Concluded(d)
  <2>1. /\ frame[d].good \in BOOLEAN /\ Advance(d, frame[d].good) /\ frame[d].at = "conclude" /\ op' = op
        /\ Unlock(d) /\ plock' = plock
    BY <1>0, <1>5 DEF Concluded, Frames
  <2>2. /\ \A e \in Drivers \ {d} : frame'[e] = frame[e]
        /\ frame'[d].at \notin Holding
        /\ pc'[c] \in Outside <=> pc[c] \in Outside
        /\ \A e \in Callers \ {c} : pc'[e] = pc[e]
    BY <2>1, AdvanceLeaves DEF Working, Holding
  <2> QED
    BY <1>0, <2>1, <2>2, CallerKeeps, DriverUnlocks DEF OtherDrivers
<1> QED
  BY <1>2, <1>3, <1>4, <1>5 DEF DriverStep

LEMMA JobLocks ==
  ASSUME FramesFit, OneCallerIn, OneDriverIn, NEW c \in Callers, JobBreaks(c)
  PROVE  (OneCallerIn /\ OneDriverIn)'
<1> DEFINE f == frame[Me(c)]
           j == frame[Job(c)]
           broken == [j EXCEPT !.at = "abort"]
           lost == [NoFrame EXCEPT !.at = "lost"]
<1>0. j \in Frames /\ Me(c) \in Drivers /\ Job(c) \in Drivers /\ Me(c) # Job(c)
  BY DriverNames DEF FramesFit, TypeOK
<1>1. broken.at = "abort" /\ broken.svc = j.svc /\ lost.at = "lost"
  BY <1>0, AtUpdate, FrameTypes
<1>2. /\ plock' = plock
      /\ \/ j.at = "hook" /\ rlock' = rlock /\ Moves(c, pc[c], op[c], attempted[c], f, broken)
         \/ Unlock(Job(c)) /\ Moves(c, pc[c], op[c], attempted[c], f, lost)
  BY JobMoves
<1> HIDE DEF broken, lost
<1>3. ASSUME NEW j2, Moves(c, pc[c], op[c], attempted[c], f, j2)
      PROVE  OneCallerIn' /\ OtherDrivers(Job(c)) /\ frame'[Job(c)] = j2
  <2>1. /\ pc'[c] = pc[c] /\ frame'[Me(c)] = f /\ frame'[Job(c)] = j2
        /\ \A e \in Callers \ {c} : pc'[e] = pc[e]
        /\ \A e \in Drivers \ {Me(c), Job(c)} : frame'[e] = frame[e]
    BY <1>3, OneMoves, OthersStay
  <2> QED
    BY <1>2, <2>1, CallerKeeps DEF OtherDrivers
<1>4. CASE j.at = "hook" /\ rlock' = rlock /\ Moves(c, pc[c], op[c], attempted[c], f, broken)
  BY <1>0, <1>1, <1>3, <1>4, DriverHolds DEF Holding
<1>5. CASE Unlock(Job(c)) /\ Moves(c, pc[c], op[c], attempted[c], f, lost)
  BY <1>0, <1>1, <1>3, <1>5, DriverUnlocks DEF Holding
<1> QED
  BY <1>2, <1>4, <1>5

Locked == FramesFit /\ OneCallerIn /\ OneDriverIn

LEMMA LockedInit == Init => Locked
<1> SUFFICES ASSUME Init PROVE Locked
  OBVIOUS
<1>1. OneCallerIn /\ OneDriverIn
  BY FrameTypes, PipelineAssumption DEF Init, OneCallerIn, OneDriverIn, Outside, Holding, Drivers
<1> QED
  BY <1>1, FramesFitInit DEF Locked

LEMMA LockedStep == Locked /\ [Next]_vars => Locked'
<1> SUFFICES ASSUME Locked, [Next]_vars PROVE Locked'
  OBVIOUS
<1>1. CASE \E i \in Services : Judge(i)
  BY <1>1, FramesFitStep DEF Locked, Judge, OneCallerIn, OneDriverIn
<1>2. CASE UNCHANGED vars
  BY <1>2, FramesFitStep DEF Locked, vars, OneCallerIn, OneDriverIn
<1> QED
  BY <1>1, <1>2, Steps, FramesFitStep, CallerLocks, DriverLocks, JobLocks DEF Locked, StepOf

\* One caller is inside the pipeline and one driver inside each runtime, also
\* when a rollback outlives its caller.
THEOREM MutualExclusion == Spec => []LocksExclude
<1>1. Locked => LocksExclude
  BY LocksAre DEF Locked
<1> QED
  BY <1>1, LockedInit, LockedStep, PTL DEF Spec

-----------------------------------------------------------------------------
(* What the callers know, while no rollback outlives its caller *)

Truthful == Locked /\ KnownTrue

LEMMA OutsideKnown ==
  ASSUME NEW p \in Outside, NEW f, NEW j, j.at = "none", NEW state, NEW table, NEW wedged
  PROVE  Known(p, f, j, state, table, wedged)
  BY DEF Known, Outside, Working, Holding

\* A caller outside has no rollback going on; one with a runtime call, of its own
\* or of its rollback, is inside.
LEMMA OutsideIdle ==
  ASSUME Truthful, NEW c \in Callers
  PROVE  /\ pc[c] \in Outside => frame[Job(c)].at = "none"
         /\ frame[Me(c)].at \in Working => pc[c] \in InCall
         /\ frame[Job(c)].at # "none" => pc[c] = "shielded"
  BY FrameTypes DEF Truthful, Locked, FramesFit, KnownTrue, Framed, Known, Outside, Working, Holding

\* A step of c in front of the locks changes nothing the others know of.
LEMMA KnownSame ==
  ASSUME Truthful, NEW c \in Callers, NEW p \in Outside, NEW m, NEW t, NEW f, NEW j,
         Moves(c, p, m, t, f, j), j.at = "none", UNCHANGED <<pstate, rt, rlock>>
  PROVE  KnownTrue'
<1>1. DependencyOrder' /\ StatesTrue' /\ SomeWedged' = SomeWedged
  BY DEF Truthful, KnownTrue, DependencyOrder, StatesTrue, SomeWedged
<1>2. \A e \in Callers : Known(pc'[e], frame'[Me(e)], frame'[Job(e)], pstate', rt', SomeWedged')
  <2>1. ASSUME NEW e \in Callers
        PROVE  Known(pc'[e], frame'[Me(e)], frame'[Job(e)], pstate, rt, SomeWedged)
    <3>1. CASE e = c
      BY <3>1, OneMoves, OutsideKnown DEF Truthful, Locked
    <3>2. CASE e # c
      BY <3>2, OneMoves DEF Truthful, Locked, KnownTrue
    <3> QED
      BY <3>1, <3>2
  <2> QED
    BY <1>1, <2>1
<1> QED
  BY <1>1, <1>2 DEF KnownTrue

\* A step of c behind the lock: the others are outside.
LEMMA KnownKeeps ==
  ASSUME Truthful, NEW c \in Callers, NEW p, NEW m, NEW t, NEW f, NEW j,
         Moves(c, p, m, t, f, j), pc[c] \notin Outside \/ plock = NoOne,
         DependencyOrder', StatesTrue', Known(p, f, j, pstate', rt', SomeWedged')
  PROVE  KnownTrue'
<1>1. ASSUME NEW e \in Callers
      PROVE  Known(pc'[e], frame'[Me(e)], frame'[Job(e)], pstate', rt', SomeWedged')
  <2>1. CASE e = c
    BY <2>1, OneMoves DEF Truthful, Locked
  <2>2. CASE e # c
    <3>1. pc[e] \in Outside
      BY <2>2, PipelineAssumption DEF Truthful, Locked, OneCallerIn
    <3>2. pc'[e] \in Outside /\ frame'[Job(e)].at = "none"
      BY <2>2, <3>1, OneMoves, OutsideIdle DEF Truthful, Locked
    <3> QED
      BY <3>2, OutsideKnown
  <2> QED
    BY <2>1, <2>2
<1> QED
  BY <1>1 DEF KnownTrue

LEMMA QuietStates ==
  ASSUME pstate' \notin Down \cup {"running"}
  PROVE  StatesTrue'
  BY DEF StatesTrue

\* A service changes: only below services that are not alive unless it stays up,
\* and above services that are up if it comes alive.
LEMMA OrderKeeps ==
  ASSUME FramesFit, DependencyOrder, NEW i \in Services, NEW s, rt' = [rt EXCEPT ![i] = s],
         s \in Alive => \A k \in Services : k < i => rt[k] \in Up,
         s \in Up \/ \A k \in Services : k > i => rt[k] \notin Alive
  PROVE  DependencyOrder'
<1>1. \A k \in Services : rt'[k] = IF k = i THEN s ELSE rt[k]
  BY DEF FramesFit, TypeOK
<1>2. ASSUME NEW k \in Services, rt'[k] \in Alive, NEW l \in 1..(k - 1)
      PROVE  rt'[l] \in Up
  <2>1. l \in Services /\ l < k /\ k \in Nat /\ l \in Nat /\ i \in Nat
    BY FrameTypes, PipelineAssumption DEF Services
  <2>2. CASE k = i
    BY <1>1, <1>2, <2>1, <2>2
  <2>3. CASE k # i
    <3>1. rt[k] \in Alive /\ rt[l] \in Up
      BY <1>1, <1>2, <2>3 DEF DependencyOrder, Alive
    <3> QED
      BY <1>1, <2>1, <3>1
  <2> QED
    BY <2>2, <2>3
<1> QED
  BY <1>2 DEF DependencyOrder, Alive

\* Above a service that is not up, no service is alive.
LEMMA OrderAbove ==
  ASSUME DependencyOrder, NEW i \in Services, rt[i] \notin Up
  PROVE  \A k \in Services : k > i => rt[k] \notin Alive
<1>1. ASSUME NEW k \in Services, k > i PROVE i \in 1..(k - 1)
  BY <1>1, FrameTypes
<1> QED
  BY <1>1 DEF DependencyOrder, Alive

\* The services once the loop of a driver goes on: result tells what its
\* runtime call did to service i.
LEMMA AdvanceKnown ==
  ASSUME Truthful, NEW c \in Callers, NEW d \in {Me(c), Job(c)}, NEW result \in BOOLEAN,
         Advance(d, result), frame[d].at \in Working, op' = op, rt' = rt,
         IF Rising(d)
           THEN IF result THEN rt[frame[d].svc] \in Up
                ELSE \A k \in Services : k >= frame[d].svc => rt[k] \notin Alive
           ELSE /\ rt[frame[d].svc] \notin Alive
                /\ result => rt[frame[d].svc] \in Down
  PROVE  KnownTrue'
<1> DEFINE f == frame[Me(c)]
           j == frame[Job(c)]
           i == frame[d].svc
           ok == frame[d].all /\ result
<1>0. /\ FramesFit /\ Known(pc[c], f, j, pstate, rt, SomeWedged)
      /\ Framed(pc[c], op[c], attempted[c], f, j) /\ frame[d] \in Frames
      /\ Me(c) # Job(c) /\ (Rising(d) <=> d = Me(c) /\ pc[c] = "raising")
  BY DriverNames DEF Truthful, Locked, KnownTrue, FramesFit, TypeOK
<1>1. /\ i \in Services /\ i \in Nat /\ ok \in BOOLEAN
      /\ d = Me(c) => pc[c] \in InCall /\ j.at = "none"
      /\ d = Job(c) => pc[c] = "shielded"
      /\ pc[c] \notin Outside /\ pstate \notin Down \cup {"running"}
      /\ \A k \in Services : k \in Nat /\ k <= N
  BY <1>0, OutsideIdle, FrameTypes DEF Framed, Known, Working, Holding, Outside, InCall, Frames
<1>2. DependencyOrder'
  BY DEF Truthful, KnownTrue, DependencyOrder
\* The rest is about the frame and the pipeline's state that come next.
<1>3. ASSUME NEW p, NEW t, NEW f2, NEW j2, Moves(c, p, op[c], t, f2, j2), StatesTrue',
             Known(p, f2, j2, pstate', rt, SomeWedged')
      PROVE  KnownTrue'
  BY <1>1, <1>2, <1>3, KnownKeeps
<1>4. pstate' = pstate => StatesTrue'
  BY <1>1, QuietStates
<1>5. ~Rising(d) => \A k \in Services : k > i - 1 => rt[k] \notin Alive
  <2>1. ASSUME ~Rising(d), NEW k \in Services, k > i PROVE rt[k] \notin Alive
    BY <1>0, <1>1, <2>1 DEF Known, Lowering, InCall
  <2> QED
    BY <1>1, <2>1
<1>6. pc[c] = "lowering" /\ d = Me(c) /\ ok => \A k \in Services : k > i - 1 => rt[k] \in Down
  BY <1>0, <1>1 DEF Known
<1>7. \/ /\ d = Me(c) /\ pc[c] = "raising" /\ result /\ i < N /\ pstate' = pstate
         /\ Moves(c, "raising", op[c], i + 1, Entering(i + 1), j)
      \/ /\ d = Me(c) /\ pc[c] = "raising" /\ result /\ i = N /\ pstate' = "running"
         /\ Moves(c, "up", op[c], attempted[c], NoFrame, j)
      \/ /\ d = Me(c) /\ pc[c] = "raising" /\ ~result /\ pstate' = pstate
         /\ Moves(c, "unwinding", op[c], attempted[c], Entering(i), j)
      \/ /\ d = Me(c) /\ pc[c] \in {"unwinding", "lowering"} /\ i > 1 /\ pstate' = pstate
         /\ Moves(c, pc[c], op[c], attempted[c], [Entering(i - 1) EXCEPT !.all = ok], j)
      \/ /\ d = Me(c) /\ pc[c] = "unwinding" /\ i = 1 /\ pstate' = "error"
         /\ Moves(c, "failed", op[c], attempted[c], NoFrame, j)
      \/ /\ d = Me(c) /\ pc[c] = "lowering" /\ i = 1
         /\ pstate' = IF ok THEN "stopped" ELSE "error"
         /\ Moves(c, "down", op[c], attempted[c], NoFrame, j)
      \/ /\ d = Job(c) /\ i > 1 /\ pstate' = pstate
         /\ Moves(c, pc[c], op[c], attempted[c], f, [Entering(i - 1) EXCEPT !.all = ok])
      \/ /\ d = Job(c) /\ i = 1 /\ pstate' = pstate
         /\ Moves(c, pc[c], op[c], attempted[c], f, [NoFrame EXCEPT !.at = "done"])
  BY <1>0, AdvanceMoves
<1> HIDE DEF f, j, i, ok
<1>8. CASE /\ d = Me(c) /\ pc[c] = "raising" /\ result /\ i < N /\ pstate' = pstate
           /\ Moves(c, "raising", op[c], i + 1, Entering(i + 1), j)
  <2>1. i + 1 \in Services
    BY <1>1, <1>8, PipelineAssumption DEF Services
  <2>2. PICK e : e = Entering(i + 1) /\ e.at = "lock" /\ e.svc = i + 1
    BY <2>1, EnteringTypes
  <2>3. \A k \in Services : k < i + 1 => rt[k] \in Up
    BY <1>0, <1>1, <1>8 DEF Known, Raising, f, i
  <2>4. Known("raising", e, j, pstate, rt, SomeWedged')
    BY <1>1, <1>8, <2>2, <2>3 DEF Known, Raising, Working, Holding
  <2>5. Moves(c, "raising", op[c], i + 1, e, j)
    BY <1>8, <2>2
  <2> QED
    BY <1>3, <1>4, <1>8, <2>4, <2>5
<1>9. CASE /\ d = Me(c) /\ pc[c] = "raising" /\ result /\ i = N /\ pstate' = "running"
           /\ Moves(c, "up", op[c], attempted[c], NoFrame, j)
  <2>1. \A k \in Services : k # i => k < i
    BY <1>1, <1>9
  <2>2. \A k \in Services : rt[k] \in Up
    BY <1>0, <1>1, <1>9, <2>1 DEF Known, Raising, f, i
  <2>3. StatesTrue'
    BY <1>9, <2>2 DEF StatesTrue, Down
  <2>4. Known("up", NoFrame, j, "running", rt, SomeWedged')
    BY <1>1, <1>9 DEF Known, Working, Holding
  <2> QED
    BY <1>3, <1>9, <2>3, <2>4
<1>10. CASE /\ d = Me(c) /\ pc[c] = "raising" /\ ~result /\ pstate' = pstate
            /\ Moves(c, "unwinding", op[c], attempted[c], Entering(i), j)
  <2>1. PICK e : e = Entering(i) /\ e.at = "lock" /\ e.svc = i
    BY <1>1, EnteringTypes
  <2>2. \A k \in Services : k > i => rt[k] \notin Alive
    BY <1>0, <1>1, <1>10 DEF i
  <2>3. Known("unwinding", e, j, pstate, rt, SomeWedged')
    BY <1>1, <1>10, <2>1, <2>2 DEF Known, Lowering, Working, Holding
  <2>4. Moves(c, "unwinding", op[c], attempted[c], e, j)
    BY <1>10, <2>1
  <2> QED
    BY <1>3, <1>4, <1>10, <2>3, <2>4
<1> DEFINE next == [Entering(i - 1) EXCEPT !.all = ok]
<1>11. i > 1 => next.at = "lock" /\ next.svc = i - 1 /\ next.all = ok
  <2>1. ASSUME i > 1 PROVE next.at = "lock" /\ next.svc = i - 1 /\ next.all = ok
    <3>1. PICK k \in Services : k = i - 1
      BY <1>1, <2>1, PipelineAssumption DEF Services
    <3>2. /\ [Entering(k) EXCEPT !.all = ok].at = "lock" /\ [Entering(k) EXCEPT !.all = ok].svc = k
          /\ [Entering(k) EXCEPT !.all = ok].all = ok
      <4>1. ok \in BOOLEAN
        BY <1>1
      <4> QED
        BY <4>1, EnteringSaid
    <3> QED
      BY <3>1, <3>2
  <2> QED
    BY <2>1
<1> HIDE DEF next
<1>12. i > 1 /\ ~Rising(d) => Lowering(next, rt)
  BY <1>5, <1>11 DEF Lowering
<1>13. CASE /\ d = Me(c) /\ pc[c] \in {"unwinding", "lowering"} /\ i > 1 /\ pstate' = pstate
            /\ Moves(c, pc[c], op[c], attempted[c], next, j)
  <2>1. pc[c] = "lowering" /\ next.all => \A k \in Services : k > next.svc => rt[k] \in Down
    BY <1>6, <1>11, <1>13
  <2>2. Lowering(next, rt)
    BY <1>0, <1>12, <1>13
  <2>3. Known(pc[c], next, j, pstate, rt, SomeWedged')
    BY <1>1, <1>13, <2>1, <2>2 DEF Known, Working, Holding
  <2> QED
    BY <1>3, <1>4, <1>13, <2>3
<1>14. i = 1 /\ ~Rising(d) => AllDown(rt)
  BY <1>1, <1>5, FrameTypes DEF AllDown
<1>15. CASE /\ d = Me(c) /\ pc[c] = "unwinding" /\ i = 1 /\ pstate' = "error"
            /\ Moves(c, "failed", op[c], attempted[c], NoFrame, j)
  <2>1. Known("failed", NoFrame, j, "error", rt, SomeWedged')
    BY <1>0, <1>1, <1>14, <1>15 DEF Known, Working, Holding, Down
  <2> QED
    BY <1>3, <1>15, <2>1, QuietStates DEF Down
<1>16. CASE /\ d = Me(c) /\ pc[c] = "lowering" /\ i = 1
            /\ pstate' = IF ok THEN "stopped" ELSE "error"
            /\ Moves(c, "down", op[c], attempted[c], NoFrame, j)
  <2>1. Known("down", NoFrame, j, pstate', rt, SomeWedged')
    BY <1>0, <1>1, <1>14, <1>16 DEF Known, Working, Holding, Down
  <2>2. ok => \A k \in Services : rt[k] \in Down
    BY <1>1, <1>6, <1>16, FrameTypes
  <2>3. StatesTrue'
    BY <1>1, <1>16, <2>2 DEF StatesTrue, Down
  <2> QED
    BY <1>3, <1>16, <2>1, <2>3
<1>17. CASE /\ d = Job(c) /\ i > 1 /\ pstate' = pstate
            /\ Moves(c, pc[c], op[c], attempted[c], f, next)
  <2>1. Known(pc[c], f, next, pstate, rt, SomeWedged')
    BY <1>0, <1>1, <1>11, <1>12, <1>17 DEF Known, Working, Holding
  <2> QED
    BY <1>3, <1>4, <1>17, <2>1
<1>18. CASE /\ d = Job(c) /\ i = 1 /\ pstate' = pstate
            /\ Moves(c, pc[c], op[c], attempted[c], f, [NoFrame EXCEPT !.at = "done"])
  <2>1. PICK e : e = [NoFrame EXCEPT !.at = "done"] /\ e.at = "done"
    BY FrameTypes
  <2>2. Known(pc[c], f, e, pstate, rt, SomeWedged')
    BY <1>0, <1>1, <1>14, <1>18, <2>1 DEF Known, Working, Holding
  <2>3. Moves(c, pc[c], op[c], attempted[c], f, e)
    BY <1>18, <2>1
  <2> QED
    BY <1>3, <1>4, <1>18, <2>2, <2>3
<1> QED
  BY <1>7, <1>8, <1>9, <1>10, <1>13, <1>15, <1>16, <1>17, <1>18 DEF next

\* What service g.svc is in while a driver with frame g works on it.
Own(rising, g, s) ==
    /\ g.at \in {"announce", "hook"} => s = (IF rising THEN "initializing" ELSE "stopping")
    /\ g.at = "conclude" => IF rising THEN s \in (IF g.good THEN Up ELSE {"error"})
                            ELSE s = (IF g.good THEN "stopped" ELSE "error")
    /\ g.at = "abort" => s = "error"

\* A driver goes on in its runtime call, and service i goes to s.
LEMMA WorkKnown ==
  ASSUME Truthful, NEW c \in Callers, NEW d \in {Me(c), Job(c)}, NEW g, NEW s,
         Moves(c, pc[c], op[c], attempted[c],
               IF d = Me(c) THEN g ELSE frame[Me(c)], IF d = Job(c) THEN g ELSE frame[Job(c)]),
         frame[d].at \in Working, g.at \in Holding, g.svc = frame[d].svc, g.all = frame[d].all,
         pstate' = pstate, rt' = [rt EXCEPT ![frame[d].svc] = s], Own(Rising(d), g, s),
         Rising(d) => \A k \in Services : k > frame[d].svc => rt[k] \notin Alive
  PROVE  KnownTrue'
<1> DEFINE f == frame[Me(c)]
           j == frame[Job(c)]
           i == frame[d].svc
           f2 == IF d = Me(c) THEN g ELSE f
           j2 == IF d = Job(c) THEN g ELSE j
<1>0. /\ FramesFit /\ Known(pc[c], f, j, pstate, rt, SomeWedged) /\ DependencyOrder
      /\ Framed(pc[c], op[c], attempted[c], f, j)
      /\ Me(c) # Job(c) /\ (Rising(d) <=> d = Me(c) /\ pc[c] = "raising")
  BY DriverNames DEF Truthful, Locked, KnownTrue, FramesFit
<1>1. /\ i \in Services
      /\ d = Me(c) => pc[c] \in InCall /\ j.at = "none"
      /\ d = Job(c) => pc[c] = "shielded" /\ f.at = "none"
      /\ pc[c] \notin Outside /\ pstate \notin Down \cup {"running"}
      /\ \A k \in Services : k \in Nat
  BY <1>0, OutsideIdle, FrameTypes DEF Framed, Known, Working, Holding, Outside, InCall
<1>2. \A k \in Services : rt'[k] = IF k = i THEN s ELSE rt[k]
  BY <1>0 DEF FramesFit, TypeOK
<1>3. Rising(d) => \A k \in Services : k < i => rt[k] \in Up
  BY <1>0 DEF Known, Raising
<1>4. \A k \in Services : k > i => rt[k] \notin Alive
  <2>1. CASE d = Me(c) /\ pc[c] # "raising"
    BY <1>0, <1>1, <2>1 DEF Known, Lowering, InCall
  <2>2. CASE d = Job(c)
    BY <1>0, <2>2 DEF Known, Lowering
  <2> QED
    BY <1>0, <2>1, <2>2
<1>5. ~Rising(d) => s \notin Alive
  BY TransitionTable DEF Own, Holding, Alive
<1>6. DependencyOrder'
  BY <1>0, <1>1, <1>3, <1>4, <1>5, OrderKeeps
<1>7. StatesTrue'
  BY <1>1, QuietStates
<1> HIDE DEF f, j, i
<1>8. CASE Rising(d)
  <2>1. Raising(g, rt')
    BY <1>1, <1>2, <1>3, <1>4, <1>8 DEF Own, Raising, i
  <2>2. Known(pc[c], g, j, pstate, rt', SomeWedged')
    BY <1>0, <1>1, <1>8, <2>1 DEF Known, Working, Holding
  <2> QED
    BY <1>0, <1>1, <1>6, <1>7, <1>8, <2>2, KnownKeeps DEF f, j
<1>9. CASE ~Rising(d)
  <2>1. Lowering(g, rt')
    BY <1>1, <1>2, <1>4, <1>9 DEF Own, Lowering, i
  <2>2. CASE d = Me(c)
    <3>1. pc[c] = "lowering" /\ g.all => \A k \in Services : k > g.svc => rt'[k] \in Down
      BY <1>0, <1>1, <1>2, <2>2 DEF Known, f, i
    <3>2. Known(pc[c], g, j, pstate, rt', SomeWedged')
      BY <1>0, <1>1, <1>9, <2>1, <2>2, <3>1 DEF Known, Working, Holding, InCall
    <3> QED
      BY <1>0, <1>1, <1>6, <1>7, <2>2, <3>2, KnownKeeps DEF f, j
  <2>3. CASE d = Job(c)
    <3>1. Known(pc[c], f, g, pstate, rt', SomeWedged')
      BY <1>0, <1>1, <2>1, <2>3 DEF Known, Working, Holding
    <3> QED
      BY <1>0, <1>1, <1>6, <1>7, <2>3, <3>1, KnownKeeps DEF f, j
  <2> QED
    BY <2>2, <2>3
<1> QED
  BY <1>8, <1>9

LEMMA DriverKnown ==
  ASSUME Truthful, NEW c \in Callers, NEW d \in {Me(c), Job(c)}, DriverStep(d)
  PROVE  KnownTrue'
<1> DEFINE f == frame[Me(c)]
           j == frame[Job(c)]
           i == frame[d].svc
<1>0. /\ FramesFit /\ Known(pc[c], f, j, pstate, rt, SomeWedged) /\ DependencyOrder
      /\ Framed(pc[c], op[c], attempted[c], f, j) /\ rt \in [Services -> Table!ServiceState]
      /\ Me(c) # Job(c) /\ (Rising(d) <=> d = Me(c) /\ pc[c] = "raising") /\ frame[d] \in Frames
  BY DriverNames DEF Truthful, Locked, KnownTrue, FramesFit, TypeOK
<1>1. ASSUME frame[d].at \in Working
      PROVE  /\ i \in Services
             /\ d = Me(c) => pc[c] \in InCall /\ j.at = "none"
             /\ d = Job(c) => pc[c] = "shielded" /\ f.at = "none"
             /\ pc[c] \notin Outside /\ pstate \notin Down \cup {"running"}
             /\ Rising(d) => Raising(f, rt)
             /\ ~Rising(d) => Lowering(frame[d], rt)
  BY <1>0, <1>1, OutsideIdle, FrameTypes DEF Framed, Known, Working, Holding, Outside, InCall
<1>2. CASE Enter(d)
  <2> DEFINE next == [frame[d] EXCEPT !.at = "announce"]
             rising == d = Me(c) /\ pc[c] = "raising"
             s == IF rising THEN "initializing" ELSE "stopping"
             from == IF rising THEN {"uninitialized", "stopped", "error"}
                               ELSE {"running", "degraded", "error"}
  <2>0. Rising(d) <=> rising
    BY <1>0
  <2>1. /\ frame[d].at = "lock" /\ rlock[i] = NoOne /\ op' = op
        /\ \/ /\ rt[i] \in IF rising THEN Up ELSE Down
              /\ Advance(d, TRUE) /\ rt' = rt
           \/ /\ rt[i] \in from
              /\ rt' = [rt EXCEPT ![i] = s] /\ pstate' = pstate
              /\ Moves(c, pc[c], op[c], attempted[c],
                       IF d = Me(c) THEN next ELSE f, IF d = Job(c) THEN next ELSE j)
           \/ /\ rt[i] \in {"initializing", "stopping"} /\ UNCHANGED <<pstate, rt, rlock>>
              /\ d = Job(c)
              /\ Moves(c, pc[c], op[c], attempted[c], f, [NoFrame EXCEPT !.at = "broke"])
           \/ /\ UNCHANGED <<pstate, rt, rlock>> /\ d = Me(c)
              /\ Moves(c, "idle", op[c], 0, NoFrame, j)
    BY <1>0, <1>2, EnterMoves
  <2> HIDE DEF rising
  <2>2. frame[d].at \in Working /\ i \in Services
    BY <1>1, <2>1 DEF Working
  <2>3. CASE /\ rt[i] \in IF rising THEN Up ELSE Down
             /\ Advance(d, TRUE) /\ rt' = rt
    <3>1. rt[i] \in Down => rt[i] \notin Alive
      BY TransitionTable DEF Down, Alive
    <3> QED
      BY <2>0, <2>1, <2>2, <2>3, <3>1, AdvanceKnown
  <2>4. CASE /\ rt[i] \in from
             /\ rt' = [rt EXCEPT ![i] = s] /\ pstate' = pstate
             /\ Moves(c, pc[c], op[c], attempted[c],
                      IF d = Me(c) THEN next ELSE f, IF d = Job(c) THEN next ELSE j)
    <3>1. PICK g \in Frames : g = next /\ g.at = "announce" /\ g.svc = i /\ g.all = frame[d].all
      <4>1. /\ next \in Frames /\ next.at = "announce"
            /\ next.svc = frame[d].svc /\ next.all = frame[d].all
        BY <1>0, AtUpdate
      <4> HIDE DEF next
      <4> QED
        BY <4>1, Zenon
    <3>2. Own(Rising(d), g, s) /\ g.at \in Holding
      BY <2>0, <3>1 DEF Own, Holding
    <3>3. Rising(d) => \A k \in Services : k > i => rt[k] \notin Alive
      <4>1. rising => rt[i] \notin Up
        BY <2>4, TransitionTable
      <4> QED
        BY <1>0, <2>0, <2>2, <4>1, OrderAbove
    <3>4. Moves(c, pc[c], op[c], attempted[c],
                IF d = Me(c) THEN g ELSE f, IF d = Job(c) THEN g ELSE j)
      BY <2>4, <3>1
    <3> HIDE DEF s, next
    <3> QED
      BY <2>2, <2>4, <3>1, <3>2, <3>3, <3>4, WorkKnown
  <2>5. CASE /\ rt[i] \in {"initializing", "stopping"} /\ UNCHANGED <<pstate, rt, rlock>>
             /\ d = Job(c)
             /\ Moves(c, pc[c], op[c], attempted[c], f, [NoFrame EXCEPT !.at = "broke"])
    <3>1. PICK e : e = [NoFrame EXCEPT !.at = "broke"] /\ e.at = "broke"
      BY FrameTypes
    <3>2. SomeWedged' /\ DependencyOrder' /\ StatesTrue'
      BY <1>0, <1>1, <2>1, <2>2, <2>5, QuietStates DEF SomeWedged, DependencyOrder
    <3>3. Known(pc[c], f, e, pstate, rt, SomeWedged')
      BY <1>0, <1>1, <2>2, <2>5, <3>1, <3>2 DEF Known, Working, Holding
    <3>4. Moves(c, pc[c], op[c], attempted[c], f, e)
      BY <2>5, <3>1
    <3> QED
      BY <1>1, <2>2, <2>5, <3>2, <3>3, <3>4, KnownKeeps
  <2>6. CASE /\ UNCHANGED <<pstate, rt, rlock>> /\ d = Me(c)
             /\ Moves(c, "idle", op[c], 0, NoFrame, j)
    BY <1>1, <2>2, <2>6, KnownSame DEF Outside
  <2> QED
    BY <2>1, <2>3, <2>4, <2>5, <2>6
<1>3. CASE Announced(d)
  <2> DEFINE next == [frame[d] EXCEPT !.at = "hook"]
  <2>1. /\ frame[d].at = "announce" /\ UNCHANGED <<pstate, rt>>
        /\ Moves(c, pc[c], op[c], attempted[c],
                 IF d = Me(c) THEN next ELSE f, IF d = Job(c) THEN next ELSE j)
    <3>1. frame[d].at = "announce" /\ UNCHANGED <<pstate, rt>>
      BY <1>3 DEF Announced
    <3>2. Moves(c, pc[c], op[c], attempted[c],
                IF d = Me(c) THEN next ELSE f, IF d = Job(c) THEN next ELSE j)
      BY <1>0, <1>3, DriveMoves
    <3> QED
      BY <3>1, <3>2
  <2>2. frame[d].at \in Working /\ i \in Services
    BY <1>1, <2>1 DEF Working, Holding
  <2>3. PICK g \in Frames : g = next /\ g.at = "hook" /\ g.svc = i /\ g.all = frame[d].all
    <3>1. next \in Frames /\ next.at = "hook" /\ next.svc = frame[d].svc /\ next.all = frame[d].all
      BY <1>0, AtUpdate
    <3> HIDE DEF next
    <3> QED
      BY <3>1, Zenon
  <2>4. /\ Rising(d) => rt[i] = "initializing" /\ \A k \in Services : k > i => rt[k] \notin Alive
        /\ ~Rising(d) => rt[i] = "stopping"
    BY <1>0, <1>1, <2>1, <2>2 DEF Raising, Lowering
  <2>5. Own(Rising(d), g, rt[i]) /\ g.at \in Holding /\ rt' = [rt EXCEPT ![i] = rt[i]]
    BY <1>0, <2>1, <2>3, <2>4 DEF Own, Holding
  <2>6. Moves(c, pc[c], op[c], attempted[c],
              IF d = Me(c) THEN g ELSE f, IF d = Job(c) THEN g ELSE j)
    BY <2>1, <2>3
  <2> HIDE DEF next
  <2> QED
    BY <2>1, <2>2, <2>3, <2>4, <2>5, <2>6, WorkKnown
<1>4. ASSUME NEW ok \in BOOLEAN, HookReturns(d, ok) PROVE KnownTrue'
  <2> DEFINE at == [frame[d] EXCEPT !.at = "conclude"]
             next == [at EXCEPT !.good = ok]
             s == IF ~ok THEN "error" ELSE IF Rising(d) THEN "running" ELSE "stopped"
  <2>1. /\ frame[d].at = "hook" /\ pstate' = pstate
        /\ rt' = [rt EXCEPT ![i] = s]
        /\ Moves(c, pc[c], op[c], attempted[c],
                 IF d = Me(c) THEN next ELSE f, IF d = Job(c) THEN next ELSE j)
    BY <1>0, <1>4, DriveMoves
  <2>2. frame[d].at \in Working /\ i \in Services
    BY <1>1, <2>1 DEF Working, Holding
  <2>3. PICK g \in Frames : /\ g = next /\ g.at = "conclude" /\ g.svc = i
                            /\ g.all = frame[d].all /\ g.good = ok
    <3>1. at \in Frames /\ at.at = "conclude" /\ at.svc = i /\ at.all = frame[d].all
      BY <1>0, AtUpdate
    <3> HIDE DEF at
    <3>2. /\ next \in Frames /\ next.at = at.at /\ next.svc = at.svc
          /\ next.all = at.all /\ next.good = ok
      BY <3>1, GoodUpdate
    <3> HIDE DEF next
    <3> QED
      BY <3>1, <3>2, Zenon
  <2>4. Rising(d) => \A k \in Services : k > i => rt[k] \notin Alive
    BY <1>0, <1>1, <2>1, <2>2 DEF Raising
  <2>5. Own(Rising(d), g, s) /\ g.at \in Holding
    BY <2>3, TransitionTable DEF Own, Holding
  <2>6. Moves(c, pc[c], op[c], attempted[c],
              IF d = Me(c) THEN g ELSE f, IF d = Job(c) THEN g ELSE j)
    BY <2>1, <2>3
  <2> HIDE DEF next, s
  <2> QED
    BY <2>1, <2>2, <2>3, <2>4, <2>5, <2>6, WorkKnown
<1>5. CASE Concluded(d)
  <2>1. /\ frame[d].good \in BOOLEAN /\ Advance(d, frame[d].good) /\ frame[d].at = "conclude"
        /\ op' = op /\ rt' = rt
    BY <1>0, <1>5 DEF Concluded, Frames
  <2>2. frame[d].at \in Working /\ i \in Services /\ i \in Nat /\ \A k \in Services : k \in Nat
    BY <1>1, <2>1, FrameTypes DEF Working, Holding
  <2>3. CASE Rising(d)
    <3>1. Raising(frame[d], rt)
      BY <1>0, <1>1, <2>2, <2>3
    <3>2. \A k \in Services : k >= i => k = i \/ k > i
      BY <2>2
    <3>3. ~frame[d].good => rt[i] \notin Alive
      BY <2>1, <3>1, TransitionTable DEF Raising, Alive
    <3>4. IF frame[d].good THEN rt[i] \in Up ELSE \A k \in Services : k >= i => rt[k] \notin Alive
      BY <2>1, <3>1, <3>2, <3>3 DEF Raising
    <3> QED
      BY <2>1, <2>2, <2>3, <3>4, AdvanceKnown
  <2>4. CASE ~Rising(d)
    <3>1. rt[i] = (IF frame[d].good THEN "stopped" ELSE "error")
      BY <1>1, <2>1, <2>2, <2>4 DEF Lowering
    <3>2. rt[i] \notin Alive /\ (frame[d].good => rt[i] \in Down)
      BY <3>1, TransitionTable DEF Alive, Down
    <3> QED
      BY <2>1, <2>2, <2>4, <3>2, AdvanceKnown
  <2> QED
    BY <2>3, <2>4
<1> QED
  BY <1>2, <1>3, <1>4, <1>5 DEF DriverStep

\* A caller that waits for the lock of a runtime never meets another driver:
\* nobody else is inside the pipeline.
LEMMA LockFree ==
  ASSUME Truthful, NEW c \in Callers, frame[Me(c)].at = "lock"
  PROVE  rlock[frame[Me(c)].svc] = NoOne
<1> DEFINE i == frame[Me(c)].svc
<1>1. i \in Services /\ rlock[i] \in Drivers \cup {NoOne} /\ pc[c] \in InCall
  BY OutsideIdle, FrameTypes DEF Truthful, Locked, FramesFit, TypeOK, Framed, Working
<1>2. ASSUME rlock[i] # NoOne PROVE FALSE
  <2>1. PICK e \in Callers : rlock[i] = Me(e) \/ rlock[i] = Job(e)
    BY <1>1, <1>2, DriverNames
  <2>2. frame[rlock[i]].at \in Holding
    BY <1>1, <1>2 DEF Truthful, Locked, OneDriverIn
  <2>3. pc[e] \notin Outside /\ (rlock[i] = Job(e) => pc[e] = "shielded")
    BY <2>1, <2>2, OutsideIdle DEF Working, Holding, InCall, Outside
  <2>4. e = c
    BY <1>1, <2>3, PipelineAssumption DEF Truthful, Locked, OneCallerIn, InCall, Outside
  <2> QED
    BY <1>1, <2>1, <2>2, <2>3, <2>4 DEF Holding, InCall
<1> QED
  BY <1>2

LEMMA UnwindKnown ==
  ASSUME Truthful, NEW c \in Callers, Breaks(c)
  PROVE  KnownTrue'
<1> DEFINE f == frame[Me(c)]
           j == frame[Job(c)]
           t == attempted[c]
<1>0. /\ FramesFit /\ Known(pc[c], f, j, pstate, rt, SomeWedged) /\ DependencyOrder
      /\ Framed(pc[c], op[c], t, f, j)
      /\ \A k \in Services : k \in Nat
  BY FrameTypes DEF Truthful, Locked, KnownTrue, FramesFit
<1>1. /\ Unwind(c) /\ op' = op /\ UNCHANGED <<pstate, rt>>
      /\ pc[c] = "failed" \/ f.at \in Holding
  BY BreakMoves, LockFree DEF Working
<1>2. pc[c] \in InCall \cup {"failed"} /\ j.at = "none" /\ pc[c] \notin Outside
  BY <1>0, <1>1, OutsideIdle DEF Working, Framed, InCall, Outside
<1>3. pstate \notin Down \cup {"running"} /\ StatesTrue' /\ DependencyOrder'
  BY <1>0, <1>1, <1>2, QuietStates DEF Known, InCall, DependencyOrder
<1>4. CASE op[c] = "stop" /\ Moves(c, "idle", op[c], 0, NoFrame, j)
  BY <1>2, <1>3, <1>4, OutsideKnown, KnownKeeps DEF Outside
<1>5. CASE op[c] = "start" /\ Moves(c, "shielded", op[c], t, NoFrame, Entering(t))
  <2>1. pc[c] \in {"raising", "unwinding", "failed"} /\ t \in Services
    BY <1>0, <1>2, <1>5 DEF Framed, InCall
  <2>2. PICK e : e = Entering(t) /\ e.at = "lock" /\ e.svc = t
    BY <2>1, EnteringTypes
  <2>3. \A k \in Services : k > t => rt[k] \notin Alive
    <3>1. CASE pc[c] = "raising"
      BY <1>0, <1>1, <3>1 DEF Known, Raising, Framed, Holding
    <3>2. CASE pc[c] = "unwinding"
      <4>1. f.svc \in Services /\ f.svc <= t
        BY <1>0, <3>2 DEF Framed, InCall
      <4>2. \A k \in Services : k > t => k > f.svc
        BY <1>0, <2>1, <4>1
      <4> QED
        BY <1>0, <3>2, <4>2 DEF Known, Lowering
    <3>3. CASE pc[c] = "failed"
      BY <1>0, <3>3 DEF Known, AllDown
    <3> QED
      BY <2>1, <3>1, <3>2, <3>3
  <2>4. Known("shielded", NoFrame, e, pstate, rt, SomeWedged')
    BY <1>3, <2>2, <2>3 DEF Known, Lowering, Working, Holding
  <2>5. Moves(c, "shielded", op[c], t, NoFrame, e)
    BY <1>5, <2>2
  <2> QED
    BY <1>1, <1>2, <1>3, <2>4, <2>5, KnownKeeps
<1> QED
  BY <1>0, <1>1, <1>4, <1>5, UnwindMoves

LEMMA CallerKnown ==
  ASSUME Truthful, "shield" \notin CancelPoints, NEW c \in Callers, CallerStep(c)
  PROVE  KnownTrue'
<1> DEFINE f == frame[Me(c)]
           j == frame[Job(c)]
           m == op[c]
           t == attempted[c]
<1>0. /\ FramesFit /\ Known(pc[c], f, j, pstate, rt, SomeWedged) /\ DependencyOrder /\ StatesTrue
      /\ Framed(pc[c], m, t, f, j) /\ pc[c] \in Points /\ f \in Frames
      /\ 1 \in Services /\ N \in Services /\ \A k \in Services : k \in Nat /\ k >= 1 /\ k <= N
  BY FrameTypes, DriverNames DEF Truthful, Locked, KnownTrue, FramesFit, TypeOK
<1>1. rt' = rt => DependencyOrder'
  BY <1>0 DEF DependencyOrder
<1>2. CASE Call(c, "start") \/ Call(c, "stop")
  <2>1. /\ pc[c] = "idle" /\ j.at = "none" /\ UNCHANGED <<pstate, rt, rlock>>
        /\ \E method \in {"start", "stop"} : Moves(c, "waiting", method, t, f, j)
    BY <1>0, <1>2, EntryMoves DEF Call
  <2> QED
    BY <2>1, KnownSame DEF Outside
<1>3. CASE Obtain(c)
  <2>1. /\ pc[c] = "waiting" /\ plock = NoOne /\ UNCHANGED <<rt, rlock>>
        /\ \/ Moves(c, "idle", m, 0, f, j) /\ pstate' = pstate
           \/ pstate' = "starting" /\ Moves(c, "starting", m, t, f, j)
           \/ pstate' = "stopping" /\ Moves(c, "stopping", m, t, f, j)
    BY <1>0, <1>3, EntryMoves DEF Obtain, Start, Stop
  <2>2. j.at = "none"
    BY <2>1, OutsideIdle DEF Outside
  <2>3. CASE Moves(c, "idle", m, 0, f, j) /\ pstate' = pstate
    BY <2>1, <2>2, <2>3, KnownSame DEF Outside
  <2>4. \A p \in {"starting", "stopping"} : Known(p, f, j, p, rt', SomeWedged')
    BY <2>2 DEF Known, Working, Holding, Down
  <2>5. pstate' \in {"starting", "stopping"} => StatesTrue'
    BY QuietStates DEF Down
  <2> QED
    BY <1>1, <2>1, <2>3, <2>4, <2>5, KnownKeeps
<1>4. CASE StartLoop(c) \/ StopLoop(c)
  <2>1. /\ pc[c] \in {"starting", "stopping"} /\ UNCHANGED <<pstate, rt>>
        /\ \/ Moves(c, "raising", m, 1, Entering(1), j)
           \/ Moves(c, "lowering", m, t, Entering(N), j)
    BY <1>0, <1>4, EntryMoves DEF StartLoop, StopLoop
  <2>2. /\ j.at = "none" /\ pc[c] \notin Outside /\ pstate \notin Down \cup {"running"}
        /\ StatesTrue'
    BY <1>0, <2>1, OutsideIdle, QuietStates DEF Known, Outside
  <2>3. CASE Moves(c, "raising", m, 1, Entering(1), j)
    <3>1. PICK e : e = Entering(1) /\ e.at = "lock" /\ e.svc = 1
      BY <1>0, EnteringTypes
    <3>2. Known("raising", e, j, pstate', rt', SomeWedged')
      BY <1>0, <2>1, <2>2, <3>1 DEF Known, Raising, Working, Holding
    <3> QED
      BY <1>1, <2>1, <2>2, <2>3, <3>1, <3>2, KnownKeeps
  <2>4. CASE Moves(c, "lowering", m, t, Entering(N), j)
    <3>1. PICK e : e = Entering(N) /\ e.at = "lock" /\ e.svc = N
      BY <1>0, EnteringTypes
    <3>2. \A k \in Services : ~(k > N)
      BY <1>0, PipelineAssumption
    <3>3. Known("lowering", e, j, pstate', rt', SomeWedged')
      BY <2>1, <2>2, <3>1, <3>2 DEF Known, Lowering, Working, Holding
    <3> QED
      BY <1>1, <2>1, <2>2, <2>4, <3>1, <3>3, KnownKeeps
  <2> QED
    BY <2>1, <2>3, <2>4
<1>5. CASE Finish(c) \/ PlainCancelled(c)
  <2>1. Moves(c, "idle", m, 0, f, j) /\ pc[c] # "shielded" /\ UNCHANGED <<pstate, rt, rlock>>
    BY <1>0, <1>5, EntryMoves, CancelMoves DEF Finish, PlainCancelled, Publishing
  <2> QED
    BY <2>1, OutsideIdle, KnownSame DEF Outside
<1>6. CASE Breaks(c)
  BY <1>6, UnwindKnown
<1>7. CASE HookCancelled(Me(c))
  <2> DEFINE next == [f EXCEPT !.at = "abort"]
  <2>1. /\ f.at = "hook" /\ pstate' = pstate /\ rt' = [rt EXCEPT ![f.svc] = "error"]
        /\ Moves(c, pc[c], m, t, next, j)
    BY <1>0, <1>7, CancelMoves
  <2>2. PICK g \in Frames : g = next /\ g.at = "abort" /\ g.svc = f.svc /\ g.all = f.all
    <3>1. next \in Frames /\ next.at = "abort" /\ next.svc = f.svc /\ next.all = f.all
      BY <1>0, AtUpdate
    <3> HIDE DEF next
    <3> QED
      BY <3>1, Zenon
  <2>3. Me(c) # Job(c) /\ (Rising(Me(c)) <=> pc[c] = "raising")
    BY DriverNames
  <2>4. Moves(c, pc[c], m, t, IF Me(c) = Me(c) THEN g ELSE f, IF Me(c) = Job(c) THEN g ELSE j)
    BY <2>1, <2>2, <2>3
  <2>5. Own(Rising(Me(c)), g, "error") /\ f.at \in Working /\ g.at \in Holding
    BY <2>1, <2>2 DEF Own, Working, Holding
  <2>6. Rising(Me(c)) => \A k \in Services : k > f.svc => rt[k] \notin Alive
    BY <1>0, <2>1, <2>3 DEF Known, Raising
  <2> HIDE DEF next
  <2> QED
    BY <2>1, <2>2, <2>4, <2>5, <2>6, WorkKnown
<1>8. CASE ShieldReturns(c)
  <2>1. /\ pc[c] = "shielded" /\ UNCHANGED <<rt, rlock>>
        /\ \/ j.at = "done" /\ pstate' = "error" /\ Moves(c, "cancelled", m, t, f, NoFrame)
           \/ pstate' = pstate /\ Moves(c, "idle", m, 0, f, NoFrame)
    BY <1>0, <1>8, CancelMoves
  <2>2. NoFrame.at = "none"
    BY FrameTypes
  <2>3. CASE j.at = "done" /\ pstate' = "error" /\ Moves(c, "cancelled", m, t, f, NoFrame)
    <3>1. AllDown(rt) /\ StatesTrue'
      BY <1>0, <2>3, QuietStates DEF Known, Down
    <3>2. Known("cancelled", f, NoFrame, pstate', rt', SomeWedged')
      BY <2>1, <2>2, <2>3, <3>1 DEF Known, Working, Holding, Down
    <3> QED
      BY <1>1, <2>1, <2>3, <3>1, <3>2, KnownKeeps DEF Outside
  <2> QED
    BY <2>1, <2>2, <2>3, KnownSame DEF Outside
<1>9. ~OrphanEnds(c)
  BY <1>0, OutsideIdle DEF OrphanEnds
<1> QED
  BY <1>2, <1>3, <1>4, <1>5, <1>6, <1>7, <1>8, <1>9 DEF CallerStep, Carry

LEMMA JobKnown ==
  ASSUME Truthful, NEW c \in Callers, JobBreaks(c)
  PROVE  KnownTrue'
<1> DEFINE f == frame[Me(c)]
           j == frame[Job(c)]
           next == [j EXCEPT !.at = "abort"]
<1>0. /\ FramesFit /\ Known(pc[c], f, j, pstate, rt, SomeWedged) /\ DependencyOrder
      /\ Framed(pc[c], op[c], attempted[c], f, j) /\ j \in Frames /\ j.at \in Working
  BY DriverNames, JobMoves DEF Truthful, Locked, KnownTrue, FramesFit, TypeOK
<1>1. /\ pc[c] = "shielded" /\ j.svc \in Services /\ pstate' = pstate
      /\ pstate \notin Down \cup {"running"}
  BY <1>0, OutsideIdle, JobMoves DEF Known, Framed, Working, Holding, Outside
<1>2. CASE /\ j.at = "hook" /\ rt' = [rt EXCEPT ![j.svc] = "error"]
           /\ Moves(c, pc[c], op[c], attempted[c], f, next)
  <2>1. PICK g \in Frames : g = next /\ g.at = "abort" /\ g.svc = j.svc /\ g.all = j.all
    <3>1. next \in Frames /\ next.at = "abort" /\ next.svc = j.svc /\ next.all = j.all
      BY <1>0, AtUpdate
    <3> HIDE DEF next
    <3> QED
      BY <3>1, Zenon
  <2>2. Me(c) # Job(c) /\ ~Rising(Job(c))
    BY DriverNames
  <2>3. Moves(c, pc[c], op[c], attempted[c],
              IF Job(c) = Me(c) THEN g ELSE f, IF Job(c) = Job(c) THEN g ELSE j)
    BY <1>2, <2>1, <2>2
  <2>4. Own(Rising(Job(c)), g, "error") /\ g.at \in Holding
    BY <2>1, <2>2 DEF Own, Holding
  <2> HIDE DEF next
  <2> QED
    BY <1>0, <1>1, <1>2, <2>1, <2>2, <2>3, <2>4, WorkKnown
<1>3. CASE rt' = rt /\ Moves(c, pc[c], op[c], attempted[c], f, [NoFrame EXCEPT !.at = "lost"])
  <2>1. PICK e : e = [NoFrame EXCEPT !.at = "lost"] /\ e.at = "lost"
    BY FrameTypes
  <2>2. DependencyOrder' /\ StatesTrue'
    BY <1>0, <1>1, <1>3, QuietStates DEF DependencyOrder
  <2>3. Known(pc[c], f, e, pstate, rt, SomeWedged')
    BY <1>0, <1>1, <2>1 DEF Known, Working, Holding
  <2>4. Moves(c, pc[c], op[c], attempted[c], f, e)
    BY <1>3, <2>1
  <2> QED
    BY <1>1, <1>3, <2>2, <2>3, <2>4, KnownKeeps DEF Outside
<1> QED
  BY <1>0, <1>2, <1>3, JobMoves

LEMMA JudgeKnown ==
  ASSUME Truthful, NEW i \in Services, Judge(i)
  PROVE  KnownTrue'
<1>0. rt \in [Services -> Table!ServiceState]
  BY DEF Truthful, Locked, FramesFit, TypeOK
<1>1. /\ \A k \in Services : rt'[k] = rt[k] \/ (rt[k] \in Up /\ rt'[k] \in Up)
      /\ UNCHANGED <<pstate, rlock, pc, frame>>
  <2>1. PICK s \in Up : rt' = [rt EXCEPT ![i] = s]
    BY DEF Judge
  <2>2. \A k \in Services : rt'[k] = IF k = i THEN s ELSE rt[k]
    BY <1>0, <2>1
  <2>3. rt[i] \in Up /\ UNCHANGED <<pstate, rlock, pc, frame>>
    BY DEF Judge
  <2> QED
    BY <2>2, <2>3
<1>2. \A k \in Services : /\ rt'[k] \in Up <=> rt[k] \in Up
                          /\ rt'[k] \in Alive <=> rt[k] \in Alive
                          /\ rt'[k] \in Down <=> rt[k] \in Down
                          /\ \A s \in {"initializing", "stopping", "stopped", "error"} :
                                rt'[k] = s <=> rt[k] = s
  BY <1>1, TransitionTable DEF Alive, Down
<1>3. DependencyOrder'
  <2>1. \A k \in Services : \A l \in 1..(k - 1) : l \in Services
    BY PipelineAssumption DEF Services
  <2> QED
    BY <1>2, <2>1 DEF Truthful, KnownTrue, DependencyOrder, Alive
<1>4. StatesTrue' /\ (SomeWedged' <=> SomeWedged)
  BY <1>1, <1>2 DEF Truthful, KnownTrue, StatesTrue, SomeWedged
<1>5. ASSUME NEW c \in Callers
      PROVE  Known(pc'[c], frame'[Me(c)], frame'[Job(c)], pstate', rt', SomeWedged')
  <2> DEFINE f == frame[Me(c)]
             j == frame[Job(c)]
  <2>1. Known(pc[c], f, j, pstate, rt, SomeWedged) /\ Framed(pc[c], op[c], attempted[c], f, j)
    BY DEF Truthful, Locked, FramesFit, KnownTrue
  <2> HIDE DEF f, j
  <2>2. \A g : g.svc \in Services => (Raising(g, rt) => Raising(g, rt'))
    BY <1>2 DEF Raising
  <2>3. \A g : g.svc \in Services => (Lowering(g, rt) => Lowering(g, rt'))
    BY <1>2 DEF Lowering
  <2>4. AllDown(rt) => AllDown(rt')
    BY <1>2 DEF AllDown
  <2>5. Known(pc[c], f, j, pstate, rt', SomeWedged')
    BY <1>2, <1>4, <2>1, <2>2, <2>3, <2>4 DEF Known, Framed, InCall
  <2> QED
    BY <1>1, <2>5 DEF f, j
<1> QED
  BY <1>3, <1>4, <1>5 DEF KnownTrue

LEMMA TruthfulInit == Init => Truthful
<1> SUFFICES ASSUME Init PROVE Truthful
  OBVIOUS
<1>1. \A i \in Services : rt[i] \notin Alive /\ rt[i] \in Down
  BY TransitionTable DEF Init, Alive, Down
<1>2. DependencyOrder /\ StatesTrue
  BY <1>1 DEF Init, DependencyOrder, StatesTrue, Alive
<1>3. ASSUME NEW c \in Callers
      PROVE  Known(pc[c], frame[Me(c)], frame[Job(c)], pstate, rt, SomeWedged)
  BY DriverNames, FrameTypes, OutsideKnown DEF Init, Outside
<1> QED
  BY <1>2, <1>3, LockedInit DEF Truthful, KnownTrue

LEMMA TruthfulStep ==
  ASSUME "shield" \notin CancelPoints
  PROVE  Truthful /\ [Next]_vars => Truthful'
<1> SUFFICES ASSUME Truthful, [Next]_vars PROVE KnownTrue'
  BY LockedStep DEF Truthful
<1>1. CASE UNCHANGED vars
  BY <1>1 DEF vars, Truthful, KnownTrue, DependencyOrder, StatesTrue, SomeWedged
<1> QED
  BY <1>1, Steps, CallerKnown, DriverKnown, JobKnown, JudgeKnown DEF StepOf

THEOREM Inductive == ASSUME "shield" \notin CancelPoints PROVE Spec => []Truthful
  BY TruthfulInit, TruthfulStep, PTL DEF Spec

\* A service comes up, and stays up, only above services that are up: unless a
\* caller is cancelled again while it awaits its rollback.
THEOREM DependenciesFirst ==
  ASSUME "shield" \notin CancelPoints
  PROVE  Spec => []DependencyOrder
<1>1. Truthful => DependencyOrder
  BY DEF Truthful, KnownTrue
<1> QED
  BY <1>1, Inductive, PTL

\* A RUNNING pipeline has all its services up, under the same condition.
THEOREM RunningIsUp ==
  ASSUME "shield" \notin CancelPoints
  PROVE  Spec => []RunningMeansAllUp
<1>1. Truthful => RunningMeansAllUp
  BY DEF Truthful, KnownTrue, StatesTrue, RunningMeansAllUp
<1> QED
  BY <1>1, Inductive, PTL

-----------------------------------------------------------------------------
(* How a call ends *)

LEMMA OthersWait ==
  ASSUME FramesFit, NEW e \in Callers, StepOf(e)
  PROVE  \A c \in Callers \ {e} : pc'[c] = pc[c]
<1> DEFINE Same == \A c \in Callers \ {e} : pc'[c] = pc[c]
<1>1. \A k, p : k = e /\ Goto(k, p) => Same
  BY DEF Goto, FramesFit, TypeOK
<1>2. (UNCHANGED pc => Same) /\ \A k, result : k = e /\ Return(k, result) => Same
  BY <1>1 DEF Return
<1> HIDE DEF Same
<1> SUFFICES Same
  BY DEF Same
<1>3. CASE CallerStep(e)
  <2>1. Breaks(e) => Unwind(e)
    BY BreakMoves
  <2>2. Unwind(e) => Same
    BY <1>1, <1>2 DEF Unwind
  <2>3. Obtain(e) => Same
    BY <1>1, <1>2 DEF Obtain, Start, Stop
  <2>4. Carry(e) => Same
    BY <1>1, <1>2 DEF Carry, StartLoop, StopLoop, Finish, ShieldReturns, OrphanEnds
  <2> QED
    BY <1>1, <1>2, <1>3, <2>1, <2>2, <2>3, <2>4 DEF CallerStep, Call, HookCancelled, PlainCancelled
<1>4. CASE \E d \in {Me(e), Job(e)} : DriverStep(d)
  <2>1. PICK d \in {Me(e), Job(e)} : DriverStep(d)
    BY <1>4
  <2>2. d[1] = e
    BY DriverNames
  <2>3. \A result : Advance(d, result) => Same
    BY <1>1, <1>2, <2>2 DEF Advance, Raised, Lowered
  <2>4. Raise(d) => Same
    BY <1>2, <2>2 DEF Raise
  <2> QED
    BY <1>2, <2>1, <2>3, <2>4 DEF DriverStep, Enter, Announced, HookReturns, Concluded
<1>5. CASE JobBreaks(e)
  BY <1>2, <1>5, JobMoves
<1> QED
  BY <1>3, <1>4, <1>5 DEF StepOf

\* The ways out of a method, and what is true of the services there.
EndsWell(c) ==
    \/ /\ pc[c] = "waiting" /\ ret'[c] \in {"true", "cancelled"}
       /\ ret'[c] = "true" => IF op[c] = "start" THEN pstate = "running" ELSE pstate \in Down
       /\ rt' = rt
    \/ pc[c] = "up" /\ op[c] = "start" /\ pstate = "running" /\ ret'[c] # "invalid" /\ rt' = rt
    \/ /\ pc[c] \in {"failed", "cancelled", "down"} /\ AllDown(rt) /\ ret'[c] # "invalid" /\ rt' = rt
       /\ ret'[c] = "true" => pstate = "stopped" /\ op[c] = "stop"
    \/ pc[c] \in {"starting", "stopping"} /\ ret'[c] = "cancelled"
    \/ op[c] = "stop" /\ ret'[c] = "cancelled"
    \/ pc[c] \in InCall \cup {"shielded"} /\ SomeWedged' /\ ret'[c] = "invalid"
    \/ pc[c] = "shielded" /\ frame[Job(c)].at = "lost" /\ ret'[c] = "cancelled"

LEMMA EndsHow ==
  ASSUME Truthful, "shield" \notin CancelPoints, Next, NEW c \in Callers, Ends(c)
  PROVE  EndsWell(c)
<1> DEFINE f == frame[Me(c)]
           j == frame[Job(c)]
<1>0. /\ FramesFit /\ Known(pc[c], f, j, pstate, rt, SomeWedged)
      /\ Framed(pc[c], op[c], attempted[c], f, j) /\ pc[c] \in Points
      /\ op[c] \in {"start", "stop"} /\ f \in Frames
  BY DriverNames DEF Truthful, Locked, KnownTrue, FramesFit, TypeOK
<1>1. \A result : Return(c, result) => ret'[c] = result
  BY <1>0 DEF Return, FramesFit, TypeOK
<1>2. \A p : Goto(c, p) => pc'[c] = p
  BY <1>0 DEF Goto, FramesFit, TypeOK
<1>3. CallerStep(c) \/ \E d \in {Me(c), Job(c)} : DriverStep(d)
  <2>1. StepOf(c)
    BY <1>0, Steps, OthersWait DEF Ends, Judge
  <2>2. ~JobBreaks(c)
    BY <1>0, JobMoves DEF Ends
  <2> QED
    BY <2>1, <2>2 DEF StepOf
<1>4. CASE Call(c, "start") \/ Call(c, "stop") \/ StartLoop(c) \/ StopLoop(c) \/ OrphanEnds(c)
           \/ HookCancelled(Me(c))
  BY <1>2, <1>4 DEF Ends, Call, StartLoop, StopLoop, OrphanEnds, HookCancelled
<1>5. CASE Obtain(c)
  BY <1>0, <1>1, <1>2, <1>5 DEF Ends, Obtain, Start, Stop, EndsWell, Down
<1>6. CASE Finish(c)
  BY <1>0, <1>1, <1>6 DEF Finish, EndsWell, Known, Framed
<1>7. CASE PlainCancelled(c)
  BY <1>0, <1>1, <1>7 DEF PlainCancelled, Publishing, EndsWell, Known, Framed
<1>8. CASE Breaks(c)
  BY <1>1, <1>2, <1>8, BreakMoves DEF Ends, Unwind, EndsWell
<1>9. CASE ShieldReturns(c)
  <2>1. /\ UNCHANGED <<rt, rlock>> /\ pc[c] = "shielded" /\ op[c] = "start"
        /\ \/ j.at = "broke" /\ Return(c, "invalid")
           \/ j.at = "lost" /\ Return(c, "cancelled")
    BY <1>0, <1>2, <1>9 DEF Ends, ShieldReturns, Framed
  <2>2. j.at = "broke" => SomeWedged'
    BY <1>0, <2>1 DEF Known, SomeWedged
  <2> QED
    BY <1>1, <2>1, <2>2 DEF EndsWell
<1>10. ASSUME NEW d \in {Me(c), Job(c)}, DriverStep(d) PROVE EndsWell(c)
  <2>1. d[1] = c
    BY DriverNames
  <2>2. \A result : ~Advance(d, result)
    BY <1>2, <2>1 DEF Ends, Advance, Raised, Lowered
  <2>3. Enter(d) /\ pc' # pc
    BY <1>10, <2>2 DEF Ends, DriverStep, Announced, HookReturns, Concluded
  <2>4. /\ frame[d].at = "lock" /\ rlock[frame[d].svc] = NoOne /\ UNCHANGED <<rt, rlock>>
        /\ d = Me(c) /\ Return(c, "invalid")
        /\ rt[frame[d].svc] \notin IF Rising(d) THEN Up ELSE {"uninitialized", "stopped"}
        /\ ~Legal(rt[frame[d].svc], IF Rising(d) THEN "initializing" ELSE "stopping")
    <3>1. /\ Raise(d) /\ UNCHANGED <<rt, rlock>>
          /\ rt[frame[d].svc] \notin IF Rising(d) THEN Up ELSE {"uninitialized", "stopped"}
          /\ ~Legal(rt[frame[d].svc], IF Rising(d) THEN "initializing" ELSE "stopping")
      BY <2>2, <2>3 DEF Enter
    <3>2. d = Me(c) /\ Return(c, "invalid")
      BY <2>1, <2>3, <3>1 DEF Raise
    <3> QED
      BY <2>3, <3>1, <3>2 DEF Enter
  <2>5. /\ pc[c] \in InCall /\ f.svc \in Services
        /\ rt[f.svc] \in {"initializing", "stopping"}
    <3>1. pc[c] \in InCall /\ f.svc \in Services
      BY <1>0, <2>4, OutsideIdle DEF Working, Framed
    <3>2. rt[f.svc] \in Table!ServiceState
      BY <1>0, <3>1 DEF FramesFit, TypeOK
    <3> QED
      BY <2>4, <3>1, <3>2, TransitionTable
  <2>6. SomeWedged'
    BY <2>4, <2>5 DEF SomeWedged
  <2> QED
    BY <1>1, <2>4, <2>5, <2>6 DEF EndsWell
<1> QED
  BY <1>3, <1>4, <1>5, <1>6, <1>7, <1>8, <1>9, <1>10 DEF CallerStep, Carry

\* What a method answers is true of the services at that moment.
THEOREM AnswersHold ==
  ASSUME "shield" \notin CancelPoints
  PROVE  Spec => ResultsAreTrue
<1> DEFINE Told == \A c \in Callers : (Ends(c) /\ ret'[c] = "true") =>
         \A i \in Services :
            rt'[i] \in IF op[c] = "start" THEN Up ELSE {"uninitialized", "stopped"}
<1>1. ASSUME Truthful, [Next]_vars PROVE [Told]_vars
  <2> SUFFICES ASSUME Next, NEW c \in Callers, Ends(c), ret'[c] = "true"
               PROVE  \A i \in Services :
                        rt'[i] \in IF op[c] = "start" THEN Up ELSE {"uninitialized", "stopped"}
    BY <1>1
  <2>1. EndsWell(c)
    BY <1>1, EndsHow
  <2>2. rt' = rt /\ IF op[c] = "start" THEN pstate = "running" ELSE pstate \in Down
    BY <2>1 DEF EndsWell, Down
  <2> QED
    BY <1>1, <2>2 DEF Truthful, KnownTrue, StatesTrue, Down
<1> QED
  BY <1>1, Inductive, PTL DEF Spec, ResultsAreTrue

\* A start() that fails or is cancelled leaves no service up, unless its rollback
\* was broken off: by a wedged service, or by a CancelledError in the shielded
\* rollback itself.
THEOREM RollbackReaches ==
  ASSUME "shield" \notin CancelPoints
  PROVE  Spec => AbandonsOnlyIfBrokenOff
<1> DEFINE Undone == \A c \in Callers :
                       StartFails(c) => NoneUp' \/ SomeWedged' \/ frame[Job(c)].at = "lost"
<1>1. ASSUME Truthful, [Next]_vars PROVE [Undone]_vars
  <2> SUFFICES ASSUME Next, NEW c \in Callers, StartFails(c)
               PROVE  NoneUp' \/ SomeWedged' \/ frame[Job(c)].at = "lost"
    BY <1>1
  <2>1. EndsWell(c)
    BY <1>1, EndsHow DEF StartFails
  <2>2. (AllDown(rt) /\ rt' = rt) \/ SomeWedged' \/ frame[Job(c)].at = "lost"
    BY <2>1 DEF EndsWell, StartFails
  <2> QED
    BY <2>2 DEF AllDown, NoneUp, Alive
<1> QED
  BY <1>1, Inductive, PTL DEF Spec, AbandonsOnlyIfBrokenOff

\* A stop() that is not cancelled reaches every service, or raises because one is
\* wedged.
THEOREM StopReaches ==
  ASSUME "shield" \notin CancelPoints
  PROVE  Spec => StopReachesAll
<1> DEFINE Reached ==
      \A c \in Callers :
         (Ends(c) /\ op[c] = "stop" /\ pc[c] # "waiting" /\ ret'[c] # "cancelled")
            => \/ NoneUp' /\ ret'[c] # "invalid"
               \/ SomeWedged' /\ ret'[c] = "invalid"
<1>1. ASSUME Truthful, [Next]_vars PROVE [Reached]_vars
  <2> SUFFICES ASSUME Next, NEW c \in Callers, Ends(c), op[c] = "stop", pc[c] # "waiting",
                      ret'[c] # "cancelled"
               PROVE  \/ NoneUp' /\ ret'[c] # "invalid"
                      \/ SomeWedged' /\ ret'[c] = "invalid"
    BY <1>1
  <2>1. EndsWell(c)
    BY <1>1, EndsHow
  <2>2. \/ AllDown(rt) /\ rt' = rt /\ ret'[c] # "invalid"
        \/ SomeWedged' /\ ret'[c] = "invalid"
    BY <2>1 DEF EndsWell
  <2> QED
    BY <2>2 DEF AllDown, NoneUp, Alive
<1> QED
  BY <1>1, Inductive, PTL DEF Spec, StopReachesAll

-----------------------------------------------------------------------------
(* The life of each service, wherever callers are cancelled *)

Open == {"announce", "hook"}

\* A service on which an operation is open is in that operation's state.
Opened ==
    \A d \in Drivers : frame[d].at \in Open =>
        rt[frame[d].svc] = IF Rising(d) THEN "initializing" ELSE "stopping"

\* What d has open, or has not, stays as it is.
SameFor(d) ==
    /\ frame'[d].at \in Open <=> frame[d].at \in Open
    /\ frame[d].at \in Open => frame'[d].svc = frame[d].svc /\ (Rising(d)' <=> Rising(d))

Quiet == rt' = rt /\ \A e \in Drivers : SameFor(e)

\* d opens an operation on its service, or ends it.
Begins(d) ==
    /\ frame[d].at \notin Open /\ frame'[d].at \in Open
    /\ frame[d].svc \in Services /\ rlock[frame[d].svc] = NoOne
    /\ frame'[d].svc = frame[d].svc
    /\ LET new == IF Rising(d)' THEN "initializing" ELSE "stopping"
       IN  Legal(rt[frame[d].svc], new) /\ rt' = [rt EXCEPT ![frame[d].svc] = new]
    /\ \A e \in Drivers \ {d} : SameFor(e)

Closes(d) ==
    /\ frame[d].at \in Open /\ frame'[d].at \notin Open
    /\ \/ rt' = rt /\ "publish" \in CancelPoints
       \/ \E new \in {"error", IF Rising(d) THEN "running" ELSE "stopped"} :
             rt' = [rt EXCEPT ![frame[d].svc] = new]
    /\ \A e \in Drivers \ {d} : SameFor(e)

LEMMA OthersSame ==
  ASSUME FramesFit, NEW c \in Callers, NEW p, NEW m, NEW t, NEW f, NEW j,
         Moves(c, p, m, t, f, j)
  PROVE  \A e \in Drivers \ {Me(c), Job(c)} : SameFor(e)
<1>1. ASSUME NEW e \in Drivers \ {Me(c), Job(c)} PROVE SameFor(e)
  <2>1. frame'[e] = frame[e] /\ pc'[e[1]] = pc[e[1]]
    BY <1>1, OthersStay, DriverNames
  <2> QED
    BY <2>1 DEF SameFor, Rising
<1> QED
  BY <1>1

LEMMA QuietMoves ==
  ASSUME FramesFit, NEW c \in Callers, NEW p, NEW m, NEW t, NEW f, NEW j,
         Moves(c, p, m, t, f, j),
         frame[Me(c)].at \notin Open /\ f.at \notin Open,
         j = frame[Job(c)] \/ (frame[Job(c)].at \notin Open /\ j.at \notin Open)
  PROVE  \A e \in Drivers : SameFor(e)
<1>1. frame'[Me(c)] = f /\ frame'[Job(c)] = j
  BY OneMoves
<1>2. SameFor(Me(c))
  BY <1>1 DEF SameFor
<1>3. ~Rising(Job(c)) /\ ~Rising(Job(c))'
  BY DEF Rising, Job
<1>4. SameFor(Job(c))
  BY <1>1, <1>3 DEF SameFor
<1> QED
  BY <1>2, <1>4, OthersSame

LEMMA CallerLives ==
  ASSUME FramesFit, NEW c \in Callers, CallerStep(c)
  PROVE  Quiet \/ Closes(Me(c))
<1> DEFINE f == frame[Me(c)]
           j == frame[Job(c)]
           m == op[c]
           t == attempted[c]
<1>0. /\ f \in Frames /\ j \in Frames /\ Framed(pc[c], m, t, f, j)
      /\ Me(c) \in Drivers /\ Job(c) \in Drivers /\ Me(c) # Job(c)
      /\ pc[c] \notin InCall => f.at \notin Open
      /\ NoFrame.at \notin Open /\ 1 \in Services /\ N \in Services
  BY DriverNames, FrameTypes DEF FramesFit, TypeOK, Framed, Open
<1>1. CASE Call(c, "start") \/ Call(c, "stop") \/ Obtain(c) \/ Finish(c) \/ PlainCancelled(c)
  <2>1. /\ rt' = rt /\ pc[c] \notin InCall
        /\ \E p, m2, t2 : Moves(c, p, m2, t2, f, j)
    <3>1. CASE Call(c, "start") \/ Call(c, "stop")
      BY <3>1, EntryMoves DEF Call, InCall
    <3>2. CASE Obtain(c)
      BY <3>2, EntryMoves DEF Obtain, Start, Stop, InCall
    <3>3. CASE Finish(c) \/ PlainCancelled(c)
      BY <3>3, EntryMoves, CancelMoves DEF Finish, PlainCancelled, InCall, Publishing
    <3> QED
      BY <1>1, <3>1, <3>2, <3>3
  <2> QED
    BY <1>0, <2>1, QuietMoves DEF Quiet
<1>2. CASE StartLoop(c) \/ StopLoop(c)
  <2>1. /\ rt' = rt /\ pc[c] \notin InCall
        /\ \/ Moves(c, "raising", m, 1, Entering(1), j)
           \/ Moves(c, "lowering", m, t, Entering(N), j)
    BY <1>2, EntryMoves DEF StartLoop, StopLoop, InCall
  <2>2. Entering(1).at \notin Open /\ Entering(N).at \notin Open
    BY <1>0, EnteringTypes DEF Open
  <2> QED
    BY <1>0, <2>1, <2>2, QuietMoves DEF Quiet
<1>3. CASE ShieldReturns(c) \/ OrphanEnds(c)
  <2>1. /\ rt' = rt /\ pc[c] \notin InCall /\ j.at \notin Open
        /\ \/ Moves(c, "cancelled", m, t, f, NoFrame)
           \/ Moves(c, "idle", m, 0, f, NoFrame)
           \/ Moves(c, pc[c], m, t, f, NoFrame)
    BY <1>0, <1>3, CancelMoves DEF ShieldReturns, OrphanEnds, InCall, Framed, Open
  <2> QED
    BY <1>0, <2>1, QuietMoves DEF Quiet
<1>4. CASE Breaks(c)
  <2>1. /\ rt' = rt /\ pc[c] \in InCall \cup {"failed"} /\ Unwind(c) /\ op' = op
        /\ f.at \in Open => "publish" \in CancelPoints
    BY <1>0, <1>4, BreakMoves, FrameTypes DEF Working, Holding, Open, Framed, InCall
  <2>2. j.at = "none" /\ (m = "start" => t \in Services)
    BY <1>0, <2>1 DEF Framed, InCall
  <2>3. PICK p, t2, j2 : Moves(c, p, m, t2, NoFrame, j2) /\ j2.at \notin Open
    <3>1. CASE m = "start" /\ Moves(c, "shielded", m, t, NoFrame, Entering(t))
      BY <2>2, <3>1, EnteringTypes DEF Open
    <3>2. CASE m = "stop" /\ Moves(c, "idle", m, 0, NoFrame, j)
      BY <2>2, <3>2 DEF Open
    <3> QED
      BY <2>1, <3>1, <3>2, UnwindMoves
  <2>4. CASE f.at \in Open
    <3>1. /\ frame'[Me(c)] = NoFrame /\ frame'[Job(c)] = j2
          /\ \A e \in Drivers \ {Me(c), Job(c)} : SameFor(e)
      BY <2>3, OneMoves, OthersSame
    <3>2. SameFor(Job(c))
      BY <2>2, <2>3, <3>1 DEF SameFor, Open
    <3> QED
      BY <1>0, <2>1, <2>4, <3>1, <3>2 DEF Closes
  <2>5. CASE f.at \notin Open
    BY <1>0, <2>1, <2>2, <2>3, <2>5, QuietMoves DEF Quiet, Open
  <2> QED
    BY <2>4, <2>5
<1>5. CASE HookCancelled(Me(c))
  <2> DEFINE next == [f EXCEPT !.at = "abort"]
  <2>1. /\ f.at = "hook" /\ rt' = [rt EXCEPT ![f.svc] = "error"]
        /\ Moves(c, pc[c], m, t, next, j)
    BY <1>5, CancelMoves
  <2>2. next.at = "abort"
    BY <1>0, AtUpdate
  <2> HIDE DEF next
  <2>3. /\ frame'[Me(c)] = next /\ frame'[Job(c)] = j
        /\ \A e \in Drivers \ {Me(c), Job(c)} : SameFor(e)
    BY <2>1, OneMoves, OthersSame
  <2>4. SameFor(Job(c))
    BY <2>3 DEF SameFor, Rising, Job
  <2> QED
    BY <1>0, <2>1, <2>2, <2>3, <2>4 DEF Closes, Open
<1> QED
  BY <1>1, <1>2, <1>3, <1>4, <1>5 DEF CallerStep, Carry

LEMMA JobLives ==
  ASSUME FramesFit, NEW c \in Callers, JobBreaks(c)
  PROVE  Quiet \/ Closes(Job(c))
<1> DEFINE f == frame[Me(c)]
           j == frame[Job(c)]
           broken == [j EXCEPT !.at = "abort"]
           lost == [NoFrame EXCEPT !.at = "lost"]
<1>0. j \in Frames /\ Me(c) # Job(c) /\ Me(c) \in Drivers /\ Job(c) \in Drivers
  BY DriverNames DEF FramesFit, TypeOK
<1>1. broken.at \notin Open /\ lost.at \notin Open
  BY <1>0, AtUpdate, FrameTypes DEF Open
<1>2. /\ UNCHANGED pc
      /\ \/ /\ j.at = "hook" /\ rt' = [rt EXCEPT ![j.svc] = "error"]
            /\ Moves(c, pc[c], op[c], attempted[c], f, broken)
         \/ /\ rt' = rt /\ (j.at \in Open => "publish" \in CancelPoints)
            /\ Moves(c, pc[c], op[c], attempted[c], f, lost)
  BY JobMoves DEF Open
<1> HIDE DEF broken, lost
<1>3. PICK j2 : j2.at \notin Open /\ Moves(c, pc[c], op[c], attempted[c], f, j2)
  BY <1>1, <1>2
<1>4. /\ frame'[Me(c)] = f /\ frame'[Job(c)] = j2
      /\ \A e \in Drivers \ {Me(c), Job(c)} : SameFor(e)
  BY <1>3, OneMoves, OthersSame
<1>5. SameFor(Me(c))
  BY <1>2, <1>4 DEF SameFor, Rising
<1>6. CASE j.at \in Open
  BY <1>0, <1>2, <1>3, <1>4, <1>5, <1>6 DEF Closes
<1>7. CASE j.at \notin Open
  <2>1. rt' = rt /\ SameFor(Job(c))
    BY <1>2, <1>3, <1>4, <1>7 DEF SameFor, Open
  <2> QED
    BY <1>0, <1>4, <1>5, <2>1 DEF Quiet
<1> QED
  BY <1>6, <1>7

LEMMA DriverLives ==
  ASSUME FramesFit, NEW c \in Callers, NEW d \in {Me(c), Job(c)}, DriverStep(d)
  PROVE  Quiet \/ Begins(d) \/ Closes(d)
<1> DEFINE f == frame[Me(c)]
           j == frame[Job(c)]
           i == frame[d].svc
<1>0. /\ f \in Frames /\ j \in Frames /\ frame[d] \in Frames /\ Framed(pc[c], op[c], attempted[c], f, j)
      /\ d \in Drivers /\ Me(c) \in Drivers /\ Job(c) \in Drivers /\ Me(c) # Job(c)
      /\ NoFrame.at \notin Open /\ ~Rising(Job(c)) /\ ~Rising(Job(c))'
      /\ (Rising(d) <=> d = Me(c) /\ pc[c] = "raising")
  BY DriverNames, FrameTypes DEF FramesFit, TypeOK, Open, Rising, Job
\* Of the two drivers of c, only d is at work.
<1>1. ASSUME frame[d].at \in Working
      PROVE  /\ i \in Services
             /\ \A e \in {Me(c), Job(c)} \ {d} : frame[e].at \notin Open
  BY <1>0, <1>1, FrameTypes DEF Framed, Working, Holding, InCall, Open
<1>2. ASSUME NEW g, frame[d].at \in Working,
             Moves(c, pc[c], op[c], attempted[c], IF d = Me(c) THEN g ELSE f, IF d = Job(c) THEN g ELSE j)
      PROVE  /\ frame'[d] = g /\ \A e \in Drivers \ {d} : SameFor(e)
             /\ Rising(d)' <=> Rising(d)
  <2>1. /\ frame'[Me(c)] = (IF d = Me(c) THEN g ELSE f) /\ frame'[Job(c)] = (IF d = Job(c) THEN g ELSE j)
        /\ pc'[c] = pc[c] /\ \A e \in Drivers \ {Me(c), Job(c)} : SameFor(e)
    BY <1>2, OneMoves, OthersSame
  <2>2. \A e \in {Me(c), Job(c)} \ {d} : frame'[e] = frame[e]
    BY <1>0, <2>1
  <2>3. \A e \in {Me(c), Job(c)} \ {d} : SameFor(e)
    BY <1>1, <1>2, <2>2 DEF SameFor
  <2>4. frame'[d] = g /\ d[1] = c
    BY <1>0, <2>1, DriverNames
  <2> QED
    BY <2>1, <2>3, <2>4 DEF Rising
<1>3. ASSUME NEW result \in BOOLEAN, Advance(d, result), frame[d].at \in Working \ Open, op' = op, rt' = rt
      PROVE  Quiet
  <2>1. /\ \A e \in Drivers \ {d} : frame'[e] = frame[e]
        /\ frame'[d].at \notin Holding /\ \A e \in Callers \ {c} : pc'[e] = pc[e]
    BY <1>3, AdvanceLeaves
  <2>2. ASSUME NEW e \in Drivers PROVE SameFor(e)
    <3>1. CASE e = d
      BY <1>3, <2>1, <3>1 DEF SameFor, Open, Holding
    <3>2. CASE e \in {Me(c), Job(c)} \ {d}
      BY <1>1, <1>3, <2>1, <3>2, <1>0 DEF SameFor
    <3>3. CASE e \notin {Me(c), Job(c)}
      <4>1. frame'[e] = frame[e] /\ pc'[e[1]] = pc[e[1]]
        BY <2>1, <2>2, <3>3, DriverNames
      <4> QED
        BY <4>1 DEF SameFor, Rising
    <3> QED
      BY <3>1, <3>2, <3>3
  <2> QED
    BY <1>3, <2>2 DEF Quiet
<1>4. CASE Enter(d)
  <2> DEFINE rising == d = Me(c) /\ pc[c] = "raising"
             new == IF rising THEN "initializing" ELSE "stopping"
             from == IF rising THEN {"uninitialized", "stopped", "error"}
                               ELSE {"running", "degraded", "error"}
             next == [frame[d] EXCEPT !.at = "announce"]
  <2>1. /\ frame[d].at = "lock" /\ rlock[i] = NoOne /\ op' = op
        /\ \/ Advance(d, TRUE) /\ rt' = rt
           \/ /\ rt[i] \in from /\ rt' = [rt EXCEPT ![i] = new]
              /\ Moves(c, pc[c], op[c], attempted[c],
                       IF d = Me(c) THEN next ELSE f, IF d = Job(c) THEN next ELSE j)
           \/ /\ rt' = rt /\ d = Job(c)
              /\ Moves(c, pc[c], op[c], attempted[c], f, [NoFrame EXCEPT !.at = "broke"])
           \/ /\ rt' = rt /\ d = Me(c)
              /\ Moves(c, "idle", op[c], 0, NoFrame, j)
    BY <1>4, EnterMoves
  <2>2. next.at = "announce" /\ next.svc = i
    BY <1>0, AtUpdate
  <2>3. frame[d].at \in Working \ Open /\ i \in Services
    BY <1>1, <2>1 DEF Working, Open
  <2> HIDE DEF next
  <2>4. CASE /\ rt[i] \in from /\ rt' = [rt EXCEPT ![i] = new]
             /\ Moves(c, pc[c], op[c], attempted[c],
                      IF d = Me(c) THEN next ELSE f, IF d = Job(c) THEN next ELSE j)
    <3>1. frame'[d] = next /\ (\A e \in Drivers \ {d} : SameFor(e)) /\ (Rising(d)' <=> rising)
      BY <1>0, <1>2, <2>3, <2>4
    <3>2. Legal(rt[i], new)
      BY <2>4, TransitionTable
    <3>3. new = IF Rising(d)' THEN "initializing" ELSE "stopping"
      BY <3>1
    <3> HIDE DEF new
    <3> QED
      BY <2>1, <2>2, <2>3, <2>4, <3>1, <3>2, <3>3 DEF Begins, Open
  <2>5. CASE /\ rt' = rt /\ d = Job(c)
             /\ Moves(c, pc[c], op[c], attempted[c], f, [NoFrame EXCEPT !.at = "broke"])
    <3>1. PICK e : e = [NoFrame EXCEPT !.at = "broke"] /\ e.at = "broke"
      BY FrameTypes
    <3>2. Moves(c, pc[c], op[c], attempted[c], f, e) /\ f.at \notin Open /\ j.at \notin Open
      BY <1>0, <1>1, <2>3, <2>5, <3>1
    <3> QED
      BY <2>5, <3>1, <3>2, QuietMoves DEF Quiet, Open
  <2>6. CASE /\ rt' = rt /\ d = Me(c)
             /\ Moves(c, "idle", op[c], 0, NoFrame, j)
    BY <1>0, <2>3, <2>6, QuietMoves DEF Quiet
  <2> QED
    BY <1>3, <2>1, <2>3, <2>4, <2>5, <2>6
<1>5. CASE Announced(d)
  <2> DEFINE next == [frame[d] EXCEPT !.at = "hook"]
  <2>1. /\ frame[d].at = "announce" /\ rt' = rt
        /\ Moves(c, pc[c], op[c], attempted[c],
                 IF d = Me(c) THEN next ELSE f, IF d = Job(c) THEN next ELSE j)
    BY <1>5, DriveMoves DEF Announced
  <2>2. next.at = "hook" /\ next.svc = i
    BY <1>0, AtUpdate
  <2> HIDE DEF next
  <2>3. frame'[d] = next /\ (\A e \in Drivers \ {d} : SameFor(e)) /\ (Rising(d)' <=> Rising(d))
    BY <1>2, <2>1 DEF Working, Holding
  <2>4. SameFor(d)
    BY <2>1, <2>2, <2>3 DEF SameFor, Open
  <2> QED
    BY <2>1, <2>3, <2>4 DEF Quiet
<1>6. ASSUME NEW ok \in BOOLEAN, HookReturns(d, ok) PROVE Closes(d)
  <2> DEFINE at == [frame[d] EXCEPT !.at = "conclude"]
             next == [at EXCEPT !.good = ok]
             new == IF ~ok THEN "error" ELSE IF d = Me(c) /\ pc[c] = "raising" THEN "running" ELSE "stopped"
  <2>1. /\ frame[d].at = "hook" /\ rt' = [rt EXCEPT ![i] = new]
        /\ Moves(c, pc[c], op[c], attempted[c],
                 IF d = Me(c) THEN next ELSE f, IF d = Job(c) THEN next ELSE j)
    BY <1>6, DriveMoves
  <2>2. at \in Frames /\ at.at = "conclude"
    BY <1>0, AtUpdate
  <2> HIDE DEF at
  <2>3. next.at = "conclude"
    BY <2>2, GoodUpdate
  <2> HIDE DEF next
  <2>4. frame'[d] = next /\ \A e \in Drivers \ {d} : SameFor(e)
    BY <1>2, <2>1 DEF Working, Holding
  <2>5. new \in {"error", IF Rising(d) THEN "running" ELSE "stopped"}
    BY <1>0
  <2> HIDE DEF new
  <2> QED
    BY <2>1, <2>3, <2>4, <2>5 DEF Closes, Open
<1>7. CASE Concluded(d)
  <2>1. /\ frame[d].good \in BOOLEAN /\ Advance(d, frame[d].good) /\ frame[d].at = "conclude"
        /\ op' = op /\ rt' = rt
    BY <1>0, <1>7 DEF Concluded, Frames
  <2> QED
    BY <1>3, <2>1 DEF Working, Holding, Open
<1> QED
  BY <1>4, <1>5, <1>6, <1>7 DEF DriverStep

\* busyOn in terms of the one driver that has an operation open.
BusyFits ==
    \A i \in Services :
        /\ \A d \in Drivers : (frame[d].svc = i /\ frame[d].at \in Open)
              => busyOn(i) = IF Rising(d) THEN "start" ELSE "stop"
        /\ (\A d \in Drivers : ~(frame[d].svc = i /\ frame[d].at \in Open)) => busyOn(i) = "none"

LEMMA BusyIs == Locked => BusyFits
<1> SUFFICES ASSUME Locked, NEW i \in Services
             PROVE  /\ \A d \in Drivers : (frame[d].svc = i /\ frame[d].at \in Open)
                          => busyOn(i) = IF Rising(d) THEN "start" ELSE "stop"
                    /\ (\A d \in Drivers : ~(frame[d].svc = i /\ frame[d].at \in Open))
                          => busyOn(i) = "none"
  BY DEF BusyFits
<1>1. ASSUME NEW d \in Drivers, frame[d].svc = i, frame[d].at \in Open
      PROVE  busyOn(i) = IF Rising(d) THEN "start" ELSE "stop"
  <2>1. \A e \in Opening(i) : e = d
    BY <1>1 DEF Locked, OneDriverIn, Opening, Holding, Open
  <2>2. d \in Opening(i)
    BY <1>1 DEF Opening, Open
  <2> QED
    BY <2>1, <2>2 DEF busyOn
<1>2. ASSUME \A d \in Drivers : ~(frame[d].svc = i /\ frame[d].at \in Open)
      PROVE  busyOn(i) = "none"
  <2>1. Opening(i) = {}
    BY <1>2 DEF Opening, Open
  <2> QED
    BY <2>1 DEF busyOn
<1> QED
  BY <1>1, <1>2

LEMMA BusySame ==
  ASSUME BusyFits, BusyFits', NEW i \in Services,
         \A e \in Drivers : \/ frame[e].svc = i /\ frame[e].at \in Open
                            \/ frame'[e].svc = i /\ frame'[e].at \in Open
                            => SameFor(e)
  PROVE  busyOn(i)' = busyOn(i)
<1>1. ASSUME NEW d \in Drivers, frame[d].svc = i, frame[d].at \in Open
      PROVE  busyOn(i)' = busyOn(i)
  <2>1. frame'[d].svc = i /\ frame'[d].at \in Open /\ (Rising(d)' <=> Rising(d))
    BY <1>1 DEF SameFor
  <2> QED
    BY <1>1, <2>1 DEF BusyFits
<1>2. ASSUME \A d \in Drivers : ~(frame[d].svc = i /\ frame[d].at \in Open)
      PROVE  busyOn(i)' = busyOn(i)
  <2>1. \A d \in Drivers : ~(frame'[d].svc = i /\ frame'[d].at \in Open)
    BY <1>2 DEF SameFor
  <2> QED
    BY <1>2, <2>1 DEF BusyFits
<1> QED
  BY <1>1, <1>2

LEMMA LifeTable ==
  ASSUME NEW i \in Services
  PROVE  /\ \A s, new : Legal(s, new) <=> new \in Life(i)!Transitions[s]
         /\ {"running", "error"} \subseteq Life(i)!Transitions["initializing"]
         /\ {"stopped", "error"} \subseteq Life(i)!Transitions["stopping"]
         /\ Life(i)!Up = Up
  BY DEF Legal, Table!Transitions, Life!Transitions, Table!ServiceState, Life!ServiceState,
     Up, Table!Up, Life!Up

\* One step, as the life of a service sees it.
Lives(i) == Life(i)!LifeNext \/ UNCHANGED <<rt[i], busyOn(i)>>

LEMMA DriverStepLives ==
  ASSUME Locked, Opened, BusyFits, BusyFits', NEW d \in Drivers,
         Quiet \/ Begins(d) \/ Closes(d)
  PROVE  Opened' /\ \A i \in Services : Lives(i)
<1>0. rt \in [Services -> Table!ServiceState] /\ FramesFit
  BY DEF Locked, FramesFit, TypeOK
<1>1. ASSUME NEW e \in Drivers, frame[e].at \in Open
      PROVE  frame[e].svc \in Services /\ rlock[frame[e].svc] = e
  <2>1. e[1] \in Callers /\ (e = Me(e[1]) \/ e = Job(e[1]))
    BY DriverNames
  <2>2. frame[e].svc \in Services
    BY <1>0, <1>1, <2>1, FrameTypes DEF FramesFit, Framed, Open, Working, Holding
  <2> QED
    BY <1>1, <2>2 DEF Locked, OneDriverIn, Open, Holding
<1>2. CASE Quiet
  <2>1. Opened'
    BY <1>2 DEF Quiet, Opened, SameFor
  <2>2. \A i \in Services : busyOn(i)' = busyOn(i)
    BY <1>2, BusySame DEF Quiet
  <2> QED
    BY <1>2, <2>1, <2>2 DEF Quiet, Lives
<1>3. CASE Begins(d)
  <2> DEFINE k == frame[d].svc
             new == IF Rising(d)' THEN "initializing" ELSE "stopping"
  <2>1. /\ k \in Services /\ rlock[k] = NoOne /\ frame'[d].svc = k
        /\ Legal(rt[k], new) /\ rt' = [rt EXCEPT ![k] = new]
        /\ frame[d].at \notin Open /\ frame'[d].at \in Open
        /\ \A e \in Drivers \ {d} : SameFor(e)
    BY <1>3 DEF Begins
  <2> HIDE DEF k, new
  <2>2. \A e \in Drivers : frame[e].at \in Open => frame[e].svc # k
    BY <1>1, <2>1, PipelineAssumption DEF Drivers
  <2>3. ASSUME NEW e \in Drivers, frame'[e].at \in Open
        PROVE  rt'[frame'[e].svc] = IF Rising(e)' THEN "initializing" ELSE "stopping"
    <3>1. CASE e = d
      BY <1>0, <2>1, <3>1 DEF new
    <3>2. CASE e # d
      <4>1. /\ frame[e].at \in Open /\ frame'[e].svc = frame[e].svc /\ (Rising(e)' <=> Rising(e))
        BY <2>1, <2>3, <3>2 DEF SameFor
      <4>2. rt'[frame[e].svc] = rt[frame[e].svc]
        BY <1>0, <1>1, <2>1, <2>2, <4>1
      <4> QED
        BY <4>1, <4>2 DEF Opened
    <3> QED
      BY <3>1, <3>2
  <2>4. ASSUME NEW i \in Services PROVE Lives(i)
    <3>1. CASE i = k
      <4>1. busyOn(i) = "none" /\ busyOn(i)' = IF Rising(d)' THEN "start" ELSE "stop"
        BY <2>1, <2>2, <3>1 DEF BusyFits
      <4>2. rt'[i] = new /\ new \in Life(i)!Transitions[rt[i]]
        BY <1>0, <2>1, <3>1, LifeTable
      <4> QED
        BY <4>1, <4>2 DEF Lives, Life!LifeNext, Life!BeginStart, Life!BeginStop, new
    <3>2. CASE i # k
      <4>1. busyOn(i)' = busyOn(i)
        BY <2>1, <3>2, BusySame
      <4> QED
        BY <1>0, <2>1, <3>2, <4>1 DEF Lives
    <3> QED
      BY <3>1, <3>2
  <2> QED
    BY <2>3, <2>4 DEF Opened
<1>4. CASE Closes(d)
  <2> DEFINE k == frame[d].svc
             old == IF Rising(d) THEN "initializing" ELSE "stopping"
  <2>1. /\ frame[d].at \in Open /\ frame'[d].at \notin Open
        /\ k \in Services /\ rlock[k] = d /\ rt[k] = old
        /\ \A e \in Drivers \ {d} : SameFor(e)
    BY <1>1, <1>4 DEF Closes, Opened
  <2>2. PICK new : /\ rt' = [rt EXCEPT ![k] = new]
                   /\ \/ new = rt[k] /\ "publish" \in CancelPoints
                      \/ new \in {"error", IF Rising(d) THEN "running" ELSE "stopped"}
    BY <1>0, <1>4 DEF Closes
  <2> HIDE DEF k
  <2>3. \A e \in Drivers \ {d} : frame[e].at \in Open => frame[e].svc # k
    BY <1>1, <2>1
  <2>4. ASSUME NEW e \in Drivers, frame'[e].at \in Open
        PROVE  rt'[frame'[e].svc] = IF Rising(e)' THEN "initializing" ELSE "stopping"
    <3>1. /\ e # d /\ frame[e].at \in Open /\ frame'[e].svc = frame[e].svc
          /\ (Rising(e)' <=> Rising(e))
      BY <2>1, <2>4 DEF SameFor
    <3>2. rt'[frame[e].svc] = rt[frame[e].svc]
      BY <1>0, <1>1, <2>2, <2>3, <3>1
    <3> QED
      BY <3>1, <3>2 DEF Opened
  <2>5. ASSUME NEW i \in Services PROVE Lives(i)
    <3>1. CASE i = k
      <4>1. busyOn(i) # "none"
        BY <2>1, <3>1 DEF BusyFits, k
      <4>2. busyOn(i)' = "none"
        <5>1. \A e \in Drivers : ~(frame'[e].svc = i /\ frame'[e].at \in Open)
          BY <2>1, <2>3, <3>1 DEF SameFor
        <5> QED
          BY <5>1 DEF BusyFits
      <4>3. CASE new = rt[k] /\ "publish" \in CancelPoints
        BY <1>0, <2>2, <3>1, <4>1, <4>2, <4>3 DEF Lives, Life!LifeNext, Life!Abandon
      <4>4. CASE new \in {"error", IF Rising(d) THEN "running" ELSE "stopped"}
        <5>1. new \in Life(i)!Transitions[rt[i]]
          BY <2>1, <3>1, <4>4, LifeTable
        <5>2. rt'[i] = new
          BY <1>0, <2>2, <3>1
        <5> QED
          BY <4>1, <4>2, <5>1, <5>2 DEF Lives, Life!LifeNext, Life!Conclude
      <4> QED
        BY <2>2, <4>3, <4>4
    <3>2. CASE i # k
      <4>1. busyOn(i)' = busyOn(i)
        BY <2>1, <3>2, BusySame DEF k
      <4> QED
        BY <1>0, <2>2, <3>2, <4>1 DEF Lives
    <3> QED
      BY <3>1, <3>2
  <2> QED
    BY <2>4, <2>5 DEF Opened
<1> QED
  BY <1>2, <1>3, <1>4

LEMMA JudgeLives ==
  ASSUME Locked, Opened, BusyFits, BusyFits', NEW k \in Services, Judge(k)
  PROVE  Opened' /\ \A i \in Services : Lives(i)
<1>0. rt \in [Services -> Table!ServiceState] /\ FramesFit
  BY DEF Locked, FramesFit, TypeOK
<1>1. /\ UNCHANGED <<pc, frame>> /\ rt[k] \in Up /\ rt'[k] \in Up \ {rt[k]}
      /\ \A i \in Services \ {k} : rt'[i] = rt[i]
  BY <1>0 DEF Judge
<1>2. \A e \in Drivers : frame[e].at \in Open => frame[e].svc # k
  BY <1>1, TransitionTable DEF Opened
<1>3. Opened'
  <2>1. \A e \in Drivers : frame[e].at \in Open => frame[e].svc \in Services
    BY <1>0, DriverNames, FrameTypes DEF FramesFit, Framed, Open, Working, Holding
  <2> QED
    BY <1>1, <1>2, <2>1 DEF Opened, Rising
<1>4. \A i \in Services : busyOn(i)' = busyOn(i)
  BY <1>1, BusySame DEF SameFor, Rising
<1>5. Lives(k)
  <2>1. {rt[k], rt'[k]} = Life(k)!Up
    BY <1>1, TransitionTable, LifeTable
  <2>2. busyOn(k) = "none"
    BY <1>2 DEF BusyFits
  <2> QED
    BY <1>4, <2>1, <2>2 DEF Lives, Life!LifeNext, Life!Judge
<1> QED
  BY <1>1, <1>3, <1>4, <1>5 DEF Lives

\* Every service lives the life ServiceLifecycle promises, with all the drivers
\* that ever work on it, also the rollbacks that outlive their caller.
THEOREM ServicesRefine == Spec => ServicesLive
<1> DEFINE AllLive == \A i \in Services : Life(i)!LifeNext \/ UNCHANGED <<rt[i], busyOn(i)>>
           Inv == Locked /\ Opened
<1>1. Init => Inv /\ \A i \in Services : Life(i)!LifeInit
  <2> SUFFICES ASSUME Init PROVE Inv /\ \A i \in Services : Life(i)!LifeInit
    OBVIOUS
  <2>1. Locked /\ BusyFits
    BY LockedInit, BusyIs
  <2>2. \A d \in Drivers : frame[d].at \notin Open
    BY FrameTypes DEF Init, Open
  <2>3. \A i \in Services : busyOn(i) = "none" /\ rt[i] = "uninitialized"
    BY <2>1, <2>2 DEF BusyFits, Init
  <2> QED
    BY <2>1, <2>2, <2>3 DEF Opened, Life!LifeInit
<1>2. BusyFits' \/ ~Locked'
  BY BusyIs, PTL
<1>3. Inv /\ [Next]_vars => Inv' /\ [AllLive]_vars
  <2> SUFFICES ASSUME Inv, [Next]_vars PROVE Opened' /\ [AllLive]_vars
    BY LockedStep
  <2>1. CASE UNCHANGED vars
    BY <2>1 DEF vars, Opened, Rising
  <2>2. CASE Next
    <3>1. Locked' /\ BusyFits /\ BusyFits'
      BY <1>2, LockedStep, BusyIs
    <3>2. Opened' /\ \A i \in Services : Lives(i)
      <4>1. ASSUME NEW c \in Callers, CallerStep(c) PROVE Opened' /\ \A i \in Services : Lives(i)
        BY <3>1, <4>1, CallerLives, DriverStepLives, DriverNames DEF Locked
      <4>2. ASSUME NEW c \in Callers, NEW d \in {Me(c), Job(c)}, DriverStep(d)
            PROVE  Opened' /\ \A i \in Services : Lives(i)
        BY <3>1, <4>2, DriverLives, DriverStepLives, DriverNames DEF Locked
      <4>3. ASSUME NEW c \in Callers, JobBreaks(c) PROVE Opened' /\ \A i \in Services : Lives(i)
        BY <3>1, <4>3, JobLives, DriverStepLives, DriverNames DEF Locked
      <4> QED
        BY <2>2, <3>1, <4>1, <4>2, <4>3, Steps, JudgeLives DEF StepOf
    <3> QED
      BY <3>2 DEF Lives
  <2> QED
    BY <2>1, <2>2
<1> QED
  BY <1>1, <1>3, PTL DEF Spec, ServicesLive
=============================================================================
