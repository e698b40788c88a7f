--------------------------- MODULE EventBusProofs ---------------------------
(* Proofs about the event bus, for any publishers, handlers, middlewares,  *)
(* keys and sources, and whatever the bounds.                              *)
EXTENDS EventBus, SequenceTheorems, TLAPS

Fields == {"phase", "outcome", "n", "key", "source", "chain", "at", "waiting", "stable",
           "ever", "delivered", "excused", "changes"}

(* What the proof has to know of a publication: _deliver has not run while *)
(* control is on its way down the chain, has run once when the handlers    *)
(* are awaited, and on the way up it has run unless a middleware meant to  *)
(* keep the event.                                                         *)
Settled(e) == e.delivered = 1 \/ e.excused = TRUE

Good(e) ==
    /\ DOMAIN e = Fields
    /\ e.delivered \in {0, 1} /\ e.excused \in BOOLEAN
    /\ e.phase \in {"dispatch", "before"} => e.delivered = 0 /\ e.outcome = "none"
    /\ e.phase = "deliver" => e.delivered = 1 /\ e.outcome = "none"
    /\ e.phase = "after" => Settled(e) /\ e.outcome = "none"
    /\ e.phase \in {"idle", "dispatch", "before", "deliver", "after"}
    /\ e.phase = "idle" => e.waiting = <<>>
    /\ e.outcome = "ok" => Settled(e)

BusInv ==
    /\ event = [p \in Publishers |-> event[p]]
    /\ \A p \in Publishers : Good(event[p])

----------------------------------------------------------------------------
LEMMA IdleGood == Good(Idle)
  BY DEF Good, Idle, Fields, Settled

LEMMA OverGood ==
  ASSUME NEW e, Good(e), NEW outcome, outcome = "ok" => Settled(e)
  PROVE  Good(Over(e, outcome))
  BY DEF Over, Good, Idle, Fields, Settled

(* Control that goes up the chain: to a middleware, or to the publisher.   *)
LEMMA ReturnShape ==
  ASSUME NEW e, Good(e), e.outcome = "none"
  PROVE  /\ DOMAIN Return(e) = Fields
         /\ Return(e).delivered = e.delivered /\ Return(e).excused = e.excused
         /\ \/ Return(e).phase = "after" /\ Return(e).outcome = "none"
            \/ Return(e).phase = "idle" /\ Return(e).waiting = <<>>
<1>1. CASE e.waiting = <<>>
  BY <1>1 DEF Return, Over, Idle, Good, Fields
<1>2. CASE e.waiting # <<>>
  BY <1>2 DEF Return, Good, Fields
<1> QED
  BY <1>1, <1>2

LEMMA ReturnGood ==
  ASSUME NEW e, Good(e), Settled(e), e.outcome = "none"
  PROVE  Good(Return(e))
  BY ReturnShape DEF Good, Settled

(* Control that goes down the chain.                                       *)
LEMMA BelowGood ==
  ASSUME NEW e, Good(e), e.phase = "before"
  PROVE  Good(Below(e))
  BY DEF Below, Good, Fields, Settled

(* A step that changes one publication keeps the others.                   *)
LEMMA OneChanges ==
  ASSUME BusInv, NEW p \in Publishers, NEW new, Good(new),
         event' = [event EXCEPT ![p] = new]
  PROVE  BusInv'
<1>1. event' = [q \in Publishers |-> IF q = p THEN new ELSE event[q]]
  BY DEF BusInv
<1> QED
  BY <1>1 DEF BusInv

----------------------------------------------------------------------------
LEMMA BusInit == Init => BusInv
  BY IdleGood DEF Init, BusInv

(* Lists that change note it in the publications under way, and no more.   *)
LEMMA ListsChange ==
  ASSUME BusInv, NEW new, Relist(new) \/ ChangeMiddlewares(new)
  PROVE  BusInv'
<1>1. CASE Relist(new)
  <2>1. event' = [q \in Publishers |-> event'[q]]
    BY <1>1 DEF Relist
  <2>2. ASSUME NEW q \in Publishers PROVE Good(event'[q])
    <3>1. Good(event[q])
      BY DEF BusInv
    <3>2. CASE ~Publishing(q)
      BY <1>1, <3>1, <3>2 DEF Relist
    <3>3. CASE Publishing(q)
      <4>1. PICK x, y, z : event'[q] = [event[q] EXCEPT !.stable = x, !.changes = y, !.ever = z]
        BY <1>1, <3>3 DEF Relist
      <4> QED
        BY <3>1, <4>1 DEF Good, Fields, Settled
    <3> QED
      BY <3>2, <3>3
  <2> QED
    BY <2>1, <2>2 DEF BusInv
<1>2. CASE ChangeMiddlewares(new)
  <2>1. event' = [q \in Publishers |-> event'[q]]
    BY <1>2 DEF ChangeMiddlewares
  <2>2. ASSUME NEW q \in Publishers PROVE Good(event'[q])
    <3>1. Good(event[q])
      BY DEF BusInv
    <3>2. CASE ~Publishing(q)
      BY <1>2, <3>1, <3>2 DEF ChangeMiddlewares
    <3>3. CASE Publishing(q)
      <4>1. PICK y : event'[q] = [event[q] EXCEPT !.changes = y]
        BY <1>2, <3>3 DEF ChangeMiddlewares
      <4> QED
        BY <3>1, <4>1 DEF Good, Fields, Settled
    <3> QED
      BY <3>2, <3>3
  <2> QED
    BY <2>1, <2>2 DEF BusInv
<1> QED
  BY <1>1, <1>2

LEMMA PublishKeeps ==
  ASSUME BusInv, NEW p \in Publishers, NEW key, NEW source, Publish(p, key, source)
  PROVE  BusInv'
<1> DEFINE matching == {s \in subs : Matches(s, key, source)}
           new(m) ==
             [phase |-> "dispatch", outcome |-> "none", n |-> m,
              key |-> key, source |-> source, chain |-> middlewares, at |-> 1, waiting |-> <<>>,
              stable |-> matching, ever |-> matching,
              delivered |-> 0, excused |-> FALSE, changes |-> 0]
<1>1. PICK m : event' = [event EXCEPT ![p] = new(m)]
  BY DEF Publish
<1>2. Good(new(m))
  BY DEF Good, Settled, Fields
<1> QED
  BY <1>1, <1>2, OneChanges

LEMMA DispatchKeeps ==
  ASSUME BusInv, NEW p \in Publishers, Dispatch(p)
  PROVE  BusInv'
<1>1. Good(event[p]) /\ event[p].phase = "dispatch"
  BY DEF BusInv, Dispatch
<1>2. CASE event[p].at <= Len(event[p].chain)
  <2>1. Good([event[p] EXCEPT !.phase = "before"])
    BY <1>1 DEF Good, Fields, Settled
  <2>2. event' = [event EXCEPT ![p] = [event[p] EXCEPT !.phase = "before"]]
    BY <1>2 DEF Dispatch, BusInv
  <2> QED
    BY <2>1, <2>2, OneChanges
<1>3. CASE ~(event[p].at <= Len(event[p].chain))
  <2> DEFINE new == [event[p] EXCEPT !.phase = "deliver", !.delivered = @ + 1,
                                     !.stable = {}, !.ever = {}]
  <2>1. Good(new)
    BY <1>1 DEF Good, Fields, Settled
  <2>2. event' = [event EXCEPT ![p] = new]
    BY <1>3 DEF Dispatch, BusInv
  <2> QED
    BY <2>1, <2>2, OneChanges
<1> QED
  BY <1>2, <1>3

LEMMA CallNextKeeps ==
  ASSUME BusInv, NEW p \in Publishers, CallNext(p)
  PROVE  BusInv'
<1>1. Good(event[p]) /\ event[p].phase = "before"
  BY DEF BusInv, CallNext
<1>2. Good(Below(event[p])) /\ Below(event[p]).phase = "dispatch"
  BY <1>1, BelowGood DEF Below, Good, Fields
<1> DEFINE new == [Below(event[p]) EXCEPT !.waiting = Append(@, event[p].at)]
<1>3. Good(new)
  BY <1>2 DEF Good, Fields, Settled
<1> QED
  BY <1>3, OneChanges DEF CallNext, Running

LEMMA FailsKeeps ==
  ASSUME BusInv, NEW p \in Publishers, MiddlewareFails(p)
  PROVE  BusInv'
<1>1. Good(event[p]) /\ event[p].phase \in {"before", "after"}
  BY DEF BusInv, MiddlewareFails
<1>2. Good(FailOpen(event[p]))
  <2>1. CASE event[p].phase = "before"
    BY <1>1, <2>1, BelowGood DEF FailOpen
  <2>2. CASE event[p].phase = "after"
    <3>1. Settled(event[p]) /\ event[p].outcome = "none"
      BY <1>1, <2>2 DEF Good
    <3> QED
      BY <1>1, <2>2, <3>1, ReturnGood DEF FailOpen
  <2> QED
    BY <1>1, <2>1, <2>2
<1> QED
  BY <1>2, OneChanges DEF MiddlewareFails, Running

(* A middleware that returns without call_next() has excused the event     *)
(* before control goes up.                                                 *)
LEMMA ReturnsKeeps ==
  ASSUME BusInv, NEW p \in Publishers, MiddlewareReturns(p)
  PROVE  BusInv'
<1> DEFINE e == event[p]
           r == Return(e)
           new == [r EXCEPT !.excused = @ \/ e.phase = "before"]
<1>1. Good(e) /\ e.phase \in {"before", "after"} /\ e.outcome = "none"
  BY DEF BusInv, MiddlewareReturns, Good
<1> HIDE DEF e
<1>2. Good(new)
  <2>1. CASE e.phase = "before"
    <3>1. e.delivered = 0 /\ e.excused \in BOOLEAN
      BY <1>1, <2>1 DEF Good
    <3> HIDE DEF r
    <3>2. /\ DOMAIN r = Fields
          /\ r.delivered = 0
          /\ \/ r.phase = "after" /\ r.outcome = "none"
             \/ r.phase = "idle" /\ r.waiting = <<>>
      BY <1>1, <3>1, ReturnShape DEF r
    <3>3. new = [r EXCEPT !.excused = TRUE]
      BY <2>1
    <3> QED
      BY <3>2, <3>3 DEF Good, Settled, Fields
  <2>2. CASE e.phase = "after"
    <3>1. Settled(e)
      BY <1>1, <2>2 DEF Good
    <3>2. Good(r)
      BY <1>1, <3>1, ReturnGood
    <3> HIDE DEF r
    <3>3. new = [r EXCEPT !.excused = @ \/ FALSE]
      BY <2>2
    <3>4. Good([r EXCEPT !.excused = @ \/ FALSE])
      BY <3>2 DEF Good, Settled, Fields
    <3> QED
      BY <3>3, <3>4
  <2> QED
    BY <1>1, <2>1, <2>2
<1> QED
  BY <1>2, OneChanges DEF MiddlewareReturns, Running, e

LEMMA GivesUpKeeps ==
  ASSUME BusInv, NEW p \in Publishers, MiddlewareGivesUp(p)
  PROVE  BusInv'
<1> DEFINE new(i) == [event[p] EXCEPT !.phase = "after", !.at = event[p].waiting[i],
                                      !.excused = TRUE, !.waiting = SubSeq(@, 1, i - 1)]
<1>1. PICK i \in DOMAIN event[p].waiting : event' = [event EXCEPT ![p] = new(i)]
  BY Zenon DEF MiddlewareGivesUp
<1>2. Good(event[p])
  BY DEF BusInv
<1>3. event[p].phase # "idle"
  BY <1>1, <1>2 DEF Good
<1>4. Good(new(i))
  BY <1>2, <1>3 DEF Good, Fields, Settled
<1> QED
  BY <1>1, <1>4, OneChanges

LEMMA CancelledKeeps ==
  ASSUME BusInv, NEW p \in Publishers,
         event' = [event EXCEPT ![p] = Over(@, "cancelled")]
  PROVE  BusInv'
<1>1. Good(event[p])
  BY DEF BusInv
<1>2. Good(Over(event[p], "cancelled"))
  BY <1>1, OverGood
<1>3. event' = [event EXCEPT ![p] = Over(event[p], "cancelled")]
  BY DEF BusInv
<1> QED
  BY <1>2, <1>3, OneChanges

LEMMA DeliveredKeeps ==
  ASSUME BusInv, NEW p \in Publishers, Delivered(p)
  PROVE  BusInv'
<1>1. Good(event[p]) /\ Settled(event[p]) /\ event[p].outcome = "none"
  BY DEF BusInv, Delivered, Good, Settled
<1>2. Good(Return(event[p]))
  BY <1>1, ReturnGood
<1> QED
  BY <1>2, OneChanges DEF Delivered, Running

(* The inductive invariant, action by action.                              *)
LEMMA BusStepKeeps == BusInv /\ [Next]_vars => BusInv'
<1> SUFFICES ASSUME BusInv, [Next]_vars PROVE BusInv'
  OBVIOUS
<1>1. ASSUME NEW on \in Keys \cup {All}, NEW h \in Handlers,
             ScopedChange(on, h) \/ UnscopedChange(on, h)
      PROVE  BusInv'
  BY <1>1, ListsChange DEF ScopedChange, UnscopedChange, Subscribe, Unsubscribe
<1>2. ASSUME NEW m \in Middlewares, Use(m) \/ RemoveMiddleware(m)
      PROVE  BusInv'
  BY <1>2, ListsChange DEF Use, RemoveMiddleware
<1>3. ASSUME NEW p \in Publishers, NEW key, NEW source, Publish(p, key, source)
      PROVE  BusInv'
  BY <1>3, PublishKeeps
<1>4. ASSUME NEW p \in Publishers,
             BusStep(p) \/ MiddlewareStep(p) \/ MiddlewareGivesUp(p) \/ Cancelled(p)
      PROVE  BusInv'
  BY <1>4, DispatchKeeps, DeliveredKeeps, CallNextKeeps, FailsKeeps, ReturnsKeeps, GivesUpKeeps,
     CancelledKeeps DEF BusStep, MiddlewareStep, Cancelled
<1>5. ASSUME NEW c \in calls, HandlerReturns(c) \/ HandlerTimesOut(c)
      PROVE  BusInv'
  BY <1>5 DEF HandlerReturns, HandlerTimesOut, HandlerEnds, BusInv
<1>6. ASSUME NEW c \in calls, HandlerCancels(c)
      PROVE  BusInv'
  <2>1. CASE c.by \in Publishers
    BY <1>6, <2>1, CancelledKeeps DEF HandlerCancels
  <2>2. CASE c.by \notin Publishers
    BY <1>6, <2>2 DEF HandlerCancels, BusInv
  <2> QED
    BY <2>1, <2>2
<1>7. CASE UNCHANGED vars
  BY <1>7 DEF vars, BusInv
<1> QED
  BY <1>1, <1>2, <1>3, <1>4, <1>5, <1>6, <1>7 DEF Next

(* A crashing middleware never swallows an event: whatever raises, hangs,  *)
(* is cancelled or is subscribed meanwhile, a publish() that returned has  *)
(* run _deliver exactly once, unless a middleware meant to stop the event. *)
THEOREM DeliveryOnce == Spec => []DeliveredOnce
<1>1. BusInv => DeliveredOnce
  BY DEF BusInv, Good, Settled, DeliveredOnce
<1> QED
  BY BusInit, BusStepKeeps, <1>1, PTL DEF Spec

----------------------------------------------------------------------------
(* What a publication under way has to do with the lists and the calls:    *)
(* no call of it runs unless it is delivering; and until it delivers, who  *)
(* was subscribed all along is on the lists, and who is on the lists has   *)
(* been counted.                                                           *)
Flows(p) ==
    /\ event[p].phase \in {"dispatch", "before", "after"} => CallsOf(p) = {}
    /\ event[p].phase \in {"dispatch", "before"} =>
          event[p].stable \subseteq Collect(p) /\ Collect(p) \subseteq event[p].ever

BusFlow == \A p \in Publishers : Flows(p)

(* A step of one publication, or of one of its calls.                      *)
LEMMA OneFlows ==
  ASSUME BusInv, BusFlow, NEW p \in Publishers, NEW new,
         event' = [event EXCEPT ![p] = new], UNCHANGED subs,
         \A c \in calls' \ calls : c.by = p,
         new.phase \in {"dispatch", "before", "after"} => \A c \in calls' : ~ (c.by = p /\ c.n = new.n),
         new.phase \in {"dispatch", "before"} =>
            \A s \in subs : Matches(s, new.key, new.source) => s \in new.ever,
         new.phase \in {"dispatch", "before"} =>
            \A s \in new.stable : s \in subs /\ Matches(s, new.key, new.source)
  PROVE  BusFlow'
<1>1. /\ event'[p] = new
      /\ \A q \in Publishers \ {p} : event'[q] = event[q]
  BY DEF BusInv
<1>2. Flows(p)'
  BY <1>1 DEF Flows, CallsOf, Collect
<1>3. ASSUME NEW q \in Publishers \ {p}
      PROVE  Flows(q)'
  <2>1. CallsOf(q)' \subseteq CallsOf(q)
    BY <1>1 DEF CallsOf
  <2> QED
    BY <1>1, <2>1 DEF Flows, BusFlow, Collect
<1> QED
  BY <1>2, <1>3 DEF BusFlow

(* A step on from a phase that waits for nobody, or to the end.            *)
LEMMA MovesOn ==
  ASSUME BusInv, BusFlow, NEW p \in Publishers, NEW new,
         event' = [event EXCEPT ![p] = new], UNCHANGED subs, calls' \subseteq calls,
         new.phase \in {"dispatch", "before", "after"} =>
            new.n = event[p].n /\ (CallsOf(p) = {} \/ calls' = calls \ CallsOf(p)),
         new.phase \in {"dispatch", "before"} =>
            /\ event[p].phase \in {"dispatch", "before"}
            /\ new.key = event[p].key /\ new.source = event[p].source
            /\ new.stable = event[p].stable /\ new.ever = event[p].ever
  PROVE  BusFlow'
<1>1. new.phase \in {"dispatch", "before", "after"} => \A c \in calls' : ~ (c.by = p /\ c.n = new.n)
  BY DEF CallsOf
<1>2. new.phase \in {"dispatch", "before"} =>
        /\ \A s \in subs : Matches(s, new.key, new.source) => s \in new.ever
        /\ \A s \in new.stable : s \in subs /\ Matches(s, new.key, new.source)
  BY DEF BusFlow, Flows, Collect
<1> QED
  BY <1>1, <1>2, OneFlows

LEMMA BusFlowInit == Init => BusFlow
  BY DEF Init, BusFlow, Flows, Idle

LEMMA ListsFlow ==
  ASSUME BusInv, BusFlow, NEW new, Relist(new) \/ ChangeMiddlewares(new)
  PROVE  BusFlow'
<1> SUFFICES ASSUME NEW p \in Publishers PROVE Flows(p)'
  BY DEF BusFlow
<1>1. Good(event[p]) /\ Flows(p)
  BY DEF BusInv, BusFlow
<1>2. CASE ~Publishing(p)
  BY <1>2 DEF Publishing, Relist, ChangeMiddlewares, Flows
<1>3. CASE Publishing(p) /\ ChangeMiddlewares(new)
  <2>1. event'[p] = [event[p] EXCEPT !.changes = @ + 1] /\ UNCHANGED <<subs, calls>>
    BY <1>3 DEF ChangeMiddlewares
  <2>2. /\ event'[p].phase = event[p].phase /\ event'[p].n = event[p].n
        /\ event'[p].key = event[p].key /\ event'[p].source = event[p].source
        /\ event'[p].stable = event[p].stable /\ event'[p].ever = event[p].ever
    BY <1>1, <2>1 DEF Good, Fields
  <2> QED
    BY <1>1, <2>1, <2>2 DEF Flows, CallsOf, Collect
<1>4. CASE Publishing(p) /\ Relist(new)
  <2>1. /\ event'[p] = [event[p] EXCEPT !.stable = @ \cap new, !.changes = @ + 1,
              !.ever = IF event[p].delivered > 0 THEN @ ELSE
                         @ \cup {s \in new : Matches(s, event[p].key, event[p].source)}]
        /\ subs' = new /\ UNCHANGED calls
    BY <1>4 DEF Relist
  <2>2. /\ event'[p].phase = event[p].phase /\ event'[p].n = event[p].n
        /\ event'[p].key = event[p].key /\ event'[p].source = event[p].source
        /\ event'[p].stable = event[p].stable \cap new
        /\ event[p].delivered = 0 =>
              event'[p].ever = event[p].ever \cup {s \in new : Matches(s, event[p].key, event[p].source)}
    BY <1>1, <2>1 DEF Good, Fields
  <2>3. event[p].phase \in {"dispatch", "before"} => event[p].delivered = 0
    BY <1>1 DEF Good
  <2> QED
    BY <1>1, <2>1, <2>2, <2>3 DEF Flows, CallsOf, Collect
<1> QED
  BY <1>2, <1>3, <1>4

LEMMA PublishFlows ==
  ASSUME BusInv, BusFlow, NEW p \in Publishers, NEW key, NEW source, Publish(p, key, source),
         MaxOverlap \in Nat
  PROVE  BusFlow'
<1> DEFINE matching == {s \in subs : Matches(s, key, source)}
           free == {k \in 0..MaxOverlap : \A c \in calls : c.by = p => c.n < k}
           new(m) ==
             [phase |-> "dispatch", outcome |-> "none", n |-> m,
              key |-> key, source |-> source, chain |-> middlewares, at |-> 1, waiting |-> <<>>,
              stable |-> matching, ever |-> matching,
              delivered |-> 0, excused |-> FALSE, changes |-> 0]
<1>1. PICK m \in free : event' = [event EXCEPT ![p] = new(m)]
  BY DEF Publish
<1>2. \A c \in calls : ~ (c.by = p /\ c.n = m)
  BY <1>1
<1> QED
  BY <1>1, <1>2, OneFlows DEF Publish

LEMMA DispatchFlows ==
  ASSUME BusInv, BusFlow, NEW p \in Publishers, Dispatch(p)
  PROVE  BusFlow'
<1>1. Good(event[p]) /\ event[p].phase = "dispatch" /\ UNCHANGED subs /\ CallsOf(p) = {}
  BY DEF BusInv, Dispatch, BusFlow, Flows
<1>2. CASE event[p].at <= Len(event[p].chain)
  <2> DEFINE new == [event[p] EXCEPT !.phase = "before"]
  <2>1. event' = [event EXCEPT ![p] = new] /\ UNCHANGED calls
    BY <1>2 DEF Dispatch, BusInv
  <2>2. /\ new.n = event[p].n /\ new.key = event[p].key /\ new.source = event[p].source
        /\ new.stable = event[p].stable /\ new.ever = event[p].ever
    BY <1>1 DEF Good, Fields
  <2> QED
    BY <1>1, <2>1, <2>2, MovesOn
<1>3. CASE ~(event[p].at <= Len(event[p].chain))
  <2> DEFINE new == [event[p] EXCEPT !.phase = "deliver", !.delivered = @ + 1,
                                     !.stable = {}, !.ever = {}]
  <2>1. event' = [event EXCEPT ![p] = new] /\ new.phase = "deliver"
    BY <1>1, <1>3 DEF Dispatch, BusInv, Good, Fields
  <2>2. \A c \in calls' \ calls : c.by = p
    BY <1>3 DEF Dispatch
  <2> QED
    BY <1>1, <2>1, <2>2, OneFlows
<1> QED
  BY <1>2, <1>3

(* Control that goes up leaves the number of the event alone.              *)
LEMMA ReturnNumber ==
  ASSUME NEW e, Good(e)
  PROVE  Return(e).phase \in {"dispatch", "before", "after"} =>
            Return(e).phase = "after" /\ Return(e).n = e.n
  BY DEF Return, Over, Idle, Good, Fields

LEMMA MiddlewareFlows ==
  ASSUME BusInv, BusFlow, NEW p \in Publishers, MiddlewareStep(p) \/ Delivered(p)
  PROVE  BusFlow'
<1> DEFINE e == event[p]
<1>1. Good(e) /\ Flows(p)
  BY DEF BusInv, BusFlow
<1>2. CASE CallNext(p)
  <2> DEFINE new == [Below(e) EXCEPT !.waiting = Append(@, e.at)]
  <2>1. event' = [event EXCEPT ![p] = new] /\ UNCHANGED <<subs, calls>> /\ e.phase = "before"
    BY <1>2 DEF CallNext, Running
  <2>2. /\ new.n = e.n /\ new.key = e.key /\ new.source = e.source
        /\ new.stable = e.stable /\ new.ever = e.ever
    BY <1>1 DEF Below, Good, Fields
  <2> QED
    BY <1>1, <2>1, <2>2, MovesOn DEF Flows
<1>3. CASE MiddlewareFails(p)
  <2>1. event' = [event EXCEPT ![p] = FailOpen(e)] /\ UNCHANGED <<subs, calls>>
        /\ e.phase \in {"before", "after"}
    BY <1>3 DEF MiddlewareFails, Running
  <2>2. CASE e.phase = "before"
    <3>1. /\ Below(e).n = e.n /\ Below(e).key = e.key /\ Below(e).source = e.source
          /\ Below(e).stable = e.stable /\ Below(e).ever = e.ever
      BY <1>1 DEF Below, Good, Fields
    <3> QED
      BY <1>1, <2>1, <2>2, <3>1, MovesOn DEF Flows, FailOpen
  <2>3. CASE e.phase = "after"
    BY <1>1, <2>1, <2>3, ReturnNumber, MovesOn DEF Flows, FailOpen
  <2> QED
    BY <2>1, <2>2, <2>3
<1>4. CASE MiddlewareReturns(p)
  <2> DEFINE r == Return(e)
             new == [r EXCEPT !.excused = @ \/ e.phase = "before"]
  <2>1. event' = [event EXCEPT ![p] = new] /\ UNCHANGED <<subs, calls>>
        /\ e.phase \in {"before", "after"} /\ e.outcome = "none"
    BY <1>1, <1>4 DEF MiddlewareReturns, Running, Good
  <2>2. DOMAIN r = Fields /\ (r.phase \in {"dispatch", "before", "after"} => r.phase = "after" /\ r.n = e.n)
    BY <1>1, <2>1, ReturnShape, ReturnNumber
  <2>3. new.phase = r.phase /\ new.n = r.n
    <3> HIDE DEF r
    <3> QED
      BY <2>2 DEF Fields
  <2>4. new.phase \in {"dispatch", "before", "after"} =>
            new.phase = "after" /\ new.n = e.n /\ CallsOf(p) = {}
    BY <1>1, <2>1, <2>2, <2>3 DEF Flows
  <2> HIDE DEF new
  <2> QED
    BY <2>1, <2>4, MovesOn
<1>5. CASE Delivered(p)
  <2>1. event' = [event EXCEPT ![p] = Return(e)] /\ UNCHANGED <<subs, calls>> /\ CallsOf(p) = {}
    BY <1>5 DEF Delivered, Running, AllHandled
  <2> QED
    BY <1>1, <2>1, ReturnNumber, MovesOn
<1> QED
  BY <1>2, <1>3, <1>4, <1>5 DEF MiddlewareStep

LEMMA GivesUpFlows ==
  ASSUME BusInv, BusFlow, NEW p \in Publishers, MiddlewareGivesUp(p)
  PROVE  BusFlow'
<1> DEFINE new(i) == [event[p] EXCEPT !.phase = "after", !.at = event[p].waiting[i],
                                      !.excused = TRUE, !.waiting = SubSeq(@, 1, i - 1)]
<1>1. PICK i \in DOMAIN event[p].waiting : event' = [event EXCEPT ![p] = new(i)]
  BY Zenon DEF MiddlewareGivesUp
<1>2. calls' = calls \ CallsOf(p) /\ UNCHANGED subs
  BY DEF MiddlewareGivesUp
<1>3. new(i).phase = "after" /\ new(i).n = event[p].n
  BY DEF BusInv, Good, Fields
<1> HIDE DEF new
<1> QED
  BY <1>1, <1>2, <1>3, MovesOn

LEMMA EndFlows ==
  ASSUME BusInv, BusFlow, NEW p \in Publishers, calls' \subseteq calls, UNCHANGED subs,
         event' = [event EXCEPT ![p] = Over(@, "cancelled")]
  PROVE  BusFlow'
<1>1. event' = [event EXCEPT ![p] = Over(event[p], "cancelled")]
  BY DEF BusInv
<1>2. Over(event[p], "cancelled").phase = "idle"
  BY DEF Over, Idle
<1> QED
  BY <1>1, <1>2, MovesOn

LEMMA BusFlowKeeps == BusInv /\ BusFlow /\ [Next]_vars => BusFlow'
<1> SUFFICES ASSUME BusInv, BusFlow, [Next]_vars PROVE BusFlow'
  OBVIOUS
<1>1. ASSUME NEW on \in Keys \cup {All}, NEW h \in Handlers,
             ScopedChange(on, h) \/ UnscopedChange(on, h)
      PROVE  BusFlow'
  BY <1>1, ListsFlow DEF ScopedChange, UnscopedChange, Subscribe, Unsubscribe
<1>2. ASSUME NEW m \in Middlewares, Use(m) \/ RemoveMiddleware(m)
      PROVE  BusFlow'
  BY <1>2, ListsFlow DEF Use, RemoveMiddleware
<1>3. ASSUME NEW p \in Publishers, NEW key, NEW source, Publish(p, key, source)
      PROVE  BusFlow'
  BY <1>3, PublishFlows, BusAssumption
<1>4. ASSUME NEW p \in Publishers,
             BusStep(p) \/ MiddlewareStep(p) \/ MiddlewareGivesUp(p) \/ Cancelled(p)
      PROVE  BusFlow'
  BY <1>4, DispatchFlows, MiddlewareFlows, GivesUpFlows, EndFlows DEF BusStep, Cancelled
<1>5. ASSUME NEW c \in calls, HandlerReturns(c) \/ HandlerTimesOut(c)
      PROVE  BusFlow'
  BY <1>5 DEF HandlerReturns, HandlerTimesOut, HandlerEnds, BusFlow, Flows, CallsOf, Collect
<1>6. ASSUME NEW c \in calls, HandlerCancels(c)
      PROVE  BusFlow'
  <2>1. CASE c.by \in Publishers
    BY <1>6, <2>1, EndFlows DEF HandlerCancels
  <2>2. CASE c.by \notin Publishers
    BY <1>6, <2>2 DEF HandlerCancels, BusInv, BusFlow, Flows, CallsOf, Collect
  <2> QED
    BY <2>1, <2>2
<1>7. CASE UNCHANGED vars
  BY <1>7 DEF vars, BusFlow, Flows, CallsOf, Collect
<1> QED
  BY <1>1, <1>2, <1>3, <1>4, <1>5, <1>6, <1>7 DEF Next

LEMMA BusAlways == Spec => [](BusInv /\ BusFlow)
<1>1. BusInv /\ BusFlow /\ [Next]_vars => (BusInv /\ BusFlow)'
  BY BusStepKeeps, BusFlowKeeps
<1> QED
  BY <1>1, BusInit, BusFlowInit, PTL DEF Spec

(* Of the steps while p publishes, those that are no step of its own chain *)
(* or delivery leave it in its phase, or end it without an outcome "ok".   *)
LEMMA Outside ==
  ASSUME BusInv, NEW p \in Publishers, Publishing(p), Next,
         ~ (BusStep(p) \/ MiddlewareStep(p))
  PROVE  /\ event'[p].outcome # "ok"
         /\ event'[p].phase = "deliver" => event[p].phase = "deliver"
<1>1. Good(event[p]) /\ event[p].outcome = "none"
  BY DEF BusInv, Good, Publishing
<1>2. ASSUME NEW new, Relist(new) \/ ChangeMiddlewares(new)
      PROVE  event'[p].outcome = "none" /\ event'[p].phase = event[p].phase
  <2>1. CASE Relist(new)
    <3>1. PICK x, y, z : event'[p] = [event[p] EXCEPT !.stable = x, !.changes = y, !.ever = z]
      BY <2>1 DEF Relist
    <3> QED
      BY <1>1, <3>1 DEF Good, Fields
  <2>2. CASE ChangeMiddlewares(new)
    <3>1. PICK y : event'[p] = [event[p] EXCEPT !.changes = y]
      BY <2>2 DEF ChangeMiddlewares
    <3> QED
      BY <1>1, <3>1 DEF Good, Fields
  <2> QED
    BY <1>2, <2>1, <2>2
<1>3. ASSUME NEW q \in Publishers \ {p},
             \E new : event' = [event EXCEPT ![q] = new]
      PROVE  event'[p] = event[p]
  BY <1>3 DEF BusInv
<1>4. ASSUME NEW q \in Publishers \ {p}, NEW key, NEW source, Publish(q, key, source)
      PROVE  event'[p] = event[p]
  BY <1>3, <1>4 DEF Publish
<1>5. ASSUME NEW q \in Publishers \ {p}, Dispatch(q)
      PROVE  event'[p] = event[p]
  <2>1. CASE event[q].at <= Len(event[q].chain)
    BY <1>5, <2>1 DEF Dispatch, BusInv
  <2>2. CASE ~(event[q].at <= Len(event[q].chain))
    BY <1>5, <2>2 DEF Dispatch, BusInv
  <2> QED
    BY <2>1, <2>2
<1>6. ASSUME NEW q \in Publishers \ {p},
             Delivered(q) \/ MiddlewareStep(q) \/ MiddlewareGivesUp(q) \/ Cancelled(q)
      PROVE  event'[p] = event[p]
  <2>1. CASE Delivered(q)
    BY <1>3, <2>1 DEF Delivered, Running
  <2>2. CASE MiddlewareStep(q)
    BY <1>3, <2>2 DEF MiddlewareStep, CallNext, MiddlewareFails, MiddlewareReturns, Running
  <2>3. CASE MiddlewareGivesUp(q)
    BY <2>3 DEF MiddlewareGivesUp, BusInv
  <2>4. CASE Cancelled(q)
    BY <2>4 DEF Cancelled, BusInv
  <2> QED
    BY <1>6, <2>1, <2>2, <2>3, <2>4
<1>7. ASSUME event'[p] = Over(event[p], "cancelled")
      PROVE  event'[p].outcome # "ok" /\ event'[p].phase = "idle"
  BY <1>7 DEF Over, Idle
<1>8. ASSUME MiddlewareGivesUp(p)
      PROVE  event'[p].outcome # "ok" /\ event'[p].phase = "after"
  <2> DEFINE new(i) == [event[p] EXCEPT !.phase = "after", !.at = event[p].waiting[i],
                                        !.excused = TRUE, !.waiting = SubSeq(@, 1, i - 1)]
  <2>1. PICK i \in DOMAIN event[p].waiting : event' = [event EXCEPT ![p] = new(i)]
    BY <1>8, Zenon DEF MiddlewareGivesUp
  <2>2. new(i).outcome = "none" /\ new(i).phase = "after"
    BY <1>1 DEF Good, Fields
  <2>3. event'[p] = new(i)
    BY <2>1 DEF BusInv
  <2> QED
    BY <2>2, <2>3
<1>9. ASSUME NEW c \in calls, HandlerReturns(c) \/ HandlerTimesOut(c) \/ HandlerCancels(c)
      PROVE  event'[p] \in {event[p], Over(event[p], "cancelled")}
  BY <1>9 DEF HandlerReturns, HandlerTimesOut, HandlerCancels, HandlerEnds, BusInv
<1>10. CASE \E on \in Keys \cup {All}, h \in Handlers : ScopedChange(on, h) \/ UnscopedChange(on, h)
  BY <1>2, <1>10 DEF ScopedChange, UnscopedChange, Subscribe, Unsubscribe
<1>11. CASE \E m \in Middlewares : Use(m) \/ RemoveMiddleware(m)
  BY <1>2, <1>11 DEF Use, RemoveMiddleware
<1>12. ASSUME NEW q \in Publishers, NEW key, NEW source, Publish(q, key, source)
       PROVE  event'[p].outcome = "none" /\ event'[p].phase = event[p].phase
  <2>1. q # p
    BY <1>12 DEF Publish
  <2> QED
    BY <1>1, <1>4, <1>12, <2>1
<1>13. ASSUME NEW q \in Publishers,
              BusStep(q) \/ MiddlewareStep(q) \/ MiddlewareGivesUp(q) \/ Cancelled(q)
       PROVE  /\ event'[p].outcome # "ok"
              /\ event'[p].phase = "deliver" => event[p].phase = "deliver"
  <2>1. CASE q # p
    BY <1>1, <1>5, <1>6, <1>13, <2>1 DEF BusStep
  <2>2. CASE q = p
    <3>1. MiddlewareGivesUp(p) \/ Cancelled(p)
      BY <1>13, <2>2
    <3>2. CASE Cancelled(p)
      BY <1>7, <3>2 DEF Cancelled, BusInv
    <3> QED
      BY <1>8, <3>1, <3>2
  <2> QED
    BY <2>1, <2>2
<1> QED
  BY <1>1, <1>7, <1>9, <1>10, <1>11, <1>12, <1>13 DEF Next

(* However subscriptions come and go while the middlewares run: everybody  *)
(* who was subscribed from the call of publish() to the delivery is        *)
(* called, and nobody who was not subscribed at any time in between.       *)
THEOREM DeliversToSubscribers == Spec => ReachesSubscribers
<1> DEFINE Reached(p) == {c.sub : c \in {d \in calls' \ calls : d.by = p}}
           Reaches(p) == event[p].phase = "dispatch" /\ event'[p].phase = "deliver" =>
             LET reached == {c.sub : c \in {d \in calls' \ calls : d.by = p}}
             IN  event[p].stable \subseteq reached /\ reached \subseteq event[p].ever
<1>1. ASSUME BusInv, BusFlow, Next, NEW p \in Publishers,
             event[p].phase = "dispatch", event'[p].phase = "deliver"
      PROVE  event[p].stable \subseteq Reached(p) /\ Reached(p) \subseteq event[p].ever
  <2>1. Good(event[p]) /\ Flows(p) /\ Publishing(p)
    BY <1>1 DEF BusInv, BusFlow, Publishing
  <2>2. Dispatch(p)
    <3>1. BusStep(p) \/ MiddlewareStep(p)
      BY <1>1, <2>1, Outside
    <3>2. ~Delivered(p) /\ ~MiddlewareStep(p)
      BY <1>1 DEF Delivered, MiddlewareStep, CallNext, MiddlewareFails, MiddlewareReturns
    <3> QED
      BY <3>1, <3>2 DEF BusStep
  <2>3. ~(event[p].at <= Len(event[p].chain))
    <3> SUFFICES ASSUME event[p].at <= Len(event[p].chain) PROVE FALSE
      OBVIOUS
    <3>1. event' = [event EXCEPT ![p] = [event[p] EXCEPT !.phase = "before"]]
      BY <1>1, <2>2 DEF Dispatch, BusInv
    <3>2. event'[p] = [event[p] EXCEPT !.phase = "before"]
      BY <1>1, <3>1 DEF BusInv
    <3> QED
      BY <1>1, <2>1, <3>2 DEF Good, Fields
  <2> DEFINE new == {[by |-> p, n |-> event[p].n, sub |-> s] : s \in Collect(p)}
  <2>4. calls' = calls \cup new
    BY <2>2, <2>3 DEF Dispatch
  <2>5. \A c \in new : c \notin calls
    BY <1>1, <2>1 DEF Flows, CallsOf
  <2>6. Reached(p) = Collect(p)
    <3>1. ASSUME NEW s \in Collect(p)
          PROVE  s \in Reached(p)
      <4> DEFINE c == [by |-> p, n |-> event[p].n, sub |-> s]
      <4>1. c \in new /\ c.by = p /\ c.sub = s
        OBVIOUS
      <4>2. c \in {d \in calls' \ calls : d.by = p}
        BY <2>4, <2>5, <4>1
      <4> QED
        BY <4>1, <4>2
    <3>2. ASSUME NEW c \in calls' \ calls
          PROVE  c.sub \in Collect(p)
      BY <2>4, <3>2
    <3> QED
      BY <3>1, <3>2
  <2> QED
    BY <1>1, <2>1, <2>6 DEF Flows
<1>2. ASSUME BusInv, BusFlow, [Next]_vars
      PROVE  [\A p \in Publishers : Reaches(p)]_vars
  BY <1>1, <1>2
<1>3. [](BusInv /\ BusFlow) /\ [][Next]_vars => [][\A p \in Publishers : Reaches(p)]_vars
  BY <1>2, PTL
<1> QED
  BY <1>3, BusAlways, PTL DEF Spec, ReachesSubscribers

(* A publisher that was not cancelled goes on to its next event only when  *)
(* no handler's call for the former one runs any more.                     *)
THEOREM EventsInOrder == Spec => InOrder
<1> DEFINE Ordered(p) ==
             Publishing(p) /\ event'[p].outcome = "ok" /\ event[p].outcome # "ok" =>
                ~\E c \in calls : c.by = p /\ c.n = event[p].n
<1>1. ASSUME BusInv, BusFlow, Next, NEW p \in Publishers, Publishing(p), event'[p].outcome = "ok"
      PROVE  CallsOf(p) = {}
  <2>1. Flows(p) /\ Good(event[p])
    BY <1>1 DEF BusInv, BusFlow
  <2>2. CASE event[p].phase = "deliver"
    <3>1. BusStep(p) \/ MiddlewareStep(p)
      BY <1>1, Outside
    <3>2. Delivered(p)
      BY <2>2, <3>1 DEF BusStep, Dispatch, MiddlewareStep, CallNext, MiddlewareFails, MiddlewareReturns
    <3> QED
      BY <3>2 DEF Delivered, AllHandled
  <2>3. CASE event[p].phase # "deliver"
    BY <1>1, <2>1, <2>3 DEF Flows, Good, Publishing
  <2> QED
    BY <2>2, <2>3
<1>2. ASSUME BusInv, BusFlow, [Next]_vars
      PROVE  [\A p \in Publishers : Ordered(p)]_vars
  BY <1>1, <1>2 DEF CallsOf
<1>3. [](BusInv /\ BusFlow) /\ [][Next]_vars => [][\A p \in Publishers : Ordered(p)]_vars
  BY <1>2, PTL
<1> QED
  BY <1>3, BusAlways, PTL DEF Spec, InOrder

----------------------------------------------------------------------------
(* Types                                                                   *)

Fit(e) == e \in Event /\ Within(e)

Typed == event \in [Publishers -> Event] /\ \A p \in Publishers : Within(event[p])

LEMMA SeqBasics ==
  ASSUME NEW S, NEW s \in Seq(S)
  PROVE  Len(s) \in Nat /\ DOMAIN s = 1..Len(s) /\ \A i \in 1..Len(s) : s[i] \in S
  BY LenProperties

(* What is left of a sequence that is cut off.                             *)
LEMMA CutOff ==
  ASSUME NEW S, NEW s \in Seq(S), NEW k \in Nat, k <= Len(s)
  PROVE  /\ SubSeq(s, 1, k) \in Seq(S)
         /\ Len(SubSeq(s, 1, k)) = k
         /\ \A i \in 1..k : SubSeq(s, 1, k)[i] = s[i]
<1>1. \A i \in 1..k : s[i] \in S
  BY SeqBasics
<1>2. /\ SubSeq(s, 1, k) \in Seq(S)
      /\ Len(SubSeq(s, 1, k)) = IF 1 <= k THEN k - 1 + 1 ELSE 0
      /\ \A i \in 1..(k - 1 + 1) : SubSeq(s, 1, k)[i] = s[1 + i - 1]
  BY <1>1, SubSeqProperties
<1> QED
  BY <1>2

LEMMA RemoveTyped ==
  ASSUME NEW S, NEW s \in Seq(S), NEW i \in DOMAIN s
  PROVE  RemoveAt(s, i) \in Seq(S)
<1>1. Len(s) \in Nat /\ i \in 1..Len(s) /\ \A j \in 1..Len(s) : s[j] \in S
  BY SeqBasics
<1>2. SubSeq(s, 1, i - 1) \in Seq(S)
  BY <1>1, CutOff
<1>3. \A j \in (i + 1)..Len(s) : s[j] \in S
  BY <1>1
<1>4. SubSeq(s, i + 1, Len(s)) \in Seq(S)
  BY <1>1, <1>3, SubSeqProperties
<1> QED
  BY <1>2, <1>4, ConcatProperties DEF RemoveAt

LEMMA IdleFits == Fit(Idle)
<1>1. (CHOOSE k \in Keys : TRUE) \in Keys
  BY BusAssumption
<1>2. <<>> \in Seq(Middlewares) /\ <<>> \in Seq(Nat) /\ Len(<<>>) = 0 /\ DOMAIN <<>> = {}
  BY EmptySeq
<1> QED
  BY <1>1, <1>2, BusAssumption DEF Idle, Fit, Event, Within

LEMMA OverFits ==
  ASSUME NEW e, Fit(e), NEW outcome \in {"ok", "cancelled"}
  PROVE  Fit(Over(e, outcome))
  BY IdleFits DEF Over, Fit, Event, Within

(* Control that goes up to one of the middlewares that wait.               *)
LEMMA UpFits ==
  ASSUME NEW e, Fit(e), NEW k \in DOMAIN e.waiting
  PROVE  LET up == [e EXCEPT !.phase = "after", !.at = e.waiting[k],
                             !.waiting = SubSeq(e.waiting, 1, k - 1)]
         IN  Fit(up) /\ Fit([up EXCEPT !.excused = TRUE])
<1> DEFINE w == e.waiting
           cut == SubSeq(w, 1, k - 1)
<1>1. w \in Seq(Nat) /\ e.chain \in Seq(Middlewares)
  BY DEF Fit, Event
<1>2. Len(w) \in Nat /\ k \in 1..Len(w) /\ Len(e.chain) \in Nat /\ DOMAIN e.chain = 1..Len(e.chain)
      /\ DOMAIN w = 1..Len(w)
  BY <1>1, SeqBasics
<1>3. w[k] \in 1..Len(e.chain) /\ \A i \in 1..Len(w) : w[i] \in 1..Len(e.chain)
  BY <1>2 DEF Fit, Within
<1>4. /\ cut \in Seq(Nat) /\ Len(cut) = k - 1 /\ \A i \in 1..(k - 1) : cut[i] = w[i]
  BY <1>1, <1>2, CutOff
<1> DEFINE at == w[k]
<1> HIDE DEF cut, w
<1>5. DOMAIN cut = 1..(k - 1)
  BY <1>4, SeqBasics
<1>6. at \in Nat /\ at \in 1..Len(e.chain) /\ \A i \in DOMAIN cut : cut[i] \in 1..Len(e.chain)
  BY <1>2, <1>3, <1>4, <1>5
<1> HIDE DEF at
<1> DEFINE up == [e EXCEPT !.phase = "after", !.at = at, !.waiting = cut]
           excused == [up EXCEPT !.excused = TRUE]
<1>7. up \in Event /\ up.at = at /\ up.waiting = cut /\ up.chain = e.chain
  BY <1>4, <1>6 DEF Fit, Event
<1>8. excused \in Event /\ excused.at = at /\ excused.waiting = cut /\ excused.chain = e.chain
  BY <1>7 DEF Event
<1> HIDE DEF up, excused
<1>9. Within(up) /\ Within(excused)
  BY <1>2, <1>6, <1>7, <1>8 DEF Within
<1> QED
  BY <1>7, <1>8, <1>9 DEF Fit, up, excused, at, w, cut

LEMMA ReturnFits ==
  ASSUME NEW e, Fit(e)
  PROVE  Fit(Return(e))
<1>1. CASE e.waiting = <<>>
  BY <1>1, OverFits DEF Return
<1>2. CASE e.waiting # <<>>
  <2>1. e.waiting \in Seq(Nat)
    BY DEF Fit, Event
  <2>2. Len(e.waiting) \in DOMAIN e.waiting
    BY <1>2, <2>1, EmptySeq, SeqBasics
  <2>3. Fit([e EXCEPT !.phase = "after", !.at = e.waiting[Len(e.waiting)],
                      !.waiting = SubSeq(e.waiting, 1, Len(e.waiting) - 1)])
    BY <2>2, UpFits
  <2>4. Return(e) = [e EXCEPT !.phase = "after", !.at = e.waiting[Len(e.waiting)],
                              !.waiting = SubSeq(e.waiting, 1, Len(e.waiting) - 1)]
    BY <1>2 DEF Return, Last, Front
  <2> QED
    BY <2>3, <2>4
<1> QED
  BY <1>1, <1>2

LEMMA BelowFits ==
  ASSUME NEW e, Fit(e), e.phase = "before"
  PROVE  /\ Fit(Below(e))
         /\ Fit([Below(e) EXCEPT !.waiting = Append(@, e.at)])
<1>1. e \in Event /\ e.waiting \in Seq(Nat) /\ e.chain \in Seq(Middlewares) /\ e.at \in Nat
  BY DEF Fit, Event
<1>2. /\ Len(e.chain) \in Nat /\ DOMAIN e.chain = 1..Len(e.chain)
      /\ e.at \in 1..Len(e.chain) /\ \A i \in DOMAIN e.waiting : e.waiting[i] \in DOMAIN e.chain
  BY <1>1, SeqBasics DEF Fit, Within
<1> DEFINE down == Below(e)
           w == Append(e.waiting, e.at)
           deep == [down EXCEPT !.waiting = Append(@, e.at)]
<1>3. /\ down \in Event /\ down.phase = "dispatch" /\ down.at = e.at + 1
      /\ down.chain = e.chain /\ down.waiting = e.waiting
  <2> DEFINE next == e.at + 1
  <2>1. next \in Nat /\ down = [e EXCEPT !.phase = "dispatch", !.at = next]
    BY <1>1 DEF Below, Event
  <2> HIDE DEF next, down
  <2>2. /\ down \in Event /\ down.phase = "dispatch" /\ down.at = next
        /\ down.chain = e.chain /\ down.waiting = e.waiting
    BY <1>1, <2>1 DEF Event
  <2> QED
    BY <2>2 DEF next
<1>4. /\ w \in Seq(Nat) /\ Len(w) = Len(e.waiting) + 1
      /\ \A i \in 1..Len(e.waiting) : w[i] = e.waiting[i]
      /\ w[Len(e.waiting) + 1] = e.at
  BY <1>1, AppendProperties
<1>5. Len(e.waiting) \in Nat /\ DOMAIN e.waiting = 1..Len(e.waiting)
  BY <1>1, SeqBasics
<1> HIDE DEF w, down
<1>6. DOMAIN w = 1..Len(e.waiting) + 1
  BY <1>4, SeqBasics
<1>7. ASSUME NEW i \in DOMAIN w PROVE w[i] \in DOMAIN e.chain
  <2>1. i \in 1..Len(e.waiting) \/ i = Len(e.waiting) + 1
    BY <1>5, <1>6
  <2> QED
    BY <1>2, <1>4, <1>5, <2>1
<1>8. deep = [down EXCEPT !.waiting = w]
  BY <1>3 DEF w
<1>9. /\ deep \in Event /\ deep.phase = "dispatch" /\ deep.at = e.at + 1
      /\ deep.chain = e.chain /\ deep.waiting = w
  BY <1>3, <1>4, <1>8 DEF Event
<1> HIDE DEF deep
<1>10. Within(down) /\ Within(deep)
  BY <1>2, <1>3, <1>7, <1>9 DEF Within
<1> QED
  BY <1>3, <1>9, <1>10 DEF Fit, down, deep

LEMMA OneFits ==
  ASSUME Typed, NEW p \in Publishers, NEW new, Fit(new), event' = [event EXCEPT ![p] = new]
  PROVE  Typed'
<1>1. event' \in [Publishers -> Event]
  BY DEF Typed, Fit
<1>2. \A q \in Publishers : event'[q] = IF q = p THEN new ELSE event[q]
  BY DEF Typed
<1>3. \A q \in Publishers : Within(event'[q])
  BY <1>2 DEF Typed, Fit
<1> QED
  BY <1>1, <1>3 DEF Typed, Within

(* The lists change, and a publication under way notes it.                 *)
LEMMA ListsFit ==
  ASSUME TypeOK, subs' \subseteq Subscription, NEW new, Relist(new) \/ ChangeMiddlewares(new)
  PROVE  Typed'
<1>1. event' = [r \in Publishers |-> event'[r]]
  BY DEF Relist, ChangeMiddlewares
<1>2. ASSUME NEW q \in Publishers PROVE Fit(event'[q])
  <2>1. Fit(event[q])
    BY DEF TypeOK, Fit
  <2>2. CASE ~ Publishing(q)
    BY <2>1, <2>2 DEF Relist, ChangeMiddlewares
  <2>3. CASE Publishing(q)
    <3>1. event[q].changes + 1 \in 0..MaxChanges
      <4>1. MayChange
        BY DEF Relist, ChangeMiddlewares
      <4>2. event[q].changes < MaxChanges
        BY <2>3, <4>1 DEF MayChange
      <4>3. event[q].changes \in 0..MaxChanges
        BY <2>1 DEF Fit, Event
      <4> QED
        BY <4>2, <4>3, BusAssumption
    <3>2. CASE Relist(new)
      <4> DEFINE x == event[q].stable \cap new
                 z == IF event[q].delivered > 0 THEN event[q].ever ELSE
                        event[q].ever \cup {s \in new : Matches(s, event[q].key, event[q].source)}
      <4>1. event'[q] = [event[q] EXCEPT !.stable = x, !.changes = event[q].changes + 1, !.ever = z]
        BY <2>1, <2>3, <3>2 DEF Relist, Fit, Event
      <4>2. x \subseteq Subscription
        BY <2>1 DEF Fit, Event
      <4>3. new \subseteq Subscription
        BY <3>2 DEF Relist
      <4>4. z \subseteq Subscription
        BY <2>1, <4>3 DEF Fit, Event
      <4> HIDE DEF x, z
      <4>5. /\ event'[q] \in Event /\ event'[q].chain = event[q].chain /\ event'[q].at = event[q].at
            /\ event'[q].waiting = event[q].waiting /\ event'[q].phase = event[q].phase
        BY <2>1, <3>1, <4>1, <4>2, <4>4 DEF Fit, Event
      <4> QED
        BY <2>1, <4>5 DEF Fit, Within
    <3>3. CASE ChangeMiddlewares(new)
      <4>1. event'[q] = [event[q] EXCEPT !.changes = event[q].changes + 1]
        BY <2>1, <2>3, <3>3 DEF ChangeMiddlewares, Fit, Event
      <4> QED
        BY <2>1, <3>1, <4>1 DEF Fit, Event, Within
    <3> QED
      BY <3>2, <3>3
  <2> QED
    BY <2>2, <2>3
<1> QED
  BY <1>1, <1>2 DEF Typed, Fit, Within

(* A publication goes a step on.                                           *)
LEMMA PublicationFits ==
  ASSUME TypeOK, BusInv, NEW p \in Publishers,
         BusStep(p) \/ MiddlewareStep(p) \/ MiddlewareGivesUp(p) \/ Cancelled(p)
  PROVE  Typed'
<1> DEFINE e == event[p]
<1>1. Fit(e) /\ Typed /\ Good(e) /\ e.phase \in {"idle", "dispatch", "before", "deliver", "after"}
  BY DEF TypeOK, Typed, Fit, BusInv, Good
<1>2. ASSUME NEW new, Fit(new), event' = [event EXCEPT ![p] = new] PROVE Typed'
  BY <1>1, <1>2, OneFits
<1>3. CASE Dispatch(p)
  <2>1. e.phase = "dispatch" /\ e.delivered = 0
    BY <1>1, <1>3 DEF Dispatch, Good
  <2>2. CASE e.at <= Len(e.chain)
    <3> DEFINE new == [e EXCEPT !.phase = "before"]
    <3>1. event' = [event EXCEPT ![p] = new]
      BY <1>3, <2>2 DEF Dispatch, TypeOK
    <3>2. /\ new \in Event /\ new.chain = e.chain /\ new.at = e.at
          /\ new.waiting = e.waiting /\ new.phase = "before"
      BY <1>1 DEF Fit, Event
    <3> HIDE DEF new, e
    <3>3. Fit(new)
      BY <1>1, <2>2, <3>2 DEF Fit, Within
    <3> QED
      BY <1>2, <3>1, <3>3
  <2>3. CASE ~(e.at <= Len(e.chain))
    <3> DEFINE new == [e EXCEPT !.phase = "deliver", !.delivered = @ + 1, !.stable = {},
                                !.ever = {}]
    <3>1. event' = [event EXCEPT ![p] = new]
      BY <1>3, <2>3 DEF Dispatch, TypeOK
    <3> HIDE DEF e
    <3>2. /\ new \in Event /\ new.chain = e.chain /\ new.at = e.at
          /\ new.waiting = e.waiting /\ new.phase = "deliver"
      <4>1. e \in Event /\ e.delivered + 1 \in 0..1 /\ {} \in SUBSET Subscription
        BY <1>1, <2>1 DEF Fit
      <4>2. new = [e EXCEPT !.phase = "deliver", !.delivered = e.delivered + 1, !.stable = {},
                            !.ever = {}]
        BY <4>1 DEF Event
      <4> QED
        BY <4>1, <4>2 DEF Event
    <3> HIDE DEF new
    <3>3. Fit(new)
      BY <1>1, <3>2 DEF Fit, Within
    <3> QED
      BY <1>2, <3>1, <3>3
  <2> QED
    BY <2>2, <2>3
<1>4. CASE Delivered(p)
  BY <1>1, <1>2, <1>4, ReturnFits DEF Delivered, Running
<1>5. CASE CallNext(p)
  BY <1>1, <1>2, <1>5, BelowFits DEF CallNext, Running
<1>6. CASE MiddlewareFails(p)
  <2>1. Fit(FailOpen(e))
    BY <1>1, ReturnFits, BelowFits DEF FailOpen
  <2> QED
    BY <1>2, <1>6, <2>1 DEF MiddlewareFails, Running
<1>7. CASE MiddlewareReturns(p)
  <2> DEFINE r == Return(e)
             b == (r.excused \/ e.phase = "before")
             new == [r EXCEPT !.excused = b]
  <2>1. Fit(r)
    BY <1>1, ReturnFits
  <2>2. event' = [event EXCEPT ![p] = new]
    <3>1. new = [r EXCEPT !.excused = @ \/ event[p].phase = "before"]
      BY <2>1 DEF Fit, Event
    <3> QED
      BY <1>7, <3>1 DEF MiddlewareReturns, Running
  <2>3. b \in BOOLEAN
    OBVIOUS
  <2> HIDE DEF r, b
  <2>4. /\ new \in Event /\ new.chain = r.chain /\ new.at = r.at
        /\ new.waiting = r.waiting /\ new.phase = r.phase
    BY <2>1, <2>3 DEF Fit, Event
  <2> HIDE DEF new
  <2>5. Fit(new)
    BY <2>1, <2>4 DEF Fit, Within
  <2> QED
    BY <1>2, <2>2, <2>5
<1>8. CASE MiddlewareGivesUp(p)
  <2> DEFINE new(i) == [event[p] EXCEPT !.phase = "after", !.at = event[p].waiting[i],
                                        !.excused = TRUE, !.waiting = SubSeq(@, 1, i - 1)]
             up(i) == [e EXCEPT !.phase = "after", !.at = e.waiting[i],
                                !.waiting = SubSeq(e.waiting, 1, i - 1)]
  <2>1. PICK i \in DOMAIN event[p].waiting : event' = [event EXCEPT ![p] = new(i)]
    BY <1>8, Zenon DEF MiddlewareGivesUp
  <2>2. Fit([up(i) EXCEPT !.excused = TRUE])
    BY <1>1, UpFits
  <2>3. new(i) = [up(i) EXCEPT !.excused = TRUE]
    BY <1>1 DEF Fit, Event
  <2> QED
    BY <1>2, <2>1, <2>2, <2>3
<1>9. CASE Cancelled(p)
  <2>1. Fit(Over(e, "cancelled"))
    BY <1>1, OverFits
  <2>2. event' = [event EXCEPT ![p] = Over(e, "cancelled")]
    BY <1>9 DEF Cancelled, TypeOK
  <2> QED
    BY <1>2, <2>1, <2>2
<1> QED
  BY <1>3, <1>4, <1>5, <1>6, <1>7, <1>8, <1>9 DEF BusStep, MiddlewareStep

LEMMA PublishFits ==
  ASSUME TypeOK, NEW p \in Publishers, NEW key \in Keys, NEW source \in Sources \cup {NoSource},
         Publish(p, key, source)
  PROVE  Typed'
<1> DEFINE matching == {s \in subs : Matches(s, key, source)}
           free == {k \in 0..MaxOverlap : \A c \in calls : c.by = p => c.n < k}
           n == CHOOSE k \in free : TRUE
           new == [phase |-> "dispatch", outcome |-> "none", n |-> n,
                   key |-> key, source |-> source, chain |-> middlewares, at |-> 1,
                   waiting |-> <<>>, stable |-> matching, ever |-> matching,
                   delivered |-> 0, excused |-> FALSE, changes |-> 0]
<1>1. event' = [event EXCEPT ![p] = new] /\ free # {}
  BY DEF Publish
<1>2. n \in 0..MaxOverlap /\ matching \subseteq Subscription
  BY <1>1 DEF TypeOK
<1> HIDE DEF n, matching
<1>3. <<>> \in Seq(Nat) /\ DOMAIN <<>> = {} /\ Len(middlewares) \in Nat
      /\ middlewares \in Seq(Middlewares)
  BY EmptySeq, SeqBasics DEF TypeOK
<1>4. Fit(new)
  BY <1>2, <1>3, BusAssumption DEF Fit, Event, Within
<1> QED
  BY <1>1, <1>4, OneFits DEF TypeOK, Typed

LEMMA TypeOKStep == TypeOK /\ BusInv /\ [Next]_vars => TypeOK'
<1> SUFFICES ASSUME TypeOK, BusInv, [Next]_vars PROVE TypeOK'
  OBVIOUS
<1>0. Typed' /\ subs' \subseteq Subscription /\ middlewares' \in Seq(Middlewares)
         /\ calls' \subseteq Call => TypeOK'
  BY DEF TypeOK, Typed
<1>1. ASSUME NEW on \in Keys \cup {All}, NEW h \in Handlers,
             ScopedChange(on, h) \/ UnscopedChange(on, h)
      PROVE  TypeOK'
  <2>1. PICK new : Relist(new) /\ new \subseteq Subscription
    <3>1. PICK source \in Sources \cup {NoSource} :
            Subscribe(on, h, source) \/ Unsubscribe(on, h, source)
      BY <1>1 DEF ScopedChange, UnscopedChange
    <3>2. subs \cup {[on |-> on, callback |-> h, source |-> source]} \subseteq Subscription
      BY DEF Subscription, TypeOK
    <3>3. Without(on, h, source) \subseteq Subscription
      BY DEF Without, TypeOK
    <3> QED
      BY <3>1, <3>2, <3>3 DEF Subscribe, Unsubscribe
  <2>2. subs' = new /\ middlewares' = middlewares /\ calls' = calls
    BY <2>1 DEF Relist
  <2> QED
    BY <1>0, <2>1, <2>2, ListsFit DEF TypeOK
<1>2. ASSUME NEW m \in Middlewares, Use(m) \/ RemoveMiddleware(m)
      PROVE  TypeOK'
  <2>1. PICK new : ChangeMiddlewares(new) /\ new \in Seq(Middlewares)
    <3>1. middlewares \in Seq(Middlewares)
      BY DEF TypeOK
    <3> QED
      BY <1>2, <3>1, RemoveTyped, AppendProperties DEF Use, RemoveMiddleware
  <2>2. middlewares' = new /\ subs' = subs /\ calls' = calls
    BY <2>1 DEF ChangeMiddlewares
  <2> QED
    BY <1>0, <2>1, <2>2, ListsFit DEF TypeOK
<1>3. ASSUME NEW p \in Publishers, NEW key \in Keys, NEW source \in Sources \cup {NoSource},
             Publish(p, key, source)
      PROVE  TypeOK'
  BY <1>0, <1>3, PublishFits DEF Publish, TypeOK
<1>4. ASSUME NEW p \in Publishers,
             BusStep(p) \/ MiddlewareStep(p) \/ MiddlewareGivesUp(p) \/ Cancelled(p)
      PROVE  TypeOK'
  <2>1. Typed'
    BY <1>4, PublicationFits
  <2>2. subs' = subs /\ middlewares' = middlewares
    BY <1>4 DEF BusStep, MiddlewareStep, MiddlewareGivesUp, Cancelled, Dispatch, Delivered,
                CallNext, MiddlewareFails, MiddlewareReturns, Running
  <2>3. CASE Dispatch(p)
    <3>1. event[p].n \in 0..MaxOverlap
      BY DEF TypeOK, Event
    <3>2. calls' \subseteq Call
      BY <2>3, <3>1 DEF Dispatch, Collect, Call, TypeOK
    <3> QED
      BY <1>0, <2>1, <2>2, <3>2 DEF TypeOK
  <2>4. CASE ~ Dispatch(p)
    <3>1. calls' \subseteq calls
      BY <1>4, <2>4 DEF BusStep, MiddlewareStep, MiddlewareGivesUp, Cancelled, Delivered,
                        CallNext, MiddlewareFails, MiddlewareReturns, Running
    <3> QED
      BY <1>0, <2>1, <2>2, <3>1 DEF TypeOK
  <2> QED
    BY <2>3, <2>4
<1>5. ASSUME NEW c \in calls, HandlerReturns(c) \/ HandlerTimesOut(c)
      PROVE  TypeOK'
  BY <1>5 DEF HandlerReturns, HandlerTimesOut, HandlerEnds, TypeOK, Within
<1>6. ASSUME NEW c \in calls, HandlerCancels(c)
      PROVE  TypeOK'
  <2>1. c.by \in Publishers
    BY DEF TypeOK, Call
  <2>2. Fit(Over(event[c.by], "cancelled"))
    BY <2>1, OverFits DEF TypeOK, Fit
  <2>3. event' = [event EXCEPT ![c.by] = Over(event[c.by], "cancelled")]
    BY <1>6, <2>1 DEF HandlerCancels, TypeOK
  <2>4. Typed'
    BY <2>1, <2>2, <2>3, OneFits DEF TypeOK, Typed
  <2> QED
    BY <1>0, <1>6, <2>4 DEF HandlerCancels, TypeOK
<1>7. CASE UNCHANGED vars
  BY <1>7 DEF vars, TypeOK, Within
<1> QED
  BY <1>1, <1>2, <1>3, <1>4, <1>5, <1>6, <1>7 DEF Next

LEMMA TypeOKInit == Init => TypeOK
  BY IdleFits, EmptySeq DEF Init, TypeOK, Fit

(* The variables keep their types, and the index of a publication stays    *)
(* within the chain it copied, however often middlewares are added, used   *)
(* twice and removed, fail, give up and return.                            *)
THEOREM TypeCorrect == Spec => []TypeOK
<1>1. Init => TypeOK /\ BusInv
  BY TypeOKInit, BusInit
<1>2. TypeOK /\ BusInv /\ [Next]_vars => (TypeOK /\ BusInv)'
  BY TypeOKStep, BusStepKeeps
<1> QED
  BY <1>1, <1>2, PTL DEF Spec
=============================================================================
