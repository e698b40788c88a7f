------------------------------ MODULE EventBus ------------------------------
(***************************************************************************)
(* RuntimeEventBus of core/runtime/event_bus.py: subscriptions, the chain  *)
(* of middlewares and the delivery to the handlers.  Every await of        *)
(* publish() is a step boundary, so subscriptions and middlewares change   *)
(* while events are on their way.                                          *)
(*                                                                         *)
(* Middlewares, handlers and publishers are user code: a middleware may    *)
(* pass the event on, swallow it, raise, end with CancelledError or give   *)
(* up waiting for what is below it; a handler may return, raise, hang or   *)
(* end with CancelledError; a publishing task may be cancelled.  A         *)
(* middleware is in the chain once, calls call_next() at most once and     *)
(* awaits it; a handler that is not async cannot hang.  Payloads and log   *)
(* lines are left out.                                                     *)
(***************************************************************************)
EXTENDS Naturals, Sequences, FiniteSets, SequencesExt

CONSTANTS
    Publishers,      \* tasks that publish, one event at a time
    Handlers,        \* callbacks
    Middlewares,
    Keys,            \* event types, as _event_key normalises them
    All,             \* the list of subscribe_all(), beside the keys
    Sources,         \* source names
    NoSource,        \* source=None
    HandlerTimeout,  \* TRUE when handler_timeout is not None
    MaxSubs,         \* bound: subscriptions at a time
    MaxChain,        \* bound: middlewares at a time
    MaxChanges,      \* bound: changes of lists during one publication
    MaxOverlap       \* bound: events of one publisher with calls running

ASSUME BusAssumption ==
    /\ Keys # {} /\ All \notin Keys /\ NoSource \notin Sources
    /\ HandlerTimeout \in BOOLEAN
    /\ MaxSubs \in Nat /\ MaxChain \in Nat /\ MaxChanges \in Nat /\ MaxOverlap \in Nat

VARIABLES
    subs,         \* _subscribers and _global_subscribers
    middlewares,  \* _middlewares
    event,        \* per publisher: its publish() call, or what its last one came to
    calls         \* handler calls that have not ended

vars == <<subs, middlewares, event, calls>>

(* A _Subscription with the list it is on.  A callback subscribed twice,   *)
(* on two lists or for two sources, is called twice.                       *)
Subscription == [on : Keys \cup {All}, callback : Handlers, source : Sources \cup {NoSource}]

Matches(sub, key, source) ==
    /\ sub.on \in {key, All}
    /\ sub.source \in {NoSource, source}

(* stable, ever, delivered and excused only observe: the matching          *)
(* subscriptions present all along and at some time between the call of    *)
(* publish() and the delivery, how often _deliver ran, and whether a       *)
(* middleware kept the event from going on.                                *)
Event == [ phase : {"idle", "dispatch", "before", "deliver", "after"},
           outcome : {"none", "ok", "cancelled"},
           n : 0..MaxOverlap, key : Keys, source : Sources \cup {NoSource},
           chain : Seq(Middlewares), at : Nat, waiting : Seq(Nat),
           stable : SUBSET Subscription, ever : SUBSET Subscription,
           delivered : 0..1, excused : BOOLEAN, changes : 0..MaxChanges ]

Call == [by : Publishers, n : 0..MaxOverlap, sub : Subscription]

(* The index stays within the chain and the step behind it, and in a       *)
(* middleware it is that of one; so are those that wait.                   *)
Within(e) ==
    /\ e.at \in 1..Len(e.chain) + 1
    /\ e.phase \in {"before", "after"} => e.at <= Len(e.chain)
    /\ \A i \in DOMAIN e.waiting : e.waiting[i] \in DOMAIN e.chain

(* Subscriptions, calls and publications have the shapes above.            *)
TypeOK ==
    /\ subs \subseteq Subscription
    /\ middlewares \in Seq(Middlewares)
    /\ event \in [Publishers -> Event] /\ \A p \in Publishers : Within(event[p])
    /\ calls \subseteq Call

Publishing(p) == event[p].phase # "idle"

CallsOf(p) == {c \in calls : c.by = p /\ c.n = event[p].n}

----------------------------------------------------------------------------
(* Subscribing: between the awaits of the publications under way.          *)

MayChange == \A p \in Publishers : Publishing(p) => event[p].changes < MaxChanges

(* The lists become new; what the publications under way observe of it.    *)
Relist(new) ==
    /\ MayChange /\ new # subs /\ Cardinality(new) <= MaxSubs
    /\ subs' = new
    /\ event' = [p \in Publishers |->
         IF ~Publishing(p) THEN event[p] ELSE
           [event[p] EXCEPT !.stable = @ \cap new, !.changes = @ + 1,
              !.ever = IF event[p].delivered > 0 THEN @ ELSE
                         @ \cup {s \in new : Matches(s, event[p].key, event[p].source)}]]
    /\ UNCHANGED <<middlewares, calls>>

Subscribe(on, callback, source) ==
    Relist(subs \cup {[on |-> on, callback |-> callback, source |-> source]})

(* source=None removes the callback for any source.                        *)
Without(on, callback, source) ==
    {s \in subs : ~ (s.on = on /\ s.callback = callback /\ source \in {NoSource, s.source})}

Unsubscribe(on, callback, source) == Relist(Without(on, callback, source))

(* The view of one source only ever adds and removes its own.              *)
ScopedChange(on, callback) ==
    \E source \in Sources :
        Subscribe(on, callback, source) \/ Unsubscribe(on, callback, source)

UnscopedChange(on, callback) ==
    Subscribe(on, callback, NoSource) \/ Unsubscribe(on, callback, NoSource)

ChangeMiddlewares(new) ==
    /\ MayChange
    /\ middlewares' = new
    /\ event' = [p \in Publishers |-> IF Publishing(p) THEN [event[p] EXCEPT !.changes = @ + 1]
                                                       ELSE event[p]]
    /\ UNCHANGED <<subs, calls>>

(* A middleware may be used twice, and is then called twice.               *)
Use(m) == Len(middlewares) < MaxChain /\ ChangeMiddlewares(Append(middlewares, m))

(* The first occurrence goes.                                              *)
RemoveMiddleware(m) ==
    \E i \in DOMAIN middlewares :
        /\ middlewares[i] = m /\ \A j \in 1..(i - 1) : middlewares[j] # m
        /\ ChangeMiddlewares(RemoveAt(middlewares, i))

----------------------------------------------------------------------------
(* publish() and _dispatch()                                               *)

(* The list of middlewares is copied, the subscriptions are not read yet.  *)
Publish(p, key, source) ==
    LET matching == {s \in subs : Matches(s, key, source)}
        free == {k \in 0..MaxOverlap : \A c \in calls : c.by = p => c.n < k}
    IN  /\ ~Publishing(p) /\ free # {}
        /\ event' = [event EXCEPT ![p] =
             [phase |-> "dispatch", outcome |-> "none", n |-> CHOOSE k \in free : TRUE,
              key |-> key, source |-> source, chain |-> middlewares, at |-> 1, waiting |-> <<>>,
              stable |-> matching, ever |-> matching,
              delivered |-> 0, excused |-> FALSE, changes |-> 0]]
        /\ UNCHANGED <<subs, middlewares, calls>>

Idle == [phase |-> "idle", outcome |-> "none", n |-> 0, key |-> CHOOSE k \in Keys : TRUE,
         source |-> NoSource, chain |-> <<>>, at |-> 1, waiting |-> <<>>, stable |-> {},
         ever |-> {}, delivered |-> 0, excused |-> FALSE, changes |-> 0]

(* The event is over for p: only what it came to is kept.                  *)
Over(e, outcome) ==
    [Idle EXCEPT !.outcome = outcome, !.delivered = e.delivered, !.excused = e.excused]

(* A level of the chain is done: control goes to the middleware above that *)
(* awaits call_next(), or to the publisher.                                *)
Return(e) ==
    IF e.waiting = <<>> THEN Over(e, "ok")
    ELSE [e EXCEPT !.phase = "after", !.at = Last(e.waiting), !.waiting = Front(@)]

\* Fault: a handler subscribed for any source misses the events of a named one.
CollectExact(p) ==
    {s \in subs : s.on \in {event[p].key, All} /\ s.source = event[p].source}

(* The middleware at the index is called, or the chain is through and the  *)
(* handlers are collected: as they are now, not as at publish().           *)
Collect(p) == {s \in subs : Matches(s, event[p].key, event[p].source)}

Dispatch(p) ==
    /\ event[p].phase = "dispatch"
    /\ IF event[p].at <= Len(event[p].chain)
       THEN event' = [event EXCEPT ![p].phase = "before"] /\ UNCHANGED calls
       ELSE /\ event' = [event EXCEPT ![p].phase = "deliver", ![p].delivered = @ + 1,
                                      ![p].stable = {}, ![p].ever = {}]
            /\ calls' = calls \cup {[by |-> p, n |-> event[p].n, sub |-> s] : s \in Collect(p)}
    /\ UNCHANGED <<subs, middlewares>>

Running(p, new) == event' = [event EXCEPT ![p] = new] /\ UNCHANGED <<subs, middlewares, calls>>

Below(e) == [e EXCEPT !.phase = "dispatch", !.at = @ + 1]

CallNext(p) ==
    /\ event[p].phase = "before"
    /\ Running(p, [Below(event[p]) EXCEPT !.waiting = Append(@, event[p].at)])

\* Fault: a middleware that raises ends the chain.
FailOpenReturning(e) == Return(e)

(* An Exception: passed on in its stead unless call_next() was called.     *)
FailOpen(e) == IF e.phase = "before" THEN Below(e) ELSE Return(e)

MiddlewareFails(p) ==
    event[p].phase \in {"before", "after"} /\ Running(p, FailOpen(event[p]))

MiddlewareReturns(p) ==
    /\ event[p].phase \in {"before", "after"}
    /\ Running(p, [Return(event[p]) EXCEPT !.excused = @ \/ event[p].phase = "before"])

(* wait_for(call_next()) and the like: all that runs below is cancelled.   *)
MiddlewareGivesUp(p) ==
    \E i \in DOMAIN event[p].waiting :
        /\ event' = [event EXCEPT ![p] =
             [event[p] EXCEPT !.phase = "after", !.at = event[p].waiting[i], !.excused = TRUE,
                              !.waiting = SubSeq(@, 1, i - 1)]]
        /\ calls' = calls \ CallsOf(p)
        /\ UNCHANGED <<subs, middlewares>>

(* CancelledError is no Exception: that of the publishing task, or of a    *)
(* middleware itself, ends publish() and the handlers it waits for.        *)
Cancelled(p) ==
    /\ Publishing(p)
    /\ event' = [event EXCEPT ![p] = Over(@, "cancelled")]
    /\ calls' = calls \ CallsOf(p)
    /\ UNCHANGED <<subs, middlewares>>

----------------------------------------------------------------------------
(* _deliver() and _call_handler()                                          *)

HandlerEnds(c) ==
    calls' = calls \ {c} /\ UNCHANGED <<subs, middlewares, event>>

(* Returns, or raises an Exception that is logged and goes no further.     *)
HandlerReturns(c) == c \in calls /\ HandlerEnds(c)

\* Fault: the condition on handler_timeout is the wrong way round.
HandlerTimesOutNever(c) == c \in calls /\ ~HandlerTimeout /\ HandlerEnds(c)

HandlerTimesOut(c) == c \in calls /\ HandlerTimeout /\ HandlerEnds(c)

(* A CancelledError of the handler's own: gather() hands it to the         *)
(* publisher at once, the other handlers go on without anyone waiting.     *)
HandlerCancels(c) ==
    /\ c \in calls /\ c \in CallsOf(c.by) /\ event[c.by].phase = "deliver"
    /\ calls' = calls \ {c}
    /\ event' = [event EXCEPT ![c.by] = Over(@, "cancelled")]
    /\ UNCHANGED <<subs, middlewares>>

\* Fault: one handler may still run.
AllButOneHandled(p) == Cardinality(CallsOf(p)) <= 1

(* gather() waits for the last one.                                        *)
AllHandled(p) == CallsOf(p) = {}

Delivered(p) ==
    /\ event[p].phase = "deliver" /\ AllHandled(p)
    /\ Running(p, Return(event[p]))

----------------------------------------------------------------------------
Init ==
    /\ subs = {}
    /\ middlewares = <<>>
    /\ event = [p \in Publishers |-> Idle]
    /\ calls = {}

MiddlewareStep(p) ==
    CallNext(p) \/ MiddlewareFails(p) \/ MiddlewareReturns(p)

BusStep(p) == Dispatch(p) \/ Delivered(p)

Next ==
    \/ \E on \in Keys \cup {All}, h \in Handlers : ScopedChange(on, h) \/ UnscopedChange(on, h)
    \/ \E m \in Middlewares : Use(m) \/ RemoveMiddleware(m)
    \/ \E p \in Publishers :
        \/ \E key \in Keys, source \in Sources \cup {NoSource} : Publish(p, key, source)
        \/ BusStep(p) \/ MiddlewareStep(p) \/ MiddlewareGivesUp(p) \/ Cancelled(p)
    \/ \E c \in calls : HandlerReturns(c) \/ HandlerTimesOut(c) \/ HandlerCancels(c)

Spec == Init /\ [][Next]_vars

(* The event loop goes on; a middleware that runs comes to an end (the bus *)
(* sets it no limit); a handler is only known to be stopped by its timeout.*)
FairSpec ==
    /\ Spec
    /\ \A p \in Publishers : WF_vars(BusStep(p)) /\ WF_vars(MiddlewareStep(p))
    /\ \A p \in Publishers, n \in 0..MaxOverlap, s \in Subscription :
        WF_vars(HandlerTimesOut([by |-> p, n |-> n, sub |-> s]))

----------------------------------------------------------------------------
(* A crashing middleware never swallows an event (event_bus.py:13): a      *)
(* publish() that returned, with no middleware that meant to stop it, has  *)
(* run _deliver exactly once.                                              *)
DeliveredOnce ==
    \A p \in Publishers :
        /\ event[p].delivered <= 1
        /\ event[p].outcome = "ok" /\ ~event[p].excused => event[p].delivered = 1

(* However the lists change while the middlewares run: everybody who was   *)
(* subscribed from the call of publish() to the delivery is called, and    *)
(* nobody who was not subscribed at any time in between.                   *)
ReachesSubscribers ==
    [][\A p \in Publishers : event[p].phase = "dispatch" /\ event'[p].phase = "deliver" =>
        LET reached == {c.sub : c \in {d \in calls' \ calls : d.by = p}}
        IN  event[p].stable \subseteq reached /\ reached \subseteq event[p].ever]_vars

(* The events of one publisher reach the handlers one after the other: as  *)
(* long as a handler's call for an event runs, the publisher has begun     *)
(* with the next one only if it was cancelled out of the former.           *)
InOrder ==
    [][\A p \in Publishers : Publishing(p) /\ event'[p].outcome = "ok" /\ event[p].outcome # "ok" =>
        ~\E c \in calls : c.by = p /\ c.n = event[p].n]_vars

(* A handler that hangs, or that waits for a lock its publisher holds      *)
(* (app_state.py:306 publishes inside the lock of start()), delays the     *)
(* publisher but does not stop it for ever.                                *)
PublishReturns == \A p \in Publishers : Publishing(p) ~> ~Publishing(p)
=============================================================================
