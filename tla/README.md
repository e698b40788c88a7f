# A verification of the Hakaton-LDT backend

TLA+ modules, TLC runs and TLAPS proofs kept beside the backend. The backend is
one repository of four programs: the ML service core (Python, asyncio), the auth
service and the API gateway (Go) and a file service that is not written yet. Paths
below are relative to the repository; `core/`, `infrastructure/` and `ports/` are
inside `ML-Service-Core/`.

## 1. Inventory

| part | source | state it keeps | operations |
|---|---|---|---|
| service runtime | `core/runtime/app_state.py` | state of one service, last error, clock marks, an `asyncio.Lock` | start, stop, check_health, get_state |
| pipeline | `core/runtime/pipeline.py` | pipeline state, lock, ordered runtimes | start with rollback, stop in reverse, check_health |
| event bus | `core/runtime/event_bus.py` | subscriptions per event and global, middlewares | subscribe, unsubscribe, use, publish |
| service container | `core/di/service_container.py` | services, factories, instances, aliases, an `RLock` | register, alias, get, remove, clear, transaction, start_all, stop_all |
| service factory | `core/di/factories.py` | none of its own: it fills the container and the registries | register connector, interface, service; from config |
| registries | `core/registry/*.py` | classes by name | register once, get |
| tracked interfaces | `core/base_class/base_interface.py`, `ports/**` | the current worker | switch_worker, tracked calls and streams, initialize, shutdown |
| data transfer objects | `ports/**/dto.py` | their attributes | constructor checks, `validate()`, `to_dict`, `from_dict` of 31 classes |
| PostgreSQL log handler | `infrastructure/internal/logging.py` | queue, pool, worker task, healthy flag | initialize, emit, batch worker, shutdown, check_health |
| auth service | `AuthService/internal/**` | users and refresh tokens in PostgreSQL | register, login, refresh, logout, user administration |
| API gateway | `API-Gateway/**` | none (routes and rules) | authenticate, authorise by role, proxy |
| file service | `FileService/**` | - | not written (TODO files) |
| configuration, entry points, Cython worker manager | `infrastructure/config/`, `core/cython_workers/`, `cmd/*/main.go` | - | I/O and set-up |

How they interact: the factory registers connectors and interfaces in the container
inside one transaction; a `ServiceRuntime` wraps one such object and calls its
`initialize`, `shutdown` and `check_health` hooks; a `Pipeline` starts and stops
runtimes in order; both publish every state change on the event bus, whose handlers
run in the publishing task; tracked interfaces publish the start and the end of each
operation on the same bus. The gateway authenticates with the tokens the auth service
issues and reads the role from the token, not from the data base.

### What is hard in it

* asyncio tasks interleave at every `await`, and may be cancelled at each of them.
  The publication of an event is such a point as soon as anybody subscribes to it, be the
  handler a synchronous one (`event_bus.py:244` awaits `gather()`), so a state change and
  what follows it are not atomic.
* `check_health()` takes no lock and applies a verdict on a state it read earlier.
* the rollback of a pipeline runs while services fail, and, after a cancellation, in
  a task of its own.
* the container is shared by threads; its fast path reads without the lock, and a
  transaction exposes what it may roll back.
* the log handler loses or keeps records across failure, shutdown and restart.
* the auth service checks and revokes refresh tokens without a transaction.

`PROJECT.json` lists each hazard at its line, with the property that catches it.

### What makes each part correct

* runtime: start and stop exclude each other; no transition outside the table; a
  result is true when it is returned; nothing stays half way.
* pipeline: services run only above the services they depend on; a start that does
  not succeed leaves nothing running; a stop reaches every service.
* bus: a failing middleware or handler costs nobody else an event, and nobody gets
  one twice.
* container: one instance per singleton; aliases never form a cycle; a failed
  transaction leaves no trace.
* tracking: the report of an operation agrees with what its caller gets.
* container's components: after a `start_all()` that returned what can be reached is open,
  after a `stop_all()` that returned it is closed.
* data transfer objects: the two sets of checks of a class do not contradict each other,
  and nothing is lost on the way through a dictionary.
* log handler: every record accepted is written, unless dropped for a stated reason.
* auth: a revoked refresh token is out, a session has one valid token, accounts are
  changed for administrators only, and added for those the gateway takes for one.

## 2. Plan

Done, in this order; each component was written as one action per operation or handler,
checked, given a fault for each of its properties, and proved about:

1. `ServiceLifecycle` (abstract), `ServiceRuntime` (detailed, refines it).
2. `Pipeline`, every service of which keeps to `ServiceLifecycle`.
3. `Container`: threads, lock-free `get`, transactions.
4. `EventBus`: subscriptions, middlewares, handlers.
5. `LogHandler`: threads that log, the worker, restarts, a data base that fails.
6. `Interfaces` and, on top of them, `Components`: the container's start, stop and
   health checks of what the factory registers.
7. `Auth`: the auth service behind the gateway.
8. `Requests`: the data transfer objects.

Every safety and action property a passing run checks is a theorem; what is left to TLC is
liveness (section 5).

## 3. Modules

### ServiceLifecycle, ServiceRuntime

`ServiceLifecycle` is what a service promises to an observer: its state moves along
`_TRANSITIONS`, one lifecycle operation is open at a time (`busy`), a health verdict
moves only a service on which none is open. `MayAbandon` says whether an operation
may be dropped before its hook is called.

`ServiceRuntime` is the code. Its variables are the fields (`state`, `lastError` by
kind, `started`/`stopped` for `_t_started`/`_t_stopped`), the lock (`holder`, `queue`:
asyncio hands it over in arrival order), and per task the suspension point (`pc`), the
method (`op`), what its hook said (`good`) and what it returned or raised (`ret`). An
action is the code between two suspension points: `Start` is `start()` up to the
publication of INITIALIZING, `InitializeReturns` is everything from the return of the
hook to the next publication, and so on. `Transition` is `_transition` with the
check of `_set_state`, and raises as it does. Hooks are an outcome (ok, or failure or
timeout); a hook that is missing or not a coroutine does not suspend, which is the
behaviour in which nobody moves in between. `CancelPoints` says where tasks may be
cancelled: waiting for the lock, in a hook, in a publication. Any matching handler, a
synchronous one too, makes the last possible (`_deliver()` awaits `gather()`), so both runs
have all three.

### Pipeline

Callers run `start()` and `stop()` of the pipeline; a *driver* is a caller or the task
`asyncio.shield` makes of a rollback, and `frame[d]` is the runtime call it is in
(`lock`, `announce`, `hook`, `conclude`, `abort`, as in `ServiceRuntime`). `Advance`
is the loop around the runtime calls, `Unwind` the arrival of `CancelledError`,
`Raise` that of `InvalidTransitionError`, which nothing catches. A `CancelledError` may also
arise inside the shielded rollback: a hook ends with one of its own, or the rollback's task
is cancelled. Then `Break` ends the rollback where it is; its frame stays `lost` until the
caller, if there still is one, gets the error out of the shield. A verdict of an
in-flight `check_health()` is `Judge`. Services are driven through the pipeline only.
A caller whose rollback was orphaned does not call again before it ends (its task is
gone). The states of the pipeline are set without a check in the code, and so here.

### Container

Threads share the container, so the grain is finer: one action is one update of a
dictionary by the owner of the `RLock`, or one lock-free look by `get()`. Only
`_instances` and `_aliases` are read without the lock; an update of `_factories` or
`_transient` is joined to the update beside it, as nobody can see it alone. `store` is
the four dictionaries, `snapshot` the copies open transactions hold, and `pc`, `job`,
`walk`, `sweep`, `restore` the local state of the calls. Registrations are numbered
(`MaxRegs`), and an object is known by the registration it came from, so that two
objects of one factory are counted (`built`), not told apart.

`Register` and `RegisterAlias` check and set `pc` to `unbind`; `Unbind`, `Unalias` and
`Put` are the three visible steps of `_unregister` and the insertion. `Remove`,
`SweepRound`, `SweepOne` are `remove()` with its search for dangling aliases. `Begin`,
`Commit` and `Rollback` bracket a transaction; a rollback is `Drain`, `Refill`,
`DrainAliases`, `RefillAliases`, and `clear()` uses the first half. `Seek` and `Hop` are the
two looks of each round of `_resolve` (`in` and `[]`), `Fetch` the first look of `get()`,
`LookUp` what it does once it has the lock, `Build` and `Make` the call of a factory,
inside and outside the lock. A factory returns or raises; what it calls is not modelled.

Four variables belong to an observer and are read by no action: `published` (the
dictionaries when the lock was last free), `meant` (what the name of a `get()` stood
for at each moment of the call), `disturbed` and `forgotten`. `GetIsTrue` relates the
answer of a `get()` to `meant`.

### EventBus

A subscription is a callback, the list it is on and its source, which is all that
`matches` and `_without` look at. `event[p]` is the `publish()` call of task `p`: its
phase, the copy of the middlewares it took, the index it is at and the middlewares that
await their `call_next()`. `calls` are the handler calls under way. An action is the code between two
awaits; `Dispatch` calls the next middleware or collects the handlers, `FailOpen` is the
`except` of `_dispatch`, `HandlerTimesOut` the timeout of `_call_handler`. Middlewares and
handlers are user code and may do anything the bus is written for, also end with a
`CancelledError`, which is no `Exception`: the event is then over, for its publisher at
least. Subscriptions and the chain change at any time. `stable`, `ever`, `delivered` and
`excused` only observe. The two list objects of the code (per event, global) are one set.

### LogHandler

`emit()` is three steps, as other threads run between its looks at the queue. The worker's
and the flush's loops are two each, a look at `empty()` and a `get_nowait()`, and an eviction in
between ends them with `QueueEmpty` (`WorkerMisses`, `FlushMisses`); the worker's first
`get()` is a look and a `get_nowait()` as well. `FlushCancelled` is a `shutdown()` that is
cancelled while it inserts. The worker is synchronous between `get()` and the insert, so then only the logging thread moves
(`LoopFree`); `initialize()` and `shutdown()` come one after the other. Inserts fail, the
table takes all of a batch or nothing, and a cancelled one may have been written. A record is a
number; `spared` holds those given up, each for one of the seven causes the comment of
`NothingVanishes` lists.

### Interfaces, Components

`Interfaces` is `BaseInterface` and its five subclasses: which operations each has, how it
tracks them (call or stream), and which of them the protocol of its worker declares. A stream
its consumer leaves goes to `left`, and its end is reported when the loop's finalizer gets to it
(`Finalized`), as the operation's own generator stands between the two. One
call runs per task, with the point it is at, what the worker did and what was reported.
`Components` adds the ordered dictionary of instances, the registrations of
`ServiceFactory` and the loops of `start_all()`, `stop_all()` and `check_all_health()`, each
of which works through a copy (`todo`) and awaits one object after the other. An
interface's `initialize()` ends up at the worker it has when it is called (`Target`). A `start_all()` that raised or was cancelled
and a `stop_all()` that was cancelled leave the container `broken`. `open`
and `spoiled` observe connectors, which are external. One of the three loops runs at a time, and
registrations are one step: they do not await (`Container` has the threads).

### Requests

A value is what the checks tell apart (a text is empty, blank, padded or plain; a number
below -2, negative, zero, usual or above the upper limit). A dataclass and its pydantic model are
functions from attributes to the values each accepts, transcribed apart from each other, as
they are in the code. An object is constructed, assigned to, validated, and turned into a
dictionary and back.

### Auth

One step per SQL statement, since nothing is in a transaction, and `Breaks` after any of
them. A token is its claims, in whole seconds, because that is what the string is made of;
a row of `refresh_tokens` is known by its number. The gateway does not look at `token_type`, so
either token of a pair passes it as bearer while it lives; the service asks for an access
token on the user administration and for none on `/register` and `/logout`. `RequiredRoles` is the first rule of the
gateway that fits, `Trusted` the role the service reads from the data base. `late`,
`roles`, `root` and `raced` only observe.

## 4. Runs

| run | instance | shows |
|---|---|---|
| RuntimeSafety | 3 tasks, cancelled anywhere | state, clock, error and results agree; implements `ServiceLifecycle`; only a cancelled publication abandons an operation, and only then a transition is refused |
| RuntimeLiveness | 3 tasks, cancelled anywhere, fair | every call returns |
| PipelineOneCancellation | 3 services, 2 callers, cancelled once, anywhere | dependency order; RUNNING means all up; results are true; only a wedged service or a broken-off rollback makes a start abandon a service, only a wedged one makes a stop miss one |
| PipelineEverything | 2 services, 2 callers, cancelled twice, anywhere, fair | every service keeps to `ServiceLifecycle`; every call and every orphaned rollback ends |
| PipelineAbandon | 2 services, 1 caller | *violated*: a cancelled start abandons a running service |
| ContainerThreads | 2 writing threads, 3 names, 1 registration | one role per name; one product per singleton; no cycle; a `get()` that met no transaction and no change of aliases is true |
| ContainerTransactions | 1 writer, 1 reader, 2 names, transactions 2 deep | a failed transaction leaves no trace |
| EventBus | 1 publisher, 2 handlers, chains of 2 out of 2 middlewares, 2 subscriptions, 1 change per event, fair | delivered once unless a middleware stopped it; to all who stayed subscribed and to nobody who never was; in order; `publish()` returns |
| LogHandler | queue of 2, batch of 2, 7 records, the second coloured, fair | nothing vanishes but for seven causes; rows in order; records are taken only while a worker serves; the queue drains |
| Components | 2 services, 2 connectors, a storage interface, 1 caller, loops cancelled | reports agree with results; a start that returned means open; a stop that returned means closed |
| Requests | every class, 3 unusual attributes | `validate()` stands in for the constructor and the constructor for its lower limits, but for named gaps; dictionaries lose nothing |
| Auth | 2 requests at a time, 1 name, roles user and admin, 2 seconds, 4 rows | revoked tokens stay out; one valid token per session; only administrators manage, and `/register` only adds plain users |

Bounds. Nothing in the runtime and the pipeline counts, so the instances are finite
without a cut: tasks call again and again. Two tasks make a conflict; the third adds the
queue behind it. Three services have a middle one, with services before and behind it.
The instances with every cancellation use two, which already have an order.
The container is cut by `MaxRegs`, `MaxNest` and `MaxBuilt`: one registration moves
between three names through aliases and roles; two nested transactions have an inner
and an outer one; a second call of a factory is what `SingletonOnce` would have to see.
With one registration a chain of aliases over three names has a middle, and a writer
replaces the link a reader stands on. Two threads are a writer beside a reader; with
both writing, either waits for the other. `RLock` is obtained when free.
Two middlewares have one that waits for the other, and one of them may be in the chain twice; two subscriptions of one event tell
"all" from "some"; `MaxChanges` allows one change of a list while an event is on its way, and
`MaxOverlap` two events of one publisher with handlers running (the older one orphaned by
a cancellation). Publishers share nothing but the lists, so one is enough. A queue and a batch of two
overflow with the third record; seven records fill both, overflow and still come after a
restart. Two connectors are one before and one after a switch. Three unusual attributes
are more than any check relates. Two requests overlap; the two seconds tell an expired
token from a fresh one; four rows hold a user, a login and two refreshes. Auth with two
names and three rows, where accounts are renamed onto each other, was also run and holds.

Fairness. A task that can go on does (the event loop), and hooks end: `start`, `stop`
and `check_health` have default timeouts of 30, 10 and 5 s, handlers of the bus one of
5 s. A synchronous hook and a middleware have none and are assumed to return.
`ServiceRuntime` models the queue of the lock, so weak fairness is enough. `Pipeline`
does not, and asks for strong fairness of lock acquisition, which arrival order
gives. `EventBus` asks nothing of a handler: only its timeout ends it for sure.
`LogHandler` assumes that the loop runs the worker and a `shutdown()` that has begun, and
that statements end (`command_timeout=60`); a record put by another thread does not wake a
sleeping loop, the application's other tasks do. No liveness is claimed of the
container (an `RLock` promises no order), of the components (connectors are external) and of
the auth service (clients go away). Callers are not obliged to call, and cancellation is
never obliged to happen. `CHECK_DEADLOCK` is on everywhere.

### Disagreements of the code with its comments

`PipelineAbandon` is one that a run shows. Others were met while modelling:

* runtime: a task cancelled while it publishes INITIALIZING (`app_state.py:171`, outside the
  `try`) leaves the service there with nobody to conclude it: the next `start()` raises. One
  synchronous subscriber is enough. `OnlyPublicationAbandons` and `InvalidOnlyIfAbandoned` say that
  nothing else does, and `PipelineAbandon` shows what it does to a pipeline.
* runtime: `check_health()` publishes HEALTH_CHECK for a service stopped while its hook ran
  (`app_state.py:240`, against `:215`).
* pipeline: `stop()` with a wedged service raises before it reaches the services below
  (`pipeline.py:182`, against `:134`; the second case of `StopReachesAll`).
* pipeline: a `CancelledError` inside the shielded rollback (a `shutdown()` hook that ends with
  one of its own, `app_state.py:201`, or a cancelled task) breaks it off: the earlier services stay
  RUNNING and the pipeline STARTING, none being wedged (against `pipeline.py:122`; the third
  case of `AbandonsOnlyIfBrokenOff`).
* pipeline: a caller cancelled twice gives the lock back while its rollback goes on, so the
  next `start()` can return True with a service being stopped (`pipeline.py:123`); hence
  `ResultsAreTrue` is checked with one cancellation per call.
* container: "Простой потокобезопасный реестр" (`service_container.py:4`), but `get()` can raise
  `KeyError` for a name that is registered all along when its alias goes between `in` and
  `[]` (`:48`, `:52`), can report a cycle that never was (`:50`), and gives out what an open
  transaction may take back (`:162`, against `:260`); hence the `disturbed` in `GetIsTrue`.
* bus: "a failing or hanging handler can neither break the publisher nor other handlers"
  (`event_bus.py:8`), but one that ends with a `CancelledError` of its own cancels the
  publisher through `gather()`, and a middleware that does swallows the event
  (`HandlerCancels`, `Cancelled`).
* log handler: `ColoredFormatter` rewrites `record.levelname` in place, longer than the
  column of 10 characters, and `setup_logger` installs it first: the insert of the whole
  batch fails, and `_insert_batch` swallows the error, so the pause and retry of the worker
  never happen. `shutdown()` is called graceful (`logging.py:75`) and loses the batch its
  cancellation cuts off; it also ends with `QueueEmpty`, the collected records lost and the pool
  open, when a thread past its look at `healthy` evicts the record the flush has just seen
  (`:199`). An `initialize()` that fails after `:64` cannot be repeated without a
  `shutdown()`; one failed probe silences the handler until both.
* factory, protocols: `factories.py:16` imports four names from itself that no file defines, and
  `protocols.py` imports `HttpRequest` and `HttpResponse`, which `network/dto.py` calls
  `HTTPRequest` and `HTTPResponse`: neither module loads. `HTTPInterface` calls `send()` and
  `stream()` and `StorageInterface` `upload_stream()`, which their protocols lack (`NotOffered`).
* container: a `CancelledError` in one `shutdown()` ends `stop_all()` with the rest open
  (`service_container.py:87`), where any other error is logged and the loop goes on.
* interfaces: an end is published under the name of the worker at that moment
  (`base_interface.py:70`), after `switch_worker()` not the one that worked; a cancelled
  stream is reported completed, a cancelled call not at all.
* data transfer objects: `broker/dto.py` is written for pydantic 1 (`regex=`, `validator`), the
  others for pydantic 2; six models accept a blank where the constructor does not
  (`AcceptsBlank`); `ChatRequest` accepts penalties below -2, which its model rejects
  (`llm/dto.py:53`, `Unlimited`); models strip paths, but connectors get the dataclass, which is not stripped.
* auth: two overlapping refreshes of one token both succeed (`raced`); two token pairs of one
  user and one second are the same strings with two rows; a refresh that fails after the
  revocation ends the session; `register` keeps the user when saving the token fails. The
  gateway takes a refresh token for a bearer, and `/register`, which it lists under "Admin-only user
  management" (`middleware/auth.go:35`), adds an account on the word of a token whose owner may be no
  administrator any more, as the service does not guard it (`router.go:26`).

Faults. A definition under a comment that begins with "Fault:" is not the code: it is
a plausible bug in the definition that follows, and the run of the property it is
paired with in `PROJECT.json` fails when it takes that definition's place.

## 5. Proofs

`ServiceRuntimeProofs` proves for any set of tasks and any `CancelPoints`: type
correctness, mutual exclusion of `start()` and `stop()`, that lock-free health checks
do not disturb them, the uptime clock, the reasons of the state, the truth of the
results, that `check_health()` does not raise, and the refinement of
`ServiceLifecycle`. It also proves that INITIALIZING and STOPPING lose the task that will
leave them only to a cancellation in a publication (`PublicationAbandons`), and that a transition
is refused only after that (`RefusedIfAbandoned`): `Working`, that there is such a task, is
kept by every other step.

The inductive invariant `IInv` has three parts. Types. `LockExcludes`: a task is in
the section exactly when it holds the lock. `Phase(t)`: what the task in the section
knows of the state. Neither of the last two is inductive alone: a step of another task
keeps `Phase(t)` because only the holder and health verdicts change the state, and a
verdict stays within RUNNING and DEGRADED; and the lock is given back properly
because `Phase` knows which method each point belongs to. Every action is a step of
one task (`StepOfOne`), so a proof of an action shows what it does to its own task and
that it changes the state of no other section. The clock and the errors follow from
`ServiceSteps`: a step leaves the service alone or takes it through one legal
transition; `Clock` adds the marks of the states in which the clock does not run. The
refinement needs the invariant before and after each step, because `busy` is read off
the lock and the point of its holder.

`PipelineProofs` proves for any number of services, any callers and any `CancelPoints`
that one caller is inside the pipeline and one driver inside each runtime
(`MutualExclusion`), and that each service lives the life `ServiceLifecycle` promises
(`ServicesRefine`), orphaned rollbacks included. `FramesFit` says which runtime call goes
with which point of a method, `Locked` adds who holds which lock, and the refinement needs
`Opened` besides: a service with an operation open is in that operation's state. Dependency order, the
truth of RUNNING and of the results, and what a failing start and a stop reach assume
`"shield" \notin CancelPoints`: no caller is cancelled while it awaits its rollback. That is
needed, for otherwise the rollback works on beside the next call (section 4), and the run
that checks these properties has it too. Their invariant is `Truthful`: `Locked`, the states
of the pipeline (`StatesTrue`) and, for each point, what the caller at it knows (`Known`). A
start at service *i* knows that those before it are up and those behind it are not; a stop or a
rollback at *i* that those behind it are down; so a step on *i* moves the border by one.
A transition that is refused needs the second case of `RollbackReaches`: some service is
wedged, and the rollback ends there. A `CancelledError` in the shielded rollback needs the third:
the frame of the job is `lost`, and nothing is known any more of the services before it.

`ContainerProofs` proves for any threads, names and bounds: type correctness, that
aliases never form a cycle (`NeverACycle`) and that a name has one role whenever the
lock is free (`EachNameOneRole`). Acyclicity is stated without recursion or counting
(`Acyclic`): every non-empty set of names has a member whose alias, if any, lies outside
the set. Removing links keeps that, and so does adding one whose target does not reach
its source. The invariant `ContainerInv` says: whoever writes holds the
lock; everything a rollback may restore (each snapshot) is itself sound; the present
dictionaries are acyclic at every step, and their roles are right except between the
two halves of a rollback; and for each point of a registration, a rollback and a
factory call, what is known there of the dictionaries. The last is what makes it
inductive: the insertion of an alias relies on a check made two steps earlier
(`Registers`), which holds because only the owner of the lock writes in between.

Three more invariants rest on `ContainerInv`. `Tied` relates the dictionaries, while they are
locked, to what was published last: an open transaction holds a copy of it at the bottom
of its stack, so the outermost rollback puts exactly that back (`RollbackRestores`).
`Once` counts for each registration: nothing built yet, or one product which the
instances, a copy or the caller still have, or a rollback has forgotten it; a
registration gets a number nobody used before (`FactoryRunsOnce`). `Told` follows a `get()` that
looks without the lock: as long as nothing disturbed it, the name it has come to and the
name it was asked for stand for the same thing, for at least one of the moments in `meant`.
For `GetTellsTheTruth` the walk along the aliases must be shown to end where
`Resolve` does; `Reach` is a least set closed under one link, so two ends of a chain are one
(`OneEnd`) without any induction.

`EventBusProofs` proves for any publishers, handlers and middlewares, and without
using any bound, that a `publish()` that returned has run `_deliver` exactly once, or a
middleware kept the event (`DeliveryOnce`). The invariant `Good` of one publication says
it by direction: on the way down the chain `_deliver` has not run, while the handlers
are awaited it has run once, on the way up it has run or the event is excused. The step
to watch is fail-open, which turns a failure on the way down into one more step down and
a failure on the way up into a return; the lists that change meanwhile do not touch any
of it (`ListsChange`). `BusFlow` adds what a publication knows of the subscriptions (those
that stayed are still there, those that ever were include the present ones) and of the
handlers' calls (none runs for it unless it awaits them); from it follow
`DeliversToSubscribers` and `EventsInOrder`. `TypeCorrect` includes that the index of a
publication stays within its copy of the chain (`Within`).

`LogHandlerProofs` proves for every queue and batch size that records are accepted only
while a worker serves (`HealthyIsServed`): `ServedInv` adds that `initialize()`, when it makes the
handler healthy, still has the pool it made two steps before, and a probe that answers late
may only take the health away. For `NothingIsLost` and `OrderIsKept` the invariant
`Orderly` says that every record logged is somewhere on its way or given up, and none is both
(`Accounts`), and that the places, read from
the table over the batch, the list a shutdown flushes and the queue back to the logging
thread's hand, follow each other in the order of logging (`InLine`). Types come with it, as a step that takes from a list must know that it is not empty.

`ComponentsProofs` proves for any connectors, interfaces, names, callers and lengths of
streams that reports and results agree (`ReportsTellTheTruth`) and what start and stop
loops leave (`StartedIsOpen`, `StoppedIsClosed`). In `Orderly` the loops are described by what is
still owed: everything within reach is open (or closed), or its turn in the copy is still to come, or it
has come in since the copy was taken (`fresh`), or its own shutdown raised (`spoiled`). The
invariant also says that the instances are a dictionary (`Unique`).

`AuthProofs` proves for any clients, names, life times and bounds that accounts are changed
for administrators only, but for plain users added by `/register` (`AdminsManage`), that a session has one valid token
(`OneTokenPerSession`) and that a revoked one is out (`RevokedIsOut`). `Tables` says that ids and row numbers are
unique and that a row's user exists. `RolesSeen` lets `roles` include the user's present role while a request is
under way. `OneHand` says that at most one request is at work on a session that is not raced, and that
a valid row and a request that will insert the next one exclude each other, and `LateKnown` that a request with a token revoked
before it came gets past its look only if the token was issued twice or its user is gone.

`RequestsProofs` proves the three properties of the data transfer objects however many
attributes are unusual (`MaxOdd`), where the run has three. What the constructor and the
model of a class must agree on but for the penalties of a chat request and the named blanks,
`Fits`, is shown attribute by attribute for all 31 classes; the
state machine adds that an object between its calls is one its constructor let pass
(`Objects`), and that a dictionary brings back what it needs.

TLC alone checks liveness (`CallsReturn`, `PublishReturns`, `Drains`), which the prover
does not reach. `TypeOK` is stated in every module with variables of its own but `Interfaces`;
only RuntimeSafety runs it, as the others are proved. Each invariant was first checked by TLC
on the instances of section 4.

## 6. Not modelled

* Of the bus, the global instance (`get_event_bus`, `reset_event_bus`), logging, and what
  handlers do: a subscriber that calls back into the runtime that publishes is a handler
  that hangs until its timeout (`PublishReturns`). The runtime and the pipeline see a
  publication as a suspension point in which they may be cancelled.
* Of the container, `has()` and the listing calls, which read under the lock; the calls a
  factory makes.
* The registries of classes, filled at import and then only read.
* Data transfer objects that have no checks or no model to compare with.
* Of the auth service, requests that only read, passwords and the form of the input; of
  the gateway, proxying.
* Readings of the clock in the runtime (its marks are kept).
* Configuration, entry points and the Cython worker manager are I/O; the file service is
  not written.
