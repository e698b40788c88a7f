------------------------------ MODULE Container ------------------------------
(***************************************************************************)
(* The dependency container of core/di/service_container.py, shared by     *)
(* threads.  Writers hold the re-entrant lock for a whole operation, or    *)
(* for a whole transaction; but get() first looks without the lock, so it  *)
(* sees every single dictionary update that a writer makes.  One action is *)
(* one such update, or one look.  Only `_instances' and `_aliases' are     *)
(* read without the lock: updates of the other two are joined to the       *)
(* update next to them.                                                    *)
(*                                                                         *)
(* Each registration of an instance or of a factory has a number, and an   *)
(* object is known by the registration it came from.                       *)
(***************************************************************************)
EXTENDS Naturals, FiniteSets

CONSTANTS
    Threads,
    Writers,    \* the threads that also register, remove, and open transactions
    Names,
    None,
    MaxRegs,    \* bound: registrations of an instance or a factory
    MaxNest,    \* bound: transactions inside one another
    MaxBuilt    \* bound: calls of one singleton factory

ASSUME ContainerAssumption ==
    /\ None \notin Names /\ None \notin Threads
    /\ Writers \subseteq Threads
    /\ MaxRegs \in Nat /\ MaxNest \in Nat /\ MaxBuilt \in Nat
    /\ None \notin Nat

VARIABLES
    store,      \* the four dictionaries
    owner,      \* the thread that holds the lock
    depth,      \* transactions its owner has open
    snapshot,   \* what each of them will restore
    pc,         \* where each thread is
    job,        \* the call it is in
    walk,       \* the local variables of its _resolve()
    restore,    \* what the owner is putting back
    sweep,      \* the local variables of remove()
    result,     \* what its get() answers
    regs,       \* registrations made so far
    built,      \* calls of each singleton factory
    \* what an observer remembers; no action reads it
    forgotten,  \* instances of each singleton that a rollback dropped
    published,  \* the dictionaries when the lock was last free
    meant,      \* what the name of a get() has stood for during the call
    disturbed   \* the call met a transaction, or a change of aliases

code == <<store, owner, depth, snapshot, pc, job, walk, restore, sweep, result, regs, built>>
vars == <<code, forgotten, published, meant, disturbed>>

Regs == 1..MaxRegs
Writing == {"unbind", "unalias", "put", "sweep", "drain", "refill", "drainAliases", "refillAliases", "build"}
Getting == {"seek", "hop", "fetch", "wait", "build", "make", "done"}
Points == Writing \cup Getting \cup {"idle"}
Registering == {"instance", "singleton", "transient"}
Operations == Registering \cup {"alias", "remove", "clear", "rollback", "get", "none"}

Contents == [instances : [Names -> Regs \cup {None}],
             factories : [Names -> Regs \cup {None}],
             transient : SUBSET Names,
             aliases   : [Names -> Names \cup {None}]]

Empty == [instances |-> [n \in Names |-> None],
          factories |-> [n \in Names |-> None],
          transient |-> {},
          aliases   |-> [n \in Names |-> None]]

TypeOK ==
    /\ store \in Contents
    /\ owner \in Threads \cup {None}
    /\ depth \in 0..MaxNest
    /\ snapshot \in [1..MaxNest -> Contents]
    /\ pc \in [Threads -> Points]
    /\ job \in [Threads -> [op : Operations, name : Names \cup {None},
                            target : Names \cup {None}, reg : 0..MaxRegs]]
    /\ walk \in [Threads -> [at : Names \cup {None}, seen : SUBSET Names]]
    /\ restore \in Contents
    /\ sweep \in [dead : SUBSET Names, dangling : SUBSET Names]
    /\ result \in [Threads -> [kind : {"none", "object", "missing", "cycle", "raised"},
                               reg : 0..MaxRegs]]
    /\ regs \in 0..MaxRegs
    /\ built \in [Regs -> 0..MaxBuilt]

-----------------------------------------------------------------------------
(* Aliases *)

\* Following aliases never leaves such a set.
Closed(S, aliases) == \A n \in S : aliases[n] \in S \cup {None}

\* The names met when aliases are followed from n.
Reach(n, aliases) ==
    {m \in Names : \A S \in SUBSET Names : n \in S /\ Closed(S, aliases) => m \in S}

\* _resolve() with the lock held.
Resolve(n, aliases) == CHOOSE m \in Reach(n, aliases) : aliases[m] = None

\* Fault: only a chain of length one is looked at.
MayAliasUnlessSame(alias, target, aliases) == alias # target

\* The loop of register_alias: the chain from the target never comes to the alias.
MayAlias(alias, target, aliases) == alias \notin Reach(target, aliases)

\* No set of names runs in circles.
Acyclic(aliases) ==
    \A S \in SUBSET Names : S # {} => \E n \in S : aliases[n] \notin S

-----------------------------------------------------------------------------
(* The lock and the calls *)

CanLock(t) == owner = None \/ owner = t

\* The end of `with self._lock': the outermost block frees it.
Leave(t) == owner' = IF depth = 0 THEN None ELSE t

Goto(t, point) == pc' = [pc EXCEPT ![t] = point]

Call(t, op, name, target, reg) ==
    job' = [job EXCEPT ![t] = [op |-> op, name |-> name, target |-> target, reg |-> reg]]

Idle(t) == pc[t] = "idle"

NoJob == [op |-> "none", name |-> None, target |-> None, reg |-> 0]
NoWalk == [at |-> None, seen |-> {}]
NoSweep == [dead |-> {}, dangling |-> {}]

\* The call is over, and its local variables with it.
End(t) == Goto(t, "idle") /\ job' = [job EXCEPT ![t] = NoJob]

\* register_instance and register_factory
Register(t) ==
    /\ Idle(t) /\ CanLock(t)
    /\ regs < MaxRegs
    /\ \E n \in Names, op \in Registering : Call(t, op, n, n, regs + 1)
    /\ regs' = regs + 1
    /\ owner' = t
    /\ Goto(t, "unbind")
    /\ UNCHANGED <<store, depth, snapshot, walk, restore, sweep, result, built>>

\* A chain from the target that comes to the alias is refused with ValueError,
\* before anything changes.
RegisterAlias(t) ==
    /\ Idle(t) /\ CanLock(t)
    /\ \E alias, target \in Names :
          /\ MayAlias(alias, target, store.aliases)
          /\ Call(t, "alias", alias, target, 0)
    /\ owner' = t
    /\ Goto(t, "unbind")
    /\ UNCHANGED <<store, depth, snapshot, walk, restore, sweep, result, regs, built>>

\* Fault: a name keeps its factory.
UnboundKeepingFactory(c, n) == [c EXCEPT !.instances[n] = None, !.transient = @ \ {n}]

Unbound(c, n) == [c EXCEPT !.instances[n] = None,
                           !.factories[n] = None,
                           !.transient = @ \ {n}]

\* _unregister, up to the dictionary of aliases
Unbind(t) ==
    /\ pc[t] = "unbind"
    /\ store' = Unbound(store, job[t].name)
    /\ Goto(t, "unalias")
    /\ UNCHANGED <<owner, depth, snapshot, job, walk, restore, sweep, result, regs, built>>

\* the rest of _unregister
Unalias(t) ==
    /\ pc[t] = "unalias"
    /\ store' = [store EXCEPT !.aliases[job[t].name] = None]
    /\ Goto(t, IF job[t].op = "remove" THEN "sweep" ELSE "put")
    /\ UNCHANGED <<owner, depth, snapshot, job, walk, restore, sweep, result, regs, built>>

\* The container once the new registration is in it.
With(c, j) ==
    CASE j.op = "instance"  -> [c EXCEPT !.instances[j.name] = j.reg]
      [] j.op = "singleton" -> [c EXCEPT !.factories[j.name] = j.reg]
      [] j.op = "transient" -> [c EXCEPT !.factories[j.name] = j.reg,
                                         !.transient = @ \cup {j.name}]
      [] j.op = "alias"     -> [c EXCEPT !.aliases[j.name] = j.target]

Put(t) ==
    /\ pc[t] = "put"
    /\ store' = With(store, job[t])
    /\ Leave(t)
    /\ End(t)
    /\ UNCHANGED <<depth, snapshot, walk, restore, sweep, result, regs, built>>

-----------------------------------------------------------------------------
(* remove() and clear() *)

RemoveAlias(t) ==
    /\ Idle(t) /\ CanLock(t)
    /\ \E n \in Names :
          /\ store.aliases[n] # None
          /\ store' = [store EXCEPT !.aliases[n] = None]
    /\ UNCHANGED <<owner, depth, snapshot, pc, job, walk, restore, sweep, result, regs, built>>

Remove(t) ==
    /\ Idle(t) /\ CanLock(t)
    /\ \E n \in Names :
          /\ store.aliases[n] = None
          /\ Call(t, "remove", n, n, 0)
          /\ sweep' = [dead |-> {n}, dangling |-> {}]
    /\ owner' = t
    /\ Goto(t, "unbind")
    /\ UNCHANGED <<store, depth, snapshot, walk, restore, result, regs, built>>

Dangling == {a \in Names : store.aliases[a] \in sweep.dead}

\* One more round over the aliases of what is gone.
SweepRound(t) ==
    /\ pc[t] = "sweep" /\ sweep.dangling = {}
    /\ \/ /\ Dangling # {}
          /\ sweep' = [sweep EXCEPT !.dangling = Dangling]
          /\ UNCHANGED <<owner, pc, job>>
       \/ /\ Dangling = {}
          /\ sweep' = NoSweep
          /\ Leave(t)
          /\ End(t)
    /\ UNCHANGED <<store, depth, snapshot, walk, restore, result, regs, built>>

SweepOne(t) ==
    /\ pc[t] = "sweep"
    /\ \E a \in sweep.dangling :
          /\ store' = [store EXCEPT !.aliases[a] = None]
          /\ sweep' = [dead |-> sweep.dead \cup {a}, dangling |-> sweep.dangling \ {a}]
    /\ UNCHANGED <<owner, depth, snapshot, pc, job, walk, restore, result, regs, built>>

\* clear() empties the dictionaries as a rollback does, and fills in nothing.
Clear(t) ==
    /\ Idle(t) /\ CanLock(t)
    /\ Call(t, "clear", None, None, 0)
    /\ restore' = Empty
    /\ owner' = t
    /\ Goto(t, "drain")
    /\ UNCHANGED <<store, depth, snapshot, walk, sweep, result, regs, built>>

-----------------------------------------------------------------------------
(* transaction() *)

Begin(t) ==
    /\ Idle(t) /\ CanLock(t)
    /\ depth < MaxNest
    /\ owner' = t
    /\ depth' = depth + 1
    /\ snapshot' = [snapshot EXCEPT ![depth + 1] = store]
    /\ UNCHANGED <<store, pc, job, walk, restore, sweep, result, regs, built>>

Commit(t) ==
    /\ Idle(t) /\ owner = t /\ depth > 0
    /\ depth' = depth - 1
    /\ snapshot' = [snapshot EXCEPT ![depth] = Empty]
    /\ owner' = IF depth' = 0 THEN None ELSE t
    /\ UNCHANGED <<store, pc, job, walk, restore, sweep, result, regs, built>>

\* The block raised: what it found is put back, dictionary by dictionary.
Rollback(t) ==
    /\ Idle(t) /\ owner = t /\ depth > 0
    /\ restore' = snapshot[depth]
    /\ snapshot' = [snapshot EXCEPT ![depth] = Empty]
    /\ Call(t, "rollback", None, None, 0)
    /\ Goto(t, "drain")
    /\ UNCHANGED <<store, owner, depth, walk, sweep, result, regs, built>>

Drain(t) ==
    /\ pc[t] = "drain"
    /\ store' = [store EXCEPT !.instances = Empty.instances]
    /\ Goto(t, "refill")
    /\ UNCHANGED <<owner, depth, snapshot, job, walk, restore, sweep, result, regs, built>>

\* Fault: the set of transient names is not restored.
RefilledWithoutTransient(c, saved) ==
    [c EXCEPT !.instances = saved.instances, !.factories = saved.factories]

Refilled(c, saved) == [c EXCEPT !.instances = saved.instances,
                                !.factories = saved.factories,
                                !.transient = saved.transient]

Refill(t) ==
    /\ pc[t] = "refill"
    /\ store' = Refilled(store, restore)
    /\ Goto(t, "drainAliases")
    /\ UNCHANGED <<owner, depth, snapshot, job, walk, restore, sweep, result, regs, built>>

DrainAliases(t) ==
    /\ pc[t] = "drainAliases"
    /\ store' = [store EXCEPT !.aliases = Empty.aliases]
    /\ Goto(t, "refillAliases")
    /\ UNCHANGED <<owner, depth, snapshot, job, walk, restore, sweep, result, regs, built>>

\* Transactions still open once everything is filled in: a rollback ends its own.
DepthAfter(t) == IF job[t].op = "rollback" THEN depth - 1 ELSE depth

\* The last dictionary.
RefillAliases(t) ==
    /\ pc[t] = "refillAliases"
    /\ store' = [store EXCEPT !.aliases = restore.aliases]
    /\ depth' = DepthAfter(t)
    /\ owner' = IF depth' = 0 THEN None ELSE t
    /\ restore' = Empty
    /\ End(t)
    /\ UNCHANGED <<snapshot, walk, sweep, result, regs, built>>

-----------------------------------------------------------------------------
(* get() *)

Answer(t, kind, reg) ==
    /\ result' = [result EXCEPT ![t] = [kind |-> kind, reg |-> reg]]
    /\ Goto(t, "done")

Get(t) ==
    /\ Idle(t)
    /\ \E n \in Names :
          /\ Call(t, "get", n, n, 0)
          /\ walk' = [walk EXCEPT ![t] = [at |-> n, seen |-> {}]]
    /\ Goto(t, "seek")
    /\ UNCHANGED <<store, owner, depth, snapshot, restore, sweep, result, regs, built>>

\* `while name in self._aliases', without the lock
Seek(t) ==
    /\ pc[t] = "seek"
    /\ LET at == walk[t].at IN
       \/ /\ store.aliases[at] = None
          /\ Goto(t, "fetch")
          /\ UNCHANGED <<walk, result>>
       \/ /\ store.aliases[at] # None /\ at \in walk[t].seen
          /\ Answer(t, "cycle", 0)
          /\ UNCHANGED walk
       \/ /\ store.aliases[at] # None /\ at \notin walk[t].seen
          /\ walk' = [walk EXCEPT ![t].seen = @ \cup {at}]
          /\ Goto(t, "hop")
          /\ UNCHANGED result
    /\ UNCHANGED <<store, owner, depth, snapshot, job, restore, sweep, regs, built>>

\* `name = self._aliases[name]': KeyError if the alias is gone by now
Hop(t) ==
    /\ pc[t] = "hop"
    /\ LET next == store.aliases[walk[t].at] IN
       \/ /\ next = None
          /\ Answer(t, "missing", 0)
          /\ UNCHANGED walk
       \/ /\ next # None
          /\ walk' = [walk EXCEPT ![t].at = next]
          /\ Goto(t, "seek")
          /\ UNCHANGED result
    /\ UNCHANGED <<store, owner, depth, snapshot, job, restore, sweep, regs, built>>

\* Fault: what the look without the lock does not find is reported missing.
MissedForGood(t) == Answer(t, "missing", 0)

Missed(t) == Goto(t, "wait") /\ UNCHANGED result

Fetch(t) ==
    /\ pc[t] = "fetch"
    /\ LET found == store.instances[walk[t].at] IN
       \/ found # None /\ Answer(t, "object", found)
       \/ found = None /\ Missed(t)
    /\ UNCHANGED <<store, owner, depth, snapshot, job, walk, restore, sweep, regs, built>>

\* Fault: with the lock held nothing looks again.
FoundUnderLockNever(n) == None

FoundUnderLock(n) == store.instances[n]

\* The second look, with the lock.  A singleton is built while it is held, a
\* transient after it is released.
LookUp(t) ==
    /\ pc[t] = "wait" /\ CanLock(t)
    /\ LET actual == Resolve(job[t].name, store.aliases)
           found == FoundUnderLock(actual)
           factory == store.factories[actual] IN
       /\ walk' = [walk EXCEPT ![t].at = actual]
       /\ \/ /\ found # None
             /\ Answer(t, "object", found)
             /\ UNCHANGED <<owner, job>>
          \/ /\ found = None /\ factory = None
             /\ Answer(t, "missing", 0)
             /\ UNCHANGED <<owner, job>>
          \/ /\ found = None /\ factory # None
             /\ job' = [job EXCEPT ![t].reg = factory]
             /\ IF actual \in store.transient
                THEN Goto(t, "make") /\ UNCHANGED owner
                ELSE Goto(t, "build") /\ owner' = t
             /\ UNCHANGED result
    /\ UNCHANGED <<store, depth, snapshot, restore, sweep, regs, built>>

\* The factory of a singleton returns, and its product is kept, or it raises.
Build(t) ==
    /\ pc[t] = "build"
    /\ LET r == job[t].reg IN
       \/ /\ built[r] < MaxBuilt
          /\ built' = [built EXCEPT ![r] = @ + 1]
          /\ store' = [store EXCEPT !.instances[walk[t].at] = r]
          /\ Answer(t, "object", r)
       \/ /\ Answer(t, "raised", 0)
          /\ UNCHANGED <<store, built>>
    /\ Leave(t)
    /\ UNCHANGED <<depth, snapshot, job, walk, restore, sweep, regs>>

\* The factory of a transient returns or raises; no lock is held.
Make(t) ==
    /\ pc[t] = "make"
    /\ Answer(t, "object", job[t].reg) \/ Answer(t, "raised", 0)
    /\ UNCHANGED <<store, owner, depth, snapshot, job, walk, restore, sweep, regs, built>>

NoResult == [kind |-> "none", reg |-> 0]

Return(t) ==
    /\ pc[t] = "done"
    /\ End(t)
    /\ walk' = [walk EXCEPT ![t] = NoWalk]
    /\ result' = [result EXCEPT ![t] = NoResult]
    /\ UNCHANGED <<store, owner, depth, snapshot, restore, sweep, regs, built>>

-----------------------------------------------------------------------------
(* Specification *)

Init ==
    /\ store = Empty
    /\ owner = None /\ depth = 0
    /\ snapshot = [i \in 1..MaxNest |-> Empty]
    /\ pc = [t \in Threads |-> "idle"]
    /\ job = [t \in Threads |-> NoJob]
    /\ walk = [t \in Threads |-> NoWalk]
    /\ restore = Empty
    /\ sweep = NoSweep
    /\ result = [t \in Threads |-> NoResult]
    /\ regs = 0
    /\ built = [r \in Regs |-> 0]
    /\ forgotten = [r \in Regs |-> 0]
    /\ published = Empty
    /\ meant = [t \in Threads |-> {}]
    /\ disturbed = [t \in Threads |-> FALSE]

Write(t) ==
    \/ Register(t) \/ RegisterAlias(t) \/ Unbind(t) \/ Unalias(t) \/ Put(t)
    \/ RemoveAlias(t) \/ Remove(t) \/ SweepRound(t) \/ SweepOne(t) \/ Clear(t)
    \/ Begin(t) \/ Commit(t) \/ Rollback(t)
    \/ Drain(t) \/ Refill(t) \/ DrainAliases(t) \/ RefillAliases(t)

Read(t) ==
    \/ Get(t) \/ Seek(t) \/ Hop(t) \/ Fetch(t) \/ LookUp(t) \/ Build(t) \/ Make(t) \/ Return(t)

\* The registration a name stands for.
Meaning(c, n) ==
    LET m == Resolve(n, c.aliases) IN
    IF c.instances[m] # None THEN c.instances[m] ELSE c.factories[m]

\* What thread t may take for the contents: its own work, and what others have
\* let go of the lock with.
Visible(t) == IF owner = t THEN store ELSE published

Asking(t) == pc[t] \in Getting

\* The observer's variables follow every step.
Observe ==
    /\ published' = IF owner' = None THEN store' ELSE published
    /\ meant' = [t \in Threads |->
          IF Asking(t)' THEN meant[t] \cup {Meaning(Visible(t)', job'[t].name)} ELSE {}]
    /\ disturbed' = [t \in Threads |->
          /\ Asking(t)'
          /\ \/ disturbed[t]
             \/ owner' \notin {t, None} /\ depth' > 0
             \/ store'.aliases # store.aliases]
    /\ forgotten' = [r \in Regs |->
          IF /\ \E t \in Threads : pc[t] = "idle" /\ pc'[t] = "drain" /\ job'[t].op = "rollback"
             /\ \E n \in Names : restore'.factories[n] = r /\ restore'.instances[n] = None
          THEN built[r] ELSE forgotten[r]]

Next ==
    /\ (\E t \in Writers : Write(t)) \/ (\E t \in Threads : Read(t))
    /\ Observe

Spec == Init /\ [][Next]_vars

-----------------------------------------------------------------------------
(* Properties *)

\* register_alias, remove, clear and every rollback leave the aliases without a
\* cycle, also while they are half way: _resolve() with the lock ends.
AliasesAcyclic == Acyclic(store.aliases)

Roles(c) ==
    \A n \in Names :
        /\ c.aliases[n] # None => c.instances[n] = None /\ c.factories[n] = None
        /\ n \in c.transient => c.instances[n] = None /\ c.factories[n] # None
        /\ c.instances[n] # None => c.factories[n] \in {None, c.instances[n]}

\* When the lock is free a name has one role: an alias has no registration of
\* its own, a transient has a factory and no instance, an instance that stands
\* beside a factory came from that factory.
OneRole == owner = None => Roles(store)

\* However the get() calls of threads race for it, a singleton's factory makes
\* one product, until a failed transaction makes the container forget it.
SingletonOnce == \A r \in Regs : built[r] <= forgotten[r] + 1

\* A get() that met no open transaction of another thread and no change of
\* aliases gives what the name stood for at some moment of the call, reports
\* missing only what was missing at one, and sees no cycle, although it looks
\* without the lock in the middle of registrations, removals and clear().
GetIsTrue ==
    \A t \in Threads :
        pc[t] = "done" /\ ~disturbed[t] =>
            /\ result[t].kind = "object" => result[t].reg \in meant[t]
            /\ result[t].kind = "missing" => None \in meant[t]
            /\ result[t].kind # "cycle"

\* A failed transaction, with the transactions and the singletons inside it,
\* ends in what the container was before.
FailureLeavesNoTrace ==
    [][\A t \in Threads :
          job[t].op = "rollback" /\ owner = t /\ owner' = None => store' = published]_vars

-----------------------------------------------------------------------------
(* The inductive invariant of ContainerProofs *)

Sound(c) == Acyclic(c.aliases) /\ Roles(c)

\* Who writes holds the lock.
WriterHolds == \A t \in Threads : pc[t] \in Writing => owner = t

\* Whatever may be put back is sound.
SavedSound == (\A i \in 1..MaxNest : Sound(snapshot[i])) /\ Sound(restore)

\* Roles are broken only between the two halves of a rollback.
StoreSound ==
    /\ Acyclic(store.aliases)
    /\ (\A t \in Threads : pc[t] # "drainAliases") => Roles(store)

\* A registration: its name, once it is cleared, stays clear; an alias that was
\* checked does not become reachable from its target.
Registers(t) ==
    /\ pc[t] \in {"unbind", "unalias", "put"} =>
          /\ job[t].name \in Names
          /\ job[t].op \in Registering \cup {"alias", "remove"}
          /\ job[t].op \in Registering => job[t].reg \in Regs
          /\ job[t].op = "alias" =>
                job[t].target \in Names /\ MayAlias(job[t].name, job[t].target, store.aliases)
    /\ pc[t] \in {"unalias", "put"} =>
          /\ store.instances[job[t].name] = None
          /\ store.factories[job[t].name] = None
          /\ job[t].name \notin store.transient
    /\ pc[t] = "put" =>
          /\ job[t].op # "remove"
          /\ store.aliases[job[t].name] = None

\* A rollback or clear(): how far the store agrees with what is restored.
Restores(t) ==
    /\ pc[t] \in {"drain", "refill", "drainAliases", "refillAliases"} /\ job[t].op = "rollback" =>
          depth > 0
    /\ pc[t] = "refill" => store.instances = Empty.instances
    /\ pc[t] \in {"drainAliases", "refillAliases"} =>
          /\ store.instances = restore.instances
          /\ store.factories = restore.factories
          /\ store.transient = restore.transient
    /\ pc[t] = "refillAliases" => store.aliases = Empty.aliases

\* A get(): what it looks at, and what it builds.
Gets(t) ==
    /\ pc[t] \in {"seek", "hop", "fetch", "wait", "build", "make"} =>
          job[t].name \in Names /\ walk[t].at \in Names
    /\ pc[t] \in {"build", "make"} => job[t].reg \in Regs
    /\ pc[t] = "build" =>
          /\ store.aliases[walk[t].at] = None
          /\ store.instances[walk[t].at] = None
          /\ store.factories[walk[t].at] = job[t].reg
          /\ walk[t].at \notin store.transient

ContainerInv ==
    /\ TypeOK /\ WriterHolds /\ SavedSound /\ StoreSound
    /\ \A t \in Threads : Registers(t) /\ Restores(t) /\ Gets(t)
=============================================================================
