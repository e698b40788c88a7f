--------------------------- MODULE ContainerProofs ---------------------------
(***************************************************************************)
(* What holds of the container whatever the threads, the names, the number *)
(* of registrations and the nesting of transactions.                       *)
(*                                                                         *)
(* ContainerInv: who writes holds the lock, what a rollback will put back  *)
(* is sound, and each call that is half way knows what it has cleared,     *)
(* checked or restored so far.  From it come the types, aliases without a  *)
(* cycle, and one role for each name.                                      *)
(*                                                                         *)
(* Three more invariants rest on it.  Tied relates the store, while it is  *)
(* locked, to what was published last: an exact rollback.  Once counts the *)
(* products of each factory: one product.  Told follows a get() that looks *)
(* without the lock: a true answer.                                        *)
(***************************************************************************)
EXTENDS Container, TLAPS

AliasMap == [Names -> Names \cup {None}]

-----------------------------------------------------------------------------
(* Aliases *)

\* An empty container is sound.
LEMMA EmptySound == Sound(Empty) /\ Empty \in Contents
<1>1. Empty \in Contents
  BY DEF Empty, Contents
<1>2. Acyclic(Empty.aliases)
  BY ContainerAssumption DEF Acyclic, Empty
<1>3. Roles(Empty)
  BY DEF Roles, Empty
<1> QED BY <1>1, <1>2, <1>3 DEF Sound

\* Dropping an alias makes no cycle.
LEMMA DropKeepsAcyclic ==
    ASSUME NEW al \in AliasMap, Acyclic(al), NEW n \in Names
    PROVE  Acyclic([al EXCEPT ![n] = None])
<1> DEFINE al2 == [al EXCEPT ![n] = None]
<1> SUFFICES ASSUME NEW S \in SUBSET Names, S # {}
             PROVE  \E m \in S : al2[m] \notin S
  BY DEF Acyclic
<1>1. PICK m \in S : al[m] \notin S
  BY DEF Acyclic
<1>2. al2[m] \notin S
  BY <1>1, ContainerAssumption DEF AliasMap
<1> QED BY <1>2

\* An alias whose target does not lead to it makes no cycle.
LEMMA AddKeepsAcyclic ==
    ASSUME NEW al \in AliasMap, Acyclic(al), NEW a \in Names, NEW b \in Names,
           MayAlias(a, b, al), al[a] = None
    PROVE  Acyclic([al EXCEPT ![a] = b])
<1> DEFINE al2 == [al EXCEPT ![a] = b]
<1>1. PICK R \in SUBSET Names : b \in R /\ Closed(R, al) /\ a \notin R
  BY DEF MayAlias, Reach
<1> SUFFICES ASSUME NEW S \in SUBSET Names, S # {}, \A m \in S : al2[m] \in S
             PROVE  FALSE
  BY DEF Acyclic
<1>2. CASE a \notin S
  <2>1. \A m \in S : al[m] \in S
    BY <1>2 DEF AliasMap
  <2> QED BY <2>1 DEF Acyclic
<1>3. CASE a \in S
  <2>1. b \in S
    BY <1>3 DEF AliasMap
  <2>2. S \cap R # {} /\ S \cap R \in SUBSET Names
    BY <2>1, <1>1
  <2>3. PICK m \in S \cap R : al[m] \notin S \cap R
    BY <2>2 DEF Acyclic
  <2>4. al2[m] = al[m] /\ al[m] \in S
    BY <2>3, <1>1 DEF AliasMap
  <2>5. al[m] \in R
    BY <2>3, <2>4, <1>1, ContainerAssumption DEF Closed
  <2> QED BY <2>3, <2>4, <2>5
<1> QED BY <1>2, <1>3

\* Dropping an alias brings no name within reach.
LEMMA DropKeepsMayAlias ==
    ASSUME NEW al \in AliasMap, NEW a \in Names, NEW b \in Names, MayAlias(a, b, al),
           NEW n \in Names
    PROVE  MayAlias(a, b, [al EXCEPT ![n] = None])
<1>1. PICK R \in SUBSET Names : b \in R /\ Closed(R, al) /\ a \notin R
  BY DEF MayAlias, Reach
<1>2. Closed(R, [al EXCEPT ![n] = None])
  BY <1>1 DEF Closed, AliasMap
<1> QED BY <1>1, <1>2 DEF MayAlias, Reach

\* What is within reach is closed, and is the least that is.
LEMMA ReachCloses ==
    ASSUME NEW al \in AliasMap, NEW n \in Names
    PROVE  /\ n \in Reach(n, al) /\ Reach(n, al) \in SUBSET Names /\ Closed(Reach(n, al), al)
           /\ \A S \in SUBSET Names : n \in S /\ Closed(S, al) => Reach(n, al) \subseteq S
<1>1. n \in Reach(n, al) /\ Reach(n, al) \in SUBSET Names
  BY DEF Reach
<1>2. ASSUME NEW m \in Reach(n, al), al[m] # None
      PROVE  al[m] \in Reach(n, al)
  <2>1. al[m] \in Names
    BY <1>1, <1>2 DEF AliasMap
  <2>2. ASSUME NEW S \in SUBSET Names, n \in S, Closed(S, al)
        PROVE  al[m] \in S
    BY <1>2, <2>2 DEF Reach, Closed
  <2> QED BY <2>1, <2>2 DEF Reach
<1>3. Closed(Reach(n, al), al)
  BY <1>2 DEF Closed
<1>4. \A S \in SUBSET Names : n \in S /\ Closed(S, al) => Reach(n, al) \subseteq S
  BY DEF Reach
<1> QED BY <1>1, <1>3, <1>4

\* With acyclic aliases every name leads to one that is no alias: _resolve() ends.
LEMMA ResolveFinds ==
    ASSUME NEW al \in AliasMap, Acyclic(al), NEW n \in Names
    PROVE  Resolve(n, al) \in Names /\ al[Resolve(n, al)] = None
<1>1. Reach(n, al) \in SUBSET Names /\ n \in Reach(n, al) /\ Closed(Reach(n, al), al)
  BY ReachCloses
<1>2. PICK m \in Reach(n, al) : al[m] \notin Reach(n, al)
  BY <1>1 DEF Acyclic
<1>3. al[m] = None
  BY <1>1, <1>2 DEF Closed
<1> QED BY <1>1, <1>3 DEF Resolve

-----------------------------------------------------------------------------
(* One step *)

\* No other thread writes while t may take the lock.
LEMMA Alone ==
    ASSUME ContainerInv, NEW t \in Threads, CanLock(t)
    PROVE  \A u \in Threads \ {t} : pc[u] \notin Writing
BY ContainerAssumption DEF ContainerInv, WriterHolds, CanLock

\* The part of the invariant that is about one thread.
Own(t) == Registers(t) /\ Restores(t) /\ Gets(t)

LEMMA EndTypes ==
    ASSUME TypeOK, NEW t \in Threads, End(t)
    PROVE  /\ pc' \in [Threads -> Points] /\ pc'[t] = "idle"
           /\ job' \in [Threads -> [op : Operations, name : Names \cup {None},
                                    target : Names \cup {None}, reg : 0..MaxRegs]]
BY ContainerAssumption DEF TypeOK, End, Goto, NoJob, Points, Operations

\* A step of t that changes nothing shared, or is made with the lock within its
\* reach, does not concern the others.
LEMMA OthersKeep ==
    ASSUME ContainerInv, NEW t \in Threads, NEW u \in Threads \ {t},
           pc'[u] = pc[u], job'[u] = job[u], walk'[u] = walk[u],
           CanLock(t) \/ UNCHANGED <<store, depth, restore>>
    PROVE  Own(u)'
<1>1. Own(u)
  BY DEF ContainerInv, Own
<1>2. CASE CanLock(t)
  <2>1. pc'[u] \notin Writing
    BY <1>2, Alone
  <2> QED BY <1>1, <2>1 DEF Own, Registers, Restores, Gets, Writing
<1>3. CASE UNCHANGED <<store, depth, restore>>
  BY <1>1, <1>3 DEF Own, Registers, Restores, Gets
<1> QED BY <1>2, <1>3

LEMMA StepKeepsInv ==
    ASSUME ContainerInv, NEW t \in Threads,
           \A u \in Threads \ {t} : pc'[u] = pc[u] /\ job'[u] = job[u] /\ walk'[u] = walk[u],
           CanLock(t) \/ UNCHANGED <<store, depth, restore, owner>>,
           TypeOK', SavedSound', StoreSound',
           pc'[t] \in Writing => owner' = t,
           Own(t)'
    PROVE  ContainerInv'
<1>1. \A u \in Threads : Own(u)'
  BY OthersKeep
<1>2. WriterHolds'
  BY Alone DEF ContainerInv, WriterHolds
<1> QED BY <1>1, <1>2 DEF ContainerInv, Own

\* A step that leaves the dictionaries and the saved ones alone.
LEMMA StoreKept ==
    ASSUME ContainerInv, NEW t \in Threads, UNCHANGED store,
           \A u \in Threads \ {t} : pc'[u] = pc[u],
           pc[t] # "drainAliases"
    PROVE  StoreSound'
BY DEF ContainerInv, StoreSound

LEMMA SavedKept ==
    ASSUME ContainerInv, UNCHANGED <<snapshot, restore>>
    PROVE  SavedSound'
BY DEF ContainerInv, SavedSound

\* With the lock in reach and t in no half of a rollback the store is sound.
LEMMA RolesHold ==
    ASSUME ContainerInv, NEW t \in Threads, CanLock(t), pc[t] # "drainAliases"
    PROVE  Sound(store)
<1>1. \A u \in Threads : pc[u] # "drainAliases"
  BY Alone DEF Writing
<1> QED BY <1>1 DEF ContainerInv, StoreSound, Sound

LEMMA HoldsCanLock ==
    ASSUME ContainerInv, NEW t \in Threads, pc[t] \in Writing
    PROVE  CanLock(t) /\ owner = t
BY DEF ContainerInv, WriterHolds, CanLock

-----------------------------------------------------------------------------
(* Registrations *)

LEMMA RegisterSound ==
    ASSUME ContainerInv, NEW t \in Threads, Register(t)
    PROVE  ContainerInv'
<1>1. TypeOK'
  BY ContainerAssumption DEF ContainerInv, TypeOK, Register, Call, Goto, Regs, Points, Writing, Operations
<1>2. SavedSound' /\ StoreSound'
  BY SavedKept, StoreKept DEF Register, Call, Goto, Idle, ContainerInv, TypeOK
<1>3. Own(t)'
  BY ContainerAssumption DEF Own, Registers, Restores, Gets, Register, Call, Goto, Registering, ContainerInv, TypeOK, Regs
<1> QED BY <1>1, <1>2, <1>3, StepKeepsInv DEF Register, Call, Goto, ContainerInv, TypeOK

LEMMA RegisterAliasSound ==
    ASSUME ContainerInv, NEW t \in Threads, RegisterAlias(t)
    PROVE  ContainerInv'
<1>1. TypeOK'
  BY ContainerAssumption DEF ContainerInv, TypeOK, RegisterAlias, Call, Goto, Regs, Points, Writing, Operations
<1>2. SavedSound' /\ StoreSound'
  BY SavedKept, StoreKept DEF RegisterAlias, Call, Goto, Idle, ContainerInv, TypeOK
<1>3. Own(t)'
  BY DEF Own, Registers, Restores, Gets, RegisterAlias, Call, Goto, Registering, ContainerInv, TypeOK, Regs
<1> QED BY <1>1, <1>2, <1>3, StepKeepsInv DEF RegisterAlias, Call, Goto, ContainerInv, TypeOK

LEMMA UnbindSound ==
    ASSUME ContainerInv, NEW t \in Threads, Unbind(t)
    PROVE  ContainerInv'
<1> DEFINE n == job[t].name
<1>0. n \in Names /\ CanLock(t) /\ owner = t /\ Sound(store) /\ Own(t)
  BY HoldsCanLock, RolesHold DEF Unbind, Writing, ContainerInv, Registers, Own
<1>1. TypeOK'
  BY <1>0 DEF ContainerInv, TypeOK, Unbind, Unbound, Goto, Contents, Points, Writing
<1>2. store'.aliases = store.aliases
  BY <1>0 DEF ContainerInv, TypeOK, Unbind, Unbound, Contents
<1>3. Roles(store')
  BY <1>0 DEF Roles, Sound, Unbind, Unbound, ContainerInv, TypeOK, Contents
<1>4. SavedSound' /\ StoreSound'
  BY <1>0, <1>2, <1>3, SavedKept DEF Unbind, StoreSound, Sound
<1>5. Own(t)'
  BY <1>0, <1>2 DEF Own, Registers, Restores, Gets, Unbind, Unbound, Goto, ContainerInv, TypeOK, Contents
<1> QED BY <1>0, <1>1, <1>4, <1>5, StepKeepsInv DEF Unbind, Goto, ContainerInv, TypeOK

LEMMA UnaliasSound ==
    ASSUME ContainerInv, NEW t \in Threads, Unalias(t)
    PROVE  ContainerInv'
<1> DEFINE n == job[t].name
<1>0. n \in Names /\ CanLock(t) /\ owner = t /\ Sound(store) /\ Own(t)
  BY HoldsCanLock, RolesHold DEF Unalias, Writing, ContainerInv, Registers, Own
<1>1. TypeOK'
  BY <1>0 DEF ContainerInv, TypeOK, Unalias, Goto, Contents, Points, Writing
<1>2. store'.aliases = [store.aliases EXCEPT ![n] = None] /\ store.aliases \in AliasMap
  BY <1>0 DEF ContainerInv, TypeOK, Unalias, Contents, AliasMap
<1>3. Acyclic(store'.aliases)
  BY <1>0, <1>2, DropKeepsAcyclic DEF Sound
<1>4. Roles(store')
  BY <1>0 DEF Roles, Sound, Unalias, ContainerInv, TypeOK, Contents
<1>5. SavedSound' /\ StoreSound'
  BY <1>3, <1>4, SavedKept DEF Unalias, StoreSound
<1>6. job[t].op = "alias" => MayAlias(n, job[t].target, store'.aliases)
  <2> SUFFICES ASSUME job[t].op = "alias"
               PROVE  MayAlias(n, job[t].target, store'.aliases)
    OBVIOUS
  <2>1. job[t].target \in Names /\ MayAlias(n, job[t].target, store.aliases)
    BY <1>0 DEF Own, Registers, Unalias
  <2>2. MayAlias(n, job[t].target, [store.aliases EXCEPT ![n] = None])
    BY <1>0, <1>2, <2>1, DropKeepsMayAlias
  <2> QED BY <1>2, <2>2
<1>7. Own(t)'
  <2>1. /\ pc'[t] \in {"put", "sweep"}
        /\ pc'[t] = "put" => job[t].op # "remove"
        /\ UNCHANGED <<job, walk, depth, restore>>
    BY DEF Unalias, Goto, ContainerInv, TypeOK
  <2>2. /\ store'.instances = store.instances /\ store'.factories = store.factories
        /\ store'.transient = store.transient /\ store'.aliases[n] = None
    BY <1>0, <1>2 DEF Unalias, ContainerInv, TypeOK, Contents, AliasMap
  <2>3. Registers(t)'
    BY <1>0, <1>6, <2>1, <2>2 DEF Own, Registers, Unalias
  <2> QED BY <2>1, <2>3 DEF Own, Restores, Gets
<1> QED BY <1>0, <1>1, <1>5, <1>7, StepKeepsInv DEF Unalias, Goto, ContainerInv, TypeOK

LEMMA PutSound ==
    ASSUME ContainerInv, NEW t \in Threads, Put(t)
    PROVE  ContainerInv'
<1> DEFINE n == job[t].name
<1>0. /\ n \in Names /\ CanLock(t) /\ owner = t /\ Sound(store) /\ Own(t)
      /\ job[t].op \in Registering \cup {"alias"}
  BY HoldsCanLock, RolesHold DEF Put, Writing, ContainerInv, Registers, Own
<1>a. store.aliases \in AliasMap /\ store.aliases[n] = None
  BY <1>0 DEF ContainerInv, TypeOK, Contents, AliasMap, Own, Registers, Put
<1>1. TypeOK'
  <2>1. store' \in Contents
    BY <1>0 DEF Own, Registers, Put, With, ContainerInv, TypeOK, Contents, Registering
  <2> QED BY <1>0, <2>1, ContainerAssumption DEF ContainerInv, TypeOK, Put, Leave, End, Goto, NoJob, Points, Operations
<1>2. Acyclic(store'.aliases)
  <2>1. CASE job[t].op = "alias"
    BY <1>0, <1>a, <2>1, AddKeepsAcyclic DEF Put, With, Sound, Own, Registers, ContainerInv, TypeOK, Contents
  <2>2. CASE job[t].op \in Registering
    BY <1>0, <2>2 DEF Put, With, Sound, Registering, ContainerInv, TypeOK, Contents
  <2> QED BY <1>0, <2>1, <2>2
<1>3. Roles(store')
  <2>1. store.instances[n] = None /\ store.factories[n] = None /\ n \notin store.transient
    BY <1>0 DEF Own, Registers, Put
  <2>2. job[t].op \in Registering => job[t].reg # None
    BY <1>0, ContainerAssumption DEF Own, Registers, Put, Regs
  <2> QED BY <1>0, <1>a, <2>1, <2>2 DEF Roles, Sound, Put, With, Registering, ContainerInv, TypeOK, Contents
<1>4. SavedSound' /\ StoreSound'
  BY <1>2, <1>3, SavedKept DEF Put, StoreSound
<1>5. Own(t)'
  BY DEF Own, Registers, Restores, Gets, Put, End, Goto, ContainerInv, TypeOK
<1> QED BY <1>0, <1>1, <1>4, <1>5, StepKeepsInv DEF Put, End, Goto, Leave, Writing, ContainerInv, TypeOK

-----------------------------------------------------------------------------
(* Removals *)

LEMMA RemoveAliasSound ==
    ASSUME ContainerInv, NEW t \in Threads, RemoveAlias(t)
    PROVE  ContainerInv'
<1>0. CanLock(t) /\ Sound(store) /\ Own(t)
  BY RolesHold DEF RemoveAlias, Idle, ContainerInv, Own
<1>a. PICK n \in Names : store' = [store EXCEPT !.aliases[n] = None]
  BY DEF RemoveAlias
<1>1. TypeOK'
  BY <1>a DEF ContainerInv, TypeOK, RemoveAlias, Contents
<1>2. store'.aliases = [store.aliases EXCEPT ![n] = None] /\ store.aliases \in AliasMap
  BY <1>a DEF ContainerInv, TypeOK, Contents, AliasMap
<1>3. Acyclic(store'.aliases)
  BY <1>0, <1>2, DropKeepsAcyclic DEF Sound
<1>4. Roles(store')
  BY <1>0, <1>a DEF Roles, Sound, ContainerInv, TypeOK, Contents
<1>5. SavedSound' /\ StoreSound'
  BY <1>3, <1>4, SavedKept DEF RemoveAlias, StoreSound
<1>6. Own(t)'
  BY DEF RemoveAlias, Idle, Own, Registers, Restores, Gets
<1> QED BY <1>0, <1>1, <1>5, <1>6, StepKeepsInv DEF RemoveAlias, Idle, Writing

LEMMA RemoveSound ==
    ASSUME ContainerInv, NEW t \in Threads, Remove(t)
    PROVE  ContainerInv'
<1>1. TypeOK'
  BY ContainerAssumption DEF ContainerInv, TypeOK, Remove, Call, Goto, Points, Writing, Operations
<1>2. SavedSound' /\ StoreSound'
  BY SavedKept, StoreKept DEF Remove, Call, Goto, Idle, ContainerInv, TypeOK
<1>3. Own(t)'
  BY DEF Own, Registers, Restores, Gets, Remove, Call, Goto, Registering, ContainerInv, TypeOK
<1> QED BY <1>1, <1>2, <1>3, StepKeepsInv DEF Remove, Call, Goto, ContainerInv, TypeOK

LEMMA SweepRoundSound ==
    ASSUME ContainerInv, NEW t \in Threads, SweepRound(t)
    PROVE  ContainerInv'
<1>0. CanLock(t) /\ owner = t
  BY HoldsCanLock DEF SweepRound, Writing
<1>1. TypeOK'
  <2>1. sweep' \in [dead : SUBSET Names, dangling : SUBSET Names]
    BY DEF ContainerInv, TypeOK, SweepRound, Dangling, NoSweep
  <2>2. owner' \in Threads \cup {None}
    BY DEF ContainerInv, TypeOK, SweepRound, Leave
  <2>3. UNCHANGED <<pc, job>> \/ End(t)
    BY DEF SweepRound
  <2> QED BY <2>1, <2>2, <2>3, EndTypes DEF ContainerInv, TypeOK, SweepRound
<1>2. SavedSound' /\ StoreSound'
  BY SavedKept, StoreKept DEF SweepRound, End, Goto, ContainerInv, TypeOK
<1>3. Own(t)'
  BY DEF Own, Registers, Restores, Gets, SweepRound, End, Goto, ContainerInv, TypeOK
<1> QED BY <1>0, <1>1, <1>2, <1>3, StepKeepsInv DEF SweepRound, End, Goto, Writing, ContainerInv, TypeOK

LEMMA SweepOneSound ==
    ASSUME ContainerInv, NEW t \in Threads, SweepOne(t)
    PROVE  ContainerInv'
<1>0. CanLock(t) /\ owner = t /\ Sound(store) /\ Own(t)
  BY HoldsCanLock, RolesHold DEF SweepOne, Writing, ContainerInv, Own
<1>a. PICK n \in sweep.dangling :
        /\ store' = [store EXCEPT !.aliases[n] = None]
        /\ sweep' = [dead |-> sweep.dead \cup {n}, dangling |-> sweep.dangling \ {n}]
  BY DEF SweepOne
<1>b. n \in Names
  BY <1>a DEF ContainerInv, TypeOK
<1>1. TypeOK'
  BY <1>a, <1>b DEF ContainerInv, TypeOK, SweepOne, Contents
<1>2. store'.aliases = [store.aliases EXCEPT ![n] = None] /\ store.aliases \in AliasMap
  BY <1>a, <1>b DEF ContainerInv, TypeOK, Contents, AliasMap
<1>3. Acyclic(store'.aliases)
  BY <1>0, <1>b, <1>2, DropKeepsAcyclic DEF Sound
<1>4. Roles(store')
  BY <1>0, <1>a, <1>b DEF Roles, Sound, ContainerInv, TypeOK, Contents
<1>5. SavedSound' /\ StoreSound'
  BY <1>3, <1>4, SavedKept DEF SweepOne, StoreSound
<1>6. Own(t)'
  BY DEF SweepOne, Own, Registers, Restores, Gets
<1> QED BY <1>0, <1>1, <1>5, <1>6, StepKeepsInv DEF SweepOne

LEMMA ClearSound ==
    ASSUME ContainerInv, NEW t \in Threads, Clear(t)
    PROVE  ContainerInv'
<1>0. CanLock(t)
  BY DEF Clear
<1>1. TypeOK'
  BY EmptySound, ContainerAssumption DEF ContainerInv, TypeOK, Clear, Call, Goto, Points, Writing, Operations
<1>2. StoreSound'
  BY StoreKept DEF Clear, Call, Goto, Idle, ContainerInv, TypeOK
<1>3. SavedSound'
  BY EmptySound DEF Clear, SavedSound, ContainerInv
<1>4. Own(t)'
  BY DEF Own, Registers, Restores, Gets, Clear, Call, Goto, ContainerInv, TypeOK
<1> QED BY <1>0, <1>1, <1>2, <1>3, <1>4, StepKeepsInv DEF Clear, Call, Goto, ContainerInv, TypeOK

-----------------------------------------------------------------------------
(* Transactions *)

LEMMA BeginSound ==
    ASSUME ContainerInv, NEW t \in Threads, Begin(t)
    PROVE  ContainerInv'
<1>0. CanLock(t) /\ Sound(store)
  BY RolesHold DEF Begin, Idle
<1>1. TypeOK'
  BY ContainerAssumption DEF ContainerInv, TypeOK, Begin
<1>2. StoreSound'
  BY StoreKept DEF Begin, Idle
<1>3. SavedSound'
  BY <1>0, ContainerAssumption DEF Begin, SavedSound, ContainerInv, TypeOK
<1>4. Own(t)'
  BY DEF Own, Registers, Restores, Gets, Begin, Idle
<1> QED BY <1>0, <1>1, <1>2, <1>3, <1>4, StepKeepsInv DEF Begin

LEMMA CommitSound ==
    ASSUME ContainerInv, NEW t \in Threads, Commit(t)
    PROVE  ContainerInv'
<1>0. CanLock(t)
  BY DEF Commit, CanLock
<1>1. TypeOK'
  BY EmptySound, ContainerAssumption DEF ContainerInv, TypeOK, Commit
<1>2. StoreSound'
  BY StoreKept DEF Commit, Idle
<1>3. SavedSound'
  BY EmptySound, ContainerAssumption DEF Commit, SavedSound, ContainerInv, TypeOK
<1>4. Own(t)'
  BY DEF Own, Registers, Restores, Gets, Commit, Idle
<1> QED BY <1>0, <1>1, <1>2, <1>3, <1>4, StepKeepsInv DEF Commit, Idle, Writing

LEMMA RollbackSound ==
    ASSUME ContainerInv, NEW t \in Threads, Rollback(t)
    PROVE  ContainerInv'
<1>0. CanLock(t) /\ depth \in 1..MaxNest
  BY ContainerAssumption DEF Rollback, CanLock, ContainerInv, TypeOK
<1>1. TypeOK'
  BY <1>0, EmptySound, ContainerAssumption DEF ContainerInv, TypeOK, Rollback, Call, Goto, Points, Writing, Operations
<1>2. StoreSound'
  BY StoreKept DEF Rollback, Call, Goto, Idle, ContainerInv, TypeOK
<1>3. SavedSound'
  BY <1>0, EmptySound DEF Rollback, SavedSound, ContainerInv, TypeOK
<1>4. Own(t)'
  BY DEF Own, Registers, Restores, Gets, Rollback, Call, Goto, ContainerInv, TypeOK
<1> QED BY <1>0, <1>1, <1>2, <1>3, <1>4, StepKeepsInv DEF Rollback, Call, Goto, ContainerInv, TypeOK

LEMMA DrainSound ==
    ASSUME ContainerInv, NEW t \in Threads, Drain(t)
    PROVE  ContainerInv'
<1>0. CanLock(t) /\ owner = t /\ Sound(store) /\ Own(t)
  BY HoldsCanLock, RolesHold DEF Drain, Writing, ContainerInv, Own
<1>1. TypeOK'
  BY EmptySound DEF ContainerInv, TypeOK, Drain, Goto, Contents, Points, Writing
<1>2. /\ store'.aliases = store.aliases /\ store'.instances = Empty.instances
      /\ store'.factories = store.factories /\ store'.transient = store.transient
  BY DEF Drain, ContainerInv, TypeOK, Contents
<1>3. Roles(store')
  BY <1>0, <1>2 DEF Roles, Sound, Empty
<1>4. SavedSound' /\ StoreSound'
  BY <1>0, <1>2, <1>3, SavedKept DEF Drain, StoreSound, Sound
<1>5. Own(t)'
  BY <1>0, <1>2 DEF Own, Registers, Restores, Gets, Drain, Goto, ContainerInv, TypeOK
<1> QED BY <1>0, <1>1, <1>4, <1>5, StepKeepsInv DEF Drain, Goto, ContainerInv, TypeOK

LEMMA RefillSound ==
    ASSUME ContainerInv, NEW t \in Threads, Refill(t)
    PROVE  ContainerInv'
<1>0. CanLock(t) /\ owner = t /\ Sound(store) /\ Own(t)
  BY HoldsCanLock, RolesHold DEF Refill, Writing, ContainerInv, Own
<1>1. TypeOK'
  BY DEF ContainerInv, TypeOK, Refill, Refilled, Goto, Contents, Points, Writing
<1>2. /\ store'.aliases = store.aliases /\ store'.instances = restore.instances
      /\ store'.factories = restore.factories /\ store'.transient = restore.transient
  BY DEF Refill, Refilled, ContainerInv, TypeOK, Contents
<1>3. pc'[t] = "drainAliases"
  BY DEF Refill, Goto, ContainerInv, TypeOK
<1>4. SavedSound' /\ StoreSound'
  BY <1>0, <1>2, <1>3, SavedKept DEF Refill, StoreSound, Sound
<1>5. Own(t)'
  BY <1>0, <1>2, <1>3 DEF Own, Registers, Restores, Gets, Refill
<1> QED BY <1>0, <1>1, <1>4, <1>5, StepKeepsInv DEF Refill, Goto, ContainerInv, TypeOK

\* The roles are whole again: there is no alias, and the rest was saved sound.
LEMMA DrainAliasesSound ==
    ASSUME ContainerInv, NEW t \in Threads, DrainAliases(t)
    PROVE  ContainerInv'
<1>0. CanLock(t) /\ owner = t /\ Own(t) /\ Sound(restore)
  BY HoldsCanLock DEF DrainAliases, Writing, ContainerInv, Own, SavedSound
<1>1. TypeOK'
  BY EmptySound DEF ContainerInv, TypeOK, DrainAliases, Goto, Contents, Points, Writing
<1>2. /\ store'.aliases = Empty.aliases /\ store'.instances = restore.instances
      /\ store'.factories = restore.factories /\ store'.transient = restore.transient
  BY <1>0 DEF DrainAliases, ContainerInv, TypeOK, Contents, Own, Restores
<1>3. Roles(store')
  BY <1>0, <1>2 DEF Roles, Sound, Empty
<1>4. SavedSound' /\ StoreSound'
  BY <1>2, <1>3, SavedKept, EmptySound DEF DrainAliases, StoreSound, Sound
<1>5. pc'[t] = "refillAliases"
  BY DEF DrainAliases, Goto, ContainerInv, TypeOK
<1>6. Own(t)'
  BY <1>0, <1>2, <1>5 DEF Own, Registers, Restores, Gets, DrainAliases
<1> QED BY <1>0, <1>1, <1>4, <1>6, StepKeepsInv DEF DrainAliases, Goto, ContainerInv, TypeOK

LEMMA RefillAliasesSound ==
    ASSUME ContainerInv, NEW t \in Threads, RefillAliases(t)
    PROVE  ContainerInv'
<1>0. CanLock(t) /\ owner = t /\ Own(t) /\ Sound(restore)
  BY HoldsCanLock DEF RefillAliases, Writing, ContainerInv, Own, SavedSound
<1>1. depth' \in 0..MaxNest
  BY <1>0, ContainerAssumption DEF RefillAliases, DepthAfter, Own, Restores, ContainerInv, TypeOK
<1>2. TypeOK'
  <2>1. store' \in Contents
    BY DEF ContainerInv, TypeOK, RefillAliases, Contents
  <2>2. owner' \in Threads \cup {None}
    BY DEF RefillAliases
  <2> QED BY <1>1, <2>1, <2>2, EndTypes, EmptySound DEF ContainerInv, TypeOK, RefillAliases
<1>3. /\ store'.aliases = restore.aliases /\ store'.instances = restore.instances
      /\ store'.factories = restore.factories /\ store'.transient = restore.transient
  BY <1>0 DEF RefillAliases, ContainerInv, TypeOK, Contents, Own, Restores
<1>4. Sound(store')
  BY <1>0, <1>3 DEF Roles, Sound
<1>5. StoreSound'
  BY <1>4 DEF StoreSound, Sound
<1>6. SavedSound'
  BY EmptySound DEF SavedSound, RefillAliases, ContainerInv
<1>7. Own(t)'
  BY DEF Own, Registers, Restores, Gets, RefillAliases, End, Goto, ContainerInv, TypeOK
<1> QED BY <1>0, <1>2, <1>5, <1>6, <1>7, StepKeepsInv
        DEF RefillAliases, End, Goto, Writing, ContainerInv, TypeOK

-----------------------------------------------------------------------------
(* get() *)

\* A look that takes no lock and changes nothing shared.
LEMMA LookSound ==
    ASSUME ContainerInv, NEW t \in Threads,
           UNCHANGED <<store, owner, depth, snapshot, restore>>,
           \A u \in Threads \ {t} : pc'[u] = pc[u] /\ job'[u] = job[u] /\ walk'[u] = walk[u],
           pc[t] # "drainAliases", pc'[t] \notin Writing,
           TypeOK', Gets(t)'
    PROVE  ContainerInv'
<1>1. SavedSound' /\ StoreSound'
  BY SavedKept, StoreKept
<1>2. Own(t)'
  BY DEF Own, Registers, Restores, Writing
<1> QED BY <1>1, <1>2, StepKeepsInv

LEMMA AnswerTypes ==
    ASSUME TypeOK, NEW t \in Threads, NEW reg \in 0..MaxRegs,
           NEW kind \in {"object", "missing", "cycle", "raised"}, Answer(t, kind, reg)
    PROVE  /\ pc' \in [Threads -> Points] /\ pc'[t] = "done"
           /\ result' \in [Threads -> [kind : {"none", "object", "missing", "cycle", "raised"},
                                       reg : 0..MaxRegs]]
BY DEF TypeOK, Answer, Goto, Points, Getting

LEMMA ZeroTypes == 0 \in 0..MaxRegs /\ Regs \subseteq 0..MaxRegs /\ None \notin Regs
BY ContainerAssumption DEF Regs

LEMMA GetSound ==
    ASSUME ContainerInv, NEW t \in Threads, Get(t)
    PROVE  ContainerInv'
<1>1. TypeOK'
  BY ContainerAssumption DEF ContainerInv, TypeOK, Get, Call, Goto, Points, Getting, Operations
<1>2. Gets(t)'
  BY DEF Gets, Get, Call, Goto, ContainerInv, TypeOK
<1> QED BY <1>1, <1>2, LookSound DEF Get, Idle, Call, Goto, Writing, ContainerInv, TypeOK

LEMMA SeekSound ==
    ASSUME ContainerInv, NEW t \in Threads, Seek(t)
    PROVE  ContainerInv'
<1>0. Gets(t) /\ walk[t].at \in Names
  BY DEF ContainerInv, Gets, Seek
<1>1. TypeOK'
  <2>1. \/ pc' \in [Threads -> Points] /\ UNCHANGED result
        \/ Answer(t, "cycle", 0)
    BY DEF Seek, Goto, Points, Getting, ContainerInv, TypeOK
  <2>2. walk' \in [Threads -> [at : Names \cup {None}, seen : SUBSET Names]]
    <3>1. walk[t] \in [at : Names \cup {None}, seen : SUBSET Names]
      BY DEF ContainerInv, TypeOK
    <3>2. [walk[t] EXCEPT !.seen = walk[t].seen \cup {walk[t].at}]
            \in [at : Names \cup {None}, seen : SUBSET Names]
      BY <1>0, <3>1
    <3>3. \/ walk' = walk
          \/ walk' = [walk EXCEPT ![t] = [walk[t] EXCEPT !.seen = walk[t].seen \cup {walk[t].at}]]
      BY DEF Seek
    <3> QED BY <3>2, <3>3 DEF ContainerInv, TypeOK
  <2> QED BY <2>1, <2>2, AnswerTypes, ZeroTypes DEF ContainerInv, TypeOK, Seek
<1>2. pc'[t] \in {"fetch", "hop", "done"} /\ walk'[t].at = walk[t].at
  BY DEF Seek, Answer, Goto, ContainerInv, TypeOK
<1>3. Gets(t)'
  BY <1>0, <1>2 DEF Gets, Seek
<1> QED BY <1>1, <1>2, <1>3, LookSound DEF Seek, Answer, Goto, Writing, ContainerInv, TypeOK

LEMMA HopSound ==
    ASSUME ContainerInv, NEW t \in Threads, Hop(t)
    PROVE  ContainerInv'
<1>0. Gets(t) /\ walk[t].at \in Names
  BY DEF ContainerInv, Gets, Hop
<1>1. TypeOK'
  <2>1. \/ pc' \in [Threads -> Points] /\ UNCHANGED result
        \/ Answer(t, "missing", 0)
    BY DEF Hop, Goto, Points, Getting, ContainerInv, TypeOK
  <2>2. walk' \in [Threads -> [at : Names \cup {None}, seen : SUBSET Names]]
    <3>1. store.aliases[walk[t].at] \in Names \cup {None}
      BY <1>0 DEF ContainerInv, TypeOK, Contents
    <3>2. walk[t] \in [at : Names \cup {None}, seen : SUBSET Names]
      BY DEF ContainerInv, TypeOK
    <3>3. [walk[t] EXCEPT !.at = store.aliases[walk[t].at]]
            \in [at : Names \cup {None}, seen : SUBSET Names]
      BY <3>1, <3>2
    <3>4. \/ walk' = walk
          \/ walk' = [walk EXCEPT ![t] = [walk[t] EXCEPT !.at = store.aliases[walk[t].at]]]
      BY DEF Hop
    <3> QED BY <3>3, <3>4 DEF ContainerInv, TypeOK
  <2> QED BY <2>1, <2>2, AnswerTypes, ZeroTypes DEF ContainerInv, TypeOK, Hop
<1>2. pc'[t] \in {"seek", "done"} /\ (pc'[t] = "seek" => walk'[t].at \in Names)
  BY <1>0 DEF Hop, Answer, Goto, ContainerInv, TypeOK, Contents
<1>3. Gets(t)'
  BY <1>0, <1>2 DEF Gets, Hop
<1> QED BY <1>1, <1>2, <1>3, LookSound DEF Hop, Answer, Goto, Writing, ContainerInv, TypeOK

LEMMA FetchSound ==
    ASSUME ContainerInv, NEW t \in Threads, Fetch(t)
    PROVE  ContainerInv'
<1>0. Gets(t) /\ walk[t].at \in Names
  BY DEF ContainerInv, Gets, Fetch
<1>1. TypeOK'
  <2>1. \/ pc' \in [Threads -> Points] /\ UNCHANGED result
        \/ \E reg \in Regs : Answer(t, "object", reg)
    BY <1>0 DEF Fetch, Missed, Goto, Points, Getting, ContainerInv, TypeOK, Contents
  <2> QED BY <2>1, AnswerTypes, ZeroTypes DEF ContainerInv, TypeOK, Fetch
<1>2. pc'[t] \in {"wait", "done"}
  BY DEF Fetch, Missed, Answer, Goto, ContainerInv, TypeOK
<1>3. Gets(t)'
  BY <1>0, <1>2 DEF Gets, Fetch
<1> QED BY <1>1, <1>2, <1>3, LookSound DEF Fetch, Missed, Answer, Goto, Writing, ContainerInv, TypeOK

LEMMA MakeSound ==
    ASSUME ContainerInv, NEW t \in Threads, Make(t)
    PROVE  ContainerInv'
<1>0. job[t].reg \in Regs
  BY DEF ContainerInv, Gets, Make
<1>1. TypeOK'
  BY <1>0, AnswerTypes, ZeroTypes DEF ContainerInv, TypeOK, Make
<1>2. pc'[t] = "done"
  BY DEF Make, Answer, Goto, ContainerInv, TypeOK
<1>3. Gets(t)'
  BY <1>2 DEF Gets
<1> QED BY <1>1, <1>2, <1>3, LookSound DEF Make, Answer, Goto, Writing, ContainerInv, TypeOK

LEMMA ReturnSound ==
    ASSUME ContainerInv, NEW t \in Threads, Return(t)
    PROVE  ContainerInv'
<1>1. TypeOK'
  BY ContainerAssumption
     DEF ContainerInv, TypeOK, Return, End, Goto, NoJob, NoWalk, NoResult, Points, Operations
<1>2. pc'[t] = "idle"
  BY DEF Return, End, Goto, ContainerInv, TypeOK
<1>3. Gets(t)'
  BY <1>2 DEF Gets
<1> QED BY <1>1, <1>2, <1>3, LookSound DEF Return, End, Goto, Writing, ContainerInv, TypeOK

LEMMA LookUpSound ==
    ASSUME ContainerInv, NEW t \in Threads, LookUp(t)
    PROVE  ContainerInv'
<1> DEFINE actual == Resolve(job[t].name, store.aliases)
           factory == store.factories[actual]
<1>0. CanLock(t) /\ Sound(store) /\ Gets(t) /\ job[t].name \in Names
  BY RolesHold DEF LookUp, ContainerInv, Gets
<1>1. actual \in Names /\ store.aliases[actual] = None
  BY <1>0, ResolveFinds DEF ContainerInv, TypeOK, Contents, AliasMap, Sound
<1>2. /\ store.instances[actual] \in Regs \cup {None}
      /\ factory \in Regs \cup {None}
  BY <1>1 DEF ContainerInv, TypeOK, Contents
<1>3. /\ walk' = [walk EXCEPT ![t].at = actual]
      /\ UNCHANGED <<store, depth, snapshot, restore, sweep, regs, built>>
  BY DEF LookUp
<1>4. walk' \in [Threads -> [at : Names \cup {None}, seen : SUBSET Names]] /\ walk'[t].at = actual
  BY <1>1, <1>3 DEF ContainerInv, TypeOK
<1>5. CASE \E kind \in {"object", "missing"}, reg \in 0..MaxRegs :
             Answer(t, kind, reg) /\ UNCHANGED <<owner, job>>
  <2>1. TypeOK' /\ pc'[t] = "done"
    <3>1. PICK kind \in {"object", "missing"}, reg \in 0..MaxRegs :
             Answer(t, kind, reg) /\ UNCHANGED <<owner, job>>
      BY <1>5
    <3>2. /\ pc' \in [Threads -> Points] /\ pc'[t] = "done"
          /\ result' \in [Threads -> [kind : {"none", "object", "missing", "cycle", "raised"},
                                      reg : 0..MaxRegs]]
      BY <3>1, AnswerTypes DEF ContainerInv
    <3> QED BY <1>3, <1>4, <3>1, <3>2 DEF ContainerInv, TypeOK
  <2>2. Gets(t)'
    BY <2>1 DEF Gets
  <2>3. \A u \in Threads \ {t} : pc'[u] = pc[u] /\ job'[u] = job[u] /\ walk'[u] = walk[u]
    BY <1>3, <1>5 DEF Answer, Goto, ContainerInv, TypeOK
  <2> QED BY <1>3, <1>5, <2>1, <2>2, <2>3, LookSound DEF LookUp, Writing
<1>6. CASE /\ store.instances[actual] = None /\ factory # None
           /\ job' = [job EXCEPT ![t].reg = factory]
           /\ IF actual \in store.transient
              THEN Goto(t, "make") /\ UNCHANGED owner
              ELSE Goto(t, "build") /\ owner' = t
           /\ UNCHANGED result
  <2>1. /\ pc'[t] \in {"make", "build"} /\ pc' \in [Threads -> Points]
        /\ pc'[t] = "build" => actual \notin store.transient /\ owner' = t
        /\ owner' \in {owner, t}
    BY <1>6 DEF Goto, ContainerInv, TypeOK, Points, Getting
  <2>2. /\ job' \in [Threads -> [op : Operations, name : Names \cup {None},
                                 target : Names \cup {None}, reg : 0..MaxRegs]]
        /\ job'[t].reg = factory /\ job'[t].name = job[t].name
    <3>1. factory \in 0..MaxRegs
      BY <1>2, <1>6, ZeroTypes
    <3>2. job[t] \in [op : Operations, name : Names \cup {None},
                     target : Names \cup {None}, reg : 0..MaxRegs]
      BY DEF ContainerInv, TypeOK
    <3>3. [job[t] EXCEPT !.reg = factory]
            \in [op : Operations, name : Names \cup {None},
                target : Names \cup {None}, reg : 0..MaxRegs]
      BY <3>1, <3>2
    <3>4. job' = [job EXCEPT ![t] = [job[t] EXCEPT !.reg = factory]]
      BY <1>6
    <3>5. job'[t] = [job[t] EXCEPT !.reg = factory]
      BY <3>4 DEF ContainerInv, TypeOK
    <3> QED BY <3>2, <3>3, <3>4, <3>5 DEF ContainerInv, TypeOK
  <2>3. TypeOK'
    BY <1>3, <1>4, <1>6, <2>1, <2>2 DEF ContainerInv, TypeOK
  <2>4. Gets(t)'
    BY <1>0, <1>1, <1>2, <1>3, <1>4, <1>6, <2>1, <2>2 DEF Gets
  <2>5. Own(t)'
    BY <2>1, <2>4 DEF Own, Registers, Restores
  <2>6. \A u \in Threads \ {t} : pc'[u] = pc[u] /\ job'[u] = job[u] /\ walk'[u] = walk[u]
    BY <1>3, <1>6 DEF Goto, ContainerInv, TypeOK
  <2>7. SavedSound' /\ StoreSound'
    BY <1>3, <2>6, SavedKept, StoreKept DEF LookUp
  <2> QED BY <1>0, <2>1, <2>3, <2>5, <2>6, <2>7, StepKeepsInv DEF Writing
<1> QED BY <1>2, <1>5, <1>6, ZeroTypes DEF LookUp, FoundUnderLock

LEMMA BuildSound ==
    ASSUME ContainerInv, NEW t \in Threads, Build(t)
    PROVE  ContainerInv'
<1> DEFINE n == walk[t].at
           r == job[t].reg
<1>0. /\ CanLock(t) /\ owner = t /\ Sound(store) /\ Gets(t)
      /\ n \in Names /\ r \in Regs
  BY HoldsCanLock, RolesHold DEF Build, Writing, ContainerInv, Gets
<1>1. \A u \in Threads \ {t} : pc'[u] = pc[u] /\ job'[u] = job[u] /\ walk'[u] = walk[u]
  BY DEF Build, Answer, Goto, ContainerInv, TypeOK
<1>2. CASE /\ built[r] < MaxBuilt
           /\ built' = [built EXCEPT ![r] = @ + 1]
           /\ store' = [store EXCEPT !.instances[n] = r]
           /\ Answer(t, "object", r)
  <2>1. built' \in [Regs -> 0..MaxBuilt]
    BY <1>0, <1>2, ContainerAssumption DEF ContainerInv, TypeOK
  <2>2. store' \in Contents
    BY <1>0, <1>2 DEF ContainerInv, TypeOK, Contents
  <2>3. owner' \in Threads \cup {None}
    BY DEF Build, Leave
  <2>4. TypeOK' /\ pc'[t] = "done"
    BY <1>0, <1>2, <2>1, <2>2, <2>3, AnswerTypes, ZeroTypes DEF ContainerInv, TypeOK, Build
  <2>5. store'.aliases = store.aliases
    BY <1>2 DEF ContainerInv, TypeOK, Contents
  <2>6. Roles(store')
    BY <1>0, <1>2 DEF Roles, Sound, Gets, Build, ContainerInv, TypeOK, Contents
  <2>7. StoreSound' /\ SavedSound'
    BY <1>0, <2>5, <2>6, SavedKept DEF StoreSound, Sound, Build
  <2>8. Own(t)'
    BY <2>4 DEF Own, Registers, Restores, Gets
  <2> QED BY <1>0, <1>1, <2>4, <2>7, <2>8, StepKeepsInv DEF Writing
<1>3. CASE Answer(t, "raised", 0) /\ UNCHANGED <<store, built>>
  <2>1. owner' \in Threads \cup {None}
    BY DEF Build, Leave
  <2>2. TypeOK' /\ pc'[t] = "done"
    BY <1>3, <2>1, AnswerTypes, ZeroTypes DEF ContainerInv, TypeOK, Build
  <2>3. StoreSound' /\ SavedSound'
    BY <1>1, <1>3, SavedKept, StoreKept DEF Build
  <2>4. Own(t)'
    BY <2>2 DEF Own, Registers, Restores, Gets
  <2> QED BY <1>0, <1>1, <2>2, <2>3, <2>4, StepKeepsInv DEF Writing
<1> QED BY <1>2, <1>3 DEF Build

-----------------------------------------------------------------------------
(* The theorems *)

LEMMA InitSound == Init => ContainerInv
<1> SUFFICES ASSUME Init PROVE ContainerInv
  OBVIOUS
<1>1. TypeOK
  BY EmptySound, ContainerAssumption
     DEF Init, TypeOK, NoJob, NoWalk, NoSweep, NoResult, Points, Operations
<1>2. SavedSound /\ StoreSound
  BY EmptySound DEF Init, SavedSound, StoreSound, Sound
<1>3. WriterHolds /\ \A t \in Threads : Registers(t) /\ Restores(t) /\ Gets(t)
  BY DEF Init, WriterHolds, Registers, Restores, Gets, Writing
<1> QED BY <1>1, <1>2, <1>3 DEF ContainerInv

LEMMA NextSound == ContainerInv /\ [Next]_vars => ContainerInv'
<1> SUFFICES ASSUME ContainerInv, [Next]_vars PROVE ContainerInv'
  OBVIOUS
<1>1. ASSUME NEW t \in Threads, Write(t)
      PROVE  ContainerInv'
  BY <1>1, RegisterSound, RegisterAliasSound, UnbindSound, UnaliasSound, PutSound,
     RemoveAliasSound, RemoveSound, SweepRoundSound, SweepOneSound, ClearSound,
     BeginSound, CommitSound, RollbackSound,
     DrainSound, RefillSound, DrainAliasesSound, RefillAliasesSound DEF Write
<1>2. ASSUME NEW t \in Threads, Read(t)
      PROVE  ContainerInv'
  BY <1>2, GetSound, SeekSound, HopSound, FetchSound, LookUpSound, BuildSound,
     MakeSound, ReturnSound DEF Read
<1>3. ASSUME UNCHANGED vars
      PROVE  ContainerInv'
  BY <1>3 DEF vars, code, ContainerInv, TypeOK, WriterHolds, SavedSound, StoreSound,
              Registers, Restores, Gets
<1> QED BY <1>1, <1>2, <1>3, ContainerAssumption DEF Next

THEOREM ContainerInvariant == Spec => []ContainerInv
BY InitSound, NextSound, PTL DEF Spec

\* The container keeps its types, however many threads, names and bounds.
THEOREM TypeCorrect == Spec => []TypeOK
<1>1. ContainerInv => TypeOK
  BY DEF ContainerInv
<1> QED BY <1>1, ContainerInvariant, PTL

\* No interleaving of registrations, removals and rollbacks makes a cycle of
\* aliases, so _resolve() ends for every thread that holds the lock.
THEOREM NeverACycle == Spec => []AliasesAcyclic
<1>1. ContainerInv => AliasesAcyclic
  BY DEF ContainerInv, StoreSound, AliasesAcyclic
<1> QED BY <1>1, ContainerInvariant, PTL

\* Whenever the lock is free, every name has one role.
THEOREM EachNameOneRole == Spec => []OneRole
<1>1. ContainerInv => OneRole
  BY ContainerAssumption DEF ContainerInv, StoreSound, WriterHolds, Writing, OneRole
<1> QED BY <1>1, ContainerInvariant, PTL

-----------------------------------------------------------------------------
(* The lock and what a rollback puts back *)

Restoring == {"drain", "refill", "drainAliases", "refillAliases"}
Setting == {"unbind", "unalias", "put"}

\* Whoever has the lock is in a write or in a transaction; what is published is
\* what the lock was last freed with.
Held ==
    /\ published \in Contents /\ Sound(published)
    /\ owner = None => depth = 0 /\ published = store
    /\ \A t \in Threads : owner = t /\ pc[t] \notin Writing => depth > 0
    /\ \A t \in Threads : job[t].op = "rollback" => pc[t] \in Restoring
    /\ \A t \in Threads : pc[t] \in Restoring =>
          job[t].op = "rollback" \/ (job[t].op = "clear" /\ restore = Empty)

\* Outside a transaction a write has only taken away so far.
Behind ==
    owner # None /\ depth = 0 => \A n \in Names :
        /\ store.instances[n] # None => published.instances[n] = store.instances[n]
        /\ store.aliases[n] # None => published.aliases[n] = store.aliases[n]

\* The outermost transaction will restore what was published.
Recalls ==
    depth > 0 =>
        \/ snapshot[1] = published /\ \A t \in Threads : job[t].op = "rollback" => depth > 1
        \/ depth = 1 /\ restore = published /\ \E t \in Threads : job[t].op = "rollback"

Tied == Held /\ Behind /\ Recalls

\* A step of t leaves the other threads where they are.
LEMMA Frame ==
    ASSUME ContainerInv, NEW t \in Threads, Write(t) \/ Read(t), NEW u \in Threads \ {t}
    PROVE  pc'[u] = pc[u] /\ job'[u] = job[u] /\ walk'[u] = walk[u] /\ result'[u] = result[u]
<1>1. CASE Register(t) \/ RegisterAlias(t) \/ Unbind(t) \/ Unalias(t) \/ Put(t)
  BY <1>1 DEF Register, RegisterAlias, Unbind, Unalias, Put, Call, Goto, End, ContainerInv, TypeOK
<1>2. CASE RemoveAlias(t) \/ Remove(t) \/ SweepRound(t) \/ SweepOne(t) \/ Clear(t)
  BY <1>2 DEF RemoveAlias, Remove, SweepRound, SweepOne, Clear, Call, Goto, End, ContainerInv, TypeOK
<1>3. CASE Begin(t) \/ Commit(t) \/ Rollback(t)
  BY <1>3 DEF Begin, Commit, Rollback, Call, Goto, End, ContainerInv, TypeOK
<1>4. CASE Drain(t) \/ Refill(t) \/ DrainAliases(t) \/ RefillAliases(t)
  BY <1>4 DEF Drain, Refill, DrainAliases, RefillAliases, Call, Goto, End, ContainerInv, TypeOK
<1>5. CASE Get(t) \/ Seek(t) \/ Hop(t) \/ Fetch(t)
  BY <1>5 DEF Get, Seek, Hop, Fetch, Missed, Answer, Call, Goto, End, ContainerInv, TypeOK
<1>6. CASE LookUp(t) \/ Build(t) \/ Make(t) \/ Return(t)
  BY <1>6 DEF LookUp, Build, Make, Return, Answer, Call, Goto, End, ContainerInv, TypeOK
<1> QED BY <1>1, <1>2, <1>3, <1>4, <1>5, <1>6 DEF Write, Read

\* What a step of t does to the lock, and what its call is afterwards.
Locks(t) ==
    /\ CanLock(t) \/ UNCHANGED <<store, owner, depth, snapshot, restore>>
    /\ owner' \in {owner, t, None}
    /\ owner' = None => depth' = 0
    /\ owner' = t /\ pc'[t] \notin Writing => depth' > 0
    /\ job'[t].op = "rollback" => pc'[t] \in Restoring
    /\ pc'[t] \in Restoring =>
          job'[t].op = "rollback" \/ (job'[t].op = "clear" /\ restore' = Empty)

LEMMA StepLocks ==
    ASSUME ContainerInv, Held, NEW t \in Threads, Write(t) \/ Read(t), TypeOK'
    PROVE  Locks(t)
<1>t. pc \in [Threads -> Points] /\ depth \in Nat /\ owner \in Threads \cup {None}
      /\ job \in [Threads -> [op : Operations, name : Names \cup {None},
                              target : Names \cup {None}, reg : 0..MaxRegs]]
  BY ContainerAssumption DEF ContainerInv, TypeOK
<1>h. (owner = None => depth = 0) /\ (owner = t /\ pc[t] \notin Writing => depth > 0)
      /\ (job[t].op = "rollback" => pc[t] \in Restoring)
  BY DEF Held
<1>n. None \notin Threads
  BY ContainerAssumption
<1>w. pc[t] \in Writing => owner = t
  BY DEF ContainerInv, WriterHolds
<1>r. pc[t] \in Restoring => job[t].op = "rollback" \/ (job[t].op = "clear" /\ restore = Empty)
  BY DEF Held
<1>1. CASE Register(t) \/ RegisterAlias(t)
  BY <1>1, <1>t, <1>n DEF Locks, Register, RegisterAlias, Call, Goto, Writing, Restoring, Registering
<1>2. CASE Unbind(t) \/ Unalias(t)
  BY <1>2, <1>t, <1>w, <1>h, <1>n DEF Locks, Unbind, Unalias, Goto, Writing, Restoring, CanLock
<1>3. CASE Put(t)
  BY <1>3, <1>t, <1>w, <1>n DEF Locks, Put, End, Leave, NoJob, Goto, Writing, Restoring, CanLock
<1>4. CASE RemoveAlias(t)
  BY <1>4, <1>t, <1>h DEF Locks, RemoveAlias, Idle, Writing, Restoring
<1>5. CASE Remove(t) \/ Clear(t)
  BY <1>5, <1>t, <1>n DEF Locks, Remove, Clear, Call, Goto, Writing, Restoring
<1>6. CASE SweepRound(t)
  BY <1>6, <1>t, <1>w, <1>h, <1>n DEF Locks, SweepRound, End, Leave, NoJob, Goto, Writing, Restoring, CanLock
<1>7. CASE SweepOne(t)
  BY <1>7, <1>t, <1>w, <1>h, <1>n DEF Locks, SweepOne, Writing, Restoring, CanLock
<1>8. CASE Begin(t) \/ Commit(t)
  BY <1>8, <1>t, <1>h, <1>n DEF Locks, Begin, Commit, Idle, CanLock, Writing, Restoring
<1>9. CASE Rollback(t)
  BY <1>9, <1>t, <1>h, <1>n DEF Locks, Rollback, Call, Goto, Idle, CanLock, Writing, Restoring
<1>10. CASE Drain(t) \/ Refill(t) \/ DrainAliases(t)
  BY <1>10, <1>t, <1>w, <1>r, <1>n DEF Locks, Drain, Refill, DrainAliases, Goto, Writing, Restoring, CanLock
<1>11. CASE RefillAliases(t)
  BY <1>11, <1>t, <1>w, <1>n, ContainerAssumption DEF TypeOK, Locks, RefillAliases, End, NoJob, Goto, Writing, Restoring, CanLock
<1>12. CASE Get(t)
  BY <1>12, <1>t, <1>h DEF Locks, Get, Idle, Call, Goto, Writing, Restoring
<1>13. CASE Seek(t) \/ Hop(t) \/ Fetch(t) \/ Make(t)
  BY <1>13, <1>t, <1>h DEF Locks, Seek, Hop, Fetch, Make, Missed, Answer, Goto, Writing, Restoring
<1>14. CASE LookUp(t)
  <2>1. /\ CanLock(t) /\ pc[t] = "wait" /\ UNCHANGED <<store, depth, snapshot, restore>>
        /\ job'[t].op = job[t].op
        /\ \/ pc'[t] \in {"done", "make"} /\ UNCHANGED owner
           \/ pc'[t] = "build" /\ owner' = t
    BY <1>14, <1>t DEF LookUp, Answer, Goto
  <2> QED BY <2>1, <1>h, <1>t, <1>n DEF Locks, Writing, Restoring
<1>15. CASE Build(t)
  BY <1>15, <1>t, <1>w, <1>h, <1>n DEF Locks, Build, Leave, Answer, Goto, Writing, Restoring, CanLock
<1>16. CASE Return(t)
  BY <1>16, <1>t, <1>h DEF Locks, Return, End, NoJob, Goto, Writing, Restoring
<1> QED BY <1>1, <1>2, <1>3, <1>4, <1>5, <1>6, <1>7, <1>8, <1>9, <1>10, <1>11, <1>12, <1>13,
           <1>14, <1>15, <1>16 DEF Write, Read

LEMMA HeldKept ==
    ASSUME ContainerInv, ContainerInv', Held, NEW t \in Threads, Write(t) \/ Read(t), Observe
    PROVE  Held'
<1>1. Locks(t)
  BY StepLocks DEF ContainerInv
<1>2. \A u \in Threads \ {t} : pc'[u] = pc[u] /\ job'[u] = job[u]
  BY Frame
<1>3. /\ published' = IF owner' = None THEN store' ELSE published
      /\ owner' = None => depth' = 0
  BY <1>1 DEF Observe, Locks
<1>4. owner' = None => store' \in Contents /\ Sound(store')
  BY ContainerAssumption DEF ContainerInv, TypeOK, StoreSound, WriterHolds, Writing, Sound
<1>5. ASSUME NEW u \in Threads \ {t}
      PROVE  /\ owner' = u /\ pc'[u] \notin Writing => depth' > 0
             /\ job'[u].op = "rollback" => pc'[u] \in Restoring
             /\ pc'[u] \in Restoring =>
                   job'[u].op = "rollback" \/ (job'[u].op = "clear" /\ restore' = Empty)
  <2>1. pc[u] \in Restoring => owner = u
    BY DEF ContainerInv, WriterHolds, Writing, Restoring
  <2>2. CanLock(t) => owner # u
    BY ContainerAssumption DEF CanLock
  <2>3. owner' = u => owner = u /\ depth' = depth
    BY <1>1, <2>2, ContainerAssumption DEF Locks
  <2>4. pc[u] \in Restoring => restore' = restore
    BY <1>1, <2>1, <2>2 DEF Locks
  <2> QED BY <1>2, <2>3, <2>4 DEF Held
<1> QED BY <1>1, <1>3, <1>4, <1>5 DEF Held, Locks

\* A step that is no bound of a transaction and no clear() saves and drops nothing.
LEMMA SavesNothing ==
    ASSUME ContainerInv, NEW t \in Threads, Write(t) \/ Read(t),
           ~(Begin(t) \/ Commit(t) \/ Rollback(t) \/ RefillAliases(t) \/ Clear(t))
    PROVE  /\ UNCHANGED <<depth, snapshot, restore>>
           /\ Held => (job'[t].op = "rollback" <=> job[t].op = "rollback")
<1>t. pc \in [Threads -> Points]
      /\ job \in [Threads -> [op : Operations, name : Names \cup {None},
                              target : Names \cup {None}, reg : 0..MaxRegs]]
  BY DEF ContainerInv, TypeOK
<1>h. Held => (job[t].op = "rollback" => pc[t] \in Restoring)
  BY DEF Held
<1>1. CASE Register(t) \/ RegisterAlias(t) \/ Remove(t)
  BY <1>1, <1>t, <1>h DEF Register, RegisterAlias, Remove, Idle, Call, Restoring, Registering
<1>2. CASE Unbind(t) \/ Unalias(t) \/ Put(t)
  BY <1>2, <1>t, <1>h DEF Unbind, Unalias, Put, End, NoJob, Restoring
<1>3. CASE RemoveAlias(t) \/ SweepRound(t) \/ SweepOne(t)
  BY <1>3, <1>t, <1>h DEF RemoveAlias, SweepRound, SweepOne, End, NoJob, Restoring
<1>4. CASE Drain(t) \/ Refill(t) \/ DrainAliases(t)
  BY <1>4 DEF Drain, Refill, DrainAliases
<1>5. CASE Get(t) \/ Seek(t) \/ Hop(t) \/ Fetch(t)
  BY <1>5, <1>t, <1>h DEF Get, Seek, Hop, Fetch, Idle, Call, Restoring
<1>6. CASE LookUp(t)
  BY <1>6, <1>t DEF LookUp
<1>7. CASE Build(t) \/ Make(t) \/ Return(t)
  BY <1>7, <1>t, <1>h DEF Build, Make, Return, End, NoJob, Restoring
<1> QED BY <1>1, <1>2, <1>3, <1>4, <1>5, <1>6, <1>7 DEF Write, Read

\* A rollback holds the lock, so there is one.
LEMMA OneRollback ==
    ASSUME ContainerInv, Held, NEW t \in Threads, CanLock(t), NEW u \in Threads \ {t}
    PROVE  job[u].op # "rollback"
<1>1. pc[u] \notin Writing
  BY Alone
<1> QED BY <1>1 DEF Held, Writing, Restoring

LEMMA RecallsKept ==
    ASSUME ContainerInv, ContainerInv', Held, Recalls, NEW t \in Threads, Write(t) \/ Read(t), Observe
    PROVE  Recalls'
<1> SUFFICES ASSUME depth' > 0 PROVE Recalls'
  BY DEF Recalls
<1>l. Locks(t)
  BY StepLocks DEF ContainerInv
<1>p. published' = published
  BY <1>l, ContainerAssumption DEF Observe, Locks, ContainerInv, TypeOK
<1>f. \A u \in Threads \ {t} : job'[u] = job[u]
  BY Frame
<1>o. CanLock(t) => \A u \in Threads \ {t} : job'[u].op # "rollback" /\ job[u].op # "rollback"
  BY <1>f, OneRollback
<1>t. depth \in 0..MaxNest /\ snapshot \in [1..MaxNest -> Contents] /\ MaxNest \in Nat
      /\ pc \in [Threads -> Points]
      /\ job \in [Threads -> [op : Operations, name : Names \cup {None},
                              target : Names \cup {None}, reg : 0..MaxRegs]]
  BY ContainerAssumption DEF ContainerInv, TypeOK
<1>h. job[t].op = "rollback" => pc[t] \in Restoring
  BY DEF Held
<1>1. CASE Begin(t)
  <2>1. CanLock(t) /\ pc[t] = "idle" /\ depth' = depth + 1 /\ depth < MaxNest
        /\ snapshot' = [snapshot EXCEPT ![depth + 1] = store] /\ job' = job
    BY <1>1 DEF Begin, Idle
  <2>2. \A u \in Threads : job'[u].op # "rollback" /\ job[u].op # "rollback"
    BY <1>o, <1>h, <2>1 DEF Restoring
  <2>3. CASE depth = 0
    <3>1. owner = None
      BY <2>1, <2>3 DEF Held, CanLock, Writing
    <3> QED BY <1>p, <1>t, <2>1, <2>2, <2>3, <3>1 DEF Held, Recalls
  <2>4. CASE depth > 0
    BY <1>p, <1>t, <2>1, <2>2, <2>4 DEF Recalls
  <2> QED BY <1>t, <2>3, <2>4
<1>2. CASE Commit(t)
  <2>1. CanLock(t) /\ pc[t] = "idle" /\ depth' = depth - 1 /\ depth > 0
        /\ snapshot' = [snapshot EXCEPT ![depth] = Empty] /\ job' = job
    BY <1>2 DEF Commit, Idle, CanLock
  <2>2. \A u \in Threads : job'[u].op # "rollback" /\ job[u].op # "rollback"
    BY <1>o, <1>h, <2>1 DEF Restoring
  <2> QED BY <1>p, <1>t, <2>1, <2>2 DEF Recalls
<1>3. CASE Rollback(t)
  <2>1. CanLock(t) /\ pc[t] = "idle" /\ depth' = depth /\ depth > 0
        /\ snapshot' = [snapshot EXCEPT ![depth] = Empty] /\ restore' = snapshot[depth]
        /\ job'[t].op = "rollback"
    BY <1>3, <1>t DEF Rollback, Idle, CanLock, Call
  <2>2. \A u \in Threads : job[u].op # "rollback"
    BY <1>o, <1>h, <2>1 DEF Restoring
  <2> QED BY <1>p, <1>t, <1>o, <2>1, <2>2 DEF Recalls
<1>4. CASE RefillAliases(t)
  <2>1. CanLock(t) /\ pc[t] = "refillAliases" /\ snapshot' = snapshot /\ depth' = DepthAfter(t)
        /\ job'[t].op # "rollback"
    BY <1>4, <1>t, HoldsCanLock DEF RefillAliases, End, NoJob, Writing
  <2>2. \A u \in Threads : job'[u].op # "rollback"
    BY <1>o, <2>1
  <2>3. CASE job[t].op = "rollback"
    BY <1>p, <1>t, <2>1, <2>2, <2>3 DEF Recalls, DepthAfter
  <2>4. CASE job[t].op # "rollback"
    BY <1>p, <1>t, <1>o, <2>1, <2>2, <2>4 DEF Recalls, DepthAfter
  <2> QED BY <2>3, <2>4
<1>5. CASE Clear(t)
  <2>1. CanLock(t) /\ pc[t] = "idle" /\ snapshot' = snapshot /\ depth' = depth
        /\ job'[t].op # "rollback"
    BY <1>5, <1>t DEF Clear, Idle, Call
  <2>2. \A u \in Threads : job'[u].op # "rollback" /\ job[u].op # "rollback"
    BY <1>o, <1>h, <2>1 DEF Restoring
  <2> QED BY <1>p, <1>t, <2>1, <2>2 DEF Recalls
<1>6. CASE ~(Begin(t) \/ Commit(t) \/ Rollback(t) \/ RefillAliases(t) \/ Clear(t))
  <2>1. UNCHANGED <<depth, snapshot, restore>> /\ (job'[t].op = "rollback" <=> job[t].op = "rollback")
    BY <1>6, SavesNothing
  <2> QED BY <1>p, <1>t, <1>f, <2>1 DEF Recalls
<1> QED BY <1>1, <1>2, <1>3, <1>4, <1>5, <1>6

\* Outside a transaction a step that does not free the lock only takes away.
LEMMA OnlyTakes ==
    ASSUME ContainerInv, Held, NEW t \in Threads, Write(t) \/ Read(t),
           owner' # None, depth' = 0, NEW n \in Names
    PROVE  /\ store'.instances[n] \in {None, store.instances[n]}
           /\ store'.aliases[n] \in {None, store.aliases[n]}
           /\ depth = 0
<1>t. store \in Contents /\ depth \in Nat /\ pc \in [Threads -> Points]
  BY ContainerAssumption DEF ContainerInv, TypeOK
<1>w. pc[t] \in Writing => owner = t
  BY DEF ContainerInv, WriterHolds
<1>1. CASE Register(t) \/ RegisterAlias(t) \/ Remove(t) \/ SweepRound(t) \/ Clear(t)
  BY <1>1 DEF Register, RegisterAlias, Remove, SweepRound, Clear
<1>2. CASE Unbind(t)
  BY <1>2, <1>t DEF Unbind, Unbound, Contents
<1>3. CASE Unalias(t)
  BY <1>3, <1>t DEF Unalias, Contents
<1>4. CASE Put(t)
  BY <1>4 DEF Put, Leave
<1>5. CASE RemoveAlias(t)
  BY <1>5, <1>t DEF RemoveAlias, Contents
<1>6. CASE SweepOne(t)
  BY <1>6, <1>t DEF SweepOne, Contents
<1>7. CASE Begin(t)
  BY <1>7, <1>t DEF Begin
<1>8. CASE Commit(t)
  BY <1>8 DEF Commit
<1>9. CASE Rollback(t)
  BY <1>9 DEF Rollback
<1>10. CASE Drain(t)
  BY <1>10, <1>t DEF Drain, Contents, Empty
<1>11. CASE Refill(t)
  <2>1. restore = Empty
    <3>1. job[t].op = "rollback" => depth > 0
      BY <1>11 DEF ContainerInv, Restores, Refill
    <3> QED BY <1>11, <1>t, <3>1 DEF Held, Refill, Restoring
  <2> QED BY <1>11, <1>t, <2>1 DEF Refill, Refilled, Contents, Empty
<1>12. CASE DrainAliases(t)
  BY <1>12, <1>t DEF DrainAliases, Contents, Empty
<1>13. CASE RefillAliases(t)
  BY <1>13 DEF RefillAliases
<1>14. CASE Get(t) \/ Seek(t) \/ Hop(t) \/ Fetch(t)
  BY <1>14 DEF Get, Seek, Hop, Fetch
<1>15. CASE LookUp(t) \/ Make(t) \/ Return(t)
  BY <1>15 DEF LookUp, Make, Return
<1>16. CASE Build(t)
  BY <1>16 DEF Build, Leave
<1> QED BY <1>1, <1>2, <1>3, <1>4, <1>5, <1>6, <1>7, <1>8, <1>9, <1>10, <1>11, <1>12, <1>13,
           <1>14, <1>15, <1>16 DEF Write, Read

LEMMA BehindKept ==
    ASSUME ContainerInv, Held, Behind, NEW t \in Threads, Write(t) \/ Read(t), Observe
    PROVE  Behind'
<1> SUFFICES ASSUME owner' # None, depth' = 0, NEW n \in Names
             PROVE  /\ store'.instances[n] # None => published'.instances[n] = store'.instances[n]
                    /\ store'.aliases[n] # None => published'.aliases[n] = store'.aliases[n]
  BY DEF Behind
<1>1. published' = published
  BY DEF Observe
<1>2. /\ store.instances[n] # None => published.instances[n] = store.instances[n]
      /\ store.aliases[n] # None => published.aliases[n] = store.aliases[n]
  BY OnlyTakes DEF Behind, Held
<1> QED BY <1>1, <1>2, OnlyTakes

LEMMA TiedKept == ContainerInv /\ ContainerInv' /\ Tied /\ [Next]_vars => Tied'
<1> SUFFICES ASSUME ContainerInv, ContainerInv', Tied, [Next]_vars PROVE Tied'
  OBVIOUS
<1>1. ASSUME NEW t \in Threads, Write(t) \/ Read(t), Observe
      PROVE  Tied'
  BY <1>1, HeldKept, BehindKept, RecallsKept DEF Tied
<1>2. ASSUME UNCHANGED vars
      PROVE  Tied'
  BY <1>2 DEF vars, code, Tied, Held, Behind, Recalls
<1> QED BY <1>1, <1>2, ContainerAssumption DEF Next

LEMMA TiedInit == Init => Tied
BY EmptySound, ContainerAssumption DEF Init, Tied, Held, Behind, Recalls, NoJob, Restoring

LEMMA AlwaysTied == Spec => [](ContainerInv /\ Tied)
<1>1. ContainerInv /\ Tied /\ [Next]_vars => (ContainerInv /\ Tied)'
  BY TiedKept, NextSound
<1> QED BY <1>1, InitSound, TiedInit, PTL DEF Spec

\* However deep the failed transactions lie in one another, and whatever was
\* registered, removed or built inside them, the outermost one puts back exactly
\* what the container was before it.
THEOREM RollbackRestores == Spec => FailureLeavesNoTrace
<1> DEFINE Exact(t) == job[t].op = "rollback" /\ owner = t /\ owner' = None => store' = published
<1>1. ASSUME ContainerInv, TypeOK', Tied, NEW u \in Threads, Write(u) \/ Read(u), NEW t \in Threads,
             job[t].op = "rollback", owner = t, owner' = None
      PROVE  store' = published
  <2>1. Locks(u)
    BY <1>1, StepLocks DEF Tied
  <2>2. u = t
    BY <1>1, <2>1, ContainerAssumption DEF Locks, CanLock
  <2>3. pc[t] \in Restoring
    BY <1>1 DEF Tied, Held
  <2>4. RefillAliases(t)
    <3>1. ~(Begin(t) \/ Commit(t) \/ Rollback(t) \/ Clear(t))
      BY <2>3 DEF Begin, Commit, Rollback, Clear, Idle, Restoring
    <3>2. ~RefillAliases(t) => FALSE
      <4> SUFFICES ASSUME ~RefillAliases(t) PROVE FALSE
        OBVIOUS
      <4>1. job'[t].op = "rollback" /\ depth' = depth
        BY <1>1, <2>2, <3>1, SavesNothing DEF Tied
      <4>2. depth > 0
        BY <1>1, <2>3 DEF ContainerInv, Restores, Restoring
      <4>3. depth' = 0
        BY <1>1, <2>1 DEF Locks
      <4> QED BY <4>1, <4>2, <4>3
    <3> QED BY <3>2
  <2>5. depth = 1
    <3>1. depth - 1 = 0 /\ depth \in Nat
      BY <1>1, <2>1, <2>4, ContainerAssumption DEF Locks, RefillAliases, DepthAfter, ContainerInv, TypeOK
    <3> QED BY <3>1
  <2>6. restore = published
    BY <1>1, <2>5 DEF Tied, Recalls
  <2>7. /\ store.instances = restore.instances /\ store.factories = restore.factories
        /\ store.transient = restore.transient
    BY <1>1, <2>4 DEF ContainerInv, Restores, RefillAliases
  <2>8. store' = restore
    BY <1>1, <2>4, <2>7 DEF RefillAliases, ContainerInv, TypeOK, Contents
  <2> QED BY <2>6, <2>8
<1>2. ContainerInv /\ ContainerInv' /\ Tied /\ [Next]_vars => [\A t \in Threads : Exact(t)]_vars
  BY <1>1, ContainerAssumption DEF Next, ContainerInv
<1>3. [](ContainerInv /\ Tied) /\ [][Next]_vars => [][\A t \in Threads : Exact(t)]_vars
  BY <1>2, PTL
<1> QED BY <1>3, AlwaysTied, PTL DEF Spec, FailureLeavesNoTrace

-----------------------------------------------------------------------------
(* Singletons *)

\* A factory stands under one name, and is one of the first k registered.
Numbered(c, k) ==
    \A n \in Names : c.factories[n] # None =>
        /\ c.factories[n] <= k
        /\ \A m \in Names : c.factories[m] = c.factories[n] => m = n

\* Where a factory stands without a product, all it ever made was forgotten.
Counted(c, made, lost) ==
    \A n \in Names : c.factories[n] # None /\ c.instances[n] = None =>
        made[c.factories[n]] <= lost[c.factories[n]]

\* A registration that is under way is new, and no product of it exists.
Fresh(t) ==
    /\ job[t].reg <= regs
    /\ built[job[t].reg] = 0
    /\ \A n \in Names : store.factories[n] # job[t].reg

\* What a call that writes knows of the factories.
Minds(t) ==
    /\ pc[t] \in {"drain", "refill"} => Counted(restore, built, forgotten)
    /\ pc[t] \in Setting /\ job[t].op \in Registering => Fresh(t)

\* Between the halves of a restoration the products are out of the store.
Refilling == \E t \in Threads : pc[t] = "refill"

Once ==
    /\ forgotten \in [Regs -> 0..MaxBuilt]
    /\ SingletonOnce
    /\ \A r \in Regs : r > regs => built[r] = 0
    /\ Numbered(store, regs) /\ Numbered(restore, regs)
    /\ \A i \in 1..MaxNest : Numbered(snapshot[i], regs)
    /\ Refilling \/ Counted(store, built, forgotten)
    /\ \A t \in Threads : Minds(t)

LEMMA EmptyCounted ==
    ASSUME NEW k, NEW made, NEW lost
    PROVE  Numbered(Empty, k) /\ Counted(Empty, made, lost)
BY DEF Numbered, Counted, Empty

\* Containers with the same factories, and no fewer products, pass alike.
LEMMA NumberedAlike ==
    ASSUME NEW c, NEW d, NEW k, Numbered(c, k), \A n \in Names : d.factories[n] \in {None, c.factories[n]}
    PROVE  Numbered(d, k)
BY DEF Numbered

LEMMA NumberedMore ==
    ASSUME NEW c \in Contents, NEW k \in Nat, Numbered(c, k)
    PROVE  Numbered(c, k + 1)
BY DEF Numbered, Contents, Regs

LEMMA CountedAlike ==
    ASSUME NEW c, NEW d, NEW made, NEW lost, Counted(c, made, lost),
           \A n \in Names : \/ d.factories[n] = None
                            \/ d.instances[n] # None
                            \/ d.factories[n] = c.factories[n] /\ c.instances[n] = None
    PROVE  Counted(d, made, lost)
BY DEF Counted

\* The observer only ever writes off what there is.
LEMMA WritesOff ==
    ASSUME ContainerInv, Once, Observe
    PROVE  /\ forgotten' \in [Regs -> 0..MaxBuilt]
           /\ \A r \in Regs : forgotten'[r] \in {built[r], forgotten[r]}
<1>1. forgotten' = [r \in Regs |->
          IF /\ \E t \in Threads : pc[t] = "idle" /\ pc'[t] = "drain" /\ job'[t].op = "rollback"
             /\ \E n \in Names : restore'.factories[n] = r /\ restore'.instances[n] = None
          THEN built[r] ELSE forgotten[r]]
  BY DEF Observe
<1>2. \A r \in Regs : forgotten'[r] \in {built[r], forgotten[r]}
  BY <1>1
<1>3. \A r \in Regs : built[r] \in 0..MaxBuilt /\ forgotten[r] \in 0..MaxBuilt
  BY DEF ContainerInv, TypeOK, Once
<1> QED BY <1>1, <1>2, <1>3

LEMMA CountedStays ==
    ASSUME ContainerInv, Once, Observe, NEW c \in Contents, Counted(c, built, forgotten), UNCHANGED built
    PROVE  Counted(c, built', forgotten')
<1> SUFFICES ASSUME NEW n \in Names, c.factories[n] # None, c.instances[n] = None
             PROVE  built'[c.factories[n]] <= forgotten'[c.factories[n]]
  BY DEF Counted
<1>1. c.factories[n] \in Regs
  BY DEF Contents
<1>2. built[c.factories[n]] <= forgotten[c.factories[n]] /\ built[c.factories[n]] \in Nat
  BY <1>1 DEF Counted, ContainerInv, TypeOK
<1> QED BY <1>1, <1>2, WritesOff

\* A step of t keeps Once if it keeps the parts that it can disturb.
LEMMA OnceStep ==
    ASSUME ContainerInv, Once, Observe, NEW t \in Threads, Write(t) \/ Read(t),
           CanLock(t) \/ UNCHANGED <<store, restore, built, regs>>,
           SingletonOnce',
           (\A r \in Regs : r > regs => built[r] = 0)',
           Numbered(store', regs'), Numbered(restore', regs'),
           \A i \in 1..MaxNest : Numbered(snapshot'[i], regs'),
           Refilling' \/ Counted(store', built', forgotten'),
           Minds(t)'
    PROVE  Once'
<1>1. ASSUME NEW u \in Threads \ {t}
      PROVE  Minds(u)'
  <2>1. pc'[u] = pc[u] /\ job'[u] = job[u]
    BY Frame
  <2>2. CASE CanLock(t)
    <3>1. pc'[u] \notin Writing
      BY <2>1, <2>2, Alone
    <3> QED BY <3>1 DEF Minds, Writing, Setting
  <2>3. CASE UNCHANGED <<store, restore, built, regs>>
    <3>1. Minds(u) /\ restore \in Contents
      BY DEF Once, ContainerInv, TypeOK
    <3>2. pc[u] \in {"drain", "refill"} => Counted(restore', built', forgotten')
      BY <2>3, <3>1, CountedStays DEF Minds
    <3> QED BY <2>1, <2>3, <3>1, <3>2 DEF Minds, Fresh
  <2> QED BY <2>2, <2>3
<1>2. forgotten' \in [Regs -> 0..MaxBuilt]
  BY WritesOff
<1> QED BY <1>1, <1>2 DEF Once

LEMMA OnceStays ==
    ASSUME ContainerInv, Once, Observe, UNCHANGED built
    PROVE  SingletonOnce'
<1>1. \A r \in Regs : built[r] \in Nat /\ forgotten[r] \in Nat /\ built[r] <= forgotten[r] + 1
  BY DEF ContainerInv, TypeOK, Once, SingletonOnce
<1> QED BY <1>1, WritesOff DEF SingletonOnce

\* A step that registers, saves, restores and builds nothing, and takes no
\* instance without its factory.
LEMMA PlainStep ==
    ASSUME ContainerInv, ContainerInv', Once, Observe, NEW t \in Threads, Write(t) \/ Read(t),
           CanLock(t) \/ UNCHANGED store,
           UNCHANGED <<restore, snapshot, built, regs>>,
           \A n \in Names : store'.factories[n] \in {None, store.factories[n]},
           \A n \in Names : \/ store'.factories[n] = None
                            \/ store'.instances[n] # None
                            \/ store.instances[n] = None,
           pc[t] # "refill",
           Minds(t)'
    PROVE  Once'
<1>1. SingletonOnce'
  BY OnceStays
<1>2. Numbered(store', regs')
  BY NumberedAlike DEF Once
<1>3. ASSUME Counted(store, built, forgotten)
      PROVE  Counted(store', built', forgotten')
  <2>1. Counted(store', built, forgotten)
    BY <1>3, CountedAlike
  <2> QED BY <2>1, CountedStays DEF ContainerInv, TypeOK
<1>4. Refilling => Refilling'
  BY Frame DEF Refilling
<1> QED BY <1>1, <1>2, <1>3, <1>4, OnceStep DEF Once

\* The types that the steps are calculated in.
LEMMA OnceTypes ==
    ASSUME ContainerInv
    PROVE  /\ store \in Contents /\ restore \in Contents /\ snapshot \in [1..MaxNest -> Contents]
           /\ pc \in [Threads -> Points] /\ regs \in Nat /\ depth \in 0..MaxNest /\ MaxNest \in Nat
           /\ job \in [Threads -> [op : Operations, name : Names \cup {None},
                                   target : Names \cup {None}, reg : 0..MaxRegs]]
           /\ built \in [Regs -> 0..MaxBuilt] /\ MaxBuilt \in Nat
           /\ None \notin Nat /\ None \notin Names
BY ContainerAssumption DEF ContainerInv, TypeOK

LEMMA RegisterOnce ==
    ASSUME ContainerInv, ContainerInv', Once, Observe, NEW t \in Threads, Register(t)
    PROVE  Once'
<1>1. /\ CanLock(t) /\ regs' = regs + 1 /\ UNCHANGED <<store, restore, snapshot, built>>
      /\ pc[t] = "idle" /\ pc'[t] = "unbind" /\ job'[t].reg = regs + 1 /\ regs + 1 \in Regs
  BY OnceTypes, ContainerAssumption DEF Register, Idle, Call, Goto, Regs
<1>2. SingletonOnce'
  BY <1>1, OnceStays
<1>3. /\ Numbered(store, regs + 1) /\ Numbered(restore, regs + 1)
      /\ \A i \in 1..MaxNest : Numbered(snapshot[i], regs + 1)
  BY NumberedMore, OnceTypes DEF Once
<1>4. Refilling' \/ Counted(store', built', forgotten')
  <2>1. Refilling => FALSE
    BY <1>1, Alone DEF Refilling, Writing
  <2> QED BY <1>1, <2>1, CountedStays, OnceTypes DEF Once
<1>5. Minds(t)'
  <2>1. built[regs + 1] = 0
    BY <1>1, OnceTypes DEF Once
  <2>2. \A n \in Names : store.factories[n] # regs + 1
    <3> SUFFICES ASSUME NEW n \in Names, store.factories[n] = regs + 1 PROVE FALSE
      OBVIOUS
    <3>1. store.factories[n] <= regs
      BY OnceTypes DEF Once, Numbered
    <3> QED BY <3>1, OnceTypes
  <2> QED BY <1>1, <2>1, <2>2, OnceTypes DEF Minds, Fresh
<1>6. (\A r \in Regs : r > regs => built[r] = 0)'
  BY <1>1, OnceTypes DEF Once, Regs
<1> QED BY <1>1, <1>2, <1>3, <1>4, <1>5, <1>6, OnceStep DEF Write

LEMMA PutOnce ==
    ASSUME ContainerInv, ContainerInv', Once, Observe, NEW t \in Threads, Put(t)
    PROVE  Once'
<1> DEFINE n == job[t].name
           r == job[t].reg
<1>1. /\ CanLock(t) /\ UNCHANGED <<regs, restore, snapshot, built>> /\ store' = With(store, job[t])
      /\ pc[t] = "put" /\ pc'[t] = "idle"
  BY OnceTypes, HoldsCanLock DEF Put, End, Goto, Writing
<1>2. /\ n \in Names /\ job[t].op \in Registering \cup {"alias"}
      /\ job[t].op \in Registering => r \in Regs /\ Fresh(t)
      /\ store.instances[n] = None /\ store.factories[n] = None
  BY <1>1 DEF ContainerInv, Registers, Once, Minds, Setting
<1>3. ~Refilling
  BY <1>1, Alone DEF Refilling, Writing
<1>4. Minds(t)'
  BY <1>1 DEF Minds, Setting
<1>5. Counted(store, built, forgotten) /\ Numbered(store, regs)
  BY <1>3 DEF Once
<1>6. CASE job[t].op \in {"singleton", "transient"}
  <2>1. /\ \A m \in Names \ {n} : store'.factories[m] = store.factories[m] /\ store'.instances[m] = store.instances[m]
        /\ store'.factories[n] = r
    BY <1>1, <1>2, <1>6, OnceTypes DEF With, Contents
  <2>2. Numbered(store', regs')
    BY <1>1, <1>2, <1>5, <1>6, <2>1 DEF Numbered, Fresh, Registering
  <2>3. Counted(store', built, forgotten)
    <3>1. built[r] <= forgotten[r]
      BY <1>2, <1>6 DEF Once, Fresh, Registering
    <3> QED BY <1>5, <2>1, <3>1 DEF Counted
  <2>4. Counted(store', built', forgotten')
    BY <1>1, <2>3, CountedStays DEF ContainerInv, TypeOK
  <2> QED BY <1>1, <1>4, <2>2, <2>4, OnceStays, OnceStep DEF Write, Once
<1>7. CASE job[t].op \in {"instance", "alias"}
  <2>1. \A m \in Names : store'.factories[m] = store.factories[m]
                         /\ store'.instances[m] \in {store.instances[m], r}
    BY <1>1, <1>2, <1>7, OnceTypes DEF With, Contents
  <2>2. job[t].op = "instance" => r # None
    BY <1>2, OnceTypes DEF Registering, Regs
  <2>3. \A m \in Names : store'.instances[m] # None \/ store.instances[m] = None
    BY <1>1, <1>2, <1>7, <2>2, OnceTypes DEF With, Contents
  <2> QED BY <1>1, <1>4, <2>1, <2>3, PlainStep DEF Write
<1> QED BY <1>2, <1>6, <1>7 DEF Registering

\* The steps that take something away, or change an alias.
LEMMA TakeOnce ==
    ASSUME ContainerInv, ContainerInv', Once, Observe, NEW t \in Threads,
           Unbind(t) \/ Unalias(t) \/ RemoveAlias(t) \/ SweepOne(t) \/ DrainAliases(t)
    PROVE  Once'
<1>1. /\ CanLock(t) /\ UNCHANGED <<regs, restore, snapshot, built, job>> /\ Write(t) /\ pc[t] # "refill"
  BY HoldsCanLock DEF Unbind, Unalias, RemoveAlias, SweepOne, DrainAliases, Idle, Writing, Write
<1>2. \A n \in Names : /\ store'.factories[n] \in {None, store.factories[n]}
                       /\ \/ store'.factories[n] = None
                          \/ store'.instances[n] = store.instances[n]
  <2>1. CASE Unbind(t)
    BY <2>1, OnceTypes DEF Unbind, Unbound, Contents
  <2>2. CASE Unalias(t)
    BY <2>2, OnceTypes DEF Unalias, Contents
  <2>3. CASE RemoveAlias(t)
    BY <2>3, OnceTypes DEF RemoveAlias, Contents
  <2>4. CASE SweepOne(t)
    BY <2>4, OnceTypes DEF SweepOne, Contents
  <2>5. CASE DrainAliases(t)
    BY <2>5, OnceTypes DEF DrainAliases, Contents
  <2> QED BY <2>1, <2>2, <2>3, <2>4, <2>5
<1>3. Minds(t)'
  <2>1. pc'[t] \notin {"drain", "refill"} /\ (pc'[t] \in Setting => pc[t] \in Setting)
    BY OnceTypes DEF Unbind, Unalias, RemoveAlias, SweepOne, DrainAliases, Goto, Setting, Idle
  <2>2. pc[t] \in Setting /\ job[t].op \in Registering => Fresh(t) /\ job[t].reg \in Regs
    BY DEF Once, Minds, ContainerInv, Registers, Setting
  <2>3. ASSUME pc'[t] \in Setting, job'[t].op \in Registering
        PROVE  Fresh(t)'
    BY <1>1, <1>2, <2>1, <2>2, <2>3, OnceTypes DEF Fresh, Regs
  <2> QED BY <2>1, <2>3 DEF Minds
<1> QED BY <1>1, <1>2, <1>3, PlainStep

\* The steps that leave the dictionaries and what is saved alone.
LEMMA LookOnce ==
    ASSUME ContainerInv, ContainerInv', Once, Observe, NEW t \in Threads, Write(t) \/ Read(t),
           UNCHANGED <<store, regs, restore, snapshot, built>>,
           pc[t] # "refill", pc'[t] \notin Setting,
           pc'[t] \notin {"drain", "refill"}
    PROVE  Once'
<1>1. Minds(t)'
  BY DEF Minds
<1>2. \A n \in Names : \/ store'.factories[n] = None
                       \/ store'.instances[n] # None
                       \/ store.instances[n] = None
  OBVIOUS
<1> QED BY <1>1, <1>2, PlainStep

LEMMA RestOnce ==
    ASSUME ContainerInv, ContainerInv', Once, Observe, NEW t \in Threads,
           SweepRound(t) \/ Get(t) \/ Seek(t) \/ Hop(t) \/ Fetch(t) \/ LookUp(t) \/ Make(t) \/ Return(t)
    PROVE  Once'
<1>1. Write(t) \/ Read(t)
  BY DEF Write, Read
<1>2. UNCHANGED <<store, regs, restore, snapshot, built>>
  BY DEF SweepRound, Get, Seek, Hop, Fetch, LookUp, Make, Return
<1>3. pc[t] # "refill"
  BY DEF SweepRound, Get, Seek, Hop, Fetch, LookUp, Make, Return, Idle
<1>4. pc'[t] \in {"sweep", "idle", "seek", "hop", "fetch", "wait", "build", "make", "done"}
  <2>1. CASE SweepRound(t) \/ Get(t) \/ Return(t)
    BY <2>1, OnceTypes DEF SweepRound, Get, Return, End, Goto
  <2>2. CASE Seek(t) \/ Hop(t) \/ Fetch(t) \/ Make(t)
    BY <2>2, OnceTypes DEF Seek, Hop, Fetch, Make, Missed, Answer, Goto
  <2>3. CASE LookUp(t)
    BY <2>3, OnceTypes DEF LookUp, Answer, Goto
  <2> QED BY <2>1, <2>2, <2>3
<1> QED BY <1>1, <1>2, <1>3, <1>4, LookOnce DEF Setting

LEMMA RegisterAliasOnce ==
    ASSUME ContainerInv, ContainerInv', Once, Observe, NEW t \in Threads, RegisterAlias(t) \/ Remove(t)
    PROVE  Once'
<1>1. /\ UNCHANGED <<store, regs, restore, snapshot, built>>
      /\ pc[t] = "idle" /\ pc'[t] = "unbind" /\ job'[t].op \in {"alias", "remove"}
  BY OnceTypes DEF RegisterAlias, Remove, Idle, Call, Goto
<1>2. Minds(t)'
  BY <1>1 DEF Minds, Registering
<1>3. \A n \in Names : \/ store'.factories[n] = None
                       \/ store'.instances[n] # None
                       \/ store.instances[n] = None
  BY <1>1
<1> QED BY <1>1, <1>2, <1>3, PlainStep DEF Write

\* With the lock in reach no other thread is in the middle of a restoration.
LEMMA NotRefilling ==
    ASSUME ContainerInv, NEW t \in Threads, CanLock(t), pc[t] # "refill"
    PROVE  ~Refilling
BY Alone DEF Refilling, Writing

LEMMA BoundsOnce ==
    ASSUME ContainerInv, ContainerInv', Once, Observe, NEW t \in Threads,
           Begin(t) \/ Commit(t) \/ Rollback(t) \/ Clear(t)
    PROVE  Once'
<1>1. /\ CanLock(t) /\ UNCHANGED <<store, regs, built>> /\ Write(t) /\ pc[t] = "idle"
  BY DEF Begin, Commit, Rollback, Clear, Idle, CanLock, Write
<1>2. Numbered(store', regs') /\ Counted(store', built', forgotten')
  BY <1>1, NotRefilling, CountedStays, OnceTypes DEF Once
<1>3. \A i \in 1..MaxNest : Numbered(snapshot[i], regs)
  BY DEF Once
<1>4. \A i \in 1..MaxNest : Numbered(snapshot'[i], regs')
  <2>1. CASE Begin(t)
    BY <1>1, <1>3, <2>1, OnceTypes DEF Begin, Once
  <2>2. CASE Commit(t) \/ Rollback(t)
    BY <1>1, <1>3, <2>2, OnceTypes, EmptyCounted DEF Commit, Rollback
  <2>3. CASE Clear(t)
    BY <1>1, <1>3, <2>3 DEF Clear
  <2> QED BY <2>1, <2>2, <2>3
<1>5. Numbered(restore', regs')
  <2>1. CASE Begin(t) \/ Commit(t)
    BY <1>1, <2>1 DEF Begin, Commit, Once
  <2>2. CASE Rollback(t)
    <3>1. depth \in 1..MaxNest
      BY <2>2, OnceTypes DEF Rollback
    <3> QED BY <1>1, <1>3, <2>2, <3>1 DEF Rollback
  <2>3. CASE Clear(t)
    BY <2>3, EmptyCounted DEF Clear
  <2> QED BY <2>1, <2>2, <2>3
<1>6. Minds(t)'
  <2>1. CASE Begin(t) \/ Commit(t)
    BY <1>1, <2>1 DEF Begin, Commit, Minds, Setting
  <2>2. CASE Clear(t)
    <3>1. pc'[t] = "drain" /\ restore' = Empty
      BY <2>2, OnceTypes DEF Clear, Goto
    <3> QED BY <3>1, EmptyCounted DEF Minds, Setting
  <2>3. CASE Rollback(t)
    <3>1. pc'[t] = "drain" /\ job'[t].op = "rollback" /\ restore' \in Contents
      BY <2>3, OnceTypes DEF Rollback, Goto, Call, ContainerInv, TypeOK
    <3>2. ASSUME NEW n \in Names, restore'.factories[n] # None, restore'.instances[n] = None
          PROVE  built'[restore'.factories[n]] <= forgotten'[restore'.factories[n]]
      <4>1. restore'.factories[n] \in Regs
        BY <3>1, <3>2 DEF Contents
      <4>2. forgotten'[restore'.factories[n]] = built[restore'.factories[n]]
        BY <1>1, <3>1, <3>2, <4>1 DEF Observe
      <4>3. built[restore'.factories[n]] \in Nat
        BY <4>1, OnceTypes
      <4> QED BY <1>1, <4>2, <4>3
    <3>3. Counted(restore', built', forgotten')
      BY <3>2 DEF Counted
    <3> QED BY <3>1, <3>3 DEF Minds, Setting
  <2> QED BY <2>1, <2>2, <2>3
<1> QED BY <1>1, <1>2, <1>4, <1>5, <1>6, OnceStays, OnceStep DEF Once

LEMMA RestoreOnce ==
    ASSUME ContainerInv, ContainerInv', Once, Observe, NEW t \in Threads,
           Drain(t) \/ Refill(t) \/ RefillAliases(t)
    PROVE  Once'
<1>1. /\ CanLock(t) /\ UNCHANGED <<snapshot, regs, built>> /\ Write(t)
      /\ pc[t] \in {"drain", "refill", "refillAliases"}
  BY HoldsCanLock DEF Drain, Refill, RefillAliases, Writing, Write
<1>2. Numbered(store, regs) /\ Numbered(restore, regs) /\ Minds(t)
  BY DEF Once
<1>3. CASE Drain(t)
  <2>1. pc'[t] = "refill" /\ restore' = restore /\ store'.factories = store.factories
    BY <1>3, OnceTypes DEF Drain, Goto, Contents
  <2>2. Numbered(store', regs')
    BY <1>1, <1>2, <2>1, NumberedAlike
  <2>3. Minds(t)' /\ Refilling'
    BY <1>1, <1>2, <1>3, <2>1, CountedStays, OnceTypes DEF Minds, Setting, Drain, Refilling
  <2> QED BY <1>1, <1>2, <2>1, <2>2, <2>3, OnceStays, OnceStep DEF Once
<1>4. CASE Refill(t)
  <2>1. /\ pc'[t] = "drainAliases" /\ restore' = restore /\ store'.factories = restore.factories
        /\ store'.instances = restore.instances
    BY <1>4, OnceTypes DEF Refill, Refilled, Goto, Contents
  <2>2. Numbered(store', regs') /\ Counted(store', built, forgotten)
    BY <1>1, <1>2, <1>4, <2>1 DEF Numbered, Counted, Minds, Refill
  <2>3. Counted(store', built', forgotten')
    BY <1>1, <2>2, CountedStays DEF ContainerInv, TypeOK
  <2>4. Minds(t)'
    BY <2>1 DEF Minds, Setting
  <2> QED BY <1>1, <1>2, <2>1, <2>2, <2>3, <2>4, OnceStays, OnceStep DEF Once
<1>5. CASE RefillAliases(t)
  <2>1. /\ pc'[t] = "idle" /\ restore' = Empty /\ store'.factories = store.factories
        /\ store'.instances = store.instances /\ pc[t] = "refillAliases"
    BY <1>5, OnceTypes DEF RefillAliases, End, Goto, Contents
  <2>2. Numbered(store', regs') /\ Counted(store', built, forgotten)
    BY <1>1, <1>2, <2>1, NotRefilling DEF Numbered, Counted, Once
  <2>3. Counted(store', built', forgotten')
    BY <1>1, <2>2, CountedStays DEF ContainerInv, TypeOK
  <2>4. Minds(t)' /\ Numbered(restore', regs')
    BY <2>1, EmptyCounted DEF Minds, Setting
  <2> QED BY <1>1, <1>2, <2>1, <2>2, <2>3, <2>4, OnceStays, OnceStep DEF Once
<1> QED BY <1>3, <1>4, <1>5

LEMMA BuildOnce ==
    ASSUME ContainerInv, ContainerInv', Once, Observe, NEW t \in Threads, Build(t)
    PROVE  Once'
<1> DEFINE n == walk[t].at
           r == job[t].reg
<1>1. /\ CanLock(t) /\ UNCHANGED <<snapshot, regs, restore>> /\ Read(t)
      /\ pc[t] = "build" /\ pc'[t] = "done"
  BY HoldsCanLock, OnceTypes DEF Build, Answer, Goto, Writing, Read
<1>2. n \in Names /\ r \in Regs /\ store.factories[n] = r /\ store.instances[n] = None
  BY <1>1 DEF ContainerInv, Gets
<1>3. CASE UNCHANGED <<store, built>>
  BY <1>1, <1>3, LookOnce DEF Setting
<1>4. CASE /\ built' = [built EXCEPT ![r] = @ + 1]
           /\ store' = [store EXCEPT !.instances[n] = r]
  <2>1. Numbered(store, regs) /\ Counted(store, built, forgotten) /\ r # None
    BY <1>1, <1>2, NotRefilling, OnceTypes DEF Once, Regs
  <2>2. built[r] <= forgotten[r] /\ r <= regs
    BY <1>2, <2>1 DEF Counted, Numbered
  <2>3. /\ built'[r] = built[r] + 1 /\ \A s \in Regs \ {r} : built'[s] = built[s]
        /\ \A s \in Regs : built[s] \in Nat /\ forgotten[s] \in Nat
    BY <1>2, <1>4, OnceTypes DEF Once
  <2>4. SingletonOnce'
    BY <2>2, <2>3, WritesOff DEF Once, SingletonOnce
  <2>5. (\A s \in Regs : s > regs => built[s] = 0)'
    BY <1>1, <2>2, <2>3, OnceTypes DEF Once, Regs
  <2>6. /\ store'.factories = store.factories /\ store'.instances[n] = r
        /\ \A m \in Names \ {n} : store'.instances[m] = store.instances[m]
    BY <1>2, <1>4, OnceTypes DEF Contents
  <2>7. Numbered(store', regs')
    BY <1>1, <2>1, <2>6, NumberedAlike
  <2>8. ASSUME NEW m \in Names, store'.factories[m] # None, store'.instances[m] = None
        PROVE  built'[store'.factories[m]] <= forgotten'[store'.factories[m]]
    <3>1. m # n /\ store.instances[m] = None /\ store.factories[m] # None
      BY <2>1, <2>6, <2>8
    <3>2. store.factories[m] # r /\ store.factories[m] \in Regs
      BY <1>2, <2>1, <3>1, OnceTypes DEF Numbered, Contents
    <3>3. built[store.factories[m]] <= forgotten[store.factories[m]]
      BY <2>1, <3>1 DEF Counted
    <3> QED BY <2>3, <2>6, <3>2, <3>3, WritesOff
  <2>9. Counted(store', built', forgotten')
    BY <2>8 DEF Counted
  <2>10. Minds(t)'
    BY <1>1 DEF Minds, Setting
  <2> QED BY <1>1, <2>4, <2>5, <2>7, <2>9, <2>10, OnceStep DEF Once
<1> QED BY <1>3, <1>4 DEF Build

LEMMA OnceKept == ContainerInv /\ ContainerInv' /\ Once /\ [Next]_vars => Once'
<1> SUFFICES ASSUME ContainerInv, ContainerInv', Once, [Next]_vars PROVE Once'
  OBVIOUS
<1>1. ASSUME NEW t \in Threads, Write(t), Observe
      PROVE  Once'
  BY <1>1, RegisterOnce, RegisterAliasOnce, TakeOnce, PutOnce, RestOnce, BoundsOnce, RestoreOnce DEF Write
<1>2. ASSUME NEW t \in Threads, Read(t), Observe
      PROVE  Once'
  BY <1>2, RestOnce, BuildOnce DEF Read
<1>3. ASSUME UNCHANGED vars
      PROVE  Once'
  BY <1>3 DEF vars, code, Once, SingletonOnce, Refilling, Minds, Fresh
<1> QED BY <1>1, <1>2, <1>3, ContainerAssumption DEF Next

LEMMA OnceInit == Init => Once
BY EmptyCounted, ContainerAssumption
   DEF Init, Once, SingletonOnce, Minds, Setting, Regs

\* However many threads race for it in get(), and whatever is registered, removed,
\* cleared and rolled back meanwhile, a singleton's factory makes one product.
THEOREM FactoryRunsOnce == Spec => []SingletonOnce
<1>1. ContainerInv /\ Once /\ [Next]_vars => (ContainerInv /\ Once)'
  BY OnceKept, NextSound
<1>2. Once => SingletonOnce
  BY DEF Once
<1> QED BY <1>1, <1>2, InitSound, OnceInit, PTL DEF Spec

-----------------------------------------------------------------------------
(* What get() tells *)

\* A look without the lock is on its way from the name along the aliases, and
\* each alias that it has seen leads to where it is.
Walks(t) ==
    LET al == store.aliases
        at == walk[t].at IN
    /\ at \in Reach(job[t].name, al)
    /\ \A s \in walk[t].seen :
          al[s] # None /\ (at \in Reach(al[s], al) \/ (pc[t] = "hop" /\ s = at))
    /\ pc[t] = "hop" => al[at] # None
    /\ pc[t] = "fetch" => al[at] = None

\* What the name stands for now is among what it has stood for; while nothing
\* disturbs the call, it walks, and it answers, by that.
Asked(t) ==
    Asking(t) =>
        /\ Meaning(Visible(t), job[t].name) \in meant[t]
        /\ pc[t] \in {"build", "make"} => job[t].reg \in meant[t]
        /\ ~disturbed[t] =>
              /\ owner \in {t, None} \/ depth = 0
              /\ pc[t] \in {"seek", "hop", "fetch"} => Walks(t)
              /\ pc[t] = "done" =>
                    /\ result[t].kind = "object" => result[t].reg \in meant[t]
                    /\ result[t].kind = "missing" => None \in meant[t]
                    /\ result[t].kind # "cycle"

Told == \A t \in Threads : Asked(t)

\* One step along the aliases, and then the rest of the way.
LEMMA ReachSteps ==
    ASSUME NEW al \in AliasMap, NEW n \in Names, NEW m \in Reach(n, al)
    PROVE  /\ al[m] # None => al[m] \in Reach(n, al)
           /\ m # n => al[n] # None /\ m \in Reach(al[n], al)
<1>1. al[m] # None => al[m] \in Reach(n, al)
  BY ReachCloses DEF Closed
<1>2. ASSUME al[n] = None
      PROVE  m = n
  <2>1. {n} \in SUBSET Names /\ Closed({n}, al)
    BY <1>2 DEF Closed
  <2> QED BY <2>1, ReachCloses
<1>3. ASSUME al[n] # None, m # n
      PROVE  m \in Reach(al[n], al)
  <2>1. al[n] \in Names
    BY <1>3 DEF AliasMap
  <2> DEFINE R == Reach(al[n], al)
  <2>2. R \in SUBSET Names /\ Closed(R, al) /\ al[n] \in R
    BY <2>1, ReachCloses
  <2>3. {n} \cup R \in SUBSET Names /\ Closed({n} \cup R, al)
    BY <2>2 DEF Closed
  <2> QED BY <1>3, <2>3, ReachCloses
<1> QED BY <1>1, <1>2, <1>3

\* Without a cycle an alias is not within reach of its own target.
LEMMA NoWayBack ==
    ASSUME NEW al \in AliasMap, Acyclic(al), NEW a \in Names, al[a] # None
    PROVE  a \notin Reach(al[a], al)
<1> SUFFICES ASSUME a \in Reach(al[a], al) PROVE FALSE
  OBVIOUS
<1> DEFINE S == {m \in Names : a \in Reach(m, al)}
<1>1. al[a] \in S
  BY DEF AliasMap
<1>2. PICK m \in S : al[m] \notin S
  BY <1>1 DEF Acyclic
<1>3. m # a
  BY <1>1, <1>2
<1>4. al[m] # None /\ a \in Reach(al[m], al)
  BY <1>2, <1>3, ReachSteps
<1>5. al[m] \in Names
  BY <1>2, <1>4 DEF AliasMap
<1> QED BY <1>2, <1>4, <1>5

\* A name leads to one name that is no alias.
LEMMA OneEnd ==
    ASSUME NEW al \in AliasMap, NEW n \in Names, NEW m \in Reach(n, al), NEW k \in Reach(n, al),
           al[m] = None, al[k] = None
    PROVE  m = k
<1> DEFINE T == {x \in Reach(n, al) : m \in Reach(x, al)}
<1>1. T \in SUBSET Names /\ n \in T
  BY ReachCloses
<1>2. ASSUME NEW x \in T, al[x] # None
      PROVE  al[x] \in T
  <2>1. al[x] \in Reach(n, al)
    BY <1>2, ReachCloses DEF Closed
  <2>2. m \in Reach(al[x], al)
    BY <1>1, <1>2, ReachSteps
  <2> QED BY <2>1, <2>2
<1>3. Closed(T, al)
  BY <1>2 DEF Closed
<1>4. k \in T
  BY <1>1, <1>3, ReachCloses
<1> QED BY <1>1, <1>4, ReachSteps

LEMMA ResolveIs ==
    ASSUME NEW al \in AliasMap, NEW n \in Names, NEW m \in Reach(n, al), al[m] = None
    PROVE  Resolve(n, al) = m
BY OneEnd DEF Resolve

\* More aliases reach further.
LEMMA MoreReach ==
    ASSUME NEW al \in AliasMap, NEW more \in AliasMap, NEW n \in Names,
           \A m \in Names : al[m] # None => more[m] = al[m]
    PROVE  Reach(n, al) \subseteq Reach(n, more)
<1>1. ASSUME NEW S \in SUBSET Names, Closed(S, more)
      PROVE  Closed(S, al)
  BY <1>1 DEF Closed
<1> QED BY <1>1 DEF Reach

\* What a thread may take for the contents, in terms of the store.
LEMMA VisibleIs ==
    ASSUME Tied, NEW t \in Threads, CanLock(t)
    PROVE  Visible(t) = store
BY DEF Tied, Held, CanLock, Visible

\* An instance that is found without the lock, outside of other threads'
\* transactions, is what the name stands for in what is visible.
LEMMA FoundIsMeant ==
    ASSUME ContainerInv, Tied, NEW t \in Threads, NEW n \in Names, NEW at \in Names,
           owner \in {t, None} \/ depth = 0,
           at \in Reach(n, store.aliases), store.aliases[at] = None,
           store.instances[at] # None
    PROVE  Meaning(Visible(t), n) = store.instances[at]
<1> DEFINE seen == Visible(t)
<1>1. /\ store \in Contents /\ published \in Contents /\ Roles(published)
  BY DEF ContainerInv, TypeOK, Tied, Held, Sound
<1>2. store.aliases \in AliasMap /\ published.aliases \in AliasMap
  BY <1>1 DEF Contents, AliasMap
<1>3. CASE CanLock(t)
  <2>1. seen = store
    BY <1>3, VisibleIs
  <2>2. Resolve(n, store.aliases) = at
    BY <1>2, ResolveIs
  <2> QED BY <2>1, <2>2 DEF Meaning
<1>4. CASE ~CanLock(t)
  <2>1. seen = published /\ owner # None /\ depth = 0
    BY <1>4 DEF CanLock, Visible
  <2>2. \A m \in Names : store.aliases[m] # None => published.aliases[m] = store.aliases[m]
    BY <2>1 DEF Tied, Behind
  <2>3. published.instances[at] = store.instances[at]
    BY <2>1 DEF Tied, Behind
  <2>4. at \in Reach(n, published.aliases)
    BY <1>2, <2>2, MoreReach
  <2>5. published.aliases[at] = None
    BY <1>1, <2>3 DEF Roles
  <2>6. Resolve(n, published.aliases) = at
    BY <1>2, <2>4, <2>5, ResolveIs
  <2> QED BY <2>1, <2>3, <2>6 DEF Meaning
<1> QED BY <1>3, <1>4

\* What the observer adds for a thread that is asking.
LEMMA Observed ==
    ASSUME Observe, NEW t \in Threads, Asking(t)'
    PROVE  /\ meant'[t] = meant[t] \cup {Meaning(Visible(t)', job'[t].name)}
           /\ ~disturbed'[t] => /\ ~disturbed[t]
                                /\ owner' \in {t, None} \/ ~(depth' > 0)
                                /\ store'.aliases = store.aliases
BY DEF Observe

\* A thread keeps what it knows while others move.
LEMMA OthersAsked ==
    ASSUME ContainerInv, ContainerInv', Observe, NEW u \in Threads, Asked(u),
           pc'[u] = pc[u], job'[u] = job[u], walk'[u] = walk[u], result'[u] = result[u]
    PROVE  Asked(u)'
<1> SUFFICES ASSUME Asking(u)' PROVE Asked(u)'
  BY DEF Asked
<1>1. Asking(u)
  BY DEF Asking
<1>2. Meaning(Visible(u), job[u].name)' \in meant'[u] /\ meant[u] \subseteq meant'[u]
  BY Observed
<1>3. ASSUME ~disturbed'[u]
      PROVE  /\ owner' \in {u, None} \/ depth' = 0
             /\ pc'[u] \in {"seek", "hop", "fetch"} => Walks(u)'
             /\ pc'[u] = "done" =>
                    /\ result'[u].kind = "object" => result'[u].reg \in meant'[u]
                    /\ result'[u].kind = "missing" => None \in meant'[u]
                    /\ result'[u].kind # "cycle"
  <2>1. ~disturbed[u] /\ store'.aliases = store.aliases
    BY <1>3, Observed
  <2>2. owner' \in {u, None} \/ depth' = 0
    BY <1>3, Observed, ContainerAssumption DEF ContainerInv, TypeOK
  <2>3. pc[u] \in {"seek", "hop", "fetch"} => Walks(u)
    BY <1>1, <2>1 DEF Asked
  <2>4. pc'[u] \in {"seek", "hop", "fetch"} => Walks(u)'
    BY <2>1, <2>3 DEF Walks
  <2> QED BY <1>1, <1>2, <2>1, <2>2, <2>4 DEF Asked
<1> QED BY <1>1, <1>2, <1>3 DEF Asked

\* The own step of a thread that is asking afterwards.
LEMMA OwnAsked ==
    ASSUME ContainerInv', Observe, NEW t \in Threads, Asking(t)',
           pc'[t] \in {"build", "make"} => job'[t].reg \in meant[t],
           ~disturbed'[t] /\ pc'[t] \in {"seek", "hop", "fetch"} => Walks(t)',
           ~disturbed'[t] /\ pc'[t] = "done" =>
                /\ result'[t].kind = "object" => result'[t].reg \in meant[t]
                /\ result'[t].kind = "missing" => None \in meant[t]
                /\ result'[t].kind # "cycle"
    PROVE  Asked(t)'
<1>1. Meaning(Visible(t), job[t].name)' \in meant'[t] /\ meant[t] \subseteq meant'[t]
  BY Observed
<1>2. ~disturbed'[t] => owner' \in {t, None} \/ depth' = 0
  BY Observed, ContainerAssumption DEF ContainerInv, TypeOK
<1> QED BY <1>1, <1>2 DEF Asked

LEMMA AskTypes ==
    ASSUME ContainerInv, NEW t \in Threads
    PROVE  /\ store \in Contents /\ store.aliases \in AliasMap /\ Acyclic(store.aliases)
           /\ pc \in [Threads -> Points]
           /\ job \in [Threads -> [op : Operations, name : Names \cup {None},
                                   target : Names \cup {None}, reg : 0..MaxRegs]]
           /\ walk \in [Threads -> [at : Names \cup {None}, seen : SUBSET Names]]
           /\ result \in [Threads -> [kind : {"none", "object", "missing", "cycle", "raised"},
                                      reg : 0..MaxRegs]]
           /\ None \notin Names
BY ContainerAssumption DEF ContainerInv, TypeOK, StoreSound, Contents, AliasMap

LEMMA GetAsked ==
    ASSUME ContainerInv, ContainerInv', Observe, NEW t \in Threads, Get(t)
    PROVE  Asked(t)'
<1>n. PICK n \in Names :
        Call(t, "get", n, n, 0) /\ walk' = [walk EXCEPT ![t] = [at |-> n, seen |-> {}]]
  BY DEF Get
<1>1. /\ pc'[t] = "seek" /\ job'[t].name \in Names
      /\ walk'[t].at = job'[t].name /\ walk'[t].seen = {} /\ store' = store
  BY <1>n, AskTypes DEF Get, Call, Goto
<1>2. Walks(t)'
  BY <1>1, AskTypes, ReachCloses DEF Walks
<1>3. Asking(t)'
  BY <1>1 DEF Asking, Getting
<1> QED BY <1>1, <1>2, <1>3, OwnAsked

LEMMA SeekAsked ==
    ASSUME ContainerInv, ContainerInv', Observe, NEW t \in Threads, Asked(t), Seek(t)
    PROVE  Asked(t)'
<1> DEFINE al == store.aliases
           at == walk[t].at
<1>1. /\ pc[t] = "seek" /\ UNCHANGED <<store, job>> /\ at \in Names /\ Asking(t)
      /\ pc'[t] \in {"hop", "fetch", "done"}
  BY AskTypes DEF Seek, Answer, Goto, ContainerInv, Gets, Asking, Getting
<1>2. Asking(t)' /\ (~disturbed'[t] => Walks(t))
  BY <1>1, Observed DEF Asking, Getting, Asked
<1>3. CASE al[at] = None /\ Goto(t, "fetch") /\ UNCHANGED <<walk, result>>
  <2>1. pc'[t] = "fetch"
    BY <1>3, AskTypes DEF Goto
  <2>2. Walks(t) => Walks(t)'
    BY <1>1, <1>3, <2>1 DEF Walks
  <2> QED BY <1>2, <2>1, <2>2, OwnAsked
<1>4. CASE al[at] # None /\ at \in walk[t].seen /\ Answer(t, "cycle", 0)
  <2>1. pc'[t] = "done"
    BY <1>4, AskTypes DEF Answer, Goto
  <2>2. ~Walks(t)
    BY <1>1, <1>4, AskTypes, NoWayBack DEF Walks
  <2> QED BY <1>2, <2>1, <2>2, OwnAsked
<1>5. CASE /\ al[at] # None /\ at \notin walk[t].seen
           /\ walk' = [walk EXCEPT ![t].seen = @ \cup {at}] /\ Goto(t, "hop")
  <2>1. pc'[t] = "hop" /\ walk'[t].at = at /\ walk'[t].seen = walk[t].seen \cup {at}
    BY <1>5, AskTypes DEF Goto
  <2>2. Walks(t) => Walks(t)'
    BY <1>1, <1>5, <2>1 DEF Walks
  <2> QED BY <1>2, <2>1, <2>2, OwnAsked
<1> QED BY <1>3, <1>4, <1>5 DEF Seek

LEMMA HopAsked ==
    ASSUME ContainerInv, ContainerInv', Observe, NEW t \in Threads, Asked(t), Hop(t)
    PROVE  Asked(t)'
<1> DEFINE al == store.aliases
           at == walk[t].at
<1>1. /\ pc[t] = "hop" /\ UNCHANGED <<store, job>> /\ at \in Names /\ Asking(t)
      /\ pc'[t] \in {"seek", "done"}
  BY AskTypes DEF Hop, Answer, Goto, ContainerInv, Gets, Asking, Getting
<1>2. Asking(t)' /\ (~disturbed'[t] => Walks(t))
  BY <1>1, Observed DEF Asking, Getting, Asked
<1>3. CASE al[at] = None /\ Answer(t, "missing", 0)
  <2>1. pc'[t] = "done"
    BY <1>3, AskTypes DEF Answer, Goto
  <2>2. ~Walks(t)
    BY <1>1, <1>3 DEF Walks
  <2> QED BY <1>2, <2>1, <2>2, OwnAsked
<1>4. CASE al[at] # None /\ walk' = [walk EXCEPT ![t].at = al[at]] /\ Goto(t, "seek")
  <2>1. pc'[t] = "seek" /\ walk'[t].at = al[at] /\ walk'[t].seen = walk[t].seen /\ al[at] \in Names
    BY <1>1, <1>4, AskTypes DEF Goto, AliasMap
  <2>2. ASSUME Walks(t)
        PROVE  Walks(t)'
    <3>1. job[t].name \in Names
      BY <1>1 DEF ContainerInv, Gets
    <3>2. al[at] \in Reach(job[t].name, al)
      BY <1>4, <2>2, <3>1, AskTypes, ReachSteps DEF Walks
    <3>3. ASSUME NEW s \in walk[t].seen
          PROVE  al[s] # None /\ al[at] \in Reach(al[s], al)
      <4>1. al[s] # None /\ al[s] \in Names
        BY <2>2, AskTypes DEF Walks, AliasMap
      <4>2. CASE s = at
        BY <2>1, <4>1, <4>2, AskTypes, ReachCloses
      <4>3. CASE at \in Reach(al[s], al)
        BY <1>4, <4>1, <4>3, AskTypes, ReachSteps
      <4> QED BY <2>2, <4>1, <4>2, <4>3 DEF Walks
    <3> QED BY <1>1, <2>1, <3>2, <3>3 DEF Walks
  <2> QED BY <1>2, <2>1, <2>2, OwnAsked
<1> QED BY <1>3, <1>4 DEF Hop

LEMMA FetchAsked ==
    ASSUME ContainerInv, ContainerInv', Tied, Observe, NEW t \in Threads, Asked(t), Fetch(t)
    PROVE  Asked(t)'
<1> DEFINE at == walk[t].at
<1>1. /\ pc[t] = "fetch" /\ UNCHANGED <<store, job>> /\ at \in Names /\ job[t].name \in Names
      /\ Asking(t) /\ pc'[t] \in {"wait", "done"}
  BY AskTypes DEF Fetch, Missed, Answer, Goto, ContainerInv, Gets, Asking, Getting
<1>2. Asking(t)' /\ (~disturbed'[t] => Walks(t) /\ (owner \in {t, None} \/ depth = 0))
  BY <1>1, Observed DEF Asking, Getting, Asked
<1>3. CASE store.instances[at] # None /\ Answer(t, "object", store.instances[at])
  <2>1. pc'[t] = "done" /\ result'[t] = [kind |-> "object", reg |-> store.instances[at]]
    BY <1>3, AskTypes DEF Answer, Goto
  <2>2. ASSUME ~disturbed'[t]
        PROVE  store.instances[at] \in meant[t]
    <3>1. Meaning(Visible(t), job[t].name) = store.instances[at]
      BY <1>1, <1>2, <1>3, <2>2, FoundIsMeant DEF Walks
    <3> QED BY <1>1, <3>1 DEF Asked
  <2> QED BY <1>2, <2>1, <2>2, OwnAsked
<1>4. CASE Missed(t)
  <2>1. pc'[t] = "wait"
    BY <1>4, AskTypes DEF Missed, Goto
  <2> QED BY <1>2, <2>1, OwnAsked
<1> QED BY <1>3, <1>4 DEF Fetch

\* With the lock get() finds what the name stands for at that moment.
LEMMA LookUpAsked ==
    ASSUME ContainerInv, ContainerInv', Tied, Observe, NEW t \in Threads, Asked(t), LookUp(t)
    PROVE  Asked(t)'
<1> DEFINE actual == Resolve(job[t].name, store.aliases)
           found == store.instances[actual]
           factory == store.factories[actual]
<1>1. pc[t] = "wait" /\ CanLock(t) /\ Asking(t)
  BY DEF LookUp, Asking, Getting
<1>2. (IF found # None THEN found ELSE factory) \in meant[t]
  BY <1>1, VisibleIs DEF Asked, Meaning
<1>3. \/ found # None /\ Answer(t, "object", found)
      \/ found = None /\ factory = None /\ Answer(t, "missing", 0)
      \/ /\ found = None /\ factory # None /\ job' = [job EXCEPT ![t].reg = factory]
         /\ Goto(t, "make") \/ Goto(t, "build")
  BY DEF LookUp, FoundUnderLock
<1>4. \/ pc'[t] = "done" /\ result'[t] = [kind |-> "object", reg |-> found] /\ found # None
      \/ pc'[t] = "done" /\ result'[t] = [kind |-> "missing", reg |-> 0] /\ found = None /\ factory = None
      \/ pc'[t] \in {"make", "build"} /\ job'[t].reg = factory /\ found = None
  BY <1>3, AskTypes DEF Answer, Goto
<1>5. Asking(t)'
  BY <1>4 DEF Asking, Getting
<1> QED BY <1>2, <1>4, <1>5, OwnAsked

LEMMA MakeAsked ==
    ASSUME ContainerInv, ContainerInv', Observe, NEW t \in Threads, Asked(t), Build(t) \/ Make(t)
    PROVE  Asked(t)'
<1>1. job[t].reg \in meant[t]
  BY DEF Build, Make, Asked, Asking, Getting
<1>2. /\ pc'[t] = "done"
      /\ result'[t] \in {[kind |-> "object", reg |-> job[t].reg], [kind |-> "raised", reg |-> 0]}
  BY AskTypes DEF Build, Make, Answer, Goto
<1>3. Asking(t)'
  BY <1>2 DEF Asking, Getting
<1> QED BY <1>1, <1>2, <1>3, OwnAsked

\* A thread that writes is not asking.
LEMMA WritesUnasked ==
    ASSUME ContainerInv, NEW t \in Threads, Write(t) \/ Return(t)
    PROVE  ~Asking(t)'
<1>1. CASE Register(t) \/ RegisterAlias(t) \/ Unbind(t) \/ Unalias(t) \/ Put(t)
  BY <1>1, AskTypes DEF Register, RegisterAlias, Unbind, Unalias, Put, Call, Goto, End, Asking, Getting
<1>2. CASE RemoveAlias(t) \/ Remove(t) \/ SweepRound(t) \/ SweepOne(t) \/ Clear(t)
  BY <1>2, AskTypes DEF RemoveAlias, Remove, SweepRound, SweepOne, Clear, Idle, Goto, End, Asking, Getting
<1>3. CASE Begin(t) \/ Commit(t) \/ Rollback(t) \/ Return(t)
  BY <1>3, AskTypes DEF Begin, Commit, Rollback, Return, Idle, Goto, End, Asking, Getting
<1>4. CASE Drain(t) \/ Refill(t) \/ DrainAliases(t) \/ RefillAliases(t)
  BY <1>4, AskTypes DEF Drain, Refill, DrainAliases, RefillAliases, Goto, End, Asking, Getting
<1> QED BY <1>1, <1>2, <1>3, <1>4 DEF Write

LEMMA ToldKept == ContainerInv /\ ContainerInv' /\ Tied /\ Told /\ [Next]_vars => Told'
<1> SUFFICES ASSUME ContainerInv, ContainerInv', Tied, Told, [Next]_vars PROVE Told'
  OBVIOUS
<1>1. ASSUME NEW t \in Threads, Write(t) \/ Read(t), Observe
      PROVE  Told'
  <2>1. \A u \in Threads \ {t} : Asked(u)'
    BY <1>1, Frame, OthersAsked DEF Told
  <2>2. Asked(t)'
    <3>1. CASE Write(t) \/ Return(t)
      BY <3>1, WritesUnasked DEF Asked
    <3>2. CASE Read(t) /\ ~Return(t)
      BY <1>1, <3>2, GetAsked, SeekAsked, HopAsked, FetchAsked, LookUpAsked, MakeAsked DEF Read, Told
    <3> QED BY <1>1, <3>1, <3>2
  <2> QED BY <2>1, <2>2 DEF Told
<1>2. ASSUME UNCHANGED vars
      PROVE  Told'
  BY <1>2 DEF vars, code, Told, Asked, Asking, Meaning, Visible, Walks
<1> QED BY <1>1, <1>2, ContainerAssumption DEF Next

LEMMA ToldInit == Init => Told
BY DEF Init, Told, Asked, Asking, Getting

\* A get() that met no open transaction of another thread and no change of
\* aliases gives what the name stood for at some moment of the call, although it
\* looks without the lock in the middle of any registration, removal or clear().
THEOREM GetTellsTheTruth == Spec => []GetIsTrue
<1>1. ContainerInv /\ Tied /\ Told /\ [Next]_vars => (ContainerInv /\ Tied /\ Told)'
  BY ToldKept, TiedKept, NextSound
<1>2. Told => GetIsTrue
  BY DEF Told, Asked, Asking, Getting, GetIsTrue
<1> QED BY <1>1, <1>2, InitSound, TiedInit, ToldInit, PTL DEF Spec
=============================================================================
