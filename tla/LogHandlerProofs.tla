-------------------------- MODULE LogHandlerProofs --------------------------
(* Proofs about the batching log handler, for every size of its queue and  *)
(* of its batches and for any records ColoredFormatter has rewritten.      *)
EXTENDS LogHandler, SequenceTheorems, TLAPS

(* HealthyMeansServed is not inductive alone: when initialize() makes the  *)
(* handler healthy, the pool it made before must still be there.           *)
ServedInv ==
    /\ healthy \in BOOLEAN
    /\ HealthyMeansServed
    /\ lifecycle = "creating" => pool

LEMMA ServedInit == Init => ServedInv
  BY DEF Init, ServedInv, HealthyMeansServed

LEMMA ServedStep == ServedInv /\ [Next]_vars => ServedInv'
<1> SUFFICES ASSUME ServedInv, [Next]_vars PROVE ServedInv'
  OBVIOUS
<1> USE DEF ServedInv, HealthyMeansServed, Alive
<1>1. CASE Emit
  BY <1>1 DEF Emit, EmitBegins, EmitRaises, EmitPuts, EmitFindsFull, EmitEvicts, EmitPutsAgain, queueVars
<1>2. CASE Worker
  <2>1. worker' # "none" /\ worker' # "done" /\ UNCHANGED <<pool, healthy, lifecycle>>
    BY <1>2 DEF Worker, WorkerGets, WorkerLooks, WorkerTakes, WorkerMisses, WorkerWakes,
                WorkerInserts, WorkerStep
  <2> QED
    BY <2>1
<1>3. CASE Initialize
  <2>1. CASE InitializeBegins
    BY <2>1 DEF InitializeBegins, LifecycleStep
  <2>2. CASE InitializeFails
    BY <2>2 DEF InitializeFails, LifecycleStep, queueVars
  <2>3. CASE Connected
    BY <2>3 DEF Connected, LifecycleStep, queueVars
  <2>4. CASE InitializeEnds
    BY <2>4 DEF InitializeEnds, LifecycleStep, queueVars
  <2> QED
    BY <1>3, <2>1, <2>2, <2>3, <2>4 DEF Initialize
<1>4. CASE ShutdownBegins
  BY <1>4 DEF ShutdownBegins, LifecycleStep
<1>5. CASE ShutdownGoesOn
  BY <1>5 DEF ShutdownGoesOn, WorkerCancelled, FlushLooks, FlushTakes, FlushMisses, Flush, Flushed,
              Close, LifecycleStep
<1>6. CASE FlushCancelled \/ CloseFails
  BY <1>6 DEF FlushCancelled, Flushed, CloseFails, LifecycleStep
<1>7. CASE ProbeBegins
  BY <1>7 DEF ProbeBegins
<1>8. CASE ProbeEnds
  <2>1. healthy' = healthy \/ healthy' = FALSE
    BY <1>8, Zenon DEF ProbeEnds
  <2>2. UNCHANGED <<pool, worker, lifecycle>>
    BY <1>8 DEF ProbeEnds
  <2>3. CASE healthy' = healthy
    BY <2>2, <2>3
  <2>4. CASE healthy' = FALSE
    BY <2>2, <2>4
  <2> QED
    BY <2>1, <2>3, <2>4, Zenon
<1>9. CASE UNCHANGED vars
  BY <1>9 DEF vars
<1> QED
  BY <1>1, <1>2, <1>3, <1>4, <1>5, <1>6, <1>7, <1>8, <1>9 DEF Next

(* emit() accepts a record only while there are a pool and a worker to     *)
(* take it: through connections that fail half-way, probes that come back  *)
(* in the middle of a shutdown and pools that cannot be closed.            *)
THEOREM HealthyIsServed == Spec => []HealthyMeansServed
<1>1. ServedInv => HealthyMeansServed
  BY DEF ServedInv
<1> QED
  BY ServedInit, ServedStep, <1>1, PTL DEF Spec

-----------------------------------------------------------------------------
(* Sequences that ascend                                                   *)

Ascends(s) == \A i, j \in DOMAIN s : i < j => s[i] < s[j]

Below(S, U) == \A x \in S, y \in U : x < y

LEMMA EmptyList ==
  ASSUME NEW S
  PROVE  <<>> \in Seq(S) /\ ToSet(<<>>) = {} /\ Ascends(<<>>) /\ Len(<<>>) = 0
  BY DEF ToSet, Ascends

LEMMA OneElement ==
  ASSUME NEW S, NEW x \in S
  PROVE  <<x>> \in Seq(S) /\ ToSet(<<x>>) = {x} /\ Ascends(<<x>>) /\ Len(<<x>>) = 1
  BY DEF ToSet, Ascends

LEMMA ToSetIn ==
  ASSUME NEW S, NEW s \in Seq(S)
  PROVE  ToSet(s) \subseteq S
  BY DEF ToSet

LEMMA Elements ==
  ASSUME NEW S, NEW s \in Seq(S)
  PROVE  /\ Len(s) \in Nat /\ DOMAIN s = 1..Len(s)
         /\ \A x : x \in ToSet(s) <=> \E i \in 1..Len(s) : x = s[i]
  BY LenProperties DEF ToSet

LEMMA Joined ==
  ASSUME NEW S, NEW a \in Seq(S), NEW b \in Seq(S)
  PROVE  a \o b \in Seq(S) /\ ToSet(a \o b) = ToSet(a) \cup ToSet(b)
<1> DEFINE c == a \o b
<1>1. /\ c \in Seq(S) /\ Len(c) = Len(a) + Len(b)
      /\ \A i \in 1..Len(a) + Len(b) : c[i] = IF i <= Len(a) THEN a[i] ELSE b[i - Len(a)]
  BY ConcatProperties
<1> HIDE DEF c
<1>2. Len(a) \in Nat /\ Len(b) \in Nat
  BY Elements
<1>3. ASSUME NEW x, x \in ToSet(c) PROVE x \in ToSet(a) \/ x \in ToSet(b)
  <2>1. PICK i \in 1..Len(c) : x = c[i]
    BY <1>1, <1>3, Elements
  <2>2. CASE i <= Len(a)
    <3>1. i \in 1..Len(a) /\ x = a[i]
      BY <1>1, <1>2, <2>1, <2>2
    <3> QED
      BY <3>1, Elements
  <2>3. CASE i > Len(a)
    <3>1. i - Len(a) \in 1..Len(b) /\ x = b[i - Len(a)]
      BY <1>1, <1>2, <2>1, <2>3
    <3> QED
      BY <3>1, Elements
  <2> QED
    BY <1>1, <1>2, <2>2, <2>3
<1>4. ASSUME NEW x, x \in ToSet(a) PROVE x \in ToSet(c)
  <2>1. PICK i \in 1..Len(a) : x = a[i]
    BY <1>4, Elements
  <2>2. i \in 1..Len(c) /\ x = c[i]
    BY <1>1, <1>2, <2>1
  <2> QED
    BY <1>1, <2>2, Elements
<1>5. ASSUME NEW x, x \in ToSet(b) PROVE x \in ToSet(c)
  <2>1. PICK i \in 1..Len(b) : x = b[i]
    BY <1>5, Elements
  <2>2. PICK k \in 1..Len(a) + Len(b) : k > Len(a) /\ k - Len(a) = i
    <3>1. Len(a) + i \in 1..Len(a) + Len(b) /\ Len(a) + i > Len(a) /\ (Len(a) + i) - Len(a) = i
      BY <1>2
    <3> QED
      BY <3>1
  <2>3. k \in 1..Len(c) /\ x = c[k]
    BY <1>1, <1>2, <2>1, <2>2
  <2> QED
    BY <1>1, <2>3, Elements
<1> QED
  BY <1>1, <1>3, <1>4, <1>5 DEF c

LEMMA JoinedAscends ==
  ASSUME NEW a \in Seq(Nat), NEW b \in Seq(Nat),
         Ascends(a), Ascends(b), Below(ToSet(a), ToSet(b))
  PROVE  Ascends(a \o b)
<1> DEFINE c == a \o b
<1>1. /\ c \in Seq(Nat) /\ Len(c) = Len(a) + Len(b)
      /\ \A i \in 1..Len(a) + Len(b) : c[i] = IF i <= Len(a) THEN a[i] ELSE b[i - Len(a)]
  BY ConcatProperties
<1> HIDE DEF c
<1>2. /\ Len(a) \in Nat /\ Len(b) \in Nat
      /\ DOMAIN a = 1..Len(a) /\ DOMAIN b = 1..Len(b) /\ DOMAIN c = 1..Len(c)
  BY <1>1, Elements
<1>3. \A i \in 1..Len(a), k \in 1..Len(b) : a[i] < b[k]
  BY Elements DEF Below
<1>4. ASSUME NEW i \in 1..Len(c), NEW j \in 1..Len(c), i < j
      PROVE  c[i] < c[j]
  <2>1. CASE j <= Len(a)
    <3>1. i \in 1..Len(a) /\ j \in 1..Len(a) /\ c[i] = a[i] /\ c[j] = a[j]
      BY <1>1, <1>2, <1>4, <2>1
    <3> QED
      BY <1>2, <1>4, <3>1 DEF Ascends
  <2>2. CASE i <= Len(a) /\ j > Len(a)
    <3>1. i \in 1..Len(a) /\ j - Len(a) \in 1..Len(b) /\ c[i] = a[i] /\ c[j] = b[j - Len(a)]
      BY <1>1, <1>2, <1>4, <2>2
    <3> QED
      BY <1>3, <3>1
  <2>3. CASE i > Len(a)
    <3>0. /\ i \in 1..(Len(a) + Len(b)) /\ j \in 1..(Len(a) + Len(b))
      BY <1>1, <1>4
    <3>1. /\ i - Len(a) \in 1..Len(b) /\ j - Len(a) \in 1..Len(b) /\ i - Len(a) < j - Len(a)
          /\ ~(i <= Len(a)) /\ ~(j <= Len(a))
      BY <1>2, <1>4, <2>3, <3>0
    <3>2. c[i] = b[i - Len(a)] /\ c[j] = b[j - Len(a)]
      BY <1>1, <3>0, <3>1
    <3> QED
      BY <1>2, <3>1, <3>2 DEF Ascends
  <2> QED
    BY <1>1, <1>2, <1>4, <2>1, <2>2, <2>3
<1> QED
  BY <1>2, <1>4 DEF Ascends, c

LEMMA Appended ==
  ASSUME NEW S, NEW s \in Seq(S), NEW x \in S
  PROVE  Append(s, x) \in Seq(S) /\ Len(Append(s, x)) = Len(s) + 1 /\ Append(s, x) = s \o <<x>>
  BY AppendIsConcat, AppendProperties

LEMMA AppendedElements ==
  ASSUME NEW S, NEW s \in Seq(S), NEW x \in S
  PROVE  ToSet(Append(s, x)) = ToSet(s) \cup {x}
<1> DEFINE one == <<x>>
<1>1. Append(s, x) = s \o one
  BY Appended
<1>2. one \in Seq(S) /\ ToSet(one) = {x}
  BY OneElement
<1> HIDE DEF one
<1>3. ToSet(s \o one) = ToSet(s) \cup ToSet(one)
  BY <1>2, Joined
<1> QED
  BY <1>1, <1>2, <1>3

LEMMA AppendedAscends ==
  ASSUME NEW s \in Seq(Nat), NEW x \in Nat, Ascends(s), Below(ToSet(s), {x})
  PROVE  Ascends(Append(s, x))
<1>1. Append(s, x) = s \o <<x>>
  BY Appended
<1>2. <<x>> \in Seq(Nat) /\ ToSet(<<x>>) = {x} /\ Ascends(<<x>>)
  BY OneElement
<1>3. Ascends(s \o <<x>>)
  BY <1>2, JoinedAscends
<1> QED
  BY <1>1, <1>3

LEMMA Shortened ==
  ASSUME NEW S, NEW s \in Seq(S), s # <<>>
  PROVE  /\ Tail(s) \in Seq(S) /\ Head(s) \in S /\ Len(Tail(s)) = Len(s) - 1 /\ Len(s) \in Nat \ {0}
         /\ Head(s) = s[1] /\ \A i \in 1..(Len(s) - 1) : Tail(s)[i] = s[i + 1]
         /\ ToSet(s) = {Head(s)} \cup ToSet(Tail(s))
<1> DEFINE t == Tail(s)
           h == Head(s)
<1>1. /\ t \in Seq(S) /\ h \in S /\ Len(t) = Len(s) - 1 /\ Len(s) \in Nat \ {0}
      /\ h = s[1] /\ \A i \in 1..(Len(s) - 1) : t[i] = s[i + 1]
  BY HeadTailProperties, EmptySeq, LenProperties DEF Head
<1> HIDE DEF t, h
<1>2. ASSUME NEW x, x \in ToSet(s) PROVE x = h \/ x \in ToSet(t)
  <2>1. PICK i \in 1..Len(s) : x = s[i]
    BY <1>2, Elements
  <2>2. CASE i > 1
    <3>1. PICK k \in 1..Len(t) : k + 1 = i
      <4>1. i - 1 \in 1..Len(t) /\ (i - 1) + 1 = i
        BY <1>1, <2>2
      <4> QED
        BY <4>1
    <3>2. x = t[k]
      BY <1>1, <2>1, <3>1
    <3> QED
      BY <1>1, <3>2, Elements
  <2> QED
    BY <1>1, <2>1, <2>2
<1>3. ASSUME NEW x, x \in ToSet(t) PROVE x \in ToSet(s)
  <2>1. PICK i \in 1..Len(t) : x = t[i]
    BY <1>1, <1>3, Elements
  <2>2. i + 1 \in 1..Len(s) /\ x = s[i + 1]
    BY <1>1, <2>1
  <2> QED
    BY <2>2, Elements
<1>4. h \in ToSet(s)
  <2>1. 1 \in 1..Len(s)
    BY <1>1
  <2> QED
    BY <1>1, <2>1, Elements
<1> QED
  BY <1>1, <1>2, <1>3, <1>4 DEF t, h

LEMMA ShortenedAscends ==
  ASSUME NEW s \in Seq(Nat), s # <<>>, Ascends(s)
  PROVE  Ascends(Tail(s)) /\ Below({Head(s)}, ToSet(Tail(s)))
<1> DEFINE t == Tail(s)
           h == Head(s)
<1>1. /\ t \in Seq(Nat) /\ Len(t) = Len(s) - 1 /\ Len(s) \in Nat \ {0}
      /\ h = s[1] /\ \A i \in 1..Len(t) : t[i] = s[i + 1]
  BY Shortened
<1> HIDE DEF t, h
<1>2. DOMAIN s = 1..Len(s) /\ DOMAIN t = 1..Len(t)
  BY <1>1, Elements
<1>3. \A i, j \in 1..Len(t) : i < j => t[i] < t[j]
  <2>1. \A i \in 1..Len(t) : i + 1 \in 1..Len(s)
    BY <1>1
  <2>2. \A i, j \in 1..Len(t) : i < j => i + 1 < j + 1
    BY <1>1
  <2> QED
    BY <1>1, <1>2, <2>1, <2>2 DEF Ascends
<1>4. ASSUME NEW x \in ToSet(t) PROVE h < x
  <2>1. PICK i \in 1..Len(t) : x = t[i]
    BY <1>1, <1>4, Elements
  <2>2. 1 \in 1..Len(s) /\ i + 1 \in 1..Len(s) /\ 1 < i + 1
    BY <1>1
  <2> QED
    BY <1>1, <1>2, <2>1, <2>2 DEF Ascends
<1> QED
  BY <1>2, <1>3, <1>4 DEF Ascends, Below, t, h

-----------------------------------------------------------------------------
(* Where records can be                                                    *)

(* A batch is there only between get() and the insert, a list to flush     *)
(* only while it is collected and flushed, and by then the worker is gone. *)
Places ==
    /\ Alive => pool /\ lifecycle \in {"idle", "joining"}
    /\ lifecycle = "creating" => pool
    /\ worker \notin {"collecting", "taking", "inserting"} => batch = <<>>
    /\ worker = "taking" => Len(batch) < MaxBatch
    /\ lifecycle \notin {"draining", "fetching", "flushing"} => rest = <<>>

Shape == TypeOK /\ Places

Hand == IF emitting = "idle" THEN {} ELSE {logged}

(* Of the records in the table, a batch, the list to flush, the queue and  *)
(* emit()'s hand, each is there or given up, and none is both.             *)
Account(T, B, R, Q, H, gone, n) ==
    /\ T \cup B \cup R \cup Q \cup H \cup gone = 1..n
    /\ (T \cup B \cup R \cup Q \cup H) \cap gone = {}

(* They follow each other.                                                 *)
Line(T, B, R, Q, H) ==
    /\ Below(T, B) /\ Below(T, R) /\ Below(T, Q) /\ Below(T, H)
    /\ Below(B, R) /\ Below(B, Q) /\ Below(B, H)
    /\ Below(R, Q) /\ Below(R, H) /\ Below(Q, H)

Accounts == Account(ToSet(table), ToSet(batch), ToSet(rest), ToSet(queue), Hand, spared, logged)

InLine ==
    /\ Ascends(table) /\ Ascends(batch) /\ Ascends(rest) /\ Ascends(queue)
    /\ Line(ToSet(table), ToSet(batch), ToSet(rest), ToSet(queue), Hand)

Orderly == Shape /\ Accounts /\ InLine

LEMMA Typed ==
  ASSUME TypeOK
  PROVE  /\ queue \in Seq(Records) /\ batch \in Seq(Records) /\ rest \in Seq(Records)
         /\ table \in Seq(Records)
         /\ queue \in Seq(Nat) /\ batch \in Seq(Nat) /\ rest \in Seq(Nat) /\ table \in Seq(Nat)
         /\ Len(queue) \in Nat /\ Len(batch) \in Nat /\ logged \in Nat /\ logged <= MaxRecords
<1>1. Records \subseteq Nat
  BY DEF Records
<1>2. /\ queue \in Seq(Records) /\ batch \in Seq(Records) /\ rest \in Seq(Records)
      /\ table \in Seq(Records)
  BY DEF TypeOK
<1>3. logged \in Nat /\ logged <= MaxRecords
  BY LogAssumption DEF TypeOK
<1> QED
  BY <1>1, <1>2, <1>3, SeqMonotonic, LenProperties

(* Moves of the records: what each leaves in line and accounted for.       *)
LEMMA Advances ==
  ASSUME NEW T \in SUBSET Nat, NEW B \in SUBSET Nat, NEW R \in SUBSET Nat, NEW Q \in SUBSET Nat,
         NEW gone \in SUBSET Nat, NEW n \in Nat
  PROVE  /\ Line(T, B, R, Q, {}) /\ Account(T, B, R, Q, {}, gone, n)
              => Line(T, B, R, Q, {n + 1}) /\ Account(T, B, R, Q, {n + 1}, gone, n + 1)
         /\ Line(T, B, R, Q, {n}) /\ Account(T, B, R, Q, {n}, gone, n)
              => /\ Line(T, B, R, Q \cup {n}, {}) /\ Account(T, B, R, Q \cup {n}, {}, gone, n)
                 /\ Line(T, B, R, Q, {}) /\ Account(T, B, R, Q, {}, gone \cup {n}, n)
<1>1. 1..(n + 1) = (1..n) \cup {n + 1}
  OBVIOUS
<1>2. ASSUME Line(T, B, R, Q, {}), Account(T, B, R, Q, {}, gone, n)
      PROVE  Line(T, B, R, Q, {n + 1}) /\ Account(T, B, R, Q, {n + 1}, gone, n + 1)
  <2>1. \A x \in T \cup B \cup R \cup Q \cup gone : x < n + 1
    BY <1>2 DEF Account
  <2>2. n + 1 \notin gone
    BY <2>1
  <2> QED
    BY <1>1, <1>2, <2>1, <2>2 DEF Line, Account, Below
<1>3. ASSUME Line(T, B, R, Q, {n}), Account(T, B, R, Q, {n}, gone, n)
      PROVE  /\ Line(T, B, R, Q \cup {n}, {}) /\ Account(T, B, R, Q \cup {n}, {}, gone, n)
             /\ Line(T, B, R, Q, {}) /\ Account(T, B, R, Q, {}, gone \cup {n}, n)
  <2>1. n \notin T \cup B \cup R \cup Q
    BY <1>3 DEF Line, Below
  <2> QED
    BY <1>3, <2>1 DEF Line, Account, Below
<1> QED
  BY <1>2, <1>3

LEMMA Passes ==
  ASSUME NEW T \in SUBSET Nat, NEW B \in SUBSET Nat, NEW R \in SUBSET Nat, NEW Q \in SUBSET Nat,
         NEW H \in SUBSET Nat, NEW gone \in SUBSET Nat, NEW n \in Nat, NEW h \in Nat,
         Below({h}, Q), Line(T, B, R, {h} \cup Q, H), Account(T, B, R, {h} \cup Q, H, gone, n)
  PROVE  /\ Line(T, B, R, Q, H) /\ Account(T, B, R, Q, H, gone \cup {h}, n)
         /\ R = {} => Line(T, B \cup {h}, R, Q, H) /\ Account(T, B \cup {h}, R, Q, H, gone, n)
         /\ Line(T, B, R \cup {h}, Q, H) /\ Account(T, B, R \cup {h}, Q, H, gone, n)
<1>1. h \notin T \cup B \cup R \cup Q \cup H
  BY DEF Line, Below
<1> QED
  BY <1>1 DEF Line, Account, Below

LEMMA Stores ==
  ASSUME NEW T \in SUBSET Nat, NEW B \in SUBSET Nat, NEW R \in SUBSET Nat, NEW Q \in SUBSET Nat,
         NEW H \in SUBSET Nat, NEW gone \in SUBSET Nat, NEW n \in Nat,
         Line(T, B, R, Q, H), Account(T, B, R, Q, H, gone, n)
  PROVE  /\ Line(T \cup B, {}, R, Q, H) /\ Account(T \cup B, {}, R, Q, H, gone, n)
         /\ Line(T, {}, R, Q, H) /\ Account(T, {}, R, Q, H, gone \cup B, n)
         /\ Line(T, B, R, {}, H) /\ Account(T, B, R, {}, H, gone \cup Q, n)
         /\ B = {} => Line(T \cup R, B, {}, Q, H) /\ Account(T \cup R, B, {}, Q, H, gone, n)
         /\ Line(T, B, {}, Q, H) /\ Account(T, B, {}, Q, H, gone \cup R, n)
<1>1. /\ B \cap (T \cup R \cup Q \cup H) = {} /\ Q \cap (T \cup B \cup R \cup H) = {}
      /\ R \cap (T \cup B \cup Q \cup H) = {}
  BY DEF Line, Below
<1>2. /\ Line(T \cup B, {}, R, Q, H) /\ Line(T, {}, R, Q, H) /\ Line(T, B, R, {}, H)
      /\ B = {} => Line(T \cup R, B, {}, Q, H)
      /\ Line(T, B, {}, Q, H)
  BY DEF Line, Below
<1>3. /\ Account(T \cup B, {}, R, Q, H, gone, n) /\ Account(T, {}, R, Q, H, gone \cup B, n)
      /\ Account(T, B, R, {}, H, gone \cup Q, n)
  BY <1>1 DEF Account
<1>4. /\ B = {} => Account(T \cup R, B, {}, Q, H, gone, n)
      /\ Account(T, B, {}, Q, H, gone \cup R, n)
  BY <1>1 DEF Account
<1> QED
  BY <1>2, <1>3, <1>4

-----------------------------------------------------------------------------
(* The types of the variables, one by one                                  *)

Flags == pool \in BOOLEAN /\ healthy \in BOOLEAN /\ probing \in BOOLEAN

Stations ==
    /\ worker \in {"none", "waiting", "collecting", "taking", "inserting", "sleeping", "done"}
    /\ lifecycle \in {"idle", "connecting", "creating", "joining", "draining", "fetching",
                     "flushing", "closing"}
    /\ emitting \in {"idle", "checked", "full", "evicted"}

Lists ==
    /\ queue \in Seq(Records) /\ batch \in Seq(Records) /\ rest \in Seq(Records)
    /\ table \in Seq(Records)
    /\ Len(queue) <= MaxQueue /\ Len(batch) <= MaxBatch

Counts == logged \in 0..MaxRecords /\ spared \subseteq Records

LEMMA ByParts == /\ TypeOK <=> Flags /\ Stations /\ Lists /\ Counts
                 /\ TypeOK' <=> Flags' /\ Stations' /\ Lists' /\ Counts'
<1>1. TypeOK <=> Flags /\ Stations /\ Lists /\ Counts
  BY Zenon DEF TypeOK, Flags, Stations, Lists, Counts
<1>2. TypeOK' <=> Flags' /\ Stations' /\ Lists' /\ Counts'
  BY Zenon DEF TypeOK, Flags, Stations, Lists, Counts
<1> QED
  BY <1>1, <1>2

LEMMA OrderlyInit == Init => Orderly
<1> SUFFICES ASSUME Init PROVE Orderly
  OBVIOUS
<1>1. /\ queue = <<>> /\ batch = <<>> /\ rest = <<>> /\ table = <<>>
      /\ pool = FALSE /\ healthy = FALSE /\ probing = FALSE
      /\ worker = "none" /\ lifecycle = "idle" /\ emitting = "idle" /\ logged = 0 /\ spared = {}
  BY DEF Init
<1>2. /\ <<>> \in Seq(Records) /\ ToSet(<<>>) = {} /\ Ascends(<<>>) /\ Len(<<>>) = 0
  BY EmptyList
<1>3. TypeOK
  <2>1. Flags /\ Stations
    BY <1>1 DEF Flags, Stations
  <2>2. Lists /\ Counts
    BY <1>1, <1>2, LogAssumption DEF Lists, Counts
  <2> QED
    BY <2>1, <2>2, ByParts
<1>4. Places
  BY <1>1 DEF Places, Alive
<1>5. Hand = {}
  BY <1>1 DEF Hand
<1>6. Accounts
  BY <1>1, <1>2, <1>5 DEF Accounts, Account
<1>7. InLine
  BY <1>1, <1>2, <1>5 DEF InLine, Line, Below
<1> QED
  BY <1>3, <1>4, <1>6, <1>7 DEF Orderly, Shape

-----------------------------------------------------------------------------
(* emit()                                                                  *)

(* emit() has a record in hand only after it has counted it.               *)
LEMMA HeldIsCounted ==
  ASSUME Orderly, emitting # "idle"
  PROVE  logged \in Records /\ Hand = {logged}
<1>1. Hand = {logged}
  BY DEF Hand
<1>2. logged \in 1..logged
  BY <1>1 DEF Orderly, Accounts, Account
<1>3. logged \in 0..MaxRecords
  BY ByParts DEF Orderly, Shape, Counts
<1> QED
  BY <1>1, <1>2, <1>3, LogAssumption DEF Records

LEMMA EmitStays ==
  ASSUME Orderly, Emit
  PROVE  Shape'
<1>1. /\ Flags /\ Stations /\ Lists /\ Counts /\ Places
      /\ queue \in Seq(Records) /\ spared \subseteq Records /\ Len(queue) \in Nat
  BY ByParts, Typed DEF Orderly, Shape, Lists, Counts
<1>2. Flags' /\ UNCHANGED <<pool, healthy, worker, lifecycle, probing, batch, rest, table>>
  BY <1>1 DEF Flags, Emit, EmitBegins, EmitRaises, EmitPuts, EmitFindsFull, EmitEvicts, EmitPutsAgain, queueVars
<1>3. Stations'
  BY <1>1, <1>2 DEF Stations, Emit, EmitBegins, EmitRaises, EmitPuts, EmitFindsFull, EmitEvicts, EmitPutsAgain,
                    EmitStep
<1>4. Places'
  BY <1>1, <1>2 DEF Places, Alive
<1>5. logged' \in 0..MaxRecords
  BY <1>1, LogAssumption DEF Counts, Emit, EmitBegins, EmitRaises, EmitPuts, EmitFindsFull, EmitEvicts,
                             EmitPutsAgain
<1>6. CASE EmitBegins \/ EmitFindsFull
  <2>1. queue' = queue /\ spared' = spared
    BY <1>6 DEF EmitBegins, EmitFindsFull, queueVars
  <2> QED
    BY <1>1, <1>2, <1>3, <1>4, <1>5, <2>1, ByParts DEF Lists, Counts, Shape
<1>7. CASE EmitPuts \/ EmitPutsAgain
  <2>1. /\ queue' = Append(queue, logged) /\ spared' = spared /\ Len(queue) < MaxQueue
        /\ logged \in Records
    BY <1>7, HeldIsCounted DEF EmitPuts, EmitPutsAgain, EmitStep, HasRoom
  <2>2. queue' \in Seq(Records) /\ Len(queue') = Len(queue) + 1
    BY <1>1, <2>1, Appended
  <2> QED
    BY <1>1, <1>2, <1>3, <1>4, <1>5, <2>1, <2>2, ByParts, LogAssumption DEF Lists, Counts, Shape
<1>9. CASE EmitRaises
  <2>1. queue' = queue /\ spared' = spared \cup {logged} /\ logged \in Records
    BY <1>9, HeldIsCounted DEF EmitRaises, EmitStep
  <2> QED
    BY <1>1, <1>2, <1>3, <1>4, <1>5, <2>1, ByParts DEF Lists, Counts, Shape
<1>8. CASE EmitEvicts
  <2>1. CASE queue = <<>>
    <3>1. queue' = queue /\ spared' = spared \cup {logged} /\ logged \in Records
      BY <1>8, <2>1, HeldIsCounted DEF EmitEvicts, EmitStep
    <3> QED
      BY <1>1, <1>2, <1>3, <1>4, <1>5, <3>1, ByParts DEF Lists, Counts, Shape
  <2>2. CASE queue # <<>>
    <3>1. queue' = Tail(queue) /\ spared' = spared \cup {Head(queue)}
      BY <1>8, <2>2 DEF EmitEvicts
    <3>2. Tail(queue) \in Seq(Records) /\ Head(queue) \in Records /\ Len(Tail(queue)) = Len(queue) - 1
      BY <1>1, <2>2, Shortened
    <3>3. Len(queue') <= MaxQueue
      BY <1>1, <3>1, <3>2, LogAssumption DEF Lists
    <3> QED
      BY <1>1, <1>2, <1>3, <1>4, <1>5, <3>1, <3>2, <3>3, ByParts DEF Lists, Counts, Shape
  <2> QED
    BY <2>1, <2>2
<1> QED
  BY <1>6, <1>7, <1>8, <1>9 DEF Emit

LEMMA EmitKeeps ==
  ASSUME Orderly, Emit
  PROVE  Orderly'
<1> DEFINE T == ToSet(table)
           B == ToSet(batch)
           R == ToSet(rest)
           Q == ToSet(queue)
<1>1. /\ table \in Seq(Nat) /\ batch \in Seq(Nat) /\ rest \in Seq(Nat) /\ queue \in Seq(Nat)
      /\ logged \in Nat
  BY Typed DEF Orderly, Shape
<1>2. /\ T \in SUBSET Nat /\ B \in SUBSET Nat /\ R \in SUBSET Nat /\ Q \in SUBSET Nat
      /\ Hand \in SUBSET Nat /\ spared \in SUBSET Nat
  BY <1>1, ToSetIn, ByParts DEF Hand, Counts, Records, Orderly, Shape
<1>3. /\ Line(T, B, R, Q, Hand) /\ Account(T, B, R, Q, Hand, spared, logged)
      /\ Ascends(table) /\ Ascends(batch) /\ Ascends(rest) /\ Ascends(queue)
  BY DEF Orderly, Accounts, InLine
<1>4. table' = table /\ batch' = batch /\ rest' = rest
  BY DEF Emit, EmitBegins, EmitRaises, EmitPuts, EmitFindsFull, EmitEvicts, EmitPutsAgain, queueVars
<1>5. ToSet(table') = T /\ ToSet(batch') = B /\ ToSet(rest') = R
  BY <1>4
<1>6. SUFFICES /\ Line(T, B, R, ToSet(queue'), Hand')
               /\ Account(T, B, R, ToSet(queue'), Hand', spared', logged')
               /\ Ascends(queue')
  BY <1>3, <1>4, <1>5, EmitStays DEF Orderly, Accounts, InLine
<1> HIDE DEF T, B, R, Q
<1>7. CASE EmitBegins
  <2>1. /\ Hand = {} /\ logged' = logged + 1 /\ Hand' = {logged + 1}
        /\ queue' = queue /\ spared' = spared
    BY <1>7 DEF EmitBegins, EmitStep, Hand, queueVars
  <2>2. ToSet(queue') = Q
    BY <2>1 DEF Q
  <2> QED
    BY <1>1, <1>2, <1>3, <2>1, <2>2, Advances
<1>8. CASE EmitPuts \/ EmitPutsAgain
  <2>1. /\ Hand = {logged} /\ logged' = logged /\ Hand' = {} /\ queue' = Append(queue, logged)
        /\ spared' = spared
    BY <1>8 DEF EmitPuts, EmitPutsAgain, EmitStep, Hand
  <2>2. ToSet(queue') = Q \cup {logged}
    <3>1. ToSet(Append(queue, logged)) = ToSet(queue) \cup {logged}
      BY <1>1, AppendedElements
    <3> QED
      BY <2>1, <3>1 DEF Q
  <2>3. Below(ToSet(queue), {logged})
    BY <1>3, <2>1 DEF Line, Q
  <2>4. Ascends(queue')
    BY <1>1, <1>3, <2>1, <2>3, AppendedAscends
  <2>5. Line(T, B, R, Q \cup {logged}, {}) /\ Account(T, B, R, Q \cup {logged}, {}, spared, logged)
    <3>1. Line(T, B, R, Q, {logged}) /\ Account(T, B, R, Q, {logged}, spared, logged)
      BY <1>3, <2>1
    <3> QED
      BY <1>1, <1>2, <3>1, Advances
  <2> QED
    BY <2>1, <2>2, <2>4, <2>5
<1>9. CASE EmitFindsFull
  <2>1. Hand' = Hand /\ logged' = logged /\ queue' = queue /\ spared' = spared
    BY <1>9 DEF EmitFindsFull, EmitStep, Hand, queueVars
  <2>2. ToSet(queue') = Q
    BY <2>1 DEF Q
  <2> QED
    BY <1>3, <2>1, <2>2
<1>10. CASE EmitRaises \/ (EmitEvicts /\ queue = <<>>)
  <2>1. /\ Hand = {logged} /\ Hand' = {} /\ logged' = logged /\ queue' = queue
        /\ spared' = spared \cup {logged}
    BY <1>10 DEF EmitRaises, EmitEvicts, EmitStep, Hand
  <2>2. ToSet(queue') = Q
    BY <2>1 DEF Q
  <2> QED
    BY <1>1, <1>2, <1>3, <2>1, <2>2, Advances
<1>11. CASE EmitEvicts /\ queue # <<>>
  <2>1. /\ Hand' = Hand /\ logged' = logged /\ queue' = Tail(queue)
        /\ spared' = spared \cup {Head(queue)}
    BY <1>11 DEF EmitEvicts, EmitStep, Hand
  <2>2. /\ Q = {Head(queue)} \cup ToSet(Tail(queue)) /\ Head(queue) \in Nat
        /\ Tail(queue) \in Seq(Nat)
    BY <1>1, <1>11, Shortened DEF Q
  <2>3. Ascends(Tail(queue)) /\ Below({Head(queue)}, ToSet(Tail(queue)))
    BY <1>1, <1>3, <1>11, ShortenedAscends
  <2>4. ToSet(Tail(queue)) \in SUBSET Nat
    BY <2>2, ToSetIn
  <2>5. /\ Line(T, B, R, ToSet(Tail(queue)), Hand)
        /\ Account(T, B, R, ToSet(Tail(queue)), Hand, spared \cup {Head(queue)}, logged)
    BY <1>1, <1>2, <1>3, <2>2, <2>3, <2>4, Passes
  <2> QED
    BY <2>1, <2>3, <2>5
<1> QED
  BY <1>7, <1>8, <1>9, <1>10, <1>11 DEF Emit

-----------------------------------------------------------------------------
(* The worker                                                              *)

LEMMA HeadIsTyped ==
  ASSUME TypeOK, queue # <<>>
  PROVE  /\ Tail(queue) \in Seq(Records) /\ Head(queue) \in Records
         /\ Len(Tail(queue)) = Len(queue) - 1
         /\ Append(batch, Head(queue)) \in Seq(Records)
         /\ Len(Append(batch, Head(queue))) = Len(batch) + 1
<1>1. queue \in Seq(Records) /\ batch \in Seq(Records)
  BY Typed
<1>2. /\ Tail(queue) \in Seq(Records) /\ Head(queue) \in Records
      /\ Len(Tail(queue)) = Len(queue) - 1
  BY <1>1, Shortened
<1> QED
  BY <1>1, <1>2, Appended

(* A batch that is inserted, or lost.                                      *)
LEMMA InsertIsTyped ==
  ASSUME TypeOK, NEW list \in Seq(Records), Insert(list)
  PROVE  table' \in Seq(Records) /\ spared' \subseteq Records
<1>1. table \in Seq(Records) /\ spared \subseteq Records
  BY Typed, ByParts DEF Counts
<1>2. table \o list \in Seq(Records) /\ ToSet(list) \subseteq Records
  BY <1>1, ConcatProperties, ToSetIn
<1> QED
  BY <1>1, <1>2 DEF Insert

LEMMA WorkerStays ==
  ASSUME Shape, Worker
  PROVE  Shape'
<1>1. /\ Flags /\ Stations /\ Lists /\ Counts /\ Places /\ TypeOK
      /\ queue \in Seq(Records) /\ batch \in Seq(Records) /\ rest \in Seq(Records)
      /\ table \in Seq(Records) /\ Len(queue) <= MaxQueue /\ Len(batch) <= MaxBatch
      /\ spared \subseteq Records /\ Len(queue) \in Nat /\ Len(batch) \in Nat
  BY ByParts, Typed DEF Shape, Lists, Counts
<1>2. UNCHANGED <<pool, healthy, lifecycle, rest, probing, emitting, logged>> /\ lifecycle # "joining"
  BY DEF Worker, WorkerGets, WorkerLooks, WorkerTakes, WorkerMisses, WorkerWakes, WorkerInserts,
         WorkerStep
<1>3. Flags'
  BY <1>1, <1>2 DEF Flags
<1>4. Stations' /\ Alive /\ Alive'
  BY <1>1, <1>2 DEF Stations, Alive, Worker, WorkerGets, WorkerLooks, WorkerTakes, WorkerMisses,
                    WorkerWakes, WorkerInserts, WorkerStep
<1>5. (Alive' => pool' /\ lifecycle' \in {"idle", "joining"}) /\ rest' = <<>>
  BY <1>1, <1>2, <1>4 DEF Places
<1>6. <<>> \in Seq(Records) /\ Len(<<>>) = 0
  BY EmptyList
<1>7. SUFFICES /\ queue' \in Seq(Records) /\ batch' \in Seq(Records) /\ table' \in Seq(Records)
               /\ Len(queue') <= MaxQueue /\ Len(batch') <= MaxBatch /\ spared' \subseteq Records
               /\ worker' \notin {"collecting", "taking", "inserting"} => batch' = <<>>
               /\ worker' = "taking" => Len(batch') < MaxBatch
  <2>1. Lists' /\ Counts'
    BY <1>1, <1>2, <1>7 DEF Lists, Counts
  <2>2. Places'
    BY <1>2, <1>4, <1>5, <1>7 DEF Places
  <2> QED
    BY <1>3, <1>4, <2>1, <2>2, ByParts DEF Shape
<1>8. CASE WorkerGets
  <2>1. worker = "waiting" /\ UNCHANGED <<queue, batch, table, spared>>
    BY <1>8 DEF WorkerGets, WorkerStep
  <2>2. batch = <<>>
    BY <1>1, <2>1 DEF Places
  <2> QED
    BY <1>1, <1>6, <2>1, <2>2, LogAssumption
<1>9. CASE WorkerLooks
  <2>1. /\ UNCHANGED <<queue, batch, table, spared>>
        /\ worker' = IF WantsMore THEN "taking" ELSE "inserting"
    BY <1>9 DEF WorkerLooks, WorkerStep
  <2> QED
    BY <1>1, <2>1 DEF WantsMore
<1>10. CASE WorkerTakes
  <2>1. /\ queue # <<>> /\ worker = "taking" /\ worker' = "collecting"
        /\ batch' = Append(batch, Head(queue)) /\ queue' = Tail(queue)
        /\ UNCHANGED <<table, spared>>
    BY <1>10 DEF WorkerTakes, WorkerStep
  <2>2. Len(batch') <= MaxBatch /\ Len(queue') <= MaxQueue
    BY <1>1, <2>1, HeadIsTyped, LogAssumption DEF Places
  <2> QED
    BY <1>1, <2>1, <2>2, HeadIsTyped
<1>11. CASE WorkerMisses
  <2>1. /\ batch' = <<>> /\ spared' = spared \cup ToSet(batch) /\ UNCHANGED <<queue, table>>
        /\ worker' = "sleeping"
    BY <1>11 DEF WorkerMisses, WorkerStep
  <2>2. ToSet(batch) \subseteq Records
    BY <1>1, ToSetIn
  <2> QED
    BY <1>1, <1>6, <2>1, <2>2, LogAssumption
<1>12. CASE WorkerWakes
  <2>1. UNCHANGED <<queue, batch, table, spared>> /\ worker = "sleeping" /\ worker' = "waiting"
    BY <1>12 DEF WorkerWakes, WorkerStep
  <2> QED
    BY <1>1, <2>1 DEF Places
<1>13. CASE WorkerInserts
  <2>1. Insert(batch) /\ batch' = <<>> /\ queue' = queue /\ worker' = "waiting"
    BY <1>13 DEF WorkerInserts, WorkerStep
  <2> QED
    BY <1>1, <1>6, <2>1, InsertIsTyped, LogAssumption
<1> QED
  BY <1>8, <1>9, <1>10, <1>11, <1>12, <1>13 DEF Worker

(* The records of a list move into the table, or are given up.             *)
LEMMA Inserted ==
  ASSUME TypeOK, NEW list \in Seq(Nat), Insert(list),
         Ascends(table), Ascends(list), Below(ToSet(table), ToSet(list))
  PROVE  /\ Ascends(table')
         /\ \/ ToSet(table') = ToSet(table) \cup ToSet(list) /\ spared' = spared
            \/ ToSet(table') = ToSet(table) /\ spared' = spared \cup ToSet(list)
<1>1. table \in Seq(Nat)
  BY Typed
<1>2. CASE table' = table \o list /\ spared' = spared
  <2>1. ToSet(table \o list) = ToSet(table) \cup ToSet(list)
    BY <1>1, Joined
  <2>2. Ascends(table \o list)
    BY <1>1, JoinedAscends
  <2> QED
    BY <1>2, <2>1, <2>2
<1>3. CASE table' = table /\ spared' = spared \cup ToSet(list)
  BY <1>3
<1> QED
  BY <1>2, <1>3 DEF Insert

LEMMA WorkerKeeps ==
  ASSUME Orderly, Worker
  PROVE  Orderly'
<1> DEFINE T == ToSet(table)
           B == ToSet(batch)
           R == ToSet(rest)
           Q == ToSet(queue)
<1>1. /\ table \in Seq(Nat) /\ batch \in Seq(Nat) /\ rest \in Seq(Nat) /\ queue \in Seq(Nat)
      /\ logged \in Nat /\ TypeOK /\ Places /\ Stations
  BY Typed, ByParts DEF Orderly, Shape
<1>2. /\ T \in SUBSET Nat /\ B \in SUBSET Nat /\ R \in SUBSET Nat /\ Q \in SUBSET Nat
      /\ Hand \in SUBSET Nat /\ spared \in SUBSET Nat
  BY <1>1, ToSetIn, ByParts DEF Hand, Counts, Records
<1>3. /\ Line(T, B, R, Q, Hand) /\ Account(T, B, R, Q, Hand, spared, logged)
      /\ Ascends(table) /\ Ascends(batch) /\ Ascends(rest) /\ Ascends(queue)
  BY DEF Orderly, Accounts, InLine
<1>4. rest' = rest /\ logged' = logged /\ emitting' = emitting
  BY DEF Worker, WorkerGets, WorkerLooks, WorkerTakes, WorkerMisses, WorkerWakes, WorkerInserts,
         WorkerStep
<1>5. ToSet(rest') = R /\ Hand' = Hand
  BY <1>4 DEF Hand
<1>6. rest = <<>>
  <2>1. Alive
    BY DEF Alive, Worker, WorkerGets, WorkerLooks, WorkerTakes, WorkerMisses, WorkerWakes,
           WorkerInserts, WorkerStep
  <2> QED
    BY <1>1, <2>1 DEF Places
<1>7. R = {}
  BY <1>6, EmptyList
<1>8. SUFFICES /\ Line(ToSet(table'), ToSet(batch'), R, ToSet(queue'), Hand)
               /\ Account(ToSet(table'), ToSet(batch'), R, ToSet(queue'), Hand, spared', logged)
               /\ Ascends(table') /\ Ascends(batch') /\ Ascends(queue')
  <2>1. Shape'
    BY WorkerStays DEF Orderly
  <2> QED
    BY <1>3, <1>4, <1>5, <1>8, <2>1 DEF Orderly, Accounts, InLine
<1> HIDE DEF T, B, R, Q
<1>9. CASE WorkerTakes
  <2>1. /\ queue # <<>> /\ queue' = Tail(queue) /\ UNCHANGED <<table, spared>>
        /\ batch' = Append(batch, Head(queue))
    BY <1>9 DEF WorkerTakes
  <2>2. /\ Q = {Head(queue)} \cup ToSet(Tail(queue)) /\ Head(queue) \in Nat
        /\ Tail(queue) \in Seq(Nat)
    BY <1>1, <2>1, Shortened DEF Q
  <2>3. Ascends(Tail(queue)) /\ Below({Head(queue)}, ToSet(Tail(queue)))
    BY <1>1, <1>3, <2>1, ShortenedAscends
  <2>4. ToSet(Tail(queue)) \in SUBSET Nat
    BY <2>2, ToSetIn
  <2>5. /\ Line(T, B \cup {Head(queue)}, R, ToSet(Tail(queue)), Hand)
        /\ Account(T, B \cup {Head(queue)}, R, ToSet(Tail(queue)), Hand, spared, logged)
    BY <1>1, <1>2, <1>3, <1>7, <2>2, <2>3, <2>4, Passes
  <2>6. ToSet(batch') = B \cup {Head(queue)} /\ Ascends(batch')
    <3>1. ToSet(Append(batch, Head(queue))) = ToSet(batch) \cup {Head(queue)}
      BY <1>1, <2>2, AppendedElements
    <3>2. Below(ToSet(batch), {Head(queue)})
      BY <1>3, <2>2 DEF Line, Below, B
    <3>3. Ascends(Append(batch, Head(queue)))
      BY <1>1, <1>3, <2>2, <3>2, AppendedAscends
    <3> QED
      BY <2>1, <3>1, <3>3 DEF B
  <2>7. ToSet(table') = T /\ table' = table
    BY <2>1 DEF T
  <2> QED
    BY <1>3, <2>1, <2>3, <2>5, <2>6, <2>7
<1>10. CASE WorkerGets \/ WorkerLooks \/ WorkerWakes
  <2>1. UNCHANGED <<queue, batch, table, spared>>
    BY <1>10 DEF WorkerGets, WorkerLooks, WorkerWakes
  <2>2. ToSet(queue') = Q /\ ToSet(batch') = B /\ ToSet(table') = T
    BY <2>1 DEF T, B, Q
  <2> QED
    BY <1>3, <2>1, <2>2
<1>11. CASE WorkerMisses
  <2>1. batch' = <<>> /\ spared' = spared \cup B /\ UNCHANGED <<queue, table>>
    BY <1>11 DEF WorkerMisses, B
  <2>2. ToSet(queue') = Q /\ ToSet(batch') = {} /\ ToSet(table') = T /\ Ascends(batch')
    BY <2>1, EmptyList DEF T, Q
  <2>3. Line(T, {}, R, Q, Hand) /\ Account(T, {}, R, Q, Hand, spared \cup B, logged)
    BY <1>1, <1>2, <1>3, Stores
  <2> QED
    BY <1>3, <2>1, <2>2, <2>3
<1>12. CASE WorkerInserts
  <2>1. Insert(batch) /\ batch' = <<>> /\ queue' = queue
    BY <1>12 DEF WorkerInserts
  <2>2. ToSet(queue') = Q /\ ToSet(batch') = {} /\ Ascends(batch')
    BY <2>1, EmptyList DEF Q
  <2>3. Below(ToSet(table), ToSet(batch))
    BY <1>3 DEF Line, T, B
  <2>4. /\ Ascends(table')
        /\ \/ ToSet(table') = T \cup B /\ spared' = spared
           \/ ToSet(table') = T /\ spared' = spared \cup B
    BY <1>1, <1>3, <2>1, <2>3, Inserted DEF T, B
  <2>5. /\ Line(T \cup B, {}, R, Q, Hand) /\ Account(T \cup B, {}, R, Q, Hand, spared, logged)
        /\ Line(T, {}, R, Q, Hand) /\ Account(T, {}, R, Q, Hand, spared \cup B, logged)
    BY <1>1, <1>2, <1>3, Stores
  <2> QED
    BY <1>3, <2>1, <2>2, <2>4, <2>5
<1> QED
  BY <1>9, <1>10, <1>11, <1>12 DEF Worker

-----------------------------------------------------------------------------
(* initialize(), shutdown() and check_health()                             *)

Other ==
    InitializeBegins \/ InitializeFails \/ Connected \/ InitializeEnds \/ ShutdownBegins
    \/ WorkerCancelled \/ FlushLooks \/ FlushTakes \/ FlushMisses \/ Flush \/ FlushCancelled
    \/ Close \/ CloseFails \/ ProbeBegins \/ ProbeEnds

LEMMA OtherStays ==
  ASSUME Shape, Other
  PROVE  Shape'
<1>1. /\ Flags /\ Stations /\ Lists /\ Counts /\ Places /\ TypeOK
      /\ queue \in Seq(Records) /\ batch \in Seq(Records) /\ rest \in Seq(Records)
      /\ table \in Seq(Records) /\ Len(queue) <= MaxQueue /\ Len(batch) <= MaxBatch
      /\ spared \subseteq Records /\ Len(queue) \in Nat /\ Len(batch) \in Nat
  BY ByParts, Typed DEF Shape, Lists, Counts
<1>2. emitting' = emitting /\ logged' = logged
  BY DEF Other, InitializeBegins, InitializeFails, Connected, InitializeEnds, ShutdownBegins,
         WorkerCancelled, FlushLooks, FlushTakes, FlushMisses, Flush, FlushCancelled, Flushed, Close,
         CloseFails, ProbeBegins, ProbeEnds, LifecycleStep
<1>3. Flags'
  <2>1. CASE ProbeEnds
    BY <1>1, <2>1, Zenon DEF Flags, ProbeEnds
  <2>2. CASE ~ProbeEnds
    BY <1>1, <2>2 DEF Flags, Other, InitializeBegins, InitializeFails, Connected, InitializeEnds,
           ShutdownBegins, WorkerCancelled, FlushLooks, FlushTakes, FlushMisses, Flush,
           FlushCancelled, Flushed, Close, CloseFails, ProbeBegins, queueVars
  <2> QED
    BY <2>1, <2>2
<1>4. Stations'
  BY <1>1, <1>2 DEF Stations, Other, InitializeBegins, InitializeFails, Connected, InitializeEnds,
         ShutdownBegins, WorkerCancelled, FlushLooks, FlushTakes, FlushMisses, Flush, FlushCancelled,
         Flushed, Close, CloseFails, ProbeBegins, ProbeEnds, LifecycleStep
<1>5. Lists' /\ Counts'
  <2>1. /\ <<>> \in Seq(Records) /\ Len(<<>>) = 0 /\ ToSet(queue) \subseteq Records
        /\ MaxQueue \in Nat /\ MaxBatch \in Nat
    BY <1>1, EmptyList, ToSetIn, LogAssumption
  <2>2. CASE InitializeBegins
    <3>1. /\ queue' = <<>> /\ UNCHANGED <<batch, table, rest>>
          /\ spared' = spared \cup ToSet(queue)
      BY <2>2 DEF InitializeBegins
    <3>2. Len(queue') <= MaxQueue /\ spared' \subseteq Records
      BY <1>1, <2>1, <3>1
    <3> QED
      BY <1>1, <1>2, <2>1, <3>1, <3>2 DEF Lists, Counts
  <2>6. CASE FlushTakes
    <3>1. /\ queue # <<>> /\ queue' = Tail(queue) /\ rest' = Append(rest, Head(queue))
          /\ UNCHANGED <<batch, table, spared>>
      BY <2>6 DEF FlushTakes
    <3>2. /\ Tail(queue) \in Seq(Records) /\ Head(queue) \in Records
          /\ Len(Tail(queue)) = Len(queue) - 1
      BY <1>1, <3>1, HeadIsTyped
    <3>3. rest' \in Seq(Records)
      BY <1>1, <3>1, <3>2, Appended
    <3>4. Len(queue') <= MaxQueue
      BY <1>1, <2>1, <3>1, <3>2
    <3> QED
      BY <1>1, <1>2, <3>1, <3>2, <3>3, <3>4 DEF Lists, Counts
  <2>7. CASE FlushMisses
    <3>1. /\ rest' = <<>> /\ spared' = spared \cup ToSet(rest) /\ UNCHANGED <<queue, batch, table>>
          /\ ToSet(rest) \subseteq Records
      BY <1>1, <2>7, ToSetIn DEF FlushMisses
    <3> QED
      BY <1>1, <1>2, <2>1, <3>1 DEF Lists, Counts
  <2>3. CASE WorkerCancelled
    <3>1. table' \in Seq(Records) /\ spared' \subseteq Records
      BY <1>1, <2>3, InsertIsTyped DEF WorkerCancelled
    <3> QED
      BY <1>1, <1>2, <2>1, <2>3, <3>1 DEF Lists, Counts, WorkerCancelled
  <2>4. CASE Flush \/ FlushCancelled
    <3>1. Insert(rest) /\ rest' = <<>> /\ queue' = queue /\ batch' = batch
      BY <2>4 DEF Flush, FlushCancelled, Flushed
    <3>2. table' \in Seq(Records) /\ spared' \subseteq Records
      BY <1>1, <3>1, InsertIsTyped
    <3> QED
      BY <1>1, <1>2, <2>1, <3>1, <3>2 DEF Lists, Counts
  <2>5. CASE InitializeFails \/ Connected \/ InitializeEnds \/ ShutdownBegins \/ FlushLooks
             \/ Close \/ CloseFails \/ ProbeBegins \/ ProbeEnds
    <3>1. UNCHANGED queueVars
      BY <2>5 DEF InitializeFails, Connected, InitializeEnds, ShutdownBegins, FlushLooks, Close,
                  CloseFails, ProbeBegins, ProbeEnds
    <3> QED
      BY <1>1, <1>2, <3>1 DEF Lists, Counts, queueVars
  <2> QED
    BY <2>2, <2>3, <2>4, <2>5, <2>6, <2>7 DEF Other
<1>6. Places'
  <2>1. CASE InitializeBegins \/ InitializeFails \/ Connected
    BY <1>1, <2>1 DEF Places, Alive, InitializeBegins, InitializeFails, Connected, LifecycleStep,
                      queueVars
  <2>2. CASE InitializeEnds
    BY <1>1, <2>2 DEF Places, Alive, InitializeEnds, LifecycleStep, LoopFree, queueVars
  <2>3. CASE ShutdownBegins \/ WorkerCancelled
    BY <1>1, <2>3 DEF Places, Alive, ShutdownBegins, WorkerCancelled, LifecycleStep, LoopFree,
                      queueVars
  <2>4. CASE FlushLooks \/ FlushTakes
    BY <1>1, <2>4 DEF Places, Alive, FlushLooks, FlushTakes, LifecycleStep, queueVars
  <2>6. CASE FlushMisses \/ Flush \/ FlushCancelled
    BY <1>1, <2>6 DEF Places, Alive, FlushMisses, Flush, FlushCancelled, Flushed, LifecycleStep
  <2>5. CASE Close \/ CloseFails \/ ProbeBegins \/ ProbeEnds
    BY <1>1, <2>5 DEF Places, Alive, Close, CloseFails, ProbeBegins, ProbeEnds, LifecycleStep,
                      queueVars
  <2> QED
    BY <2>1, <2>2, <2>3, <2>4, <2>5, <2>6 DEF Other
<1> QED
  BY <1>3, <1>4, <1>5, <1>6, ByParts DEF Shape

LEMMA OtherKeeps ==
  ASSUME Orderly, Other
  PROVE  Orderly'
<1> DEFINE T == ToSet(table)
           B == ToSet(batch)
           R == ToSet(rest)
           Q == ToSet(queue)
<1>1. /\ table \in Seq(Nat) /\ batch \in Seq(Nat) /\ rest \in Seq(Nat) /\ queue \in Seq(Nat)
      /\ logged \in Nat /\ TypeOK /\ Places /\ Stations
  BY Typed, ByParts DEF Orderly, Shape
<1>2. /\ T \in SUBSET Nat /\ B \in SUBSET Nat /\ R \in SUBSET Nat /\ Q \in SUBSET Nat
      /\ Hand \in SUBSET Nat /\ spared \in SUBSET Nat
  BY <1>1, ToSetIn, ByParts DEF Hand, Counts, Records
<1>3. /\ Line(T, B, R, Q, Hand) /\ Account(T, B, R, Q, Hand, spared, logged)
      /\ Ascends(table) /\ Ascends(batch) /\ Ascends(rest) /\ Ascends(queue)
  BY DEF Orderly, Accounts, InLine
<1>4. emitting' = emitting /\ logged' = logged
  BY DEF Other, InitializeBegins, InitializeFails, Connected, InitializeEnds, ShutdownBegins,
         WorkerCancelled, FlushLooks, FlushTakes, FlushMisses, Flush, FlushCancelled, Flushed, Close,
         CloseFails, ProbeBegins, ProbeEnds, LifecycleStep
<1>5. Hand' = Hand
  BY <1>4 DEF Hand
<1>6. SUFFICES /\ Line(ToSet(table'), ToSet(batch'), ToSet(rest'), ToSet(queue'), Hand)
               /\ Account(ToSet(table'), ToSet(batch'), ToSet(rest'), ToSet(queue'), Hand,
                          spared', logged)
               /\ Ascends(table') /\ Ascends(batch') /\ Ascends(rest') /\ Ascends(queue')
  <2>1. Shape'
    BY OtherStays DEF Orderly
  <2> QED
    BY <1>4, <1>5, <1>6, <2>1 DEF Orderly, Accounts, InLine
<1> HIDE DEF T, B, R, Q
<1>7. /\ Line(T \cup B, {}, R, Q, Hand) /\ Account(T \cup B, {}, R, Q, Hand, spared, logged)
      /\ Line(T, {}, R, Q, Hand) /\ Account(T, {}, R, Q, Hand, spared \cup B, logged)
      /\ Line(T, B, R, {}, Hand) /\ Account(T, B, R, {}, Hand, spared \cup Q, logged)
      /\ B = {} => Line(T \cup R, B, {}, Q, Hand) /\ Account(T \cup R, B, {}, Q, Hand, spared, logged)
      /\ Line(T, B, {}, Q, Hand) /\ Account(T, B, {}, Q, Hand, spared \cup R, logged)
  BY <1>1, <1>2, <1>3, Stores
<1>8. ToSet(<<>>) = {} /\ Ascends(<<>>)
  BY EmptyList
<1>9. CASE InitializeBegins
  <2>1. queue' = <<>> /\ spared' = spared \cup Q /\ UNCHANGED <<batch, rest, table>>
    BY <1>9 DEF InitializeBegins, Q
  <2>2. ToSet(table') = T /\ ToSet(batch') = B /\ ToSet(rest') = R /\ ToSet(queue') = {}
    BY <1>8, <2>1 DEF T, B, R
  <2> QED
    BY <1>3, <1>7, <1>8, <2>1, <2>2
<1>10. CASE WorkerCancelled
  <2>1. Insert(batch) /\ batch' = <<>> /\ queue' = queue /\ rest' = rest
    BY <1>10 DEF WorkerCancelled
  <2>2. /\ ToSet(queue') = Q /\ ToSet(rest') = R /\ ToSet(batch') = {} /\ Ascends(batch')
    BY <1>8, <2>1 DEF Q, R
  <2>3. Below(ToSet(table), ToSet(batch))
    BY <1>3 DEF Line, T, B
  <2>4. /\ Ascends(table')
        /\ \/ ToSet(table') = T \cup B /\ spared' = spared
           \/ ToSet(table') = T /\ spared' = spared \cup B
    BY <1>1, <1>3, <2>1, <2>3, Inserted DEF T, B
  <2> QED
    BY <1>3, <1>7, <2>1, <2>2, <2>4
<1>11. CASE FlushTakes
  <2>1. /\ queue # <<>> /\ queue' = Tail(queue) /\ rest' = Append(rest, Head(queue))
        /\ UNCHANGED <<batch, table, spared>>
    BY <1>11 DEF FlushTakes
  <2>2. /\ Q = {Head(queue)} \cup ToSet(Tail(queue)) /\ Head(queue) \in Nat
        /\ Tail(queue) \in Seq(Nat)
    BY <1>1, <2>1, Shortened DEF Q
  <2>3. Ascends(Tail(queue)) /\ Below({Head(queue)}, ToSet(Tail(queue)))
    BY <1>1, <1>3, <2>1, ShortenedAscends
  <2>4. ToSet(Tail(queue)) \in SUBSET Nat
    BY <2>2, ToSetIn
  <2>5. /\ Line(T, B, R \cup {Head(queue)}, ToSet(Tail(queue)), Hand)
        /\ Account(T, B, R \cup {Head(queue)}, ToSet(Tail(queue)), Hand, spared, logged)
    BY <1>1, <1>2, <1>3, <2>2, <2>3, <2>4, Passes
  <2>6. ToSet(rest') = R \cup {Head(queue)} /\ Ascends(rest')
    <3>1. ToSet(Append(rest, Head(queue))) = ToSet(rest) \cup {Head(queue)}
      BY <1>1, <2>2, AppendedElements
    <3>2. Below(ToSet(rest), {Head(queue)})
      BY <1>3, <2>2 DEF Line, Below, R
    <3>3. Ascends(Append(rest, Head(queue)))
      BY <1>1, <1>3, <2>2, <3>2, AppendedAscends
    <3> QED
      BY <2>1, <3>1, <3>3 DEF R
  <2>7. ToSet(table') = T /\ ToSet(batch') = B /\ table' = table /\ batch' = batch
    BY <2>1 DEF T, B
  <2> QED
    BY <1>3, <2>1, <2>3, <2>5, <2>6, <2>7
<1>14. CASE FlushMisses
  <2>1. rest' = <<>> /\ spared' = spared \cup R /\ UNCHANGED <<queue, batch, table>>
    BY <1>14 DEF FlushMisses, R
  <2>2. ToSet(table') = T /\ ToSet(batch') = B /\ ToSet(rest') = {} /\ ToSet(queue') = Q
    BY <1>8, <2>1 DEF T, B, Q
  <2> QED
    BY <1>3, <1>7, <1>8, <2>1, <2>2
<1>12. CASE Flush \/ FlushCancelled
  <2>1. Insert(rest) /\ rest' = <<>> /\ queue' = queue /\ batch' = batch
    BY <1>12 DEF Flush, FlushCancelled, Flushed
  <2>2. lifecycle = "flushing"
    BY <1>12 DEF Flush, FlushCancelled, Flushed, LifecycleStep
  <2>3. batch = <<>>
    BY <1>1, <2>2 DEF Places, Alive, Stations
  <2>4. /\ ToSet(queue') = Q /\ ToSet(batch') = B /\ B = {} /\ ToSet(rest') = {} /\ Ascends(rest')
    BY <1>8, <2>1, <2>3 DEF Q, B
  <2>5. Below(ToSet(table), ToSet(rest))
    BY <1>3 DEF Line, T, R
  <2>6. /\ Ascends(table')
        /\ \/ ToSet(table') = T \cup R /\ spared' = spared
           \/ ToSet(table') = T /\ spared' = spared \cup R
    BY <1>1, <1>3, <2>1, <2>5, Inserted DEF T, R
  <2> QED
    BY <1>3, <1>7, <2>1, <2>4, <2>6
<1>13. CASE InitializeFails \/ Connected \/ InitializeEnds \/ ShutdownBegins \/ FlushLooks
            \/ Close \/ CloseFails \/ ProbeBegins \/ ProbeEnds
  <2>1. UNCHANGED queueVars
    BY <1>13 DEF InitializeFails, Connected, InitializeEnds, ShutdownBegins, FlushLooks, Close,
                 CloseFails, ProbeBegins, ProbeEnds
  <2>2. UNCHANGED <<table, batch, rest, queue, spared>>
    BY <2>1 DEF queueVars
  <2>3. ToSet(table') = T /\ ToSet(batch') = B /\ ToSet(rest') = R /\ ToSet(queue') = Q
    BY <2>2 DEF T, B, R, Q
  <2> QED
    BY <1>3, <2>2, <2>3
<1> QED
  BY <1>9, <1>10, <1>11, <1>12, <1>13, <1>14 DEF Other

LEMMA OrderlyStep == Orderly /\ [Next]_vars => Orderly'
<1> SUFFICES ASSUME Orderly, [Next]_vars PROVE Orderly'
  OBVIOUS
<1>1. CASE Emit
  BY <1>1, EmitKeeps
<1>2. CASE Worker
  BY <1>2, WorkerKeeps
<1>3. CASE Other
  BY <1>3, OtherKeeps
<1>4. CASE UNCHANGED vars
  <2>1. /\ UNCHANGED <<queue, pool, healthy, worker, batch, lifecycle>>
        /\ UNCHANGED <<rest, probing, emitting, logged, table, spared>>
    BY <1>4 DEF vars
  <2>2. TypeOK'
    <3>1. Flags' /\ Stations' /\ Lists' /\ Counts'
      BY <2>1, ByParts DEF Flags, Stations, Lists, Counts, Orderly, Shape
    <3> QED
      BY <3>1, ByParts
  <2>3. Places'
    BY <2>1 DEF Orderly, Shape, Places, Alive
  <2>4. Accounts' /\ InLine'
    BY <2>1 DEF Orderly, Accounts, InLine, Hand
  <2> QED
    BY <2>2, <2>3, <2>4 DEF Orderly, Shape
<1> QED
  BY <1>1, <1>2, <1>3, <1>4 DEF Next, Initialize, ShutdownGoesOn, Other

THEOREM Inductive == Spec => []Orderly
  BY OrderlyInit, OrderlyStep, PTL DEF Spec

(* Every variable keeps its shape: in particular the queue and a batch     *)
(* stay within their limits, and no step is taken from a list that has no  *)
(* record.                                                                 *)
THEOREM TypeCorrect == Spec => []TypeOK
<1>1. Orderly => TypeOK
  BY DEF Orderly, Shape
<1> QED
  BY <1>1, Inductive, PTL

-----------------------------------------------------------------------------
(* What the inductive invariant says of everything that is kept            *)

LEMMA KeptIsListed ==
  ASSUME Orderly
  PROVE  /\ ToSet(Kept) = ToSet(table) \cup ToSet(batch) \cup ToSet(rest) \cup ToSet(queue) \cup Hand
         /\ Kept \in Seq(Nat) /\ Ascends(Kept)
<1>1. /\ table \in Seq(Nat) /\ batch \in Seq(Nat) /\ rest \in Seq(Nat) /\ queue \in Seq(Nat)
      /\ logged \in Nat
  BY Typed DEF Orderly, Shape
<1>2. /\ Ascends(table) /\ Ascends(batch) /\ Ascends(rest) /\ Ascends(queue)
      /\ Line(ToSet(table), ToSet(batch), ToSet(rest), ToSet(queue), Hand)
  BY DEF Orderly, InLine
<1>3. InHand \in Seq(Nat) /\ ToSet(InHand) = Hand /\ Ascends(InHand)
  BY <1>1, EmptyList, OneElement DEF InHand, Hand
<1> DEFINE t == table \o batch
           u == t \o rest
           w == u \o queue
<1>4. /\ t \in Seq(Nat) /\ ToSet(t) = ToSet(table) \cup ToSet(batch) /\ Ascends(t)
  <2>1. Below(ToSet(table), ToSet(batch))
    BY <1>2 DEF Line
  <2> QED
    BY <1>1, <1>2, <2>1, Joined, JoinedAscends
<1> HIDE DEF t
<1>5. /\ u \in Seq(Nat) /\ ToSet(u) = ToSet(t) \cup ToSet(rest) /\ Ascends(u)
  <2>1. Below(ToSet(t), ToSet(rest))
    BY <1>2, <1>4 DEF Line, Below
  <2>2. u \in Seq(Nat) /\ ToSet(u) = ToSet(t) \cup ToSet(rest)
    BY <1>1, <1>2, <1>4, Joined
  <2>3. Ascends(u)
    BY <1>1, <1>2, <1>4, <2>1, JoinedAscends
  <2> QED
    BY <2>2, <2>3
<1> HIDE DEF u
<1>6. /\ w \in Seq(Nat) /\ ToSet(w) = ToSet(u) \cup ToSet(queue) /\ Ascends(w)
  <2>1. Below(ToSet(u), ToSet(queue))
    BY <1>2, <1>4, <1>5 DEF Line, Below
  <2>2. w \in Seq(Nat) /\ ToSet(w) = ToSet(u) \cup ToSet(queue)
    BY <1>1, <1>2, <1>5, Joined
  <2>3. Ascends(w)
    BY <1>1, <1>2, <1>5, <2>1, JoinedAscends
  <2> QED
    BY <2>2, <2>3
<1> HIDE DEF w
<1>7. /\ w \o InHand \in Seq(Nat) /\ ToSet(w \o InHand) = ToSet(w) \cup ToSet(InHand)
      /\ Ascends(w \o InHand)
  <2>1. Below(ToSet(w), ToSet(InHand))
    BY <1>2, <1>3, <1>4, <1>5, <1>6 DEF Line, Below
  <2>2. w \o InHand \in Seq(Nat) /\ ToSet(w \o InHand) = ToSet(w) \cup ToSet(InHand)
    BY <1>3, <1>6, Joined
  <2>3. Ascends(w \o InHand)
    BY <1>3, <1>6, <2>1, JoinedAscends
  <2> QED
    BY <2>2, <2>3
<1>8. Kept = w \o InHand
  BY DEF Kept, t, u, w
<1> QED
  BY <1>3, <1>4, <1>5, <1>6, <1>7, <1>8

(* A record that was accepted is in one place, or has been given up for    *)
(* one of the causes NothingVanishes lists, and never both.                *)
THEOREM NothingIsLost == Spec => []NothingVanishes
<1>1. Orderly => NothingVanishes
  BY KeptIsListed DEF Orderly, Accounts, Account, NothingVanishes
<1> QED
  BY <1>1, Inductive, PTL

(* The rows, then the batch, the list shutdown() flushes, the queue and    *)
(* the record in hand are in the order of logging, so no record is ever    *)
(* written twice: whatever the sizes of queue and batch, the number of     *)
(* records and the ones an insert stumbles over.                           *)
THEOREM OrderIsKept == Spec => []OrderKept
<1>1. Orderly => OrderKept
  BY KeptIsListed DEF OrderKept, Ascends
<1> QED
  BY <1>1, Inductive, PTL
=============================================================================
