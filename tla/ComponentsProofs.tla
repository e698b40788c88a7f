-------------------------- MODULE ComponentsProofs --------------------------
(* Proofs about the components of an application and the container that    *)
(* runs them, for any connectors, interfaces, names and callers and for    *)
(* streams of any length.                                                  *)
EXTENDS Components, SequenceTheorems, TLAPS

-----------------------------------------------------------------------------
(* The inductive invariant                                                 *)

(* An operation's two counts of chunks agree at every point of it.         *)
CallFits(c) ==
    /\ c.given = c.counted
    /\ c.pc = "ending" => (c.report = "failed" <=> c.outcome = "raised") /\ c.report # "none"

CallsFit ==
    /\ call \in [Callers -> Call] /\ \A t \in Callers : CallFits(call[t])
    /\ left \subseteq Call /\ \A c \in left : CallFits(c) /\ c.pc = "ending"

(* Under a connector's key there is a connector.                           *)
FitEntry ==
    {e \in Entry : IF e.key = "interface" THEN e.object \in Interfaces ELSE e.object \in Connectors}

Unique(list) ==
    \A j, k \in DOMAIN list : list[j].key = list[k].key /\ list[j].of = list[k].of => j = k

ManagerFits ==
    /\ manager \in Manager /\ manager.todo \in Seq(FitEntry)
    /\ manager.op \in {"starting", "stopping", "checking"}
          => manager.todo # <<>> /\ manager.target \in Connectors

(* An interface in the container, or whose turn is to come, has a worker.  *)
Staffed == \A e \in Range(instances) \cup Range(manager.todo) : Target(e) \in Connectors

Shape ==
    /\ CallsFit /\ ManagerFits /\ Staffed
    /\ worker \in [Interfaces -> Connectors \cup {Nobody}]
    /\ instances \in Seq(FitEntry) /\ Unique(instances)
    /\ open \subseteq Connectors /\ spoiled \subseteq Connectors

(* Entries whose turn is still to come.                                    *)
Owed == {manager.todo[k] : k \in 2..Len(manager.todo)}

(* Of every entry, start_all() has opened the connector, or is at it, or   *)
(* will come to it; or the connector is fresh.                             *)
Starts ==
    manager.op = "starting" =>
        \A e \in Range(instances) :
            e \in Owed \/ Target(e) \in open \cup manager.fresh \cup {manager.target}

StaysUp ==
    manager.op = "up" \/ (manager.op = "checking" /\ manager.was = "up") =>
        \A e \in Range(instances) : Target(e) \in open \cup manager.fresh

Stops ==
    manager.op = "stopping" =>
        \A e \in Range(instances) :
            e \in Owed \/ (Target(e) \in open => Target(e) \in spoiled \cup manager.fresh \cup {manager.target})

Kept == Starts /\ StaysUp /\ Stops

Orderly == Shape /\ Kept

-----------------------------------------------------------------------------
(* Sequences                                                               *)

LEMMA Elements ==
  ASSUME NEW S, NEW s \in Seq(S)
  PROVE  /\ Len(s) \in Nat /\ DOMAIN s = 1..Len(s) /\ Range(s) \subseteq S
         /\ \A i \in 1..Len(s) : s[i] \in S
         /\ \A x : x \in Range(s) <=> \E i \in 1..Len(s) : x = s[i]
<1>1. Len(s) \in Nat /\ DOMAIN s = 1..Len(s) /\ \A i \in 1..Len(s) : s[i] \in S
  BY LenProperties, ElementOfSeq
<1>2. Range(s) = {s[i] : i \in 1..Len(s)}
  BY RangeEquality
<1> QED
  BY <1>1, <1>2

LEMMA Appended ==
  ASSUME NEW S, NEW s \in Seq(S), NEW x \in S
  PROVE  Append(s, x) \in Seq(S) /\ \A y \in Range(Append(s, x)) : y = x \/ y \in Range(s)
<1> DEFINE t == Append(s, x)
<1>1. /\ t \in Seq(S) /\ Len(t) = Len(s) + 1 /\ \A i \in 1..Len(s) : t[i] = s[i]
      /\ t[Len(s) + 1] = x
  BY AppendProperties
<1> HIDE DEF t
<1>2. Len(s) \in Nat
  BY Elements
<1>3. ASSUME NEW y \in Range(t), y # x PROVE y \in Range(s)
  <2>1. PICK i \in 1..Len(t) : y = t[i]
    BY <1>1, Elements
  <2>2. i \in 1..Len(s) /\ y = s[i]
    BY <1>1, <1>2, <1>3, <2>1
  <2> QED
    BY <2>2, Elements
<1> QED
  BY <1>1, <1>3 DEF t

LEMMA Removed ==
  ASSUME NEW S, NEW s \in Seq(S), NEW i \in 1..Len(s)
  PROVE  /\ RemoveAt(s, i) \in Seq(S) /\ Len(RemoveAt(s, i)) = Len(s) - 1 /\ Len(s) \in Nat
         /\ \A j \in 1..(Len(s) - 1) : RemoveAt(s, i)[j] = IF j < i THEN s[j] ELSE s[j + 1]
<1>1. Len(s) \in Nat /\ \A j \in 1..Len(s) : s[j] \in S
  BY Elements
<1> DEFINE a == SubSeq(s, 1, i - 1)
           b == SubSeq(s, i + 1, Len(s))
           c == a \o b
<1>2. /\ a \in Seq(S) /\ Len(a) = i - 1 /\ \A j \in 1..(i - 1) : a[j] = s[j]
  <2>1. 1 \in Int /\ i - 1 \in Int /\ \A j \in 1..(i - 1) : s[j] \in S
    BY <1>1
  <2>2. /\ a \in Seq(S) /\ Len(a) = IF 1 <= i - 1 THEN (i - 1) - 1 + 1 ELSE 0
        /\ \A j \in 1..((i - 1) - 1 + 1) : a[j] = s[1 + j - 1]
    BY <2>1, SubSeqProperties
  <2> QED
    BY <1>1, <2>2
<1>3. /\ b \in Seq(S) /\ Len(b) = Len(s) - i /\ \A j \in 1..(Len(s) - i) : b[j] = s[i + j]
  <2>1. i + 1 \in Int /\ Len(s) \in Int /\ \A j \in (i + 1)..Len(s) : s[j] \in S
    BY <1>1
  <2>2. /\ b \in Seq(S) /\ Len(b) = IF i + 1 <= Len(s) THEN Len(s) - (i + 1) + 1 ELSE 0
        /\ \A j \in 1..(Len(s) - (i + 1) + 1) : b[j] = s[(i + 1) + j - 1]
    BY <2>1, SubSeqProperties
  <2>3. \A j \in 1..(Len(s) - i) : (i + 1) + j - 1 = i + j
    BY <1>1
  <2> QED
    BY <1>1, <2>2, <2>3
<1> HIDE DEF a, b
<1>4. /\ c \in Seq(S) /\ Len(c) = Len(a) + Len(b)
      /\ \A j \in 1..(Len(a) + Len(b)) : c[j] = IF j <= Len(a) THEN a[j] ELSE b[j - Len(a)]
  BY <1>2, <1>3, ConcatProperties
<1> HIDE DEF c
<1>5. ASSUME NEW j \in 1..(Len(s) - 1)
      PROVE  c[j] = IF j < i THEN s[j] ELSE s[j + 1]
  <2>1. j \in 1..(Len(a) + Len(b)) /\ Len(a) = i - 1 /\ Len(b) = Len(s) - i
    BY <1>1, <1>2, <1>3
  <2>2. CASE j < i
    <3>1. j <= Len(a) /\ j \in 1..(i - 1)
      BY <1>1, <2>1, <2>2
    <3> QED
      BY <1>2, <1>4, <2>1, <2>2, <3>1
  <2>3. CASE j >= i
    <3>1. ~(j <= Len(a)) /\ j - Len(a) \in 1..(Len(s) - i) /\ i + (j - Len(a)) = j + 1
      BY <1>1, <2>1, <2>3
    <3>2. c[j] = b[j - Len(a)]
      BY <1>4, <2>1, <3>1
    <3>3. b[j - Len(a)] = s[i + (j - Len(a))]
      BY <1>3, <3>1
    <3> QED
      BY <1>1, <2>3, <3>1, <3>2, <3>3
  <2> QED
    BY <1>1, <2>2, <2>3
<1>6. RemoveAt(s, i) = c
  BY DEF RemoveAt, a, b, c
<1> QED
  BY <1>1, <1>2, <1>3, <1>4, <1>5, <1>6

LEMMA Reversed ==
  ASSUME NEW S, NEW s \in Seq(S), s # <<>>
  PROVE  /\ Reverse(s) \in Seq(S) /\ Reverse(s) # <<>>
         /\ \A x : x \in Range(s) <=> x \in Range(Reverse(s))
<1>1. Len(s) \in Nat \ {0} /\ \A i \in 1..Len(s) : s[i] \in S
  BY EmptySeq, Elements
<1> DEFINE e(i) == s[(Len(s) - i) + 1]
           t == [i \in 1..Len(s) |-> s[(Len(s) - i) + 1]]
<1>2. \A i \in 1..Len(s) : (Len(s) - i) + 1 \in 1..Len(s)
  BY <1>1
<1>3. t \in [1..Len(s) -> S]
  BY <1>1, <1>2
<1>4. t \in Seq(S)
  BY <1>1, <1>3, SeqDef
<1>5. DOMAIN t = 1..Len(s) /\ \A i \in 1..Len(s) : t[i] = s[(Len(s) - i) + 1]
  OBVIOUS
<1> HIDE DEF t
<1>6. Len(t) = Len(s)
  <2>1. DOMAIN t = 1..Len(t) /\ Len(t) \in Nat
    BY <1>4, LenProperties
  <2> QED
    BY <1>1, <1>5, <2>1
<1>7. t # <<>>
  BY <1>1, <1>6, EmptySeq
<1>8. ASSUME NEW x \in Range(s) PROVE x \in Range(t)
  <2>1. PICK i \in 1..Len(s) : x = s[i]
    BY Elements
  <2>2. PICK k \in 1..Len(s) : (Len(s) - k) + 1 = i
    <3>1. (Len(s) - i) + 1 \in 1..Len(s) /\ (Len(s) - ((Len(s) - i) + 1)) + 1 = i
      BY <1>1
    <3> QED
      BY <3>1
  <2>3. k \in 1..Len(t) /\ x = t[k]
    BY <1>5, <1>6, <2>1, <2>2
  <2> QED
    BY <1>4, <2>3, Elements
<1>9. ASSUME NEW x \in Range(t) PROVE x \in Range(s)
  <2>1. PICK i \in 1..Len(t) : x = t[i]
    BY <1>4, Elements
  <2>2. (Len(s) - i) + 1 \in 1..Len(s) /\ x = s[(Len(s) - i) + 1]
    BY <1>2, <1>5, <1>6, <2>1
  <2> QED
    BY <2>2, Elements
<1> QED
  BY <1>4, <1>7, <1>8, <1>9 DEF Reverse, t

(* A dictionary that loses a key.                                          *)
LEMMA Loses ==
  ASSUME NEW S, NEW list \in Seq(S), Unique(list), NEW key, NEW of
  PROVE  /\ Without(list, key, of) \in Seq(S) /\ Unique(Without(list, key, of))
         /\ Range(Without(list, key, of)) \subseteq Range(list)
         /\ \A e \in Range(Without(list, key, of)) : ~(e.key = key /\ e.of = of)
<1> DEFINE at == {j \in DOMAIN list : list[j].key = key /\ list[j].of = of}
<1>1. Len(list) \in Nat /\ DOMAIN list = 1..Len(list)
  BY Elements
<1>2. CASE at = {}
  <2>1. Without(list, key, of) = list
    BY <1>2 DEF Without
  <2>2. ASSUME NEW e \in Range(list) PROVE ~(e.key = key /\ e.of = of)
    <3>1. PICK j \in 1..Len(list) : e = list[j]
      BY Elements
    <3> QED
      BY <1>1, <1>2, <3>1
  <2> QED
    BY <2>1, <2>2
<1>3. CASE at # {}
  <2> DEFINE i == CHOOSE j \in at : TRUE
  <2>1. i \in at
    BY <1>3
  <2> HIDE DEF i
  <2>2. i \in 1..Len(list) /\ list[i].key = key /\ list[i].of = of
    BY <1>1, <2>1
  <2> DEFINE w == RemoveAt(list, i)
  <2>3. Without(list, key, of) = w
    BY <1>3 DEF Without, i
  <2>4. /\ w \in Seq(S) /\ Len(w) = Len(list) - 1
        /\ \A j \in 1..(Len(list) - 1) : w[j] = IF j < i THEN list[j] ELSE list[j + 1]
    BY <2>2, Removed
  <2> HIDE DEF w
  <2>5. DOMAIN w = 1..Len(w) /\ Len(w) \in Nat
    BY <2>4, Elements
  <2> DEFINE old(j) == IF j < i THEN j ELSE j + 1
  <2>6. ASSUME NEW j \in 1..Len(w)
        PROVE  old(j) \in 1..Len(list) /\ w[j] = list[old(j)] /\ old(j) # i
    BY <1>1, <2>2, <2>4, <2>5
  <2>7. \A j, k \in 1..Len(w) : old(j) = old(k) => j = k
    BY <1>1, <2>2, <2>4, <2>5
  <2> HIDE DEF old
  <2>8. Unique(w)
    <3>1. SUFFICES ASSUME NEW j \in 1..Len(w), NEW k \in 1..Len(w),
                          w[j].key = w[k].key, w[j].of = w[k].of
                   PROVE  j = k
      BY <2>5 DEF Unique
    <3>2. old(j) = old(k)
      BY <1>1, <2>6, <3>1 DEF Unique
    <3> QED
      BY <2>7, <3>2
  <2>9. ASSUME NEW e \in Range(w)
        PROVE  e \in Range(list) /\ ~(e.key = key /\ e.of = of)
    <3>1. PICK j \in 1..Len(w) : e = w[j]
      BY <2>4, Elements
    <3>2. old(j) \in 1..Len(list) /\ e = list[old(j)] /\ old(j) # i
      BY <2>6, <3>1
    <3>3. e \in Range(list)
      BY <3>2, Elements
    <3>4. ~(e.key = key /\ e.of = of)
      BY <1>1, <2>2, <3>2 DEF Unique
    <3> QED
      BY <3>3, <3>4
  <2> QED
    BY <2>3, <2>4, <2>8, <2>9
<1> QED
  BY <1>2, <1>3

(* ... and one that gets a key.                                            *)
LEMMA Gets ==
  ASSUME NEW list \in Seq(FitEntry), Unique(list), NEW key, NEW of, NEW object,
         [key |-> key, of |-> of, object |-> object] \in FitEntry
  PROVE  /\ Put(list, key, of, object) \in Seq(FitEntry) /\ Unique(Put(list, key, of, object))
         /\ \A e \in Range(Put(list, key, of, object)) :
              e \in Range(list) \/ e = [key |-> key, of |-> of, object |-> object]
<1> DEFINE w == Without(list, key, of)
           x == [key |-> key, of |-> of, object |-> object]
           t == Append(w, x)
<1>1. x \in FitEntry /\ x.key = key /\ x.of = of
  OBVIOUS
<1>2. /\ w \in Seq(FitEntry) /\ Unique(w) /\ Range(w) \subseteq Range(list)
      /\ \A e \in Range(w) : ~(e.key = key /\ e.of = of)
  BY Loses
<1> HIDE DEF w, x
<1>3. /\ t \in Seq(FitEntry) /\ Len(t) = Len(w) + 1 /\ \A i \in 1..Len(w) : t[i] = w[i]
      /\ t[Len(w) + 1] = x
  BY <1>1, <1>2, AppendProperties
<1>4. \A e \in Range(t) : e = x \/ e \in Range(w)
  BY <1>1, <1>2, Appended
<1> HIDE DEF t
<1>5. /\ Len(w) \in Nat /\ DOMAIN w = 1..Len(w) /\ DOMAIN t = 1..Len(t)
      /\ \A i \in 1..Len(w) : w[i] \in Range(w)
  BY <1>2, <1>3, Elements
<1>6. Unique(t)
  <2>1. SUFFICES ASSUME NEW j \in 1..Len(t), NEW k \in 1..Len(t),
                        t[j].key = t[k].key, t[j].of = t[k].of
                 PROVE  j = k
    BY <1>5 DEF Unique
  <2>2. (j \in 1..Len(w) \/ j = Len(w) + 1) /\ (k \in 1..Len(w) \/ k = Len(w) + 1)
    BY <1>3, <1>5
  <2>3. CASE j \in 1..Len(w) /\ k \in 1..Len(w)
    BY <1>2, <1>3, <1>5, <2>1, <2>3 DEF Unique
  <2>4. CASE j \in 1..Len(w) /\ k = Len(w) + 1
    BY <1>1, <1>2, <1>3, <1>5, <2>1, <2>4
  <2>5. CASE j = Len(w) + 1 /\ k \in 1..Len(w)
    BY <1>1, <1>2, <1>3, <1>5, <2>1, <2>5
  <2> QED
    BY <2>2, <2>3, <2>4, <2>5
<1>7. Put(list, key, of, object) = t
  BY DEF Put, t, w, x
<1> QED
  BY <1>2, <1>3, <1>4, <1>6, <1>7 DEF x

-----------------------------------------------------------------------------
(* Initially                                                               *)

LEMMA OrderlyInit == Init => Orderly
<1> SUFFICES ASSUME Init PROVE Orderly
  OBVIOUS
<1>1. /\ worker = [i \in Interfaces |-> Nobody] /\ call = [t \in Callers |-> NoCall] /\ left = {}
      /\ instances = <<>> /\ open = {} /\ spoiled = {} /\ manager = Resting
  BY DEF Init, InterfacesInit
<1>2. NoCall \in Call /\ CallFits(NoCall)
  BY InterfacesAssumption DEF NoCall, Call, CallFits
<1>3. CallsFit
  BY <1>1, <1>2 DEF CallsFit
<1>4. <<>> \in Seq(FitEntry) /\ <<>> \in Seq(Entry) /\ Unique(<<>>)
  BY EmptySeq DEF Unique
<1>5. ManagerFits
  BY <1>1, <1>4 DEF ManagerFits, Resting, Manager
<1>6. Kept
  BY <1>1 DEF Kept, Starts, StaysUp, Stops, Resting
<1>7. Staffed
  <2>1. \A e \in Range(<<>>) : FALSE
    <3>1. ASSUME NEW e \in Range(<<>>) PROVE FALSE
      <4>1. PICK k \in 1..Len(<<>>) : e = <<>>[k]
        BY <1>4, Elements
      <4> QED
        BY <4>1
    <3> QED
      BY <3>1
  <2> QED
    BY <1>1, <2>1 DEF Staffed, Resting
<1> QED
  BY <1>1, <1>3, <1>4, <1>5, <1>6, <1>7 DEF Orderly, Shape

-----------------------------------------------------------------------------
(* Calls                                                                   *)

LEMMA CallsStayFit ==
  ASSUME CallsFit, worker \in [Interfaces -> Connectors \cup {Nobody}],
         NEW t \in Callers, CallBegins(t) \/ CallStep(t)
  PROVE  CallsFit' /\ worker' = worker
<1>1. /\ call \in [Callers -> Call] /\ \A u \in Callers : CallFits(call[u])
      /\ call[t] \in Call /\ CallFits(call[t])
      /\ left \subseteq Call /\ \A c \in left : CallFits(c) /\ c.pc = "ending"
  BY DEF CallsFit
<1>2. NoCall \in Call /\ CallFits(NoCall)
  BY InterfacesAssumption DEF NoCall, Call, CallFits
<1>3. ASSUME NEW new, Sets(t, new), new \in Call, CallFits(new)
      PROVE  CallsFit' /\ worker' = worker
  BY <1>1, <1>3 DEF Sets, CallsFit
<1>4. ASSUME NEW report \in {"completed", "failed"}, NEW outcome \in {"returned", "raised", "cancelled", "closed"},
             report = "failed" <=> outcome = "raised"
      PROVE  /\ Ending(t, report, outcome) \in Call /\ CallFits(Ending(t, report, outcome))
             /\ Ending(t, report, outcome).pc = "ending"
  BY <1>1, <1>4 DEF Ending, Call, CallFits
<1>5. ASSUME NEW pc \in {"running"}
      PROVE  [call[t] EXCEPT !.pc = pc] \in Call /\ CallFits([call[t] EXCEPT !.pc = pc])
  BY <1>1, <1>5 DEF Call, CallFits
<1>6. CASE CallBegins(t)
  <2>0. PICK i \in Interfaces :
          \E op \in DOMAIN Operations(Port[i]) : Begin(t, i, op) \/ NotOffered(t, i, op)
    BY <1>6 DEF CallBegins
  <2>1. PICK op \in DOMAIN Operations(Port[i]) : Begin(t, i, op) \/ NotOffered(t, i, op)
    BY <2>0
  <2>2. CASE NotOffered(t, i, op)
    BY <1>1, <2>2 DEF NotOffered, interfaceVars, CallsFit
  <2>3. CASE Begin(t, i, op)
    <3> DEFINE kind == Operations(Port[i])[op]
               new == [NoCall EXCEPT !.pc = "starting", !.on = i, !.kind = kind]
    <3>1. kind \in {"call", "stream"}
      <4>1. Port[i] \in {"LLM", "Queue", "Storage", "DB", "HTTP"}
        BY InterfacesAssumption
      <4>2. op \in DOMAIN Operations(Port[i])
        OBVIOUS
      <4> QED
        BY <4>1, <4>2 DEF Operations, LLMOperations, QueueOperations, StorageOperations, DBOperations,
                          HTTPOperations, Tracked
    <3>2. Sets(t, new)
      BY <2>3 DEF Begin
    <3> HIDE DEF kind
    <3>3. new \in Call /\ CallFits(new)
      BY <1>2, <3>1 DEF NoCall, Call, CallFits
    <3> QED
      BY <1>3, <3>2, <3>3
  <2> QED
    BY <2>1, <2>2, <2>3
<1>7. CASE Started(t) \/ Resumes(t)
  BY <1>3, <1>5, <1>7 DEF Started, Resumes
<1>8. CASE Returns(t) \/ Raises(t)
  BY <1>3, <1>4, <1>8 DEF Returns, Raises
<1>12. CASE Closes(t)
  <2> DEFINE end == Ending(t, "completed", "closed")
  <2>1. end \in Call /\ CallFits(end) /\ end.pc = "ending"
    BY <1>4
  <2> HIDE DEF end
  <2>2. call' = [call EXCEPT ![t] = NoCall] /\ left' = left \cup {end} /\ worker' = worker
    BY <1>12 DEF Closes, end
  <2>3. call' \in [Callers -> Call] /\ \A u \in Callers : CallFits(call'[u])
    BY <1>1, <1>2, <2>2
  <2>4. left' \subseteq Call /\ \A c \in left' : CallFits(c) /\ c.pc = "ending"
    BY <1>1, <2>1, <2>2
  <2> QED
    BY <2>2, <2>3, <2>4 DEF CallsFit, CallFits
<1>9. CASE Yields(t)
  <2> DEFINE new == [Counted(call[t]) EXCEPT !.pc = "yielded", !.given = @ + 1]
  <2>1. Sets(t, new) /\ call[t].given < MaxChunks
    BY <1>9 DEF Yields
  <2>2. new \in Call /\ CallFits(new)
    <3> DEFINE c == call[t]
    <3>1. /\ c.pc = "running" /\ c.given = c.counted /\ c.counted \in 0..MaxChunks
          /\ c.counted + 1 \in 0..MaxChunks
      BY <1>1, <1>9, <2>1, InterfacesAssumption DEF Call, CallFits, Yields
    <3>2. new = [pc |-> "yielded", kind |-> c.kind, on |-> c.on, report |-> c.report,
                 outcome |-> c.outcome, counted |-> c.counted + 1, given |-> c.given + 1]
      <4>1. Counted(c) = [pc |-> c.pc, kind |-> c.kind, on |-> c.on, report |-> c.report,
                          outcome |-> c.outcome, counted |-> c.counted + 1, given |-> c.given]
        BY <1>1 DEF Counted, Call
      <4>2. new = [Counted(c) EXCEPT !.pc = "yielded", !.given = @ + 1]
        OBVIOUS
      <4> DEFINE d == Counted(c)
      <4> HIDE DEF d
      <4>3. new = [d EXCEPT !.pc = "yielded", !.given = d.given + 1]
        BY <4>2 DEF d
      <4>4. d = [pc |-> c.pc, kind |-> c.kind, on |-> c.on, report |-> c.report,
                 outcome |-> c.outcome, counted |-> c.counted + 1, given |-> c.given]
        BY <4>1 DEF d
      <4> HIDE DEF new, c
      <4> QED
        BY <4>3, <4>4
    <3> HIDE DEF new
    <3>3. new \in Call
      BY <1>1, <3>1, <3>2 DEF Call
    <3> QED
      BY <3>1, <3>2, <3>3 DEF CallFits
  <2> QED
    BY <1>3, <2>1, <2>2
<1>10. CASE CancelledRunning(t)
  BY <1>2, <1>3, <1>4, <1>10 DEF CancelledRunning
<1>11. CASE CancelledPublishing(t) \/ Ended(t)
  BY <1>2, <1>3, <1>11 DEF CancelledPublishing, Ended
<1> QED
  BY <1>6, <1>7, <1>8, <1>9, <1>10, <1>11, <1>12 DEF CallStep

-----------------------------------------------------------------------------
(* Registrations and switched workers                                      *)

LEMMA Arrives ==
  ASSUME ManagerFits, NEW cs \in SUBSET Connectors, Arrive(cs)
  PROVE  /\ ManagerFits' /\ Owed' = Owed /\ manager'.todo = manager.todo
         /\ manager'.op = manager.op /\ manager'.was = manager.was /\ manager'.target = manager.target
         /\ manager.fresh \subseteq manager'.fresh
         /\ manager.op \notin {"down", "broken"} => cs \subseteq manager'.fresh
<1>1. CASE manager.op \in {"down", "broken"}
  BY <1>1 DEF Arrive, ManagerFits, Owed
<1>2. CASE manager.op \notin {"down", "broken"}
  <2>1. manager' = [manager EXCEPT !.fresh = @ \cup cs] /\ manager \in Manager
    BY <1>2 DEF Arrive, ManagerFits
  <2>2. /\ manager'.op = manager.op /\ manager'.was = manager.was /\ manager'.target = manager.target
        /\ manager'.fresh = manager.fresh \cup cs /\ manager'.todo = manager.todo
        /\ manager' \in Manager
    BY <2>1 DEF Manager
  <2> QED
    BY <2>2 DEF ManagerFits, Owed
<1> QED
  BY <1>1, <1>2

(* What comes in is fresh while the container is started, starts or stops, *)
(* so nothing that was true of the other entries is lost.                  *)
LEMMA KeptAnew ==
  ASSUME Orderly, NEW cs \in SUBSET Connectors, Arrive(cs), open' = open, spoiled' = spoiled,
         \A e \in Range(instances') :
            (e \in Range(instances) /\ Target(e)' = Target(e)) \/ Target(e)' \in cs
  PROVE  Kept'
<1>1. /\ Owed' = Owed
      /\ manager'.op = manager.op /\ manager'.was = manager.was /\ manager'.target = manager.target
      /\ manager.fresh \subseteq manager'.fresh
      /\ manager.op \notin {"down", "broken"} => cs \subseteq manager'.fresh
  BY Arrives DEF Orderly, Shape
<1>2. Starts'
  <2>1. SUFFICES ASSUME manager'.op = "starting", NEW e \in Range(instances')
                 PROVE  e \in Owed' \/ Target(e)' \in open' \cup manager'.fresh \cup {manager'.target}
    BY DEF Starts
  <2> QED
    BY <1>1, <2>1 DEF Orderly, Kept, Starts
<1>3. StaysUp'
  <2>1. SUFFICES ASSUME manager'.op = "up" \/ (manager'.op = "checking" /\ manager'.was = "up"),
                        NEW e \in Range(instances')
                 PROVE  Target(e)' \in open' \cup manager'.fresh
    BY DEF StaysUp
  <2> QED
    BY <1>1, <2>1 DEF Orderly, Kept, StaysUp
<1>4. Stops'
  <2>1. SUFFICES ASSUME manager'.op = "stopping", NEW e \in Range(instances'),
                        Target(e)' \in open', e \notin Owed'
                 PROVE  Target(e)' \in spoiled' \cup manager'.fresh \cup {manager'.target}
    BY DEF Stops
  <2> QED
    BY <1>1, <2>1 DEF Orderly, Kept, Stops
<1> QED
  BY <1>2, <1>3, <1>4 DEF Kept

LEMMA Entries ==
  ASSUME NEW n \in Names, NEW c \in Connectors, NEW i \in Interfaces
  PROVE  /\ [key |-> "connector", of |-> n, object |-> c] \in FitEntry
         /\ [key |-> "interface", of |-> n, object |-> i] \in FitEntry
  BY DEF FitEntry, Entry

(* A connector under its key, and whatever had the service's name gone.    *)
LEMMA AliasFits ==
  ASSUME NEW list \in Seq(FitEntry), Unique(list), NEW n \in Names, NEW c \in Connectors
  PROVE  /\ Aliased(list, n, c) \in Seq(FitEntry) /\ Unique(Aliased(list, n, c))
         /\ \A e \in Range(Aliased(list, n, c)) :
              e \in Range(list) \/ e = [key |-> "connector", of |-> n, object |-> c]
<1> DEFINE p == Put(list, "connector", n, c)
           x == [key |-> "connector", of |-> n, object |-> c]
<1>1. x \in FitEntry
  BY DEF FitEntry, Entry
<1>2. p \in Seq(FitEntry) /\ Unique(p) /\ \A e \in Range(p) : e \in Range(list) \/ e = x
  BY <1>1, Gets
<1> HIDE DEF p, x
<1>3. /\ Without(p, "interface", n) \in Seq(FitEntry) /\ Unique(Without(p, "interface", n))
      /\ Range(Without(p, "interface", n)) \subseteq Range(p)
  BY <1>2, Loses
<1> QED
  BY <1>2, <1>3 DEF Aliased, p, x

LEMMA Anew ==
  ASSUME Orderly, NEW cs \in SUBSET Connectors, Arrive(cs),
         operations' = operations, open' = open, spoiled' = spoiled,
         instances' \in Seq(FitEntry), Unique(instances'),
         worker' \in [Interfaces -> Connectors \cup {Nobody}],
         \A e \in FitEntry : Target(e)' = Target(e) \/ Target(e)' \in cs,
         \A e \in Range(instances') :
            (e \in Range(instances) /\ Target(e)' = Target(e)) \/ Target(e)' \in cs
  PROVE  Orderly'
<1>1. Kept'
  BY KeptAnew
<1>2. ManagerFits'
  BY Arrives DEF Orderly, Shape
<1>3. CallsFit'
  <2>1. call' = call /\ left' = left
    BY DEF operations
  <2> QED
    BY <2>1 DEF Orderly, Shape, CallsFit
<1>4. open' \subseteq Connectors /\ spoiled' \subseteq Connectors
  BY DEF Orderly, Shape
<1>5. Unique(instances)'
  BY DEF Unique
<1>6. Staffed'
  <2>1. manager'.todo = manager.todo /\ \A e \in Range(manager.todo) : e \in FitEntry
    BY Arrives, Elements DEF Orderly, Shape, ManagerFits
  <2>2. \A e \in Range(instances) \cup Range(manager.todo) : Target(e) \in Connectors
    BY DEF Orderly, Shape, Staffed
  <2>3. \A e \in Range(instances') : Target(e)' \in Connectors
    BY <2>2
  <2>4. \A e \in Range(manager'.todo) : Target(e)' \in Connectors
    BY <2>1, <2>2
  <2> QED
    BY <2>3, <2>4 DEF Staffed
<1> QED
  BY <1>1, <1>2, <1>3, <1>4, <1>5, <1>6 DEF Orderly, Shape

(* A worker that is given to an interface, and entries that stay.          *)
LEMMA Redirected ==
  ASSUME Orderly, NEW i \in Interfaces, NEW c \in Connectors,
         worker' = [worker EXCEPT ![i] = c]
  PROVE  /\ worker' \in [Interfaces -> Connectors \cup {Nobody}] /\ worker'[i] = c
         /\ \A e \in FitEntry : Target(e)' = Target(e) \/ Target(e)' \in {c}
<1>1. worker \in [Interfaces -> Connectors \cup {Nobody}]
  BY DEF Orderly, Shape
<1>2. /\ worker' \in [Interfaces -> Connectors \cup {Nobody}] /\ worker'[i] = c
      /\ \A j \in Interfaces : worker'[j] = worker[j] \/ worker'[j] = c
  BY <1>1
<1>3. ASSUME NEW e \in FitEntry PROVE Target(e)' = Target(e) \/ Target(e)' = c
  <2>1. CASE e.key = "interface"
    BY <1>2, <2>1 DEF Target, FitEntry
  <2>2. CASE e.key # "interface"
    BY <2>2 DEF Target
  <2> QED
    BY <2>1, <2>2
<1> QED
  BY <1>2, <1>3

LEMMA RegistrationKeeps ==
  ASSUME Orderly, Register
  PROVE  Orderly'
<1>1. /\ instances \in Seq(FitEntry) /\ Unique(instances)
      /\ worker \in [Interfaces -> Connectors \cup {Nobody}]
      /\ \A e \in Range(instances) : e \in FitEntry
  BY Elements DEF Orderly, Shape
<1>2. PICK n \in Names :
        \/ \E c \in Connectors, i \in Interfaces : RegisterService(n, c, i)
        \/ \E c \in Connectors : RegisterConnectorOnly(n, c)
        \/ \E i \in Interfaces : RegisterInterface(n, i)
        \/ \E m \in Names, c, d \in Connectors, ok \in BOOLEAN : RegisterFromConfig(m, n, c, d, ok)
  BY DEF Register
<1>3. ASSUME NEW c \in Connectors, NEW i \in Interfaces, RegisterService(n, c, i)
      PROVE  Orderly'
  <2> DEFINE x == [key |-> "connector", of |-> n, object |-> c]
             y == [key |-> "interface", of |-> n, object |-> i]
             p == Put(instances, "connector", n, c)
             q == Put(p, "interface", n, i)
  <2>1. /\ worker' = [worker EXCEPT ![i] = c] /\ instances' = q /\ Arrive({c})
        /\ operations' = operations /\ open' = open /\ spoiled' = spoiled
    BY <1>3 DEF RegisterService, Registered
  <2>2. x \in FitEntry /\ y \in FitEntry
    BY Entries
  <2>3. x.key = "connector" /\ x.object = c /\ y.key = "interface" /\ y.object = i
    OBVIOUS
  <2>4. p \in Seq(FitEntry) /\ Unique(p) /\ \A e \in Range(p) : e \in Range(instances) \/ e = x
    BY <1>1, <2>2, Gets
  <2> HIDE DEF p
  <2>5. q \in Seq(FitEntry) /\ Unique(q) /\ \A e \in Range(q) : e \in Range(p) \/ e = y
    BY <2>2, <2>4, Gets
  <2> HIDE DEF q, x, y
  <2>6. /\ worker' \in [Interfaces -> Connectors \cup {Nobody}] /\ worker'[i] = c
        /\ \A e \in FitEntry : Target(e)' = Target(e) \/ Target(e)' \in {c}
    BY <2>1, Redirected
  <2>7. Target(x)' = c /\ Target(y)' = c
    BY <2>3, <2>6 DEF Target
  <2>8. \A e \in Range(instances') :
          (e \in Range(instances) /\ Target(e)' = Target(e)) \/ Target(e)' \in {c}
    <3>1. SUFFICES ASSUME NEW e \in Range(instances')
                   PROVE  (e \in Range(instances) /\ Target(e)' = Target(e)) \/ Target(e)' = c
      OBVIOUS
    <3>2. e \in Range(instances) \/ e = x \/ e = y
      BY <2>1, <2>4, <2>5
    <3> QED
      BY <1>1, <2>6, <2>7, <3>2
  <2> QED
    BY <2>1, <2>5, <2>6, <2>8, Anew
<1>4. ASSUME NEW c \in Connectors, RegisterConnectorOnly(n, c)
      PROVE  Orderly'
  <2> DEFINE x == [key |-> "connector", of |-> n, object |-> c]
             p == Aliased(instances, n, c)
  <2>1. /\ worker' = worker /\ instances' = p /\ Arrive({c})
        /\ operations' = operations /\ open' = open /\ spoiled' = spoiled
    BY <1>4 DEF RegisterConnectorOnly, Registered
  <2>2. p \in Seq(FitEntry) /\ Unique(p) /\ \A e \in Range(p) : e \in Range(instances) \/ e = x
    BY <1>1, AliasFits
  <2>3. x.key = "connector" /\ x.object = c
    OBVIOUS
  <2> HIDE DEF p, x
  <2>4. Target(x)' = c /\ \A e \in FitEntry : Target(e)' = Target(e)
    BY <2>1, <2>3 DEF Target
  <2>5. \A e \in Range(instances') :
          (e \in Range(instances) /\ Target(e)' = Target(e)) \/ Target(e)' \in {c}
    BY <1>1, <2>1, <2>2, <2>4
  <2>6. \A e \in FitEntry : Target(e)' = Target(e) \/ Target(e)' \in {c}
    BY <2>4
  <2> QED
    BY <1>1, <2>1, <2>2, <2>5, <2>6, Anew
<1>5. ASSUME NEW i \in Interfaces, RegisterInterface(n, i)
      PROVE  Orderly'
  <2>0. PICK j \in DOMAIN instances :
          /\ instances[j].key = "connector" /\ instances[j].of = n
          /\ worker' = [worker EXCEPT ![i] = instances[j].object]
          /\ Registered(Put(instances, "interface", n, i), instances[j].object)
    BY <1>5 DEF RegisterInterface
  <2> DEFINE c == instances[j].object
             y == [key |-> "interface", of |-> n, object |-> i]
             q == Put(instances, "interface", n, i)
  <2>1. c \in Connectors
    <3>1. instances[j] \in FitEntry
      BY <1>1, Elements
    <3> QED
      BY <2>0, <3>1 DEF FitEntry
  <2>2. /\ worker' = [worker EXCEPT ![i] = c] /\ instances' = q /\ Arrive({c})
        /\ operations' = operations /\ open' = open /\ spoiled' = spoiled
    BY <2>0 DEF Registered
  <2> HIDE DEF c
  <2>3. y \in FitEntry
    BY <2>1, Entries
  <2>4. y.key = "interface" /\ y.object = i
    OBVIOUS
  <2>5. q \in Seq(FitEntry) /\ Unique(q) /\ \A e \in Range(q) : e \in Range(instances) \/ e = y
    BY <1>1, <2>3, Gets
  <2> HIDE DEF q, y
  <2>6. /\ worker' \in [Interfaces -> Connectors \cup {Nobody}] /\ worker'[i] = c
        /\ \A e \in FitEntry : Target(e)' = Target(e) \/ Target(e)' \in {c}
    BY <2>1, <2>2, Redirected
  <2>7. Target(y)' = c
    BY <2>4, <2>6 DEF Target
  <2>8. \A e \in Range(instances') :
          (e \in Range(instances) /\ Target(e)' = Target(e)) \/ Target(e)' \in {c}
    BY <1>1, <2>2, <2>5, <2>6, <2>7
  <2>9. {c} \in SUBSET Connectors
    BY <2>1
  <2> QED
    BY <2>2, <2>5, <2>6, <2>8, <2>9, Anew
<1>6. ASSUME NEW m \in Names, NEW c \in Connectors, NEW d \in Connectors, NEW ok \in BOOLEAN,
             RegisterFromConfig(m, n, c, d, ok)
      PROVE  Orderly'
  <2> DEFINE x == [key |-> "connector", of |-> m, object |-> c]
             y == [key |-> "connector", of |-> n, object |-> d]
             p == Aliased(instances, m, c)
             q == Aliased(p, n, d)
  <2>1. /\ worker' = worker /\ operations' = operations /\ open' = open /\ spoiled' = spoiled
        /\ instances' = IF ok THEN q ELSE instances
        /\ Arrive(IF ok THEN {c, d} ELSE {})
    BY <1>6 DEF RegisterFromConfig
  <2>2. p \in Seq(FitEntry) /\ Unique(p) /\ \A e \in Range(p) : e \in Range(instances) \/ e = x
    BY <1>1, AliasFits
  <2> HIDE DEF p
  <2>3. q \in Seq(FitEntry) /\ Unique(q) /\ \A e \in Range(q) : e \in Range(p) \/ e = y
    BY <2>2, AliasFits
  <2>4. x.key = "connector" /\ x.object = c /\ y.key = "connector" /\ y.object = d
    OBVIOUS
  <2> HIDE DEF q, x, y
  <2>5. Target(x)' = c /\ Target(y)' = d /\ \A e \in FitEntry : Target(e)' = Target(e)
    BY <2>1, <2>4 DEF Target
  <2>6. CASE ok
    <3>1. \A e \in Range(instances') :
            (e \in Range(instances) /\ Target(e)' = Target(e)) \/ Target(e)' \in {c, d}
      BY <1>1, <2>1, <2>2, <2>3, <2>5, <2>6
    <3>2. {c, d} \in SUBSET Connectors /\ Arrive({c, d}) /\ instances' = q
      BY <2>1, <2>6
    <3>3. \A e \in FitEntry : Target(e)' = Target(e) \/ Target(e)' \in {c, d}
      BY <2>5
    <3> QED
      BY <1>1, <2>1, <2>3, <3>1, <3>2, <3>3, Anew
  <2>7. CASE ~ok
    <3>1. {} \in SUBSET Connectors /\ Arrive({}) /\ instances' = instances
      BY <2>1, <2>7
    <3>2. \A e \in Range(instances') :
            (e \in Range(instances) /\ Target(e)' = Target(e)) \/ Target(e)' \in {}
      BY <1>1, <2>5, <3>1
    <3>3. \A e \in FitEntry : Target(e)' = Target(e) \/ Target(e)' \in {}
      BY <2>5
    <3> QED
      BY <1>1, <2>1, <3>1, <3>2, <3>3, Anew
  <2> QED
    BY <2>6, <2>7
<1> QED
  BY <1>2, <1>3, <1>4, <1>5, <1>6

LEMMA SwitchKeeps ==
  ASSUME Orderly, NEW i \in Interfaces, NEW c \in Connectors, SwitchWorker(i, c)
  PROVE  Orderly'
<1>1. /\ instances \in Seq(FitEntry) /\ Unique(instances)
      /\ \A e \in Range(instances) : e \in FitEntry
  BY Elements DEF Orderly, Shape
<1>2. /\ worker' = [worker EXCEPT ![i] = c] /\ Arrive({c})
      /\ operations' = operations /\ open' = open /\ spoiled' = spoiled /\ instances' = instances
  BY DEF SwitchWorker, Switched
<1>3. /\ worker' \in [Interfaces -> Connectors \cup {Nobody}]
      /\ \A e \in FitEntry : Target(e)' = Target(e) \/ Target(e)' \in {c}
  BY <1>2, Redirected
<1>4. \A e \in Range(instances') :
        (e \in Range(instances) /\ Target(e)' = Target(e)) \/ Target(e)' \in {c}
  BY <1>1, <1>2, <1>3
<1> QED
  BY <1>1, <1>2, <1>3, <1>4, Anew

-----------------------------------------------------------------------------
(* The container's turns                                                   *)

Busy == {"starting", "stopping", "checking"}

(* The first entry of a list is its turn, the others are owed.             *)
LEMMA Turns ==
  ASSUME NEW m \in Manager, NEW todo \in Seq(FitEntry), todo # <<>>,
         \A e \in Range(todo) : Target(e) \in Connectors,
         manager' = Turn(m, todo)
  PROVE  /\ manager' \in Manager /\ manager'.todo = todo /\ manager'.op = m.op
         /\ manager'.was = m.was /\ manager'.fresh = m.fresh /\ manager'.target \in Connectors
         /\ ManagerFits'
         /\ \A e \in Range(todo) : e \in Owed' \/ Target(e) = manager'.target
<1>1. /\ todo \in Seq(Entry) /\ Len(todo) \in Nat \ {0} /\ Head(todo) = todo[1]
      /\ \A e \in Range(todo) : \E k \in 1..Len(todo) : e = todo[k]
  <2>1. FitEntry \subseteq Entry
    BY DEF FitEntry
  <2>2. \A e \in Range(todo) : \E k \in 1..Len(todo) : e = todo[k]
    BY Elements
  <2> QED
    BY <2>1, <2>2, SeqMonotonic, EmptySeq
<1>2. todo[1] \in Range(todo)
  <2>1. 1 \in 1..Len(todo)
    BY <1>1
  <2> QED
    BY <2>1, Elements
<1>3. Target(todo[1]) \in Connectors
  BY <1>2
<1>4. manager' = [m EXCEPT !.todo = todo, !.target = Target(todo[1])]
  BY <1>1 DEF Turn
<1>5. /\ manager'.todo = todo /\ manager'.op = m.op /\ manager'.was = m.was
      /\ manager'.fresh = m.fresh /\ manager'.target = Target(todo[1]) /\ manager' \in Manager
  BY <1>1, <1>3, <1>4 DEF Manager
<1>6. ManagerFits'
  BY <1>3, <1>5 DEF ManagerFits
<1>7. ASSUME NEW e \in Range(todo), Target(e) # manager'.target PROVE e \in Owed'
  <2>1. PICK k \in 1..Len(todo) : e = todo[k]
    BY <1>1
  <2>2. k \in 2..Len(todo)
    BY <1>1, <1>5, <1>7, <2>1
  <2> QED
    BY <1>5, <2>1, <2>2 DEF Owed
<1> QED
  BY <1>3, <1>5, <1>6, <1>7

(* How a call of the container ends: with nothing owed.                    *)
Ends == {"down", "up", "broken"}

LEMMA Rested ==
  ASSUME Orderly, NEW last \in Ends, manager' = Rests(manager, last),
         worker' = worker, instances' = instances
  PROVE  /\ ManagerFits' /\ Staffed' /\ manager'.op = last
         /\ last = "up" => manager'.fresh = manager.fresh
<1>1. manager \in Manager /\ \A e \in Range(instances) : Target(e) \in Connectors
  BY DEF Orderly, Shape, ManagerFits, Staffed
<1>2. manager' = [op |-> last, was |-> "down", todo |-> <<>>, target |-> Nobody,
                  fresh |-> IF last = "up" THEN manager.fresh ELSE {}]
  BY DEF Rests, Resting
<1>3. manager.fresh \subseteq Connectors /\ <<>> \in Seq(Entry) /\ <<>> \in Seq(FitEntry)
  BY <1>1, EmptySeq DEF Manager
<1>4. ManagerFits'
  BY <1>2, <1>3 DEF ManagerFits, Manager, Ends
<1>5. \A e \in Range(<<>>) : FALSE
  <2>1. ASSUME NEW e \in Range(<<>>) PROVE FALSE
    <3>1. PICK k \in 1..Len(<<>>) : e = <<>>[k]
      BY <1>3, Elements
    <3> QED
      BY <3>1
  <2> QED
    BY <2>1
<1>6. \A e : Target(e)' = Target(e)
  BY DEF Target
<1>7. Staffed'
  BY <1>1, <1>2, <1>5, <1>6 DEF Staffed
<1> QED
  BY <1>2, <1>4, <1>7

(* A turn ends: the next entry that is owed gets its own, or none is.      *)
LEMMA GoesOn ==
  ASSUME Orderly, NEW op \in Busy, NEW last \in Ends, Goes(op, last)
  PROVE  /\ ManagerFits' /\ Staffed'
         /\ \/ /\ manager'.op = op /\ manager'.was = manager.was /\ manager'.fresh = manager.fresh
               /\ \A e \in Owed : e \in Owed' \/ Target(e) = manager'.target
            \/ /\ Owed = {} /\ manager'.op = last
               /\ last = "up" => manager'.fresh = manager.fresh
<1>1. /\ manager.op = op /\ manager \in Manager /\ manager.todo \in Seq(FitEntry)
      /\ manager.todo # <<>> /\ instances' = instances /\ worker' = worker
      /\ \A e \in Range(instances) \cup Range(manager.todo) : Target(e) \in Connectors
  BY DEF Goes, Orderly, Shape, ManagerFits, Staffed, Busy
<1>2. \A e : Target(e)' = Target(e)
  BY <1>1 DEF Target
<1> DEFINE todo == manager.todo
           tail == Tail(todo)
<1>3. /\ Len(todo) \in Nat \ {0} /\ tail \in Seq(FitEntry) /\ Len(tail) = Len(todo) - 1
      /\ \A i \in 1..Len(tail) : tail[i] = todo[i + 1]
  BY <1>1, EmptySeq, HeadTailProperties
<1>6. Len(todo) > 1 => manager' = Turn(manager, tail)
  BY DEF Goes
<1> HIDE DEF tail
<1>4. CASE Len(todo) > 1
  <2>1. manager' = Turn(manager, tail)
    BY <1>4, <1>6
  <2>2. \A e \in Range(tail) : e \in Range(todo)
    <3>1. SUFFICES ASSUME NEW e \in Range(tail) PROVE e \in Range(todo)
      OBVIOUS
    <3>2. PICK i \in 1..Len(tail) : e = tail[i]
      BY <1>3, Elements
    <3>3. i + 1 \in 1..Len(todo) /\ e = todo[i + 1]
      BY <1>3, <3>2
    <3> QED
      BY <1>1, <3>3, Elements
  <2>3. \A e \in Owed : e \in Range(tail)
    <3>1. SUFFICES ASSUME NEW e \in Owed PROVE e \in Range(tail)
      OBVIOUS
    <3>2. PICK k \in 2..Len(todo) : e = todo[k]
      BY DEF Owed
    <3>3. PICK i \in 1..Len(tail) : i + 1 = k
      <4>1. k - 1 \in 1..Len(tail) /\ (k - 1) + 1 = k
        BY <1>3
      <4> QED
        BY <4>1
    <3>4. e = tail[i]
      BY <1>3, <3>2, <3>3
    <3> QED
      BY <1>3, <3>4, Elements
  <2>4. tail # <<>>
    <3>1. Len(tail) # 0 /\ Len(<<>>) = 0
      BY <1>3, <1>4, EmptySeq
    <3> QED
      BY <3>1
  <2>5. /\ manager'.todo = tail /\ manager'.op = manager.op /\ manager'.was = manager.was
        /\ manager'.fresh = manager.fresh /\ ManagerFits'
        /\ \A e \in Range(tail) : e \in Owed' \/ Target(e) = manager'.target
    BY <1>1, <1>3, <2>1, <2>2, <2>4, Turns
  <2>6. Staffed'
    BY <1>1, <1>2, <2>2, <2>5 DEF Staffed
  <2> QED
    BY <1>1, <2>3, <2>5, <2>6
<1>5. CASE Len(todo) <= 1
  <2>1. manager' = Rests(manager, last)
    BY <1>3, <1>5 DEF Goes
  <2>2. /\ ManagerFits' /\ Staffed' /\ manager'.op = last
        /\ last = "up" => manager'.fresh = manager.fresh
    BY <1>1, <2>1, Rested
  <2>3. Owed = {}
    BY <1>3, <1>5 DEF Owed
  <2> QED
    BY <2>2, <2>3
<1> QED
  BY <1>3, <1>4, <1>5

(* A copy of the instances is taken, in whatever order.                    *)
LEMMA BeginKeeps ==
  ASSUME Orderly, NEW op \in Busy, NEW order \in Seq(FitEntry), order # <<>>,
         \A e \in Range(instances) : e \in Range(order),
         \A e \in Range(order) : e \in Range(instances),
         ManagerBegins(op, order)
  PROVE  Orderly'
<1>1. /\ manager \in Manager /\ CallsFit /\ worker \in [Interfaces -> Connectors \cup {Nobody}]
      /\ instances \in Seq(FitEntry) /\ Unique(instances) /\ open \subseteq Connectors
      /\ \A e \in Range(instances) \cup Range(manager.todo) : Target(e) \in Connectors
      /\ Kept
  BY DEF Orderly, Shape, ManagerFits, Staffed
<1> DEFINE fresh == IF op = "checking" THEN manager.fresh ELSE {}
           m == [manager EXCEPT !.op = op, !.was = manager.op, !.fresh = fresh]
<1>2. /\ manager.op \in Ends /\ manager' = Turn(m, order) /\ spoiled' = {}
      /\ worker' = worker /\ call' = call /\ left' = left /\ instances' = instances /\ open' = open
  BY DEF ManagerBegins, operations, Ends
<1>3. m \in Manager /\ m.op = op /\ m.was = manager.op /\ m.fresh = fresh
  BY <1>1, <1>2 DEF Manager, Busy, Ends
<1> HIDE DEF m
<1>4. \A e : Target(e)' = Target(e)
  BY <1>2 DEF Target
<1>5. \A e \in Range(order) : Target(e) \in Connectors
  BY <1>1
<1>6. /\ manager'.todo = order /\ manager'.op = op /\ manager'.was = manager.op
      /\ manager'.fresh = fresh /\ ManagerFits'
      /\ \A e \in Range(order) : e \in Owed' \/ Target(e) = manager'.target
  BY <1>2, <1>3, <1>5, Turns
<1>7. Staffed'
  BY <1>1, <1>2, <1>4, <1>5, <1>6 DEF Staffed
<1>8. CallsFit' /\ Unique(instances)'
  BY <1>1, <1>2 DEF CallsFit, Unique
<1>9. Starts' /\ Stops'
  <2>1. \A e \in Range(instances') : e \in Owed' \/ Target(e)' = manager'.target
    BY <1>2, <1>4, <1>6
  <2> QED
    BY <2>1 DEF Starts, Stops
<1>10. StaysUp'
  <2>1. SUFFICES ASSUME manager'.op = "checking", manager'.was = "up", NEW e \in Range(instances')
                 PROVE  Target(e)' \in open' \cup manager'.fresh
    BY <1>6 DEF StaysUp, Busy
  <2> QED
    BY <1>1, <1>2, <1>4, <1>6, <2>1 DEF Kept, StaysUp
<1> QED
  BY <1>1, <1>2, <1>6, <1>7, <1>8, <1>9, <1>10 DEF Orderly, Shape, Kept

LEMMA BeginsKeep ==
  ASSUME Orderly, StartAll \/ StopAll \/ CheckAllHealth
  PROVE  Orderly'
<1>1. instances \in Seq(FitEntry)
  BY DEF Orderly, Shape
<1>2. CASE StartAll \/ CheckAllHealth
  <2>1. instances # <<>>
    BY <1>2 DEF StartAll, CheckAllHealth, ManagerBegins
  <2>2. "starting" \in Busy /\ "checking" \in Busy
    BY DEF Busy
  <2>3. CASE StartAll
    BY <1>1, <2>1, <2>2, <2>3, BeginKeeps DEF StartAll
  <2>4. CASE CheckAllHealth
    BY <1>1, <2>1, <2>2, <2>4, BeginKeeps DEF CheckAllHealth
  <2> QED
    BY <1>2, <2>3, <2>4
<1>3. CASE StopAll
  <2> DEFINE order == Reverse(instances)
  <2>1. instances # <<>> /\ ManagerBegins("stopping", order)
    BY <1>3 DEF StopAll, ManagerBegins
  <2>2. /\ order \in Seq(FitEntry) /\ order # <<>>
        /\ \A e \in Range(instances) : e \in Range(order)
        /\ \A e \in Range(order) : e \in Range(instances)
    BY <1>1, <2>1, Reversed, Zenon
  <2>3. "stopping" \in Busy
    BY DEF Busy
  <2> HIDE DEF order
  <2> QED
    BY <2>1, <2>2, <2>3, BeginKeeps
<1> QED
  BY <1>2, <1>3

LEMMA ManagerKeeps ==
  ASSUME Orderly, ManagerStep, operations' = operations
  PROVE  Orderly'
<1>1. /\ ManagerFits /\ CallsFit /\ worker \in [Interfaces -> Connectors \cup {Nobody}]
      /\ instances \in Seq(FitEntry) /\ Unique(instances)
      /\ open \subseteq Connectors /\ spoiled \subseteq Connectors /\ Kept
      /\ \A e \in Range(instances) : Target(e) \in Connectors
  BY DEF Orderly, Shape, Staffed
<1>2. worker' = worker /\ instances' = instances /\ call' = call /\ left' = left
  BY DEF ManagerStep, Initialised, StartFails, ShutDown, ShutdownFails, StopCancelled, Checked,
         CheckCancelled, Goes, operations
<1>3. \A e : Target(e)' = Target(e)
  BY <1>2 DEF Target
<1>4. SUFFICES ManagerFits' /\ Staffed' /\ Kept' /\ open' \subseteq Connectors /\ spoiled' \subseteq Connectors
  <2>1. CallsFit' /\ Unique(instances)'
    BY <1>1, <1>2 DEF CallsFit, Unique
  <2> QED
    BY <1>1, <1>2, <1>4, <2>1 DEF Orderly, Shape
<1>5. manager.op \in Busy => manager.target \in Connectors
  BY <1>1 DEF ManagerFits, Busy
<1>6. CASE Initialised
  <2>1. Goes("starting", "up") /\ open' = open \cup {manager.target} /\ spoiled' = spoiled
    BY <1>6 DEF Initialised
  <2>2. manager.op = "starting" /\ manager.target \in Connectors
    BY <1>5, <2>1 DEF Goes, Busy
  <2>3. /\ ManagerFits' /\ Staffed'
        /\ \/ /\ manager'.op = "starting" /\ manager'.fresh = manager.fresh
              /\ \A e \in Owed : e \in Owed' \/ Target(e) = manager'.target
           \/ Owed = {} /\ manager'.op = "up" /\ manager'.fresh = manager.fresh
    <3>1. "starting" \in Busy /\ "up" \in Ends
      BY DEF Busy, Ends
    <3> QED
      BY <2>1, <3>1, GoesOn
  <2>4. \A e \in Range(instances) :
          e \in Owed \/ Target(e) \in open \cup manager.fresh \cup {manager.target}
    BY <1>1, <2>2 DEF Kept, Starts
  <2>5. CASE /\ manager'.op = "starting" /\ manager'.fresh = manager.fresh
             /\ \A e \in Owed : e \in Owed' \/ Target(e) = manager'.target
    BY <1>1, <1>2, <1>3, <2>1, <2>2, <2>3, <2>4, <2>5 DEF Kept, Starts, StaysUp, Stops
  <2>6. CASE Owed = {} /\ manager'.op = "up" /\ manager'.fresh = manager.fresh
    BY <1>1, <1>2, <1>3, <2>1, <2>2, <2>3, <2>4, <2>6 DEF Kept, Starts, StaysUp, Stops
  <2> QED
    BY <2>3, <2>5, <2>6
<1>7. CASE StartFails \/ StopCancelled
  <2>1. manager' = Rests(manager, "broken") /\ open' = open /\ spoiled' = spoiled
    BY <1>7 DEF StartFails, StopCancelled
  <2>2. ManagerFits' /\ Staffed' /\ manager'.op = "broken"
    <3>1. "broken" \in Ends
      BY DEF Ends
    <3> QED
      BY <1>2, <2>1, <3>1, Rested
  <2>3. Kept'
    BY <2>2 DEF Kept, Starts, StaysUp, Stops
  <2> QED
    BY <1>1, <2>1, <2>2, <2>3
<1>8. CASE ShutDown \/ ShutdownFails
  <2>1. /\ Goes("stopping", "down")
        /\ \/ open' = open \ {manager.target} /\ spoiled' = spoiled \ {manager.target}
           \/ open' = open /\ spoiled' = spoiled \cup ({manager.target} \cap open)
    BY <1>8 DEF ShutDown, ShutdownFails
  <2>2. manager.op = "stopping" /\ manager.target \in Connectors
    BY <1>5, <2>1 DEF Goes, Busy
  <2>3. /\ ManagerFits' /\ Staffed'
        /\ \/ /\ manager'.op = "stopping" /\ manager'.fresh = manager.fresh
              /\ \A e \in Owed : e \in Owed' \/ Target(e) = manager'.target
           \/ Owed = {} /\ manager'.op = "down"
    <3>1. "stopping" \in Busy /\ "down" \in Ends
      BY DEF Busy, Ends
    <3> QED
      BY <2>1, <3>1, GoesOn
  <2>4. \A e \in Range(instances) :
          \/ e \in Owed
          \/ Target(e) \in open => Target(e) \in spoiled \cup manager.fresh \cup {manager.target}
    BY <1>1, <2>2 DEF Kept, Stops
  <2>5. \A e \in Range(instances) :
          e \in Owed \/ (Target(e) \in open' => Target(e) \in spoiled' \cup manager.fresh)
    BY <2>1, <2>4
  <2>6. Starts' /\ StaysUp'
    BY <2>3 DEF Starts, StaysUp
  <2>7. Stops'
    BY <1>2, <1>3, <2>3, <2>5 DEF Stops
  <2> QED
    BY <1>1, <2>1, <2>2, <2>3, <2>6, <2>7 DEF Kept
<1>9. CASE Checked
  <2>1. Goes("checking", manager.was) /\ open' = open /\ spoiled' = spoiled
    BY <1>9 DEF Checked
  <2>2. manager.op = "checking" /\ manager.was \in Ends
    BY <1>1, <2>1 DEF Goes, ManagerFits, Manager, Ends
  <2>3. /\ ManagerFits' /\ Staffed'
        /\ \/ manager'.op = "checking" /\ manager'.was = manager.was /\ manager'.fresh = manager.fresh
           \/ manager'.op = manager.was /\ (manager.was = "up" => manager'.fresh = manager.fresh)
    <3>1. "checking" \in Busy
      BY DEF Busy
    <3> QED
      BY <2>1, <2>2, <3>1, GoesOn
  <2>4. manager.was = "up" => \A e \in Range(instances) : Target(e) \in open \cup manager.fresh
    BY <1>1, <2>2 DEF Kept, StaysUp
  <2>5. Starts' /\ Stops'
    BY <2>2, <2>3 DEF Starts, Stops, Ends
  <2>6. StaysUp'
    <3>1. /\ manager'.op = "up" \/ (manager'.op = "checking" /\ manager'.was = "up") => manager.was = "up"
          /\ manager.was = "up" => manager'.fresh = manager.fresh
      BY <2>2, <2>3 DEF Ends
    <3>2. manager.was = "up" => \A e \in Range(instances') : Target(e)' \in open' \cup manager'.fresh
      BY <1>2, <1>3, <2>1, <2>4, <3>1
    <3> QED
      BY <3>1, <3>2 DEF StaysUp
  <2> QED
    BY <1>1, <2>1, <2>3, <2>5, <2>6 DEF Kept
<1>10. CASE CheckCancelled
  <2>1. /\ manager.op = "checking" /\ manager' = Rests(manager, manager.was)
        /\ open' = open /\ spoiled' = spoiled
    BY <1>10 DEF CheckCancelled
  <2>2. manager.was \in Ends
    BY <1>1 DEF ManagerFits, Manager, Ends
  <2>3. /\ ManagerFits' /\ Staffed' /\ manager'.op = manager.was
        /\ manager.was = "up" => manager'.fresh = manager.fresh
    BY <1>2, <2>1, <2>2, Rested
  <2>4. manager.was = "up" => \A e \in Range(instances) : Target(e) \in open \cup manager.fresh
    BY <1>1, <2>1 DEF Kept, StaysUp
  <2>5. Starts' /\ Stops'
    BY <2>2, <2>3 DEF Starts, Stops, Ends
  <2>6. StaysUp'
    <3>1. manager'.op = "up" \/ (manager'.op = "checking" /\ manager'.was = "up") => manager.was = "up"
      BY <2>2, <2>3 DEF Ends
    <3>2. manager.was = "up" => \A e \in Range(instances') : Target(e)' \in open' \cup manager'.fresh
      BY <1>2, <1>3, <2>1, <2>3, <2>4
    <3> QED
      BY <3>1, <3>2 DEF StaysUp
  <2> QED
    BY <1>1, <2>1, <2>3, <2>5, <2>6 DEF Kept
<1> QED
  BY <1>6, <1>7, <1>8, <1>9, <1>10 DEF ManagerStep

-----------------------------------------------------------------------------
(* The theorems                                                            *)

LEMMA OrderlyStep == Orderly /\ [Next]_vars => Orderly'
<1> SUFFICES ASSUME Orderly, [Next]_vars PROVE Orderly'
  OBVIOUS
<1>1. CASE Register
  BY <1>1, RegistrationKeeps
<1>2. CASE \E i \in Interfaces, c \in Connectors : SwitchWorker(i, c)
  BY <1>2, SwitchKeeps
<1>3. CASE StartAll \/ StopAll \/ CheckAllHealth
  BY <1>3, BeginsKeep
<1>4. CASE ManagerStep
  <2>1. operations' = operations
    BY <1>4 DEF ManagerStep, Initialised, StartFails, ShutDown, ShutdownFails, StopCancelled, Checked,
                CheckCancelled, Goes
  <2> QED
    BY <1>4, <2>1, ManagerKeeps
<1>5. ASSUME UNCHANGED <<worker, instances, open, manager, spoiled>>, CallsFit'
      PROVE  Orderly'
  <2>1. \A e : Target(e)' = Target(e)
    BY <1>5 DEF Target
  <2>2. Owed' = Owed /\ ManagerFits' /\ Staffed' /\ Unique(instances)'
    BY <1>5, <2>1 DEF Orderly, Shape, Owed, ManagerFits, Staffed, Unique
  <2>3. Kept'
    BY <1>5, <2>1, <2>2 DEF Orderly, Kept, Starts, StaysUp, Stops
  <2> QED
    BY <1>5, <2>2, <2>3 DEF Orderly, Shape
<1>6. CASE \E t \in Callers : (CallBegins(t) \/ CallStep(t)) /\ UNCHANGED <<instances, open, manager, spoiled>>
  <2>1. PICK t \in Callers : (CallBegins(t) \/ CallStep(t)) /\ UNCHANGED <<instances, open, manager, spoiled>>
    BY <1>6
  <2>2. CallsFit' /\ worker' = worker
    BY <2>1, CallsStayFit DEF Orderly, Shape
  <2> QED
    BY <1>5, <2>1, <2>2
<1>7. CASE UNCHANGED vars
  <2>1. call' = call /\ left' = left /\ UNCHANGED <<worker, instances, open, manager, spoiled>>
    BY <1>7 DEF vars
  <2>2. CallsFit'
    BY <2>1 DEF Orderly, Shape, CallsFit
  <2> QED
    BY <1>5, <2>1, <2>2
<1>8. CASE Finalized /\ UNCHANGED <<instances, open, manager, spoiled>>
  <2>1. PICK c \in left : left' = left \ {c} /\ UNCHANGED <<worker, call>>
    BY <1>8 DEF Finalized
  <2>2. CallsFit'
    BY <2>1 DEF Orderly, Shape, CallsFit
  <2> QED
    BY <1>5, <1>8, <2>1, <2>2
<1> QED
  BY <1>1, <1>2, <1>3, <1>4, <1>6, <1>7, <1>8 DEF Next

THEOREM Inductive == Spec => []Orderly
  BY OrderlyInit, OrderlyStep, PTL DEF Spec

(* Every variable keeps its shape; in particular the instances are a       *)
(* dictionary: whatever is registered, replaced and aliased in whatever    *)
(* order, no key occurs twice.                                             *)
THEOREM TypeCorrect == Spec => []TypeOK
<1>1. Orderly => TypeOK
  <2> SUFFICES ASSUME Orderly PROVE TypeOK
    OBVIOUS
  <2>1. FitEntry \subseteq Entry
    BY DEF FitEntry
  <2>2. instances \in Seq(Entry)
    BY <2>1, SeqMonotonic DEF Orderly, Shape
  <2>3. InterfacesTypeOK
    BY DEF Orderly, Shape, CallsFit, InterfacesTypeOK
  <2>4. \A j, k \in DOMAIN instances :
          instances[j].key = instances[k].key /\ instances[j].of = instances[k].of => j = k
    BY DEF Orderly, Shape, Unique
  <2> QED
    BY <2>2, <2>3, <2>4 DEF TypeOK, Orderly, Shape, ManagerFits
<1> QED
  BY <1>1, Inductive, PTL

(* What the bus is told of an operation and what its caller gets agree:    *)
(* for every operation of every interface, streams of any length, failures,*)
(* early closes and cancellations, while workers are switched.             *)
THEOREM ReportsTellTheTruth == Spec => []ReportsAgree
<1>1. Orderly => ReportsAgree
  BY DEF Orderly, Shape, CallsFit, CallFits, ReportsAgree
<1> QED
  BY <1>1, Inductive, PTL

LEMMA ReachableIs ==
  ASSUME Orderly
  PROVE  \A c \in Reachable : \E e \in Range(instances) : c = Target(e)
<1>1. instances \in Seq(FitEntry)
  BY DEF Orderly, Shape
<1>2. DOMAIN instances = 1..Len(instances) /\ \A j \in 1..Len(instances) : instances[j] \in Range(instances)
  BY <1>1, Elements
<1> QED
  BY <1>2 DEF Reachable

(* A start_all() that returned has opened every connector behind the       *)
(* container's interfaces, but for those that came in meanwhile or since:  *)
(* registrations, replacements and switched workers change the dictionary  *)
(* and the workers while it goes through its copy.                         *)
THEOREM StartedIsOpen == Spec => []UpMeansOpen
<1>1. Orderly => UpMeansOpen
  BY ReachableIs DEF UpMeansOpen, Orderly, Kept, StaysUp
<1> QED
  BY <1>1, Inductive, PTL

(* A stop_all() that returned leaves nothing within reach open, but what   *)
(* failed to shut down or came in while it ran; only one that is cancelled *)
(* leaves more.                                                            *)
THEOREM StoppedIsClosed == Spec => StopClosesAll
<1>1. Orderly /\ [Next]_vars =>
        [manager.op = "stopping" /\ manager'.op = "down"
          => open' \cap Reachable' \subseteq spoiled' \cup manager.fresh]_vars
  <2> SUFFICES ASSUME Orderly, [Next]_vars, manager.op = "stopping", manager'.op = "down"
               PROVE  open' \cap Reachable' \subseteq spoiled' \cup manager.fresh
    BY DEF vars
  <2>1. manager \in Manager /\ instances \in Seq(FitEntry)
    BY DEF Orderly, Shape, ManagerFits
  <2>2. ShutDown \/ ShutdownFails
    <3>1. \A cs : Arrive(cs) => manager'.op = manager.op
      BY <2>1 DEF Arrive, Manager
    <3>2. Register => \E cs : Arrive(cs)
      BY DEF Register, RegisterService, RegisterConnectorOnly, RegisterInterface, RegisterFromConfig,
             Registered
    <3>3. (\E i \in Interfaces, c \in Connectors : SwitchWorker(i, c)) => \E cs : Arrive(cs)
      BY DEF SwitchWorker
    <3>4. ~StartAll /\ ~StopAll /\ ~CheckAllHealth
      BY DEF StartAll, StopAll, CheckAllHealth, ManagerBegins
    <3>5. ~Initialised /\ ~StartFails /\ ~StopCancelled /\ ~Checked /\ ~CheckCancelled
      BY DEF Initialised, StartFails, StopCancelled, Checked, CheckCancelled, Goes, Rests, Resting
    <3>6. manager' # manager
      OBVIOUS
    <3> QED
      BY <3>1, <3>2, <3>3, <3>4, <3>5, <3>6 DEF Next, ManagerStep, vars
  <2>3. /\ Goes("stopping", "down")
        /\ \/ open' = open \ {manager.target} /\ spoiled' = spoiled \ {manager.target}
           \/ open' = open /\ spoiled' = spoiled \cup ({manager.target} \cap open)
    BY <2>2 DEF ShutDown, ShutdownFails
  <2>4. worker' = worker /\ instances' = instances
    BY <2>3 DEF Goes
  <2>5. Owed = {}
    <3>1. "stopping" \in Busy /\ "down" \in Ends
      BY DEF Busy, Ends
    <3> QED
      BY <2>3, <3>1, GoesOn
  <2>6. \A c \in Reachable' : \E e \in Range(instances) : c = Target(e)
    <3>1. Reachable' = Reachable
      BY <2>4 DEF Reachable, Target
    <3> QED
      BY <3>1, ReachableIs
  <2>7. \A e \in Range(instances) :
          Target(e) \in open => Target(e) \in spoiled \cup manager.fresh \cup {manager.target}
    BY <2>5 DEF Orderly, Kept, Stops
  <2> QED
    BY <2>3, <2>6, <2>7
<1> QED
  BY <1>1, Inductive, PTL DEF Spec, StopClosesAll
=============================================================================
