----------------------------- MODULE Components -----------------------------
(***************************************************************************)
(* The components of an application: ServiceFactory (core/di/factories.py) *)
(* builds connectors and interfaces and registers them, the container      *)
(* (core/di/service_container.py) initialises, shuts down and probes what  *)
(* is registered, and callers use the interfaces meanwhile.                *)
(*                                                                         *)
(* The dictionaries of the container under threads are module Container;   *)
(* here it is the ordered dictionary of instances, as the event loop's     *)
(* tasks see it between their awaits.  A registration is one step: it does *)
(* not await, and a transaction holds the container's lock.                *)
(***************************************************************************)
EXTENDS Interfaces, SequencesExt

CONSTANTS
    Names     \* service names

VARIABLES
    instances,  \* _instances: <<[key, of, object]>> in the order of insertion
    open,       \* connectors initialised and not shut down since
    manager,    \* the container's start_all(), stop_all() or check_all_health()
    spoiled     \* connectors whose last shutdown() in the last stop_all() raised

vars == <<worker, call, left, instances, open, manager, spoiled>>

(* register_connector() uses the key {name}_connector, an interface its    *)
(* service's name.                                                         *)
Entry == [key : {"connector", "interface"}, of : Names, object : Connectors \cup Interfaces]

(* op: what runs, or between the calls how the last start or stop ended:   *)
(* "up" and "down" if it returned, "broken" if it raised; todo: the        *)
(* entries of the snapshot not done with, the first one's call is running  *)
(* on target; fresh: connectors that came in after the snapshot.           *)
Manager == [ op : {"down", "up", "broken", "starting", "stopping", "checking"},
             was : {"down", "up", "broken"},
             todo : Seq(Entry), target : Connectors \cup {Nobody}, fresh : SUBSET Connectors ]

Resting == [op |-> "down", was |-> "down", todo |-> <<>>, target |-> Nobody, fresh |-> {}]

Rests(m, last) == [Resting EXCEPT !.op = last, !.fresh = IF last = "up" THEN m.fresh ELSE {}]

(* The variables of this module and of Interfaces have the shapes above.   *)
TypeOK ==
    /\ InterfacesTypeOK
    /\ instances \in Seq(Entry)
    /\ \A j, k \in DOMAIN instances :
         instances[j].key = instances[k].key /\ instances[j].of = instances[k].of => j = k
    /\ open \subseteq Connectors /\ spoiled \subseteq Connectors
    /\ manager \in Manager

(* The connector an entry's initialize() or shutdown() ends up at.         *)
Target(e) == IF e.key = "interface" THEN worker[e.object] ELSE e.object

Reachable == {Target(instances[j]) : j \in DOMAIN instances}

Fresh(c) == ~\E j \in DOMAIN instances : instances[j].object = c

----------------------------------------------------------------------------
(* ServiceFactory                                                          *)

(* _unregister(): one key goes from the ordered dictionary, if it is there. *)
Without(list, key, of) ==
    LET at == {j \in DOMAIN list : list[j].key = key /\ list[j].of = of}
    IN  IF at = {} THEN list ELSE RemoveAt(list, CHOOSE j \in at : TRUE)

(* register_instance() unregisters first, so what is registered anew moves *)
(* to the end.                                                             *)
Put(list, key, of, object) ==
    Append(Without(list, key, of), [key |-> key, of |-> of, object |-> object])

(* A service without an interface: its name becomes an alias of the        *)
(* connector's, whatever it was before.                                    *)
Aliased(list, n, c) == Without(Put(list, "connector", n, c), "interface", n)

Arrive(cs) ==
    manager' = IF manager.op \in {"down", "broken"} THEN manager ELSE [manager EXCEPT !.fresh = @ \cup cs]

Registered(new, c) ==
    /\ instances' = new /\ Arrive({c})
    /\ UNCHANGED <<operations, open, spoiled>>

Unused(c) == Fresh(c) /\ c \notin {worker[i] : i \in Interfaces} /\ c \notin open

(* Connector and interface, in one transaction: if the interface cannot be *)
(* created, the container is as it was.                                    *)
RegisterService(n, c, i) ==
    /\ Unused(c) /\ worker[i] = Nobody
    /\ worker' = [worker EXCEPT ![i] = c]
    /\ Registered(Put(Put(instances, "connector", n, c), "interface", n, i), c)

RegisterConnectorOnly(n, c) ==
    /\ Unused(c)
    /\ Registered(Aliased(instances, n, c), c)
    /\ UNCHANGED worker

(* register_interface() over the connector the container has.              *)
RegisterInterface(n, i) ==
    /\ worker[i] = Nobody
    /\ \E j \in DOMAIN instances :
        /\ instances[j].key = "connector" /\ instances[j].of = n
        /\ worker' = [worker EXCEPT ![i] = instances[j].object]
        /\ Registered(Put(instances, "interface", n, i), instances[j].object)

(* register_services_from_config(): two entries; with atomic=True a second *)
(* one that cannot be created takes the first one with it.                 *)
RegisterFromConfig(m, n, c, d, ok) ==
    /\ m # n /\ c # d /\ Unused(c) /\ Unused(d)
    /\ instances' = IF ok THEN Aliased(Aliased(instances, m, c), n, d) ELSE instances
    /\ Arrive(IF ok THEN {c, d} ELSE {})
    /\ UNCHANGED <<worker, operations, open, spoiled>>

SwitchWorker(i, new) ==
    /\ Switched(i, new)
    /\ Arrive({new})
    /\ UNCHANGED <<instances, open, spoiled>>

----------------------------------------------------------------------------
(* start_all(), stop_all() and check_all_health(): a copy of the instances *)
(* is taken, then each is awaited in turn                                  *)

Turn(m, todo) == [m EXCEPT !.todo = todo, !.target = Target(Head(todo))]

ManagerBegins(op, order) ==
    /\ manager.op \in {"down", "up", "broken"} /\ instances # <<>>
    /\ manager' = Turn([manager EXCEPT !.op = op, !.was = manager.op, !.fresh = IF op = "checking" THEN @ ELSE {}], order)
    /\ spoiled' = {}
    /\ UNCHANGED <<worker, operations, instances, open>>

StartAll == ManagerBegins("starting", instances)
StopAll == ManagerBegins("stopping", Reverse(instances))
CheckAllHealth == ManagerBegins("checking", instances)

(* The call of the present entry is over and the next one is made.         *)
Goes(op, last) ==
    /\ manager.op = op
    /\ manager' = IF Len(manager.todo) > 1 THEN Turn(manager, Tail(manager.todo))
                  ELSE Rests(manager, last)
    /\ UNCHANGED <<worker, operations, instances>>

Initialised ==
    /\ Goes("starting", "up")
    /\ open' = open \cup {manager.target}
    /\ UNCHANGED spoiled

\* Fault: the exception is swallowed.
StartFailsSilently ==
    /\ manager.op = "starting"
    /\ manager' = [Resting EXCEPT !.op = "up"]
    /\ UNCHANGED <<worker, operations, instances, open, spoiled>>

(* The first failure, or a cancellation, ends start_all().                 *)
StartFails ==
    /\ manager.op = "starting"
    /\ manager' = Rests(manager, "broken")
    /\ UNCHANGED <<worker, operations, instances, open, spoiled>>

ShutDown ==
    /\ Goes("stopping", "down")
    /\ open' = open \ {manager.target} /\ spoiled' = spoiled \ {manager.target}

\* Fault: the try is around the loop, so the first failure ends it.
ShutdownFailsAll ==
    /\ manager.op = "stopping"
    /\ manager' = Rests(manager, "down") /\ spoiled' = spoiled \cup ({manager.target} \cap open)
    /\ UNCHANGED <<worker, operations, instances, open>>

(* A failure is logged and the next one's turn comes.                      *)
ShutdownFails ==
    /\ Goes("stopping", "down")
    /\ spoiled' = spoiled \cup ({manager.target} \cap open)
    /\ UNCHANGED open

(* A cancellation is no Exception: it ends stop_all(), and the rest stays  *)
(* as it is.                                                               *)
StopCancelled ==
    /\ manager.op = "stopping"
    /\ manager' = Rests(manager, "broken")
    /\ UNCHANGED <<worker, operations, instances, open, spoiled>>

Checked == Goes("checking", manager.was) /\ UNCHANGED <<open, spoiled>>

CheckCancelled ==
    /\ manager.op = "checking"
    /\ manager' = Rests(manager, manager.was)
    /\ UNCHANGED <<worker, operations, instances, open, spoiled>>

----------------------------------------------------------------------------
Init ==
    /\ InterfacesInit
    /\ instances = <<>> /\ open = {} /\ spoiled = {}
    /\ manager = Resting

Register ==
    \E n \in Names :
        \/ \E c \in Connectors, i \in Interfaces : RegisterService(n, c, i)
        \/ \E c \in Connectors : RegisterConnectorOnly(n, c)
        \/ \E i \in Interfaces : RegisterInterface(n, i)
        \/ \E m \in Names, c, d \in Connectors, ok \in BOOLEAN : RegisterFromConfig(m, n, c, d, ok)

ManagerStep ==
    \/ Initialised \/ StartFails \/ ShutDown \/ ShutdownFails \/ StopCancelled
    \/ Checked \/ CheckCancelled

Next ==
    \/ Register
    \/ \E i \in Interfaces, c \in Connectors : SwitchWorker(i, c)
    \/ StartAll \/ StopAll \/ CheckAllHealth \/ ManagerStep
    \/ \E t \in Callers :
        (CallBegins(t) \/ CallStep(t)) /\ UNCHANGED <<instances, open, manager, spoiled>>
    \/ Finalized /\ UNCHANGED <<instances, open, manager, spoiled>>

Spec == Init /\ [][Next]_vars

----------------------------------------------------------------------------
(* After a start_all() that returned, an operation meets an open connector *)
(* behind every interface and connector of the container, but for those    *)
(* registered or switched to since start_all() took its copy.              *)
UpMeansOpen == manager.op = "up" => Reachable \subseteq open \cup manager.fresh

(* After a stop_all() that returned nothing within the container's reach   *)
(* is open, also when start_all() or an earlier stop_all() broke off half  *)
(* way and whatever was switched before: only a connector whose own last   *)
(* shutdown() raised, or one that came in while stop_all() ran, may be.  A *)
(* stop_all() that is cancelled does not return and promises nothing.      *)
StopClosesAll ==
    [][manager.op = "stopping" /\ manager'.op = "down"
        => open' \cap Reachable' \subseteq spoiled' \cup manager.fresh]_vars
=============================================================================
