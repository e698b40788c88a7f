----------------------------- MODULE Interfaces -----------------------------
(***************************************************************************)
(* BaseInterface of core/base_class/base_interface.py and its five         *)
(* subclasses under ports/: every operation is handed to the worker (a     *)
(* connector) and reported on the event bus before and after.  The worker  *)
(* can be switched at any await of an operation.                           *)
(*                                                                         *)
(* The events themselves go through EventBus; here only what they say      *)
(* counts.  Requests, results and metadata are left out, but for the       *)
(* number of chunks of a stream.                                           *)
(***************************************************************************)
EXTENDS Naturals, Sequences, FiniteSets

CONSTANTS
    Connectors,   \* connector objects; what they do is external
    Interfaces,   \* interface objects
    Port,         \* Interfaces -> {"LLM", "Queue", "Storage", "DB", "HTTP"}
    Callers,      \* tasks that call operations, one at a time
    Nobody,       \* no connector, no interface
    MaxChunks     \* bound: chunks of a stream

ASSUME InterfacesAssumption ==
    /\ Nobody \notin Connectors \cup Interfaces
    /\ Port \in [Interfaces -> {"LLM", "Queue", "Storage", "DB", "HTTP"}]
    /\ MaxChunks \in Nat

VARIABLES
    worker,  \* _worker of an interface; Nobody before it is created
    call,    \* per caller: its operation
    left     \* streams a consumer left, to be reported by a finalizer's task

operations == <<call, left>>
interfaceVars == <<worker, call, left>>

(* The operations of an interface, by how they are tracked.  get() and     *)
(* post() of HTTP are calls of send().                                     *)
Tracked(calls, streams) ==
    [op \in calls \cup streams |-> IF op \in streams THEN "stream" ELSE "call"]

LLMOperations ==
    Tracked({"chat", "embed", "count_tokens", "upload_file", "get_file_info",
             "list_files", "delete_file", "delete_files"}, {"stream"})
QueueOperations ==
    Tracked({"publish", "batch_publish", "subscribe", "consume", "commit"}, {})
StorageOperations ==
    Tracked({"upload", "upload_stream", "download", "delete", "list_objects"}, {"download_stream"})
DBOperations == Tracked({"query", "execute", "transaction"}, {"query_stream"})
HTTPOperations == Tracked({"send"}, {"stream"})

Operations(port) ==
    [LLM |-> LLMOperations, Queue |-> QueueOperations, Storage |-> StorageOperations,
     DB |-> DBOperations, HTTP |-> HTTPOperations][port]

(* What the protocols ask of a connector.  A connector that offers no more *)
(* has no upload_stream(), send() or stream() of HTTP: their interface     *)
(* gets an AttributeError before anything is reported.                     *)
LLMDeclared ==
    {"chat", "stream", "embed", "count_tokens", "upload_file", "get_file_info",
     "list_files", "delete_file", "delete_files"}
QueueDeclared == {"publish", "batch_publish", "subscribe", "consume", "commit"}
StorageDeclared == {"upload", "download", "download_stream", "delete", "list_objects"}
DBDeclared == {"query", "query_stream", "execute", "transaction"}
HTTPDeclared == {"request", "get", "post", "put", "delete"}

Declared(port) ==
    [LLM |-> LLMDeclared, Queue |-> QueueDeclared, Storage |-> StorageDeclared,
     DB |-> DBDeclared, HTTP |-> HTTPDeclared][port]

(* pc "starting": OPERATION_STARTED is being published; "running": the     *)
(* worker's operation; "yielded": a chunk is with the consumer; "ending":  *)
(* the end is being published.  given only observes: the chunks the        *)
(* consumer got.                                                           *)
Call == [ pc : {"idle", "starting", "running", "yielded", "ending"},
          kind : {"call", "stream"}, on : Interfaces \cup {Nobody},
          report : {"none", "completed", "failed"},
          outcome : {"none", "returned", "raised", "cancelled", "closed"},
          counted : 0..MaxChunks, given : 0..MaxChunks ]

NoCall == [pc |-> "idle", kind |-> "call", on |-> Nobody,
           report |-> "none", outcome |-> "none", counted |-> 0, given |-> 0]

InterfacesTypeOK ==
    /\ worker \in [Interfaces -> Connectors \cup {Nobody}]
    /\ call \in [Callers -> Call] /\ left \subseteq Call

InterfacesInit ==
    /\ worker = [i \in Interfaces |-> Nobody]
    /\ call = [t \in Callers |-> NoCall] /\ left = {}

Sets(t, new) == call' = [call EXCEPT ![t] = new] /\ UNCHANGED <<worker, left>>

(* self._worker.<op> is evaluated, then OPERATION_STARTED published.       *)
Begin(t, i, op) ==
    /\ call[t].pc = "idle" /\ worker[i] # Nobody
    /\ Sets(t, [NoCall EXCEPT !.pc = "starting", !.on = i,
                              !.kind = Operations(Port[i])[op]])

NotOffered(t, i, op) ==
    /\ call[t].pc = "idle" /\ worker[i] # Nobody
    /\ op \notin Declared(Port[i])
    /\ UNCHANGED interfaceVars

Started(t) ==
    call[t].pc = "starting" /\ Sets(t, [call[t] EXCEPT !.pc = "running"])

(* The end is published, under the name of the worker of that moment: not  *)
(* of the one that was called, if the interface has got another since.     *)
Ending(t, report, outcome) ==
    [call[t] EXCEPT !.pc = "ending", !.report = report, !.outcome = outcome]

Returns(t) ==
    call[t].pc = "running" /\ Sets(t, Ending(t, "completed", "returned"))

\* Fault: the exception is not noted on its way out.
RaisesUnnoticed(t) ==
    call[t].pc = "running" /\ Sets(t, Ending(t, "completed", "raised"))

Raises(t) ==
    call[t].pc = "running" /\ Sets(t, Ending(t, "failed", "raised"))

(* A chunk is counted, then yielded.                                       *)
Counted(c) == [c EXCEPT !.counted = @ + 1]

Yields(t) ==
    /\ call[t].pc = "running" /\ call[t].kind = "stream" /\ call[t].given < MaxChunks
    /\ Sets(t, [Counted(call[t]) EXCEPT !.pc = "yielded", !.given = @ + 1])

Resumes(t) ==
    call[t].pc = "yielded" /\ Sets(t, [call[t] EXCEPT !.pc = "running"])

(* The consumer leaves its loop, by a break, an exception or a             *)
(* cancellation of its own, and goes on.  The operation's generator wraps  *)
(* the one that tracks (storage.py:96, llm.py:65, db.py:60, http.py:54)    *)
(* and does not close it: that is left to the loop's finalizer, a task.    *)
(* GeneratorExit is no Exception, so the finally reports success.  Streams *)
(* left that are alike count as one.                                       *)
Closes(t) ==
    /\ call[t].pc = "yielded"
    /\ call' = [call EXCEPT ![t] = NoCall]
    /\ left' = left \cup {Ending(t, "completed", "closed")}
    /\ UNCHANGED worker

Finalized == \E c \in left : left' = left \ {c} /\ UNCHANGED <<worker, call>>

(* CancelledError is no Exception either: a cancelled stream is reported   *)
(* as completed, a cancelled call is not reported at all.                  *)
CancelledRunning(t) ==
    /\ call[t].pc = "running"
    /\ Sets(t, IF call[t].kind = "stream" THEN Ending(t, "completed", "cancelled") ELSE NoCall)

(* Cancelled while it publishes: the first event is outside the try, and   *)
(* nothing follows the last one.                                           *)
CancelledPublishing(t) == call[t].pc \in {"starting", "ending"} /\ Sets(t, NoCall)

(* The caller gets the outcome; the call is forgotten.                     *)
Ended(t) == call[t].pc = "ending" /\ Sets(t, NoCall)

CallStep(t) ==
    \/ Started(t) \/ Returns(t) \/ Raises(t) \/ Yields(t) \/ Resumes(t)
    \/ Closes(t) \/ CancelledRunning(t) \/ CancelledPublishing(t) \/ Ended(t)

CallBegins(t) ==
    \E i \in Interfaces : \E op \in DOMAIN Operations(Port[i]) :
        Begin(t, i, op) \/ NotOffered(t, i, op)

(* Neither initialises the new worker nor shuts the old one down; it does  *)
(* not wait for operations that run.                                       *)
Switched(i, new) ==
    /\ worker[i] # Nobody /\ worker[i] # new
    /\ worker' = [worker EXCEPT ![i] = new]
    /\ UNCHANGED operations

----------------------------------------------------------------------------
(* The report on the bus and what the caller is about to get, or has got   *)
(* from a stream it left, agree: an operation is reported failed exactly   *)
(* when the worker raised, a result or a stream read to the end is         *)
(* reported completed, and the chunks counted in the report are those the  *)
(* consumer got.                                                           *)
ReportsAgree ==
    \A c \in left \cup {call[t] : t \in {u \in Callers : call[u].pc = "ending"}} :
        /\ c.report = "failed" <=> c.outcome = "raised"
        /\ c.report # "none"
        /\ c.given = c.counted
=============================================================================
