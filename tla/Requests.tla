------------------------------ MODULE Requests ------------------------------
(***************************************************************************)
(* The data transfer objects of the ports (ports/**/dto.py).  Each has two *)
(* sets of checks, written apart from each other: those of the dataclass's *)
(* __post_init__ and those of the pydantic model that validate() makes of  *)
(* it.  Dataclasses are not frozen, so an attribute may be assigned after  *)
(* __post_init__ has passed.                                               *)
(*                                                                         *)
(* A value is what the checks tell apart.  A class of the code is the      *)
(* function from its checked attributes to the values it accepts; an       *)
(* attribute neither class looks at is left out, and so are the objects    *)
(* that have no checks or no model.  Values have the annotated types.      *)
(***************************************************************************)
EXTENDS Naturals, FiniteSets

CONSTANT MaxOdd  \* bound: attributes with a value out of the ordinary

ASSUME RequestsAssumption == MaxOdd \in Nat

VARIABLES
    dto,    \* the class of the object
    value,  \* its attributes
    phase   \* "arguments": not made yet; "object", "changed": made, and
            \* assigned to since; "refused", "rejected": by __post_init__,
            \* by validate(); "model": validate() returned

vars == <<dto, value, phase>>

Text == {"empty", "blank", "padded", "plain"}
Named == Text \ {"empty"}               \* min_length=1
Worded == {"padded", "plain"}           \* strip() leaves something

Number == {"low", "negative", "zero", "usual", "huge"}  \* "low": below -2
NonNegative == {"zero", "usual", "huge"}    \* ge=0
Positive == {"usual", "huge"}           \* gt=0
Limited == {"usual"}                    \* gt=0 and an upper limit
UpToOne == {"zero", "usual"}            \* from 0 to an upper limit
Penalty == {"negative", "zero", "usual"}  \* ge=-2.0, le=2.0

(* Lists, dictionaries and nested objects; "flawed" has a blank element or *)
(* one that its own model rejects.                                         *)
Listed == {"empty", "flawed", "plain"}
NonEmpty == Listed \ {"empty"}
Sound == {"plain"}

Opt(values) == values \cup {"none"}

TextFields == {"id", "topic", "group_id", "name", "path", "bucket", "model", "sql",
               "isolation_level", "url", "text", "file_id", "filename", "tool_call_id"}
ListFields == {"content", "tool_calls", "messages", "tools", "tool_choice", "message", "choices",
               "usage", "vector", "embeddings", "payload", "topics", "message_ids",
               "paths", "operations", "results"}

Domain(field) ==
    CASE field \in TextFields -> Text
      [] field \in ListFields -> Listed
      [] field = "input" -> Listed \cup {"blank"}  \* a list, or a string that strip() leaves empty
      [] field = "method" -> {"short", "padded", "plain", "long"}
      [] field = "auto_offset_reset" -> {"other", "plain"}
      [] OTHER -> Number

(* None only where the annotation is Optional.                             *)
Typed(model) == [field \in DOMAIN model |-> Domain(field) \cup (model[field] \cap {"none"})]

----------------------------------------------------------------------------
(* ports/outbound/ml/llm/dto.py                                            *)

MessageModel == [content |-> Opt(Listed), tool_calls |-> Opt(Listed), name |-> Opt(Named),
                 tool_call_id |-> Opt(Text)]
ChatRequestModel ==
    [messages |-> Sound, model |-> Opt(Named), temperature |-> UpToOne, max_tokens |-> Opt(Limited),
     top_p |-> UpToOne, frequency_penalty |-> Penalty, presence_penalty |-> Penalty,
     tools |-> Opt(Listed), tool_choice |-> Opt(Listed)]
UsageModel == [prompt_tokens |-> NonNegative, completion_tokens |-> NonNegative, total_tokens |-> NonNegative]
ChatChoiceModel == [index |-> NonNegative, message |-> Sound]
ChatResponseModel == [id |-> Named, choices |-> Sound, usage |-> Sound, model |-> Named]
EmbeddingRequestModel == [input |-> NonEmpty, model |-> Opt(Named), dimensions |-> Opt(Limited)]
EmbeddingModel == [index |-> NonNegative, vector |-> NonEmpty]
EmbeddingResponseModel == [embeddings |-> Sound, model |-> Named, usage |-> Sound]
TokenCountResponseModel ==
    [text |-> Named, tokens |-> NonNegative, characters |-> NonNegative, model |-> Named]
FileUploadResponseModel == [file_id |-> Named, filename |-> Named, size |-> NonNegative]
FileInfoResponseModel == FileUploadResponseModel
FilesListResponseModel == [total |-> NonNegative]

Message == Typed(MessageModel)
ChatRequest ==
    [Typed(ChatRequestModel) EXCEPT !.messages = NonEmpty, !.temperature = UpToOne,
                                    !.top_p = UpToOne, !.max_tokens = Opt(Positive)]
Usage == [prompt_tokens |-> NonNegative, completion_tokens |-> NonNegative, total_tokens |-> NonNegative]
ChatChoice == Typed(ChatChoiceModel)
ChatResponse == Typed(ChatResponseModel)
EmbeddingRequest == Typed(EmbeddingRequestModel)
Embedding == Typed(EmbeddingModel)
EmbeddingResponse == Typed(EmbeddingResponseModel)
TokenCountResponse == Typed(TokenCountResponseModel)
FileUploadResponse == Typed(FileUploadResponseModel)
FileInfoResponse == Typed(FileInfoResponseModel)
FilesListResponse == Typed(FilesListResponseModel)

----------------------------------------------------------------------------
(* ports/inbound/broker/dto.py; regex= is read as pattern=, its name in    *)
(* the version of pydantic the other files are written for.                *)

QueueMessageModel == [id |-> Named, topic |-> Worded, payload |-> NonEmpty,
                      partition |-> Opt(NonNegative), offset |-> Opt(NonNegative)]
PublishRequestModel == [topic |-> Worded, message |-> NonEmpty,
                        partition |-> Opt(NonNegative), timeout |-> Opt(Positive)]
BatchPublishRequestModel == [topic |-> Worded, messages |-> NonEmpty,
                             partition |-> Opt(NonNegative), timeout |-> Opt(Positive)]
SubscribeRequestModel == [topics |-> Sound, group_id |-> Named, auto_offset_reset |-> {"plain"},
                          session_timeout |-> Opt(Positive)]
\* Fault: the validator of the topic is missing.
ConsumeRequestModelLax == [topic |-> Named, group_id |-> Named, max_messages |-> Limited,
                           timeout |-> Positive, partition |-> Opt(NonNegative)]

ConsumeRequestModel == [topic |-> Worded, group_id |-> Named, max_messages |-> Limited,
                        timeout |-> Positive, partition |-> Opt(NonNegative)]
CommitRequestModel == [message_ids |-> NonEmpty, group_id |-> Named, topic |-> Named]

QueueMessage == [id |-> Worded, topic |-> Worded, payload |-> NonEmpty,
                 partition |-> Opt(NonNegative), offset |-> Opt(NonNegative)]
PublishRequest == [topic |-> Worded, message |-> NonEmpty,
                   partition |-> Opt(NonNegative), timeout |-> Opt(Positive)]
BatchPublishRequest == [topic |-> Worded, messages |-> NonEmpty,
                        partition |-> Opt(NonNegative), timeout |-> Opt(Positive)]
SubscribeRequest == [topics |-> Sound, group_id |-> Worded, auto_offset_reset |-> {"plain"},
                     session_timeout |-> Opt(Positive)]
ConsumeRequest == [topic |-> Worded, group_id |-> Worded, max_messages |-> Positive,
                   timeout |-> Positive, partition |-> Opt(NonNegative)]
CommitRequest == [message_ids |-> NonEmpty, group_id |-> Worded, topic |-> Worded]

----------------------------------------------------------------------------
(* ports/outbound/storage/dto.py                                           *)

StorageObjectModel == [name |-> Named, path |-> Worded, size |-> Opt(NonNegative)]
UploadRequestModel == [path |-> Worded, bucket |-> Opt(Named), part_size |-> Opt(Limited)]
DownloadRequestModel == [path |-> Worded, bucket |-> Opt(Named),
                         offset |-> Opt(NonNegative), length |-> Opt(Positive)]
DeleteRequestModel == [paths |-> Sound, bucket |-> Opt(Named)]
ListRequestModel == [bucket |-> Opt(Named), max_items |-> Opt(Limited)]

StorageObject == [name |-> Text, path |-> Worded, size |-> Opt(NonNegative)]
\* Fault: the part size is compared with < instead of <=.
UploadRequestLax == [path |-> Worded, bucket |-> Opt(Text), part_size |-> Opt(NonNegative)]

UploadRequest == [path |-> Worded, bucket |-> Opt(Text), part_size |-> Opt(Positive)]
DownloadRequest == [path |-> Worded, bucket |-> Opt(Text),
                    offset |-> Opt(NonNegative), length |-> Opt(Positive)]
DeleteRequest == [paths |-> Sound, bucket |-> Opt(Text)]
ListRequest == [bucket |-> Opt(Text), max_items |-> Opt(Positive)]

(* ports/outbound/db/dto.py; a transaction's operations become             *)
(* dictionaries without checks, its results are validated one by one.      *)

QueryRequestModel == [sql |-> Worded, timeout |-> Opt(Positive), fetch_size |-> Opt(Limited)]
QueryResponseModel == [row_count |-> NonNegative, execution_time |-> NonNegative]
ExecuteRequestModel == [sql |-> Worded, timeout |-> Opt(Positive)]
ExecuteResponseModel == [affected_rows |-> NonNegative]
TransactionRequestModel ==
    [operations |-> NonEmpty, isolation_level |-> Opt(Named), timeout |-> Opt(Positive)]
TransactionResponseModel == [results |-> {"empty", "plain"}, duration |-> NonNegative]

QueryRequest == [sql |-> Worded, timeout |-> Opt(Positive), fetch_size |-> Opt(Positive)]
QueryResponse == Typed(QueryResponseModel)
ExecuteRequest == [sql |-> Worded, timeout |-> Opt(Positive)]
ExecuteResponse == Typed(ExecuteResponseModel)
TransactionRequest ==
    [operations |-> NonEmpty, isolation_level |-> Opt(Text), timeout |-> Opt(Positive)]
TransactionResponse == Typed(TransactionResponseModel)

(* ports/outbound/network/dto.py; a method has 2 to 10 characters, counted *)
(* before the model strips it.                                             *)

HTTPRequestModel == [url |-> Named, method |-> {"padded", "plain"}, timeout |-> Opt(Positive)]
HTTPResponseModel == [status_code |-> Limited]
HTTPRequest == [url |-> Worded, method |-> Domain("method"), timeout |-> Opt(Positive)]
HTTPResponse == Typed(HTTPResponseModel)

----------------------------------------------------------------------------
Models ==
    [ Message |-> MessageModel, ChatRequest |-> ChatRequestModel, Usage |-> UsageModel,
      ChatChoice |-> ChatChoiceModel, ChatResponse |-> ChatResponseModel,
      EmbeddingRequest |-> EmbeddingRequestModel, Embedding |-> EmbeddingModel,
      EmbeddingResponse |-> EmbeddingResponseModel, TokenCountResponse |-> TokenCountResponseModel,
      FileUploadResponse |-> FileUploadResponseModel, FileInfoResponse |-> FileInfoResponseModel,
      FilesListResponse |-> FilesListResponseModel,
      QueueMessage |-> QueueMessageModel, PublishRequest |-> PublishRequestModel,
      BatchPublishRequest |-> BatchPublishRequestModel, SubscribeRequest |-> SubscribeRequestModel,
      ConsumeRequest |-> ConsumeRequestModel, CommitRequest |-> CommitRequestModel,
      StorageObject |-> StorageObjectModel, UploadRequest |-> UploadRequestModel,
      DownloadRequest |-> DownloadRequestModel, DeleteRequest |-> DeleteRequestModel,
      ListRequest |-> ListRequestModel,
      QueryRequest |-> QueryRequestModel, QueryResponse |-> QueryResponseModel,
      ExecuteRequest |-> ExecuteRequestModel, ExecuteResponse |-> ExecuteResponseModel,
      TransactionRequest |-> TransactionRequestModel, TransactionResponse |-> TransactionResponseModel,
      HTTPRequest |-> HTTPRequestModel, HTTPResponse |-> HTTPResponseModel ]

Dataclasses ==
    [ Message |-> Message, ChatRequest |-> ChatRequest, Usage |-> Usage, ChatChoice |-> ChatChoice,
      ChatResponse |-> ChatResponse, EmbeddingRequest |-> EmbeddingRequest, Embedding |-> Embedding,
      EmbeddingResponse |-> EmbeddingResponse, TokenCountResponse |-> TokenCountResponse,
      FileUploadResponse |-> FileUploadResponse, FileInfoResponse |-> FileInfoResponse,
      FilesListResponse |-> FilesListResponse,
      QueueMessage |-> QueueMessage, PublishRequest |-> PublishRequest,
      BatchPublishRequest |-> BatchPublishRequest, SubscribeRequest |-> SubscribeRequest,
      ConsumeRequest |-> ConsumeRequest, CommitRequest |-> CommitRequest,
      StorageObject |-> StorageObject, UploadRequest |-> UploadRequest,
      DownloadRequest |-> DownloadRequest, DeleteRequest |-> DeleteRequest, ListRequest |-> ListRequest,
      QueryRequest |-> QueryRequest, QueryResponse |-> QueryResponse, ExecuteRequest |-> ExecuteRequest,
      ExecuteResponse |-> ExecuteResponse, TransactionRequest |-> TransactionRequest,
      TransactionResponse |-> TransactionResponse,
      HTTPRequest |-> HTTPRequest, HTTPResponse |-> HTTPResponse ]

Given(v) == v \notin {"none", "empty"}

Says(message) == Given(message.content) \/ Given(message.tool_calls)

Chooses(request) == Given(request.tool_choice) => Given(request.tools)

PostInit(class, v) ==
    /\ \A f \in DOMAIN v : v[f] \in Dataclasses[class][f]
    /\ class = "Message" => Says(v)

Validates(class, v) ==
    /\ \A f \in DOMAIN v : v[f] \in Models[class][f]
    /\ class = "Message" => Says(v)
    /\ class = "ChatRequest" => Chooses(v)

Stripped(v, field) ==
    IF field \in DOMAIN v /\ v[field] = "padded" THEN [v EXCEPT ![field] = "plain"] ELSE v

(* __post_init__ of HTTPRequest; the validators of path and method.        *)
Normalised(v) == Stripped(Stripped(v, "method"), "path")

----------------------------------------------------------------------------
(* to_dict() and from_dict(): what is left out comes back as None.         *)

MessageDict(v) ==
    [f \in {g \in DOMAIN v : IF g = "content" THEN v[g] # "none" ELSE Given(v[g])} |-> v[f]]

\* Fault: `if self.offset' instead of `if self.offset is not None'.
QueueMessageDictTruthy(v) ==
    [f \in {g \in DOMAIN v : g \in {"partition", "offset"} => v[g] \notin {"none", "zero"}} |-> v[f]]

QueueMessageDict(v) ==
    [f \in {g \in DOMAIN v : g \in {"partition", "offset"} => v[g] # "none"} |-> v[f]]

FromDict(fields, dict) == [f \in fields |-> IF f \in DOMAIN dict THEN dict[f] ELSE "none"]

Ordinary(class) ==
    [f \in DOMAIN Models[class] |-> IF "usual" \in Domain(f) THEN "usual" ELSE "plain"]

Init ==
    /\ phase = "arguments"
    /\ \E class \in DOMAIN Models : dto = class /\ value = Ordinary(class)

(* An argument of the constructor, or an attribute of the object.          *)
Assign(f, v) ==
    /\ phase \in {"arguments", "object", "changed"} /\ v # value[f]
    /\ value' = [value EXCEPT ![f] = v]
    /\ Cardinality({g \in DOMAIN value' : value'[g] # Ordinary(dto)[g]}) <= MaxOdd
    /\ phase' = IF phase = "arguments" THEN phase ELSE "changed"
    /\ UNCHANGED dto

Construct ==
    /\ phase = "arguments"
    /\ phase' = IF PostInit(dto, value) THEN "object" ELSE "refused"
    /\ value' = IF dto = "HTTPRequest" THEN Stripped(value, "method") ELSE value
    /\ UNCHANGED dto

Validate ==
    /\ phase \in {"object", "changed"}
    /\ phase' = IF Validates(dto, value) THEN "model" ELSE "rejected"
    /\ value' = IF Validates(dto, value) THEN Normalised(value) ELSE value
    /\ UNCHANGED dto

(* from_dict() calls the constructor, __post_init__ and all.               *)
RoundTrip(dict) ==
    /\ phase = "object"
    /\ value' = FromDict(DOMAIN value, dict)
    /\ phase' = IF PostInit(dto, value') THEN "object" ELSE "refused"
    /\ UNCHANGED dto

(* The caller goes on to another object.                                   *)
Another ==
    /\ phase \in {"refused", "rejected", "model"}
    /\ phase' = "arguments"
    /\ \E class \in DOMAIN Models : dto' = class /\ value' = Ordinary(class)

Next ==
    \/ \E f \in DOMAIN value : \E v \in Typed(Models[dto])[f] : Assign(f, v)
    \/ Construct \/ Validate \/ Another
    \/ dto = "Message" /\ RoundTrip(MessageDict(value))
    \/ dto = "QueueMessage" /\ RoundTrip(QueueMessageDict(value))

Spec == Init /\ [][Next]_vars

----------------------------------------------------------------------------
(* The object keeps the attributes of its class, with the annotated types. *)
TypeOK ==
    /\ dto \in DOMAIN Models
    /\ phase \in {"arguments", "object", "changed", "refused", "rejected", "model"}
    /\ DOMAIN value = DOMAIN Models[dto]
    /\ \A f \in DOMAIN value : value[f] \in Typed(Models[dto])[f]

(* Responses and EmbeddingRequest have no __post_init__.  Of the others:   *)
(* a number below its lower limit or a blank text never gets as far as     *)
(* validate(), so that a connector which does not call it is spared them,  *)
(* except for the penalties of a ChatRequest, whose limit of -2 only the   *)
(* model knows.  What validate() alone finds otherwise is above an upper   *)
(* limit, empty, badly nested, or a method of the wrong length.            *)
Guarded == {"Message", "ChatRequest", "Usage", "QueueMessage", "PublishRequest",
            "BatchPublishRequest", "SubscribeRequest", "ConsumeRequest", "CommitRequest",
            "StorageObject", "UploadRequest", "DownloadRequest", "DeleteRequest", "ListRequest",
            "QueryRequest", "ExecuteRequest", "TransactionRequest", "HTTPRequest"}

Unlimited == {<<"ChatRequest", "frequency_penalty">>, <<"ChatRequest", "presence_penalty">>}

ConstructorsSuffice ==
    [][phase = "object" /\ phase' = "rejected" /\ dto \in Guarded =>
        \A f \in DOMAIN value : value[f] \notin Models[dto][f] =>
            \/ value[f] \notin {"low", "negative", "zero", "blank"}
            \/ value[f] = "low" /\ <<dto, f>> \in Unlimited]_vars

(* validate() stands in for __post_init__ after assignments: whatever the  *)
(* constructor refuses it rejects too.  Six models only ask for one        *)
(* character where the constructor asks for a word.                        *)
AcceptsBlank == {<<"QueueMessage", "id">>, <<"SubscribeRequest", "group_id">>,
                 <<"ConsumeRequest", "group_id">>, <<"CommitRequest", "group_id">>,
                 <<"CommitRequest", "topic">>, <<"HTTPRequest", "url">>}

ValidateStandsIn ==
    phase = "model" =>
        \A f \in DOMAIN value :
            \/ value[f] \in Dataclasses[dto][f]
            \/ value[f] = "blank" /\ <<dto, f>> \in AcceptsBlank

(* A message that went through to_dict() and from_dict() is a message      *)
(* again: constructing it does not raise, nothing but empty attributes is  *)
(* lost, and what would have passed validate() still does.                 *)
RoundTripKeeps ==
    [][phase = "object" /\ phase' \in {"object", "refused"} =>
        /\ phase' = "object"
        /\ \A f \in DOMAIN value :
             value'[f] = value[f] \/ (value[f] = "empty" /\ value'[f] = "none")
        /\ Validates(dto, value) => Validates(dto, value')]_vars
=============================================================================
