--------------------------- MODULE RequestsProofs ---------------------------
(***************************************************************************)
(* What holds of the data transfer objects however many of their           *)
(* attributes are out of the ordinary, and however often they are assigned *)
(* to and turned into dictionaries.  Fits is what the two sets of checks   *)
(* of a class must agree on; it is shown class by class.                   *)
(***************************************************************************)
EXTENDS Requests, TLAPS

Fits(class, model, made) ==
    /\ DOMAIN made = DOMAIN model
    /\ \A f \in DOMAIN model :
         /\ \A v \in model[f] : v \in made[f] \/ (v = "blank" /\ <<class, f>> \in AcceptsBlank)
         /\ class \in Guarded =>
              \A v \in {"low", "negative", "zero", "blank"} :
                 v \in made[f] => v \in model[f] \/ (v = "low" /\ <<class, f>> \in Unlimited)
         /\ f \in {"method", "path"} /\ "padded" \in model[f] => "plain" \in model[f]

(* What an object is between the calls.                                    *)
Objects ==
    /\ TypeOK
    /\ phase = "object" => PostInit(dto, value)
    /\ phase = "model" => \A f \in DOMAIN value : value[f] \in Models[dto][f]

-----------------------------------------------------------------------------
(* The classes                                                             *)

LEMMA ChatRequestFits == Fits("ChatRequest", Models.ChatRequest, Dataclasses.ChatRequest)
<1>1. Models.ChatRequest = ChatRequestModel /\ Dataclasses.ChatRequest = ChatRequest
  BY DEF Models, Dataclasses
<1>2. /\ Domain("model") = Text /\ Domain("tools") = Listed /\ Domain("tool_choice") = Listed
      /\ \A f \in {"frequency_penalty", "presence_penalty"} : Domain(f) = Number
  BY DEF Domain, TextFields, ListFields
<1>3. /\ ChatRequestModel.messages = Sound
      /\ ChatRequestModel.temperature = UpToOne /\ ChatRequestModel.top_p = UpToOne
      /\ ChatRequestModel.max_tokens = Opt(Limited) /\ ChatRequestModel.model = Opt(Named)
      /\ \A f \in {"tools", "tool_choice"} : ChatRequestModel[f] = Opt(Listed)
      /\ \A f \in {"frequency_penalty", "presence_penalty"} : ChatRequestModel[f] = Penalty
      /\ DOMAIN ChatRequestModel =
           {"messages", "temperature", "top_p", "max_tokens", "model", "tools", "tool_choice",
            "frequency_penalty", "presence_penalty"}
  BY DEF ChatRequestModel
<1>4. /\ DOMAIN ChatRequest = DOMAIN ChatRequestModel
      /\ ChatRequest.messages = NonEmpty
      /\ ChatRequest.temperature = UpToOne /\ ChatRequest.top_p = UpToOne
      /\ ChatRequest.max_tokens = Opt(Positive)
      /\ \A f \in {"model", "tools", "tool_choice", "frequency_penalty", "presence_penalty"} :
           ChatRequest[f] = Domain(f) \cup (ChatRequestModel[f] \cap {"none"})
  BY <1>3 DEF ChatRequest, Typed
<1>5. \A f \in DOMAIN ChatRequestModel :
        /\ ChatRequestModel[f] \subseteq ChatRequest[f]
        /\ \A v \in {"low", "negative", "zero", "blank"} :
             v \in ChatRequest[f] =>
                v \in ChatRequestModel[f] \/ (v = "low" /\ <<"ChatRequest", f>> \in Unlimited)
  BY <1>2, <1>3, <1>4
     DEF Text, Named, Number, Penalty, UpToOne, Positive, Limited, Listed, NonEmpty, Sound, Opt,
         Unlimited
<1> QED
  BY <1>1, <1>3, <1>4, <1>5 DEF Fits

(* ports/outbound/ml/llm/dto.py                                            *)
LEMMA LlmFits ==
  \A class \in {"Message", "ChatRequest", "Usage", "ChatChoice", "ChatResponse",
                 "EmbeddingRequest", "Embedding", "EmbeddingResponse",
                 "TokenCountResponse", "FileUploadResponse", "FileInfoResponse",
                 "FilesListResponse"} :
     Fits(class, Models[class], Dataclasses[class])
<1> USE DEF Fits, Models, Dataclasses, AcceptsBlank, Guarded
<1>1. Fits("Message", Models.Message, Dataclasses.Message)
  BY DEF MessageModel, Message, Named, Opt, Typed, Domain, Text, Number, Listed, TextFields,
         ListFields
<1>2. Fits("ChatRequest", Models.ChatRequest, Dataclasses.ChatRequest)
  BY ChatRequestFits
<1>3. Fits("Usage", Models.Usage, Dataclasses.Usage)
  BY DEF UsageModel, Usage, NonNegative, Number
<1>4. Fits("ChatChoice", Models.ChatChoice, Dataclasses.ChatChoice)
  BY DEF ChatChoiceModel, ChatChoice, NonNegative, Sound, Typed, Domain, Text, Number, Listed,
         TextFields, ListFields
<1>5. Fits("ChatResponse", Models.ChatResponse, Dataclasses.ChatResponse)
  BY DEF ChatResponseModel, ChatResponse, Named, Sound, Typed, Domain, Text, Number, Listed,
         TextFields, ListFields
<1>6. Fits("EmbeddingRequest", Models.EmbeddingRequest, Dataclasses.EmbeddingRequest)
  BY DEF EmbeddingRequestModel, EmbeddingRequest, Named, Limited, NonEmpty, Opt, Typed, Domain,
         Text, Number, Listed, TextFields, ListFields
<1>7. Fits("Embedding", Models.Embedding, Dataclasses.Embedding)
  BY DEF EmbeddingModel, Embedding, NonNegative, NonEmpty, Typed, Domain, Text, Number, Listed,
         TextFields, ListFields
<1>8. Fits("EmbeddingResponse", Models.EmbeddingResponse, Dataclasses.EmbeddingResponse)
  BY DEF EmbeddingResponseModel, EmbeddingResponse, Named, Sound, Typed, Domain, Text, Number,
         Listed, TextFields, ListFields
<1>9. Fits("TokenCountResponse", Models.TokenCountResponse, Dataclasses.TokenCountResponse)
  BY DEF TokenCountResponseModel, TokenCountResponse, Named, NonNegative, Typed, Domain, Text,
         Number, Listed, TextFields, ListFields
<1>10. Fits("FileUploadResponse", Models.FileUploadResponse, Dataclasses.FileUploadResponse)
  BY DEF FileUploadResponseModel, FileUploadResponse, Named, NonNegative, Typed, Domain, Text,
         Number, Listed, TextFields, ListFields
<1>11. Fits("FileInfoResponse", Models.FileInfoResponse, Dataclasses.FileInfoResponse)
  BY DEF FileInfoResponseModel, FileInfoResponse, FileUploadResponseModel, Named, NonNegative,
         Typed, Domain, Text, Number, Listed, TextFields, ListFields
<1>12. Fits("FilesListResponse", Models.FilesListResponse, Dataclasses.FilesListResponse)
  BY DEF FilesListResponseModel, FilesListResponse, NonNegative, Typed, Domain, Text, Number,
         Listed, TextFields, ListFields
<1> QED
  BY <1>1, <1>2, <1>3, <1>4, <1>5, <1>6, <1>7, <1>8, <1>9, <1>10, <1>11, <1>12

(* ports/inbound/broker/dto.py                                             *)
LEMMA BrokerFits ==
  \A class \in {"QueueMessage", "PublishRequest", "BatchPublishRequest",
                 "SubscribeRequest", "ConsumeRequest", "CommitRequest"} :
     Fits(class, Models[class], Dataclasses[class])
<1> USE DEF Fits, Models, Dataclasses, AcceptsBlank, Guarded
<1>1. Fits("QueueMessage", Models.QueueMessage, Dataclasses.QueueMessage)
  BY DEF QueueMessageModel, QueueMessage, Named, Worded, NonNegative, NonEmpty, Opt, Text,
         Number, Listed
<1>2. Fits("PublishRequest", Models.PublishRequest, Dataclasses.PublishRequest)
  BY DEF PublishRequestModel, PublishRequest, Worded, NonNegative, Positive, NonEmpty, Opt,
         Number, Listed
<1>3. Fits("BatchPublishRequest", Models.BatchPublishRequest, Dataclasses.BatchPublishRequest)
  BY DEF BatchPublishRequestModel, BatchPublishRequest, Worded, NonNegative, Positive, NonEmpty,
         Opt, Number, Listed
<1>4. Fits("SubscribeRequest", Models.SubscribeRequest, Dataclasses.SubscribeRequest)
  BY DEF SubscribeRequestModel, SubscribeRequest, Named, Worded, Positive, Sound, Opt, Text
<1>5. Fits("ConsumeRequest", Models.ConsumeRequest, Dataclasses.ConsumeRequest)
  BY DEF ConsumeRequestModel, ConsumeRequest, Named, Worded, NonNegative, Positive, Limited,
         Opt, Text, Number
<1>6. Fits("CommitRequest", Models.CommitRequest, Dataclasses.CommitRequest)
  BY DEF CommitRequestModel, CommitRequest, Named, Worded, NonEmpty, Text, Listed
<1> QED
  BY <1>1, <1>2, <1>3, <1>4, <1>5, <1>6

(* ports/outbound/storage/dto.py                                           *)
LEMMA StorageFits ==
  \A class \in {"StorageObject", "UploadRequest", "DownloadRequest", "DeleteRequest",
                 "ListRequest"} :
     Fits(class, Models[class], Dataclasses[class])
<1> USE DEF Fits, Models, Dataclasses, AcceptsBlank, Guarded
<1>1. Fits("StorageObject", Models.StorageObject, Dataclasses.StorageObject)
  BY DEF StorageObjectModel, StorageObject, Named, Worded, NonNegative, Opt, Text, Number
<1>2. Fits("UploadRequest", Models.UploadRequest, Dataclasses.UploadRequest)
  BY DEF UploadRequestModel, UploadRequest, Named, Worded, Positive, Limited, Opt, Text
<1>3. Fits("DownloadRequest", Models.DownloadRequest, Dataclasses.DownloadRequest)
  BY DEF DownloadRequestModel, DownloadRequest, Named, Worded, NonNegative, Positive, Opt, Text,
         Number
<1>4. Fits("DeleteRequest", Models.DeleteRequest, Dataclasses.DeleteRequest)
  BY DEF DeleteRequestModel, DeleteRequest, Named, Sound, Opt, Text
<1>5. Fits("ListRequest", Models.ListRequest, Dataclasses.ListRequest)
  BY DEF ListRequestModel, ListRequest, Named, Positive, Limited, Opt, Text
<1> QED
  BY <1>1, <1>2, <1>3, <1>4, <1>5

(* ports/outbound/db/dto.py                                                *)
LEMMA DbFits ==
  \A class \in {"QueryRequest", "QueryResponse", "ExecuteRequest", "ExecuteResponse",
                 "TransactionRequest", "TransactionResponse"} :
     Fits(class, Models[class], Dataclasses[class])
<1> USE DEF Fits, Models, Dataclasses, AcceptsBlank, Guarded
<1>1. Fits("QueryRequest", Models.QueryRequest, Dataclasses.QueryRequest)
  BY DEF QueryRequestModel, QueryRequest, Worded, Positive, Limited, Opt
<1>2. Fits("QueryResponse", Models.QueryResponse, Dataclasses.QueryResponse)
  BY DEF QueryResponseModel, QueryResponse, NonNegative, Typed, Domain, Text, Number, Listed,
         TextFields, ListFields
<1>3. Fits("ExecuteRequest", Models.ExecuteRequest, Dataclasses.ExecuteRequest)
  BY DEF ExecuteRequestModel, ExecuteRequest, Worded, Positive, Opt
<1>4. Fits("ExecuteResponse", Models.ExecuteResponse, Dataclasses.ExecuteResponse)
  BY DEF ExecuteResponseModel, ExecuteResponse, NonNegative, Typed, Domain, Text, Number,
         Listed, TextFields, ListFields
<1>5. Fits("TransactionRequest", Models.TransactionRequest, Dataclasses.TransactionRequest)
  BY DEF TransactionRequestModel, TransactionRequest, Named, Positive, NonEmpty, Opt, Text,
         Listed
<1>6. Fits("TransactionResponse", Models.TransactionResponse, Dataclasses.TransactionResponse)
  BY DEF TransactionResponseModel, TransactionResponse, NonNegative, Typed, Domain, Text,
         Number, Listed, TextFields, ListFields
<1> QED
  BY <1>1, <1>2, <1>3, <1>4, <1>5, <1>6

(* ports/outbound/network/dto.py                                           *)
LEMMA NetworkFits ==
  \A class \in {"HTTPRequest", "HTTPResponse"} :
     Fits(class, Models[class], Dataclasses[class])
<1> USE DEF Fits, Models, Dataclasses, AcceptsBlank, Guarded
<1>1. Fits("HTTPRequest", Models.HTTPRequest, Dataclasses.HTTPRequest)
  BY DEF HTTPRequestModel, HTTPRequest, Named, Worded, Positive, Opt, Domain, Text, Number,
         Listed, TextFields, ListFields
<1>2. Fits("HTTPResponse", Models.HTTPResponse, Dataclasses.HTTPResponse)
  BY DEF HTTPResponseModel, HTTPResponse, Limited, Typed, Domain, Text, Number, Listed,
         TextFields, ListFields
<1> QED
  BY <1>1, <1>2

LEMMA AllFit == \A class \in DOMAIN Models : Fits(class, Models[class], Dataclasses[class])
<1>1. DOMAIN Models =
        {"Message", "ChatRequest", "Usage", "ChatChoice", "ChatResponse", "EmbeddingRequest",
         "Embedding", "EmbeddingResponse", "TokenCountResponse", "FileUploadResponse",
         "FileInfoResponse", "FilesListResponse"}
        \cup {"QueueMessage", "PublishRequest", "BatchPublishRequest", "SubscribeRequest",
              "ConsumeRequest", "CommitRequest"}
        \cup {"StorageObject", "UploadRequest", "DownloadRequest", "DeleteRequest", "ListRequest"}
        \cup {"QueryRequest", "QueryResponse", "ExecuteRequest", "ExecuteResponse",
              "TransactionRequest", "TransactionResponse"}
        \cup {"HTTPRequest", "HTTPResponse"}
  BY DEF Models
<1> QED
  BY <1>1, LlmFits, BrokerFits, StorageFits, DbFits, NetworkFits

-----------------------------------------------------------------------------
(* What the steps do                                                       *)

LEMMA StrippedIs ==
  ASSUME NEW v, NEW field
  PROVE  /\ DOMAIN Stripped(v, field) = DOMAIN v
         /\ \A f \in DOMAIN v :
              Stripped(v, field)[f] = IF f = field /\ v[f] = "padded" THEN "plain" ELSE v[f]
  BY DEF Stripped

LEMMA NormalisedIs ==
  ASSUME NEW v
  PROVE  /\ DOMAIN Normalised(v) = DOMAIN v
         /\ \A f \in DOMAIN v :
              Normalised(v)[f] =
                 IF f \in {"method", "path"} /\ v[f] = "padded" THEN "plain" ELSE v[f]
<1> DEFINE w == Stripped(v, "method")
<1>1. /\ DOMAIN w = DOMAIN v
      /\ \A f \in DOMAIN v : w[f] = IF f = "method" /\ v[f] = "padded" THEN "plain" ELSE v[f]
  BY StrippedIs
<1> HIDE DEF w
<1>2. /\ DOMAIN Stripped(w, "path") = DOMAIN w
      /\ \A f \in DOMAIN w :
            Stripped(w, "path")[f] = IF f = "path" /\ w[f] = "padded" THEN "plain" ELSE w[f]
  BY StrippedIs
<1>3. Normalised(v) = Stripped(w, "path")
  BY DEF Normalised, w
<1> QED
  BY <1>1, <1>2, <1>3

LEMMA PlainIsTyped ==
  ASSUME NEW class \in DOMAIN Models, NEW f \in DOMAIN Models[class]
  PROVE  /\ DOMAIN Typed(Models[class]) = DOMAIN Models[class]
         /\ Ordinary(class)[f] \in Typed(Models[class])[f]
         /\ f \in {"method", "path"} => "plain" \in Typed(Models[class])[f]
<1>1. IF "usual" \in Domain(f) THEN TRUE ELSE "plain" \in Domain(f)
  BY DEF Domain, Text, Listed, Number
<1>2. f \in {"method", "path"} => "plain" \in Domain(f)
  BY DEF Domain, Text, TextFields, ListFields
<1> QED
  BY <1>1, <1>2 DEF Typed, Ordinary

(* The types of the objects that are made anew.                            *)
LEMMA OrdinaryObject ==
  ASSUME NEW class \in DOMAIN Models
  PROVE  /\ DOMAIN Ordinary(class) = DOMAIN Models[class]
         /\ \A f \in DOMAIN Models[class] : Ordinary(class)[f] \in Typed(Models[class])[f]
  BY PlainIsTyped DEF Ordinary

LEMMA MessageIs ==
  /\ DOMAIN Models.Message = {"content", "tool_calls", "name", "tool_call_id"}
  /\ DOMAIN Dataclasses.Message = DOMAIN Models.Message
  /\ \A f \in DOMAIN Models.Message :
        /\ "none" \in Models.Message[f]
        /\ "none" \in Dataclasses.Message[f]
        /\ "none" \in Typed(Models.Message)[f]
<1>1. Models.Message = MessageModel /\ Dataclasses.Message = Typed(MessageModel)
  BY DEF Models, Dataclasses, Message
<1>2. /\ DOMAIN MessageModel = {"content", "tool_calls", "name", "tool_call_id"}
      /\ \A f \in DOMAIN MessageModel : "none" \in MessageModel[f]
  BY DEF MessageModel, Opt
<1> QED
  BY <1>1, <1>2 DEF Typed

(* A message that comes back from its dictionary.                          *)
LEMMA MessageReturns ==
  ASSUME NEW v, DOMAIN v = DOMAIN Models.Message, PostInit("Message", v)
  PROVE  LET w == FromDict(DOMAIN v, MessageDict(v)) IN
         /\ DOMAIN w = DOMAIN v
         /\ \A f \in DOMAIN v : w[f] = v[f] \/ (v[f] = "empty" /\ w[f] = "none")
         /\ PostInit("Message", w)
         /\ Validates("Message", v) => Validates("Message", w)
<1> DEFINE w == FromDict(DOMAIN v, MessageDict(v))
<1>1. /\ DOMAIN w = DOMAIN v
      /\ \A f \in DOMAIN v :
           w[f] = IF f = "content" \/ Given(v[f]) THEN v[f] ELSE "none"
  BY DEF FromDict, MessageDict, Given
<1>2. \A f \in DOMAIN v : w[f] = v[f] \/ (v[f] = "empty" /\ w[f] = "none")
  BY <1>1 DEF Given
<1> HIDE DEF w
<1>3. Says(v) => Says(w)
  BY <1>1, MessageIs DEF Says, Given
<1>4. PostInit("Message", w)
  BY <1>1, <1>2, <1>3, MessageIs DEF PostInit
<1>5. Validates("Message", v) => Validates("Message", w)
  BY <1>1, <1>2, <1>3, MessageIs DEF Validates
<1> QED
  BY <1>1, <1>2, <1>4, <1>5 DEF w

(* A queue message comes back as it was.                                   *)
LEMMA QueueMessageReturns ==
  ASSUME NEW v, DOMAIN v = DOMAIN Models.QueueMessage
  PROVE  LET w == FromDict(DOMAIN v, QueueMessageDict(v)) IN
         DOMAIN w = DOMAIN v /\ \A f \in DOMAIN v : w[f] = v[f]
  BY DEF FromDict, QueueMessageDict

LEMMA PostInitAlike ==
  ASSUME NEW v, NEW w, DOMAIN w = DOMAIN v, \A f \in DOMAIN v : w[f] = v[f],
         DOMAIN v = DOMAIN Models.QueueMessage
  PROVE  /\ PostInit("QueueMessage", v) => PostInit("QueueMessage", w)
         /\ Validates("QueueMessage", v) => Validates("QueueMessage", w)
  BY DEF PostInit, Validates

-----------------------------------------------------------------------------
(* The theorems                                                            *)

LEMMA ObjectsInit == Init => Objects
  BY OrdinaryObject DEF Init, Objects, TypeOK

(* A round trip gives what RoundTripKeeps says.                            *)
LEMMA TripKeeps ==
  ASSUME Objects, phase = "object",
         \/ dto = "Message" /\ RoundTrip(MessageDict(value))
         \/ dto = "QueueMessage" /\ RoundTrip(QueueMessageDict(value))
  PROVE  /\ phase' = "object" /\ dto' = dto /\ DOMAIN value' = DOMAIN value /\ PostInit(dto, value')
         /\ \A f \in DOMAIN value :
              value'[f] = value[f] \/ (value[f] = "empty" /\ value'[f] = "none")
         /\ dto = "QueueMessage" => \A f \in DOMAIN value : value'[f] = value[f]
         /\ Validates(dto, value) => Validates(dto, value')
<1>1. DOMAIN value = DOMAIN Models[dto] /\ PostInit(dto, value)
  BY DEF Objects, TypeOK
<1>2. CASE dto = "Message" /\ RoundTrip(MessageDict(value))
  BY <1>1, <1>2, MessageReturns DEF RoundTrip
<1>3. CASE dto = "QueueMessage" /\ RoundTrip(QueueMessageDict(value))
  <2>1. DOMAIN value' = DOMAIN value /\ \A f \in DOMAIN value : value'[f] = value[f]
    BY <1>1, <1>3, QueueMessageReturns DEF RoundTrip
  <2>2. /\ PostInit(dto, value')
        /\ Validates(dto, value) => Validates(dto, value')
    BY <1>1, <1>3, <2>1, PostInitAlike
  <2> QED
    BY <1>3, <2>1, <2>2 DEF RoundTrip
<1> QED
  BY <1>2, <1>3

LEMMA ObjectsStep == Objects /\ [Next]_vars => Objects'
<1> SUFFICES ASSUME Objects, [Next]_vars PROVE Objects'
  OBVIOUS
<1>0. /\ dto \in DOMAIN Models /\ DOMAIN value = DOMAIN Models[dto]
      /\ \A f \in DOMAIN value : value[f] \in Typed(Models[dto])[f]
  BY DEF Objects, TypeOK
<1>1. ASSUME NEW f \in DOMAIN value, NEW v \in Typed(Models[dto])[f], Assign(f, v) PROVE Objects'
  BY <1>0, <1>1 DEF Assign, Objects, TypeOK
<1>2. CASE Construct
  <2>1. /\ DOMAIN value' = DOMAIN value
        /\ \A f \in DOMAIN value :
              value'[f] = IF dto = "HTTPRequest" /\ f = "method" /\ value[f] = "padded"
                            THEN "plain" ELSE value[f]
    BY <1>2, StrippedIs DEF Construct
  <2>2. dto' = dto /\ phase' \in {"object", "refused"}
    BY <1>2 DEF Construct
  <2>3. TypeOK'
    BY <1>0, <2>1, <2>2, PlainIsTyped DEF TypeOK
  <2>4. ASSUME phase' = "object" PROVE PostInit(dto, value')
    <3>1. PostInit(dto, value)
      BY <1>2, <2>4 DEF Construct
    <3>2. CASE dto = "HTTPRequest"
      <4>1. "method" \in DOMAIN value => "plain" \in Dataclasses.HTTPRequest["method"]
        BY DEF Dataclasses, HTTPRequest, Domain, TextFields, ListFields
      <4> QED
        BY <2>1, <3>1, <3>2, <4>1 DEF PostInit
    <3>3. CASE dto # "HTTPRequest"
      BY <1>2, <3>1, <3>3 DEF Construct
    <3> QED
      BY <3>2, <3>3
  <2> QED
    BY <2>2, <2>3, <2>4 DEF Objects
<1>3. CASE Validate
  <2>1. CASE ~ Validates(dto, value)
    BY <1>0, <1>3, <2>1 DEF Validate, Objects, TypeOK
  <2>2. CASE Validates(dto, value)
    <3>1. /\ DOMAIN value' = DOMAIN value /\ dto' = dto /\ phase' = "model"
          /\ \A f \in DOMAIN value :
               value'[f] = IF f \in {"method", "path"} /\ value[f] = "padded"
                             THEN "plain" ELSE value[f]
      BY <1>3, <2>2, NormalisedIs DEF Validate
    <3>2. TypeOK'
      BY <1>0, <3>1, PlainIsTyped DEF TypeOK
    <3>3. \A f \in DOMAIN value : value[f] \in Models[dto][f]
      BY <2>2 DEF Validates
    <3>4. \A f \in DOMAIN value : value'[f] \in Models[dto][f]
      BY <1>0, <3>1, <3>3, AllFit DEF Fits
    <3> QED
      BY <3>1, <3>2, <3>4 DEF Objects
  <2> QED
    BY <2>1, <2>2
<1>4. CASE Another
  <2>1. PICK class \in DOMAIN Models : dto' = class /\ value' = Ordinary(class)
    BY <1>4 DEF Another
  <2> QED
    BY <1>4, <2>1, OrdinaryObject DEF Another, Objects, TypeOK
<1>5. CASE \/ dto = "Message" /\ RoundTrip(MessageDict(value))
           \/ dto = "QueueMessage" /\ RoundTrip(QueueMessageDict(value))
  <2>1. phase = "object"
    BY <1>5 DEF RoundTrip
  <2>2. /\ phase' = "object" /\ dto' = dto /\ DOMAIN value' = DOMAIN value /\ PostInit(dto, value')
        /\ \A f \in DOMAIN value :
             value'[f] = value[f] \/ (value[f] = "empty" /\ value'[f] = "none")
        /\ dto = "QueueMessage" => \A f \in DOMAIN value : value'[f] = value[f]
    BY <1>5, <2>1, TripKeeps
  <2>3. \A f \in DOMAIN value : value'[f] \in Typed(Models[dto])[f]
    BY <1>0, <1>5, <2>2, MessageIs
  <2> QED
    BY <1>0, <2>2, <2>3 DEF Objects, TypeOK
<1>6. CASE UNCHANGED vars
  BY <1>6 DEF vars, Objects, TypeOK
<1> QED
  BY <1>1, <1>2, <1>3, <1>4, <1>5, <1>6 DEF Next

THEOREM Inductive == Spec => []Objects
  BY ObjectsInit, ObjectsStep, PTL DEF Spec

(* An object keeps the attributes of its class and their annotated types.  *)
THEOREM TypeCorrect == Spec => []TypeOK
<1>1. Objects => TypeOK
  BY DEF Objects
<1> QED
  BY <1>1, Inductive, PTL

(* What validate() lets pass after any assignments, the constructor would  *)
(* have let pass, but for a blank in six attributes.                       *)
THEOREM ValidationStandsIn == Spec => []ValidateStandsIn
<1>1. Objects => ValidateStandsIn
  BY AllFit DEF Objects, TypeOK, ValidateStandsIn, Fits
<1> QED
  BY <1>1, Inductive, PTL

(* Numbers below their lower limit and blank texts never reach validate()  *)
(* in an object that nobody assigned to, except for a chat request's       *)
(* penalties, which no constructor limits.                                 *)
THEOREM ConstructorsDo == Spec => ConstructorsSuffice
<1> DEFINE Suffices ==
      phase = "object" /\ phase' = "rejected" /\ dto \in Guarded =>
        \A f \in DOMAIN value : value[f] \notin Models[dto][f] =>
            \/ value[f] \notin {"low", "negative", "zero", "blank"}
            \/ value[f] = "low" /\ <<dto, f>> \in Unlimited
<1>1. ASSUME Objects, [Next]_vars PROVE [Suffices]_vars
  <2> SUFFICES ASSUME phase = "object", dto \in Guarded, NEW f \in DOMAIN value,
                      value[f] \notin Models[dto][f]
               PROVE  \/ value[f] \notin {"low", "negative", "zero", "blank"}
                      \/ value[f] = "low" /\ <<dto, f>> \in Unlimited
    OBVIOUS
  <2>1. value[f] \in Dataclasses[dto][f]
    BY <1>1 DEF Objects, PostInit
  <2>2. Fits(dto, Models[dto], Dataclasses[dto]) /\ f \in DOMAIN Models[dto]
    BY <1>1, AllFit DEF Objects, TypeOK
  <2> QED
    BY <2>1, <2>2 DEF Fits
<1> QED
  BY <1>1, Inductive, PTL DEF Spec, ConstructorsSuffice

(* A message that is turned into a dictionary and back can be constructed, *)
(* has lost nothing but empty attributes and is as valid as before.        *)
THEOREM RoundTripsKeep == Spec => RoundTripKeeps
<1> DEFINE Trip ==
      phase = "object" /\ phase' \in {"object", "refused"} =>
        /\ phase' = "object"
        /\ \A f \in DOMAIN value :
             value'[f] = value[f] \/ (value[f] = "empty" /\ value'[f] = "none")
        /\ Validates(dto, value) => Validates(dto, value')
<1>1. ASSUME Objects, [Next]_vars PROVE [Trip]_vars
  <2> SUFFICES ASSUME Next, phase = "object", phase' \in {"object", "refused"} PROVE Trip
    BY <1>1
  <2>1. \/ dto = "Message" /\ RoundTrip(MessageDict(value))
        \/ dto = "QueueMessage" /\ RoundTrip(QueueMessageDict(value))
    BY DEF Next, Assign, Construct, Validate, Another
  <2> QED
    BY <1>1, <2>1, TripKeeps
<1> QED
  BY <1>1, Inductive, PTL DEF Spec, RoundTripKeeps
=============================================================================
