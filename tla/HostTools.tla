------------------------------ MODULE HostTools ------------------------------
(***************************************************************************)
(* What a line of the child comes to: kernel.protocol decodes it, the      *)
(* reader of FelixClient sorts it, start() checks the answer to            *)
(* initialize, and a request tool/execute goes through HostToolAdapter and *)
(* ToolRegistry.execute to its answer.  HostCalls and ToolRegistry have    *)
(* the interleavings of many requests; this module has the data of one     *)
(* line, and tools may be registered at any time before and after the      *)
(* client sent its snapshot of them.  The line comes before anything else  *)
(* was read, while start() waits for the answer to initialize.             *)
(***************************************************************************)
EXTENDS ToolSchema

CONSTANTS
    ToolNames,   \* the names that a tool may have
    Blanks,      \* the strings that strip() leaves empty
    Earlier,     \* the definitions tried before the snapshot, one or none
    Later,       \* the definitions tried at any time
    Lines,       \* what the child may write, NotJson for a line that is no JSON
    Unreadable,  \* those of them that are longer than the limit of the stream,
                 \* nested too deeply, or have a number with too many digits
    Outputs,     \* what a tool may return
    Texts,       \* the texts of the exceptions that it may raise
    Surrogates,  \* the strings that UTF-8 cannot encode
    MaxNesting   \* how deep a result may be nested before the stack is too small

(* Members of Earlier and Later: the arguments of ToolDefinition. *)
Definition(name, description, parameters) ==
    [name |-> name, description |-> description, parameters |-> parameters]

NotJson == [is |-> "no JSON"]
None == [message |-> "none"]   \* no value and no message

ASSUME HostToolsAssumption ==
    /\ Lines \subseteq Values \cup {NotJson}
    /\ Unreadable \subseteq Lines
    /\ Outputs \cup Texts \subseteq Values
    /\ \A text \in Texts : text.is = "string"
    /\ MaxNesting \in Nat
    /\ \A d \in Earlier \cup Later :
          d = Definition(d.name, d.description, d.parameters) /\ d.parameters \in Values

VARIABLES
    definitions,  \* _definitions: the parameters of each tool by name
    sent,         \* the request initialize, as the child reads it
    kernel,       \* what became of the connection
    line,         \* the line that the child wrote
    request,      \* the ServerRequest that it was
    task,         \* how far _handle_server_request is with it
    context,      \* the metadata that the body of the tool got
    ended,        \* how the body of the tool ended
    answer        \* the response, as the child reads it

hostVars == <<definitions, sent, kernel, line, request, task, context, ended, answer>>

NotEnded == [body |-> "not ended"]
Returned(output) == [body |-> "returned", output |-> output]
Raised(text) == [body |-> "raised", text |-> text]
TimedOut == [body |-> "timed out"]

(* A value that line.encode() can write; "\ud800" in a line of the child   *)
(* makes a string that it cannot.                                          *)
Encodable[v \in Values] ==
    /\ v.is = "string" => v.str \notin Surrogates
    /\ v.is = "object" => Keys(v) \cap Surrogates = {}
    /\ \A child \in Children(v) : Encodable[child]

-----------------------------------------------------------------------------
(* kernel.protocol *)

ValidId(v) == v.is \in {"string", "integer"}

NonEmpty(v) == v.is = "string" /\ v.str # ""

Malformed == [message |-> "malformed"]

(* Fault: a response may have both a result and an error. *)
DecodeResponseLoosely(v) ==
    IF ~Has(v, "id") \/ ~ValidId(Get(v, "id", Null)) THEN Malformed
    ELSE IF Has(v, "result")
    THEN [message |-> "result", id |-> Get(v, "id", Null), result |-> Get(v, "result", Null)]
    ELSE Malformed

DecodeResponse(v) ==
    LET error == Get(v, "error", Null)
    IN  IF ~Has(v, "id") \/ ~ValidId(Get(v, "id", Null)) \/ (Has(v, "result") <=> Has(v, "error"))
        THEN Malformed
        ELSE IF Has(v, "result")
        THEN [message |-> "result", id |-> Get(v, "id", Null), result |-> Get(v, "result", Null)]
        ELSE IF error.is # "object" THEN Malformed
        ELSE IF Get(error, "code", Null).is = "integer" /\ Get(error, "message", Null).is = "string"
        THEN [message |-> "error", id |-> Get(v, "id", Null), code |-> Get(error, "code", Null).int]
        ELSE Malformed

Decode(v) ==
    LET method == Get(v, "method", Null)
        params == Get(v, "params", Null)
    IN  IF v = NotJson THEN Malformed
        ELSE IF v.is # "object" THEN Malformed
        ELSE IF Get(v, "jsonrpc", Null) # Str("2.0") THEN Malformed
        ELSE IF ~Has(v, "method") THEN DecodeResponse(v)
        ELSE IF ~NonEmpty(method) THEN Malformed
        ELSE IF ~Has(v, "id")
        THEN [message |-> "notification", method |-> method.str, params |-> params]
        ELSE IF ~ValidId(Get(v, "id", Null)) THEN Malformed
        ELSE [message |-> "request", id |-> Get(v, "id", Null), method |-> method.str,
              params |-> params]

EncodeRequest(id, method, params) ==
    Obj(<< <<"jsonrpc", Str("2.0")>>, <<"id", id>>, <<"method", Str(method)>>, <<"params", params>> >>)

EncodeResult(id, result) ==
    Obj(<< <<"jsonrpc", Str("2.0")>>, <<"id", id>>, <<"result", result>> >>)

EncodeError(id, code) ==
    Obj(<< <<"jsonrpc", Str("2.0")>>, <<"id", id>>,
           <<"error", Obj(<< <<"code", Integer(code)>>, <<"message", Str("error")>> >>)>> >>)

-----------------------------------------------------------------------------
(* Tools *)

(* Fault: the root of the parameters may be of any type. *)
WithToolUnrooted(defs, d) ==
    IF /\ d.name \in ToolNames
       /\ d.description \notin Blanks
       /\ d.parameters \in Accepted
       /\ d.name \notin DOMAIN defs
    THEN [n \in DOMAIN defs \cup {d.name} |-> IF n = d.name THEN d.parameters ELSE defs[n]]
    ELSE defs

(* ToolDefinition.__post_init__ and register: what they refuse has no      *)
(* effect on the registry.                                                 *)
WithTool(defs, d) ==
    IF /\ d.name \in ToolNames
       /\ d.description \notin Blanks
       /\ d.parameters \in Accepted
       /\ TypeOf(d.parameters) = Str("object")
       /\ d.name \notin DOMAIN defs
    THEN [n \in DOMAIN defs \cup {d.name} |-> IF n = d.name THEN d.parameters ELSE defs[n]]
    ELSE defs

NoTools == [n \in {} |-> Null]

HostToolsInit ==
    /\ \/ definitions = NoTools
       \/ \E d \in Earlier : definitions = WithTool(NoTools, d)
    /\ sent = None
    /\ kernel = "new"
    /\ line = None
    /\ request = None
    /\ task = "none"
    /\ context = None
    /\ ended = NotEnded
    /\ answer = None

Register(d) ==
    /\ definitions' = WithTool(definitions, d)
    /\ definitions' # definitions
    /\ UNCHANGED <<sent, kernel, line, request, task, context, ended, answer>>

(* ToolRegistry.schemas and the capability of HostToolAdapter, as start()  *)
(* sends them; the names are in some order.                                *)
Capability ==
    LET Tool(n) == Obj(<< <<"name", Str(n)>>, <<"parameters", definitions[n]>> >>)
    IN  Obj(<< <<"hostTools", Obj(<< <<"version", Integer(1)>>,
                  <<"tools", Arr([i \in DOMAIN SetToSeq(DOMAIN definitions) |->
                                    Tool(SetToSeq(DOMAIN definitions)[i])])>> >>)>> >>)

(* The adapter takes its snapshot, and start() writes initialize, unless   *)
(* it fails before: there is no child, or the tools cannot be written.     *)
Start ==
    /\ kernel = "new"
    /\ \/ /\ \A n \in DOMAIN definitions : Encodable[definitions[n]]
          /\ kernel' = "starting"
          /\ sent' = EncodeRequest(Integer(1), "initialize",
                       Obj(<< <<"protocolVersion", Integer(1)>>, <<"capabilities", Capability>> >>))
       \/ kernel' = "broken" /\ UNCHANGED sent
    /\ UNCHANGED <<definitions, line, request, task, context, ended, answer>>

-----------------------------------------------------------------------------
(* The reader *)

(* _parse_initialize_result, and the version that start() asks for. *)
Compatible(result) ==
    LET version == Get(result, "protocolVersion", Null)
        info == Get(result, "serverInfo", Null)
    IN  /\ result.is = "object"
        /\ version = Integer(1)
        /\ info.is = "object"
        /\ NonEmpty(Get(info, "name", Null)) /\ NonEmpty(Get(info, "version", Null))
        /\ Get(result, "capabilities", Null).is = "object"

(* A line that is malformed, or that readline() or json.loads raises for,  *)
(* ends the connection; a response to initialize opens it, or start()      *)
(* fails; other responses and notifications are for others.                *)
Receive(v) ==
    /\ sent # None /\ line = None
    /\ line' = v
    /\ LET m == IF v \in Unreadable THEN Malformed ELSE Decode(v) IN
       \/ /\ m.message = "malformed"
          /\ kernel' = "broken"
          /\ UNCHANGED <<request, task>>
       \/ /\ m.message \in {"result", "error"}
          /\ kernel' = IF m.id # Integer(1) THEN kernel
                       ELSE IF m.message = "result" /\ Compatible(m.result) THEN "ready"
                       ELSE "refused"
          /\ UNCHANGED <<request, task>>
       \/ /\ m.message = "notification"
          /\ UNCHANGED <<kernel, request, task>>
       \/ /\ m.message = "request"
          /\ request' = m
          /\ task' = "dispatched"
          /\ UNCHANGED kernel
    /\ UNCHANGED <<definitions, sent, context, ended, answer>>

-----------------------------------------------------------------------------
(* _handle_server_request, HostToolAdapter.handle and execute() *)

(* A response that repeats some values is encoded and written.  If that    *)
(* fails so does the task, and with it what is pending: initialize.        *)
Answer(response, repeated) ==
    /\ \/ /\ \A v \in repeated : Encodable[v]
          /\ answer' = response
          /\ task' = "answered"
          /\ UNCHANGED kernel
       \/ /\ \E v \in repeated : ~Encodable[v]
          /\ task' = "failed"
          /\ kernel' = "broken"
          /\ UNCHANGED answer
    /\ UNCHANGED <<definitions, sent, line, request>>

Refuse(code) == Answer(EncodeError(request.id, code), {request.id})

Param(key) == Get(request.params, key, Null)

Fields == {"sessionId", "callId", "name", "arguments"}

(* Fault: more fields than the four are let through. *)
EnvelopeLoosely(params) ==
    /\ params.is = "object"
    /\ Fields \subseteq Keys(params)
    /\ \A key \in Fields \ {"arguments"} :
          Get(params, key, Null).is = "string" /\ Get(params, key, Null).str \notin Blanks
    /\ Get(params, "arguments", Null).is = "object"

(* The checks of handle(); those of ToolCall find nothing more. *)
Envelope(params) ==
    /\ params.is = "object"
    /\ Keys(params) = Fields
    /\ \A key \in Fields \ {"arguments"} :
          Get(params, key, Null).is = "string" /\ Get(params, key, Null).str \notin Blanks
    /\ Get(params, "arguments", Null).is = "object"

(* The ToolResult on the wire; "success" is no error. *)
Wire(code, output) ==
    Obj(<< <<"callId", Param("callId")>>, <<"name", Param("name")>>,
           <<"isError", Bool(code # "success")>>, <<"output", output>> >>
        \o IF code = "success" THEN <<>> ELSE << <<"error", Obj(<< <<"code", Str(code)>> >>)>> >>)

(* The message of an error shows a name or a key with repr(), which leaves *)
(* no surrogate; that of a tool is said by what the body raised.           *)
Finish(code, output, said) ==
    Answer(EncodeResult(request.id, Wire(code, output)),
           {request.id, Param("callId"), Param("name")} \cup said)

(* The task runs up to the body of the tool, if it gets there: any         *)
(* exception but InvalidRequestParams is an internal error.                *)
Handle ==
    /\ task = "dispatched"
    /\ LET name == Param("name").str
           Verdict == ValidateArguments(definitions[name], Param("arguments"))
       IN
       \/ /\ request.method # "tool/execute"
          /\ Refuse(-32601)
          /\ UNCHANGED context
       \/ /\ request.method = "tool/execute"
          /\ ~Envelope(request.params)
          /\ Refuse(-32602)
          /\ UNCHANGED context
       \/ /\ request.method = "tool/execute"
          /\ Envelope(request.params)
          /\ UNCHANGED context
          /\ \/ name \notin DOMAIN definitions /\ Finish("tool_not_found", Null, {})
             \/ name \in DOMAIN definitions /\ Verdict = "invalid"
                    /\ Finish("invalid_arguments", Null, {})
             \/ name \in DOMAIN definitions /\ Verdict = "raises" /\ Refuse(-32603)
       \/ /\ request.method = "tool/execute"
          /\ Envelope(request.params)
          /\ name \in DOMAIN definitions /\ Verdict = "valid"
          /\ task' = "body"
          /\ context' = Param("sessionId")
          /\ UNCHANGED <<definitions, sent, kernel, line, request, answer>>
    /\ UNCHANGED ended

(* _validate_json_value *)
IsJson[v \in Values] == v.is \notin {"alien", "nan"} /\ \A child \in Children(v) : IsJson[child]

(* A result that is nested too deeply raises RecursionError, which         *)
(* execute() does not catch, unless something else is found wrong first.   *)
BodyReturns(output) ==
    /\ ended' = Returned(output)
    /\ \/ IsJson[output] /\ Depth[output] <= MaxNesting /\ Finish("success", output, {output})
       \/ ~IsJson[output] /\ Finish("invalid_result", Null, {})
       \/ Depth[output] > MaxNesting /\ Refuse(-32603)

BodyRaises(text) == ended' = Raised(text) /\ Finish("execution_error", Null, {text})

BodyTimesOut == ended' = TimedOut /\ Finish("timeout", Null, {})

(* The body of the tool ends, and its result is normalized. *)
BodyEnds ==
    /\ task = "body"
    /\ \/ \E output \in Outputs : BodyReturns(output)
       \/ \E text \in Texts : BodyRaises(text)
       \/ BodyTimesOut
    /\ UNCHANGED context

HostToolsNext ==
    \/ \E d \in Later : Register(d)
    \/ Start
    \/ \E v \in Lines : Receive(v)
    \/ Handle
    \/ BodyEnds

HostToolsSpec == HostToolsInit /\ [][HostToolsNext]_hostVars

-----------------------------------------------------------------------------
(* The types of the variables. *)
HostToolsTypeOK ==
    /\ DOMAIN definitions \subseteq ToolNames
    /\ \A n \in DOMAIN definitions :
          definitions[n] \in Accepted /\ TypeOf(definitions[n]) = Str("object")
    /\ kernel \in {"new", "starting", "ready", "refused", "broken"}
    /\ kernel = "new" => sent = None
    /\ kernel \in {"starting", "ready", "refused"} => sent # None
    /\ line \in Lines \cup {None}
    /\ task \in {"none", "dispatched", "body", "answered", "failed"}
    /\ request = None <=> task = "none"
    /\ answer = None <=> task # "answered"
    /\ context # None => context.is = "string" /\ context.str \notin Blanks
    /\ ended.body # "not ended" => context # None

(* JSON-RPC 2.0: the members that make an object a request, a notification *)
(* or a response.  IsCall leaves two rules of the standard out that        *)
(* decode_message does not ask for: that params are an array or an object, *)
(* and that a call has neither a result nor an error.                      *)
Version2(v) == v # NotJson /\ v.is = "object" /\ Get(v, "jsonrpc", Null) = Str("2.0")

HasId(v) == Has(v, "id") /\ Get(v, "id", Null).is \in {"string", "integer", "float", "null"}

IsCall(v) ==
    /\ Version2(v) /\ Get(v, "method", Null).is = "string"
    /\ Has(v, "id") => HasId(v)

IsError(v) ==
    v.is = "object" /\ Get(v, "code", Null).is = "integer" /\ Get(v, "message", Null).is = "string"

IsReply(v) ==
    /\ Version2(v) /\ HasId(v)
    /\ Keys(v) \cap {"method", "result", "error"} \in {{"result"}, {"error"}}
    /\ Has(v, "error") => IsError(Get(v, "error", Null))

(* What the standard allows and the code refuses: an ID that is null, as   *)
(* it must be in the answer to a request that could not be read, an ID     *)
(* that is a float, and a method whose name is empty.                      *)
Unsupported(v) ==
    \/ Has(v, "id") /\ Get(v, "id", Null).is \in {"null", "float"}
    \/ Get(v, "method", Null) = Str("")

(* A message that the client takes: "only JSON objects are accepted", and  *)
(* malformed JSON, other versions and "structurally invalid messages       *)
(* terminate the connection".                                              *)
Taken(v) == v \notin Unreadable /\ (IsCall(v) \/ IsReply(v)) /\ ~Unsupported(v)

(* The connection ends at a line that is no message of JSON-RPC 2.0, or    *)
(* one that the client does not support or cannot read, and at no other:   *)
(* what a message carries beyond its structure never ends the reader, only *)
(* a task may fail at its answer.  Every request that is taken gets a      *)
(* task, and the client is ready only after a response to initialize that  *)
(* agrees with the version it asked for.                                   *)
MessagesAreSorted ==
    line # None =>
        /\ kernel = "broken" <=> ~Taken(line) \/ task = "failed"
        /\ task # "none" <=> Taken(line) /\ IsCall(line) /\ Has(line, "id")
        /\ kernel = "ready" =>
              /\ IsReply(line) /\ Get(line, "id", Null) = Get(sent, "id", Null)
              /\ Get(Get(line, "result", Null), "protocolVersion", Null)
                    = Get(Decode(sent).params, "protocolVersion", Null)

(* The parameters that the child knows of a tool, from what it was sent. *)
Announced(n) ==
    LET capabilities == Get(Decode(sent).params, "capabilities", Null)
        tools == Get(Get(capabilities, "hostTools", Null), "tools", Null).items
    IN  {Get(tools[i], "parameters", Null) : i \in {j \in DOMAIN tools :
            Get(tools[j], "name", Null) = Str(n)}}

(* "invalid arguments produce `invalid_arguments' results without calling  *)
(* the tool body": the body of a tool runs only for arguments that conform *)
(* to its schema, to the one that the child was told if it was told of the *)
(* tool, whatever was registered since, and it gets the session of the     *)
(* request.                                                                *)
OnlyConformingCallsRun ==
    task = "body" =>
        LET name == Param("name").str IN
        /\ name \in DOMAIN definitions
        /\ \A schema \in Announced(name) \cup {definitions[name]} :
              Conforms[schema][Param("arguments")]
        /\ context = Param("sessionId")

(* The four fields of the request, and nothing else. *)
IsEnvelope(params) ==
    /\ params.is = "object"
    /\ \A i \in DOMAIN params.fields :
          LET key == params.fields[i][1]  item == params.fields[i][2] IN
          /\ key \in Fields
          /\ IF key = "arguments" THEN item.is = "object"
             ELSE item.is = "string" /\ item.str \notin Blanks
    /\ Len(params.fields) = 4

(* What the response to a request repeats of it and of what the body said. *)
Repeated ==
    {request.id}
    \cup (IF request.method = "tool/execute" /\ IsEnvelope(request.params)
          THEN {Param("callId"), Param("name")} ELSE {})
    \cup (CASE ended.body = "returned" -> {ended.output}
            [] ended.body = "raised" -> {ended.text}
            [] OTHER -> {})

(* A request gets no answer only if it, or what the body of the tool said, *)
(* has a string that cannot be encoded; the connection fails then.  The    *)
(* child can read every answer, as a response to its request, and the      *)
(* answer says what was the matter: -32601 and -32602 come for an unknown  *)
(* method and a wrong envelope and for nothing else, and -32603 only for a *)
(* schema with an enum or a pattern of None, an integer that is no float,  *)
(* or a result that is nested too deeply.  Otherwise it is a result for    *)
(* the call and the tool of the request, tool_not_found never for a tool   *)
(* that was announced, invalid_arguments only for what the announced       *)
(* schema does not allow, and whatever the body did comes back as that.    *)
AnswersAreExact ==
    /\ task = "failed" => \E v \in Repeated : ~Encodable[v]
    /\ task = "answered" =>
        LET back == Decode(answer)
            name == Param("name").str
            Failed == Has(back.result, "error")
            With(code) == Failed /\ Get(Get(back.result, "error", Null), "code", Null) = Str(code)
        IN  /\ back.message \in {"result", "error"} /\ back.id = Get(line, "id", Null)
            /\ (back.message = "error" /\ back.code = -32601) <=> request.method # "tool/execute"
            /\ (back.message = "error" /\ back.code = -32602) <=>
                  request.method = "tool/execute" /\ ~IsEnvelope(request.params)
            /\ back.message = "error" /\ back.code \notin {-32601, -32602} =>
                  /\ back.code = -32603
                  /\ \/ /\ ended = NotEnded
                        /\ Hollow[definitions[name]] \/ Huge[Param("arguments")]
                     \/ ended.body = "returned" /\ Depth[ended.output] > MaxNesting
            /\ back.message = "result" =>
                  /\ Get(back.result, "callId", Null) = Param("callId")
                  /\ Get(back.result, "name", Null) = Str(name)
                  /\ Get(back.result, "isError", Null) = Bool(Failed)
                  /\ Failed => Get(back.result, "output", Alien) = Null
                  /\ With("tool_not_found") => Announced(name) = {}
                  /\ name \notin DOMAIN definitions => With("tool_not_found")
                  /\ With("invalid_arguments") => ~Conforms[definitions[name]][Param("arguments")]
                  /\ ended # NotEnded => Conforms[definitions[name]][Param("arguments")]
                  /\ ~Failed => /\ ended = Returned(Get(back.result, "output", Alien))
                                /\ IsJson[ended.output]
                  /\ With("invalid_result") => ended.body = "returned" /\ ~IsJson[ended.output]
                  /\ With("execution_error") <=> ended.body = "raised"
                  /\ With("timeout") <=> ended = TimedOut

=============================================================================
