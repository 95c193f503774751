----------------------------- MODULE SessionView ----------------------------
(***************************************************************************)
(* What the entries of a session are to a reader: the messages of the API  *)
(* they are sent as, and the chat the web application makes of them, where *)
(* calls of tools are linked to their results, to their names and to the   *)
(* message that made them.                                                 *)
(***************************************************************************)
EXTENDS Transcripts

(* The messages of session.proto.                                          *)

Metadata(uuid, sessionId, agentId, timestamp) ==
  [uuid |-> uuid, sessionId |-> sessionId, agentId |-> agentId, timestamp |-> timestamp]

HumanContentBlock(type) == [type |-> type]
AgentContentBlock(type, toolCallRef) == [type |-> type, toolCallRef |-> toolCallRef]
ToolCallReference(id, name) == [toolExecutionId |-> id, toolName |-> name]
ToolResult(status, error) == [status |-> status, error |-> error]

HumanData(metadata, content) == [metadata |-> metadata, content |-> content]
AgentData(metadata, content, usage) == [metadata |-> metadata, content |-> content, usage |-> usage]
ToolExecutionData(metadata, id, toolName, sourceAgentUuid, result) ==
  [metadata |-> metadata, id |-> id, toolName |-> toolName, sourceAgentUuid |-> sourceAgentUuid, result |-> result]
SystemData(metadata, subtype) == [metadata |-> metadata, subtype |-> subtype]

Session(type, data) == [type |-> type, data |-> data]
-----------------------------------------------------------------------------
(* toProtoSession. A reference is a set, empty where there is none.        *)

ToProtoTreeNodeMeta(m) == Metadata(m.uuid, m.sessionId, m.agentId, m.timestamp)

ToProtoHumanContentBlock(b) == HumanContentBlock(b.type)
ToProtoHumanMessage(e) == HumanData(ToProtoTreeNodeMeta(e.meta), Mapped(e.content, ToProtoHumanContentBlock))

ToProtoAgentContentBlock(b) ==
  AgentContentBlock(b.type, IF b.type = "tool_call_ref" THEN {ToolCallReference(b.id, b.name)} ELSE {})
ToProtoAgentMessage(e) == AgentData(ToProtoTreeNodeMeta(e.meta), Mapped(e.content, ToProtoAgentContentBlock), e.usage)

ToProtoToolExecution(e) ==
  ToolExecutionData(ToProtoTreeNodeMeta(e.meta), e.id, e.toolName, e.source, {ToolResult(r.status, r.error) : r \in e.result})

ToProtoSystemMessage(e) == SystemData(ToProtoTreeNodeMeta(e.meta), e.subtype)

ToProtoSession(e) ==
  Session(e.type,
    CASE e.type = "human"          -> ToProtoHumanMessage(e)
      [] e.type = "agent"          -> ToProtoAgentMessage(e)
      [] e.type = "tool_execution" -> ToProtoToolExecution(e)
      [] e.type = "system"         -> ToProtoSystemMessage(e))
-----------------------------------------------------------------------------
(* parse-content.ts. Whether something failed is told from the text of the *)
(* failure, not from the status.                                           *)

Failed(result) == \E r \in result : r.error

(* The map is by the id of the call: of two entries with one id, a call    *)
(* and its result, the later remains.                                      *)
ExtractToolCalls(sessions) ==
  LET Tools == {i \in DOMAIN sessions : sessions[i].type = "tool_execution"}
      LastWith(id) == CHOOSE i \in Tools : sessions[i].data.id = id /\ \A j \in Tools : sessions[j].data.id = id => j <= i
  IN [id \in {sessions[i].data.id : i \in Tools} |->
        LET t == sessions[LastWith(id)].data
        IN [name |-> t.toolName, sourceMessageUuid |-> IF t.sourceAgentUuid = None THEN t.metadata.uuid ELSE t.sourceAgentUuid,
            toolResult |-> t.result]]

FilterSessionsForChat(sessions) ==
  Kept(sessions, {i \in DOMAIN sessions : sessions[i].type = "system" => sessions[i].data.subtype \notin {"turn_duration", "file_snapshot"}})

ParsedMessage(s, type) ==
  [type |-> type, uuid |-> s.data.metadata.uuid, timestamp |-> s.data.metadata.timestamp, content |-> <<>>,
   parentToolUseId |-> None, toolName |-> None, isError |-> FALSE]

(* Images are left out. A call without its result, and what has no text,   *)
(* is a message without content.                                           *)
ParseMessageContent(s) ==
  CASE s.type = "human" -> [ParsedMessage(s, "user") EXCEPT !.content = Blocks(s.data.content, {"text"})]
    [] s.type = "agent" -> [ParsedMessage(s, "assistant") EXCEPT !.content = Blocks(s.data.content, {"text", "thinking", "tool_call_ref"})]
    [] s.type = "tool_execution" /\ s.data.result # {} ->
         [ParsedMessage(s, "tool_result") EXCEPT !.parentToolUseId = s.data.id, !.toolName = s.data.toolName,
                                                 !.isError = Failed(s.data.result)]
    [] OTHER -> ParsedMessage(s, "system")

(* Results take the name of the call they are linked to.                   *)
EnrichToolResultMessages(messages, toolCalls) ==
  LET Enrich(m) == IF m.type = "tool_result" /\ m.parentToolUseId \in DOMAIN toolCalls
                   THEN [m EXCEPT !.toolName = toolCalls[m.parentToolUseId].name] ELSE m
  IN Mapped(messages, Enrich)

Chat(sessions) ==
  EnrichToolResultMessages(Mapped(FilterSessionsForChat(sessions), ParseMessageContent), ExtractToolCalls(sessions))
=============================================================================
