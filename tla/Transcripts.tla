----------------------------- MODULE Transcripts ----------------------------
(***************************************************************************)
(* What a line of a log becomes: the API finds out which tool wrote it,    *)
(* adapts it to entries of a session, stores them, and shows an entry as a *)
(* message. Texts, inputs and results are left out, but for what refers to *)
(* something else: a tool call is made in one message, answered in         *)
(* another, and both are entries of their own beside the messages.         *)
(***************************************************************************)
EXTENDS Naturals, Sequences, SequencesExt

None == "none"  \* a string that is missing or empty

ClaudeCodeTypes ==
  {"user", "assistant", "system", "summary", "file-history-snapshot", "progress"}

IsClaudeCodeFormat(data) == "type" \in DOMAIN data /\ data.type \in ClaudeCodeTypes
IsGeminiCLIFormat(data) == {"sessionId", "messages"} \subseteq DOMAIN data

DetectProvider(data) ==
  IF IsClaudeCodeFormat(data) THEN "claude_code"
  ELSE IF IsGeminiCLIFormat(data) THEN "gemini_cli" ELSE "unknown"
-----------------------------------------------------------------------------
(* Entries: all have the fields of TreeNodeMeta, and those of their type.  *)

TreeNodeMeta(uuid, session, agent, time) ==
  [uuid |-> uuid, sessionId |-> session, agentId |-> agent, timestamp |-> time]

(* usage is what the four kinds of tokens come to, and 0 where the tool    *)
(* tells none; result is a set, empty or of one.                           *)
Entry(type, meta) ==
  [type |-> type, meta |-> meta, subtype |-> None, content |-> <<>>, id |-> None, toolName |-> None,
   source |-> None, result |-> {}, usage |-> 0]

HumanMessage(meta, content) == [Entry("human", meta) EXCEPT !.content = content]
AgentMessage(meta, content, usage) == [Entry("agent", meta) EXCEPT !.content = content, !.usage = usage]
ToolExecution(meta, id, name, source, result) ==
  [Entry("tool_execution", meta) EXCEPT !.id = id, !.toolName = name, !.source = source, !.result = result]
SystemMessage(meta, subtype) == [Entry("system", meta) EXCEPT !.subtype = subtype]

ToolCallRef(id, name) == [type |-> "tool_call_ref", id |-> id, name |-> name]

(* What a sequence has at some of its places, in their order.              *)
Kept(seq, places) ==
  LET kept[n \in 0 .. Len(seq)] ==
        IF n = 0 THEN <<>> ELSE IF n \in places THEN Append(kept[n - 1], seq[n]) ELSE kept[n - 1]
  IN kept[Len(seq)]

Blocks(content, types) == Kept(content, {i \in DOMAIN content : content[i].type \in types})
Mapped(seq, Op(_)) == [i \in DOMAIN seq |-> Op(seq[i])]
-----------------------------------------------------------------------------
(* Claude Code: one line is one transcript. A call is in a line of the     *)
(* assistant, its result in a later one of the user, which does not name   *)
(* the tool. A failure is told only if it is a text.                       *)

ConvertTreeNodeMeta(t) == TreeNodeMeta(t.uuid, t.sessionId, t.agentId, t.timestamp)

SplitUserContent(t) ==
  LET Result(b) == ToolExecution(ConvertTreeNodeMeta(t), b.id, None, t.sourceToolAssistantUUID,
                     {[status |-> IF b.isError THEN "error" ELSE "success", error |-> b.isError /\ b.isText]})
  IN [human |-> Blocks(t.content, {"text", "image"}),
      results |-> Mapped(Blocks(t.content, {"tool_result"}), Result)]

AdaptUser(t) ==
  LET split == SplitUserContent(t)
  IN (IF split.human = <<>> THEN <<>> ELSE <<HumanMessage(ConvertTreeNodeMeta(t), split.human)>>) \o split.results

AdaptAssistant(t) ==
  LET Content(b) == IF b.type = "tool_use" THEN ToolCallRef(b.id, b.name) ELSE b
      Call(b) == ToolExecution(ConvertTreeNodeMeta(t), b.id, b.name, t.uuid, {})
  IN <<AgentMessage(ConvertTreeNodeMeta(t), Mapped(Blocks(t.content, {"text", "thinking", "tool_use"}), Content), t.usage)>>
     \o Mapped(Blocks(t.content, {"tool_use"}), Call)

AdaptSystem(t) == <<SystemMessage(ConvertTreeNodeMeta(t), "turn_duration")>>

(* A summary belongs to no session and has the time of its conversion.     *)
AdaptSummary(t, now) == <<SystemMessage(TreeNodeMeta(t.leafUuid, None, None, now), "summary")>>

AdaptClaudeCode(t, now) ==
  CASE t.type = "user"      -> AdaptUser(t)
    [] t.type = "assistant" -> AdaptAssistant(t)
    [] t.type = "system"    -> AdaptSystem(t)
    [] t.type = "summary"   -> AdaptSummary(t, now)
    [] OTHER                -> <<>>
-----------------------------------------------------------------------------
(* Gemini: an event is a session, a call and its result are one.           *)

ConvertToolStatus(status) ==
  CASE status = "error" -> "error" [] status = "cancelled" -> "skipped" [] OTHER -> "success"

AdaptToolCall(c, m, session) ==
  ToolExecution(TreeNodeMeta(c.id, session, None, c.timestamp), c.id, c.name, m.id,
    {[status |-> ConvertToolStatus(c.status), error |-> c.status = "error" /\ c.isText]})

AdaptUserMessage(m, session) ==
  <<HumanMessage(TreeNodeMeta(m.id, session, None, m.timestamp), Blocks(m.content, {"text"}))>>

AdaptGeminiMessage(m, session) ==
  LET Ref(c) == ToolCallRef(c.id, c.name)
      Call(c) == AdaptToolCall(c, m, session)
  IN <<AgentMessage(TreeNodeMeta(m.id, session, None, m.timestamp),
                    Blocks(m.content, {"thinking"}) \o Blocks(m.content, {"text"}) \o Mapped(m.toolCalls, Ref), m.usage)>>
     \o Mapped(m.toolCalls, Call)

AdaptInfoMessage(m, session) == <<SystemMessage(TreeNodeMeta(m.id, session, None, m.timestamp), "info")>>

AdaptMessage(m, session) ==
  CASE m.type = "user"   -> AdaptUserMessage(m, session)
    [] m.type = "gemini" -> AdaptGeminiMessage(m, session)
    [] m.type = "info"   -> AdaptInfoMessage(m, session)
    [] OTHER             -> <<>>

AdaptSession(s) ==
  LET Message(m) == AdaptMessage(m, s.sessionId) IN FlattenSeq(Mapped(s.messages, Message))

(* Data of neither tool fails, and becomes nothing.                        *)
Convert(data, now) ==
  CASE DetectProvider(data) = "claude_code" -> AdaptClaudeCode(data, now)
    [] DetectProvider(data) = "gemini_cli"  -> AdaptSession(data)
    [] OTHER                                -> <<>>
=============================================================================
