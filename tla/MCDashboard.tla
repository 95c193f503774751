----------------------------- MODULE MCDashboard ----------------------------
(* Two projects of the organization and one of another; two members. A     *)
(* session of Claude Code with an agent of its own, a tool call and its    *)
(* result, partly of the same time; its summary; a session of Gemini, and  *)
(* the first session going on in another project.                          *)
EXTENDS Dashboard

Line(data, p, u) == [data |-> data, projectId |-> p, userId |-> u]
Text == [type |-> "text"]
Call == [type |-> "tool_use", id |-> "call1", name |-> "Bash"]
Answer == [type |-> "tool_result", id |-> "call1", isError |-> TRUE, isText |-> TRUE]
Claude(uuid, type, agent, t, content, usage) ==
  [type |-> type, uuid |-> uuid, sessionId |-> "s1", agentId |-> agent, timestamp |-> t, content |-> content,
   usage |-> usage, sourceToolAssistantUUID |-> "m2"]
Gemini(m) == [sessionId |-> "s2", messages |-> <<m>>]
Asked == [type |-> "user", id |-> "m5", timestamp |-> 1, content |-> <<Text>>, toolCalls |-> <<>>, usage |-> 0]
Answered ==
  [type |-> "gemini", id |-> "m6", timestamp |-> 2, content |-> <<Text>>, usage |-> 4,
   toolCalls |-> <<[id |-> "call2", name |-> "Read", status |-> "error", isText |-> FALSE, timestamp |-> 2]>>]

MCLines ==
  [prompt   |-> Line(Claude("m1", "user", None, 1, <<Text>>, 0), "p1", "u1"),
   answer   |-> Line(Claude("m2", "assistant", None, 2, <<Text, Call>>, 1), "p1", "u1"),
   agent    |-> Line(Claude("m3", "assistant", "a1", 2, <<Text>>, 2), "p1", "u1"),
   result   |-> Line(Claude("m4", "user", None, 3, <<Answer>>, 0), "p1", "u1"),
   summary  |-> Line([type |-> "summary", leafUuid |-> "m2"], "p1", "u1"),
   gemini   |-> Line(Gemini(Asked), "p2", "u2"),
   both     |-> Line(Gemini(Answered), "p2", "u1"),
   moved    |-> Line(Claude("m7", "system", None, 3, <<>>, 0), "p3", "u1")]
MCOrganization == [p1 |-> "org", p2 |-> "org", p3 |-> "other"]
MCRegisteredAt == [p1 |-> 2, p2 |-> 3, p3 |-> 1]
=============================================================================
