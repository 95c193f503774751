--------------------------- MODULE MCToolReaders ---------------------------
(* A repository, a worktree of it and directories below them. Codex makes  *)
(* a month, a day in it and there two sessions, before or after a start;   *)
(* Gemini has a project it knows and one it does not; OpenCode has         *)
(* messages of two paths.                                                  *)
EXTENDS ToolReaders

Main == <<"main">>
Tree == <<"tree">>

MCDirs == {"month", "day", "hash1", "chats1", "hash2", "chats2"}
MCOld == {"hash1", "chats1"}
MCAbove == [d \in MCDirs |->
  CASE d = "day" -> "month" [] d = "chats1" -> "hash1" [] d = "chats2" -> "hash2" [] OTHER -> "base"]

MCFiles == {"codex1", "codex2", "gemini1", "gemini2", "message1", "message2"}
MCTool == [f \in MCFiles |->
  CASE f \in {"codex1", "codex2"} -> "codex"
    [] f \in {"gemini1", "gemini2"} -> "gemini"
    [] OTHER -> "opencode"]
MCDir == [f \in MCFiles |->
  CASE f \in {"codex1", "codex2"} -> "day"
    [] f = "gemini1" -> "chats1" [] f = "gemini2" -> "chats2" [] OTHER -> "base"]
MCCwd == [f \in MCFiles |->
  CASE f \in {"codex1", "gemini1"} -> Main
    [] f \in {"codex2", "gemini2", "message1"} -> Tree
    [] OTHER -> Main \o <<"below">>]

Tracks(path, id, type) == [path |-> path, id |-> id, type |-> type]
MCConfigs ==
  {{Tracks(Main, 1, "root")}, {Tracks(Main, 2, "root"), Tracks(Tree, 3, "worktree")}}
============================================================================
