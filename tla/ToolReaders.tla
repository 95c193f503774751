----------------------------- MODULE ToolReaders ---------------------------
(***************************************************************************)
(* How the daemon reads the logs of the tools other than Claude Code, and  *)
(* which project it gives them to.                                         *)
(*                                                                         *)
(*   codex     appends lines to a file in a directory of the day; only the *)
(*             first line of a session says where it runs                  *)
(*   gemini    rewrites a file in a directory named after the project, and *)
(*             is read whole when its modification time has grown          *)
(*   opencode  keeps messages in a database, polled by a watermark         *)
(*                                                                         *)
(* A behaviour has one of them in use. A file event, a poll, an update of  *)
(* the targets is a step of the daemon, and the tool goes on in between.   *)
(* The daemon may stop and start: what is on disk stays, the offsets of    *)
(* Codex files among it, and the rest is forgotten. Lines that were given  *)
(* to the buffer count as delivered: LogFlush is about the buffer, and     *)
(* LogTail about what happens inside one read. A path is a sequence of     *)
(* names.                                                                  *)
(***************************************************************************)
EXTENDS Naturals, FiniteSets, Sequences, SequencesExt

CONSTANTS
  Configs,  \* what can be tracked: sets of [path, id, type]
  Dirs,     \* directories below the base of the tool
  Base,     \* that base, which exists
  Above,    \* the directory above each
  Old,      \* directories that exist at first
  Files,    \* session files of Codex and Gemini, messages of OpenCode
  Tool,     \* whose each is
  Dir,      \* the directory each is in
  Cwd,      \* the path its session runs in
  MaxLength, MaxTime, MaxStarts, MaxChanges, MaxEvents  \* bounds

(* Gemini names a directory after the hash of the path its sessions run in.*)
ASSUME ToolReadersAssumption ==
  /\ Base \notin Dirs /\ Old \subseteq Dirs
  /\ Above \in [Dirs -> Dirs \cup {Base}] /\ Dir \in [Files -> Dirs \cup {Base}]
  /\ Tool \in [Files -> {"codex", "gemini", "opencode"}]
  /\ \A f \in Files : Tool[f] # "opencode" => Dir[f] \in Dirs
  /\ \A f, g \in Files :
       Tool[f] = "gemini" /\ Tool[g] = "gemini" /\ Dir[f] = Dir[g] => Cwd[f] = Cwd[g]
  /\ {MaxLength, MaxTime, MaxStarts, MaxChanges, MaxEvents} \subseteq Nat

VARIABLES
  config,  \* the projects that are tracked
  disk,    \* tool in use, directories, and of each file its length or version and its time
  saved,   \* the offsets in SQLite
  daemon,  \* the memory of the daemon
  log,     \* history: what was read and what became of it
  starts, changes

vars == <<config, disk, saved, daemon, log, starts, changes>>
-----------------------------------------------------------------------------
NoProject == 0
Paths == {Cwd[f] : f \in Files}
EmptyPath == <<>>

InUse == {f \in Files : Tool[f] = disk.tool}
SessionDirs == {Dir[f] : f \in InUse}
ToolDirs == Dirs \cap (SessionDirs \cup {Above[d] : d \in SessionDirs \ {Base}})

(* logDirToProject: directories, and for OpenCode paths; no entry is       *)
(* NoProject, which is never stored.                                       *)
Keys == IF disk.tool = "opencode" THEN Paths ELSE Dirs
NothingCached == [k \in Keys |-> NoProject]
Unread == [f \in Files |-> 0]

Targets(projects) ==
  [projects : {projects}, dirs : {{Base} \cup (IF disk.tool = "gemini" THEN disk.dirs \cap SessionDirs ELSE disk.dirs)}]

MaxOf(S) == CHOOSE t \in S \cup {0} : \A u \in S : u <= t
Now == MaxOf({disk.time[f] : f \in InUse})

(* lastUpdatedAt of the polling of OpenCode.                               *)
Watermark == MaxOf({daemon.mark[f] : f \in InUse})
-----------------------------------------------------------------------------
(* project_associator.go                                                   *)

PriorityMainProject == 1
PriorityWorktree == 2

(* The path itself, else the best of the paths it is under: by priority,   *)
(* then by length.                                                         *)
ResolveByProjectPath(maps, path) ==
  LET above == {q \in DOMAIN maps : IsStrictPrefix(q, path)}
      Better(q, r) == \/ maps[q].priority < maps[r].priority
                      \/ maps[q].priority = maps[r].priority /\ Len(q) > Len(r)
  IN IF path \in DOMAIN maps THEN maps[path].id
     ELSE IF above = {} THEN NoProject
     ELSE maps[CHOOSE q \in above : \A r \in above \ {q} : Better(q, r)].id

(* The hash of a Gemini directory stands for a path and for none above it. *)
ResolveGemini(maps, path) == IF path \in DOMAIN maps THEN maps[path].id ELSE NoProject

Resolve(maps, f) ==
  IF Tool[f] = "gemini" THEN ResolveGemini(maps, Cwd[f]) ELSE ResolveByProjectPath(maps, Cwd[f])

(* projectMappings. The directories of the tools are targets without a     *)
(* project: they map the empty path, which every path is under, to none,   *)
(* and with the priority of a main project.                                *)
Mapped(projects) ==
  [q \in {p.path : p \in projects} \cup {EmptyPath} |->
     IF q = EmptyPath THEN [id |-> NoProject, priority |-> PriorityMainProject]
     ELSE LET p == CHOOSE p \in projects : p.path = q
          IN [id |-> p.id,
              priority |-> IF p.type = "root" THEN PriorityMainProject ELSE PriorityWorktree]]
-----------------------------------------------------------------------------
(* Reading. A reader works on the memory, the offsets and the history.     *)

Reader == [mem |-> daemon, saved |-> saved, log |-> log]
Done(r) == daemon' = r.mem /\ saved' = r.saved /\ log' = r.log

(* AddLinesForDir: lines for no project are dropped. A line is a file and  *)
(* what was read of it; project has the project of each file. A reading is *)
(* the rest of a session when it does not begin with its first line.       *)
Delivered(x, project) == [file |-> x[1], item |-> x[2], project |-> project[x[1]]]
Dropped(x, part) ==
  [file |-> x[1], item |-> x[2], part |-> part, known |-> Dir[x[1]] \in daemon.known,
   tracked |-> Resolve(daemon.mappings, x[1]) # NoProject]

AddLinesForDir(l, lines, project, part) ==
  LET kept == {x \in lines : project[x[1]] # NoProject}
  IN [l EXCEPT !.delivered = @ \cup {Delivered(x, project) : x \in kept},
               !.dropped = @ \cup {Dropped(x, part) : x \in lines \ kept},
               !.read = @ \cup lines,
               !.again = @ \cup (l.read \cap lines)]

Part(items) == IF 1 \in items THEN "whole" ELSE "rest"

AddItems(l, f, items, id, part) == AddLinesForDir(l, {f} \X items, [g \in {f} |-> id], part)

(* ExtractCwdFromLines, ResolveAndCacheCodexProject: the first session of  *)
(* a directory whose path is tracked decides for all of them.              *)
CacheCodexProject(mem, f) ==
  IF mem.cache[Dir[f]] # NoProject THEN mem.cache
  ELSE [mem.cache EXCEPT ![Dir[f]] = ResolveByProjectPath(mem.mappings, Cwd[f])]

(* Mutant: the lines are added before the project is looked up.            *)
ProcessCodexAddsFirst(r, f, from) ==
  LET items == from + 1 .. disk.length[f]
      cache == IF 1 \in items THEN CacheCodexProject(r.mem, f) ELSE r.mem.cache
  IN IF items = {} THEN r
     ELSE [mem |-> [r.mem EXCEPT !.cache = cache, !.mark[f] = disk.length[f]],
           saved |-> [r.saved EXCEPT ![f] = disk.length[f]],
           log |-> AddItems(r.log, f, items, r.mem.cache[Dir[f]], Part(items))]

ProcessCodexFile(r, f, from) ==
  LET items == from + 1 .. disk.length[f]
      cache == IF 1 \in items THEN CacheCodexProject(r.mem, f) ELSE r.mem.cache
  IN IF items = {} THEN r
     ELSE [mem |-> [r.mem EXCEPT !.cache = cache, !.mark[f] = disk.length[f]],
           saved |-> [r.saved EXCEPT ![f] = disk.length[f]],
           log |-> AddItems(r.log, f, items, cache[Dir[f]], Part(items))]

(* A file of a directory that is no target is read as if Claude Code had   *)
(* written it, and belongs to no project.                                  *)
ProcessAsClaude(r, f) ==
  LET items == r.mem.mark[f] + 1 .. disk.length[f]
  IN IF items = {} THEN r
     ELSE [mem |-> [r.mem EXCEPT !.mark[f] = disk.length[f]],
           saved |-> [r.saved EXCEPT ![f] = disk.length[f]],
           log |-> AddItems(r.log, f, items, NoProject, Part(items))]

(* The whole file, if it is newer than what was read of it.                *)
ProcessGeminiFile(r, f) ==
  LET id == IF r.mem.cache[Dir[f]] # NoProject THEN r.mem.cache[Dir[f]] ELSE ResolveGemini(r.mem.mappings, Cwd[f])
  IN IF disk.time[f] <= r.mem.mark[f] THEN r
     ELSE [r EXCEPT !.mem.mark[f] = disk.time[f],
                    !.log = AddItems(@, f, {disk.length[f]}, id, "whole")]

Written(d) == {f \in InUse : Dir[f] = d /\ disk.length[f] > 0}

(* handleFileEvent, for a write.                                           *)
ReadFile(r, f) ==
  CASE Dir[f] \in r.mem.known /\ Tool[f] = "codex"    -> ProcessCodexFile(r, f, r.mem.mark[f])
    [] Dir[f] \in r.mem.known /\ Tool[f] = "gemini"   -> ProcessGeminiFile(r, f)
    [] Dir[f] \notin r.mem.known /\ Tool[f] = "codex" -> ProcessAsClaude(r, f)
    [] OTHER                                          -> r

(* handleDirectoryCreate: the directory is watched, without becoming known *)
(* as the tool's. The files of Codex in it are read from their beginning;  *)
(* of Gemini the chats directory below it is watched and read. The loop    *)
(* handles no other event until it has read the files it found.            *)
Created(r, d) ==
  LET below == IF disk.tool = "gemini" THEN {c \in disk.dirs \cap SessionDirs : Above[c] = d} ELSE {}
  IN [r EXCEPT !.mem.watched = @ \cup {d} \cup below,
               !.mem.found = IF disk.tool = "codex" THEN Written(d) ELSE UNION {Written(c) : c \in below}]

ReadFound(r, f) ==
  IF Tool[f] = "codex"
  THEN ProcessCodexFile([r EXCEPT !.log.reopened = IF r.mem.mark[f] > 0 THEN @ \cup {f} ELSE @], f, 0)
  ELSE ProcessGeminiFile(r, f)
-----------------------------------------------------------------------------
(* The memory of a daemon that has just started: nothing is watched before *)
(* the first targets arrive.                                               *)
Fresh(up) ==
  [up |-> up, pending |-> IF up THEN Targets(config) ELSE {}, scanned |-> FALSE, toScan |-> {}, found |-> {},
   mappings |-> [q \in {} |-> NoProject], known |-> {}, cache |-> NothingCached, watched |-> {},
   events |-> <<>>, mark |-> IF disk.tool = "codex" THEN saved ELSE Unread]

Init ==
  /\ config \in Configs
  /\ \E tool \in {Tool[f] : f \in Files} :
       disk = [tool |-> tool, length |-> Unread, time |-> Unread,
               dirs |-> {d \in Old : \E f \in Files : Tool[f] = tool /\ (Dir[f] = d \/ (Dir[f] \in Dirs /\ Above[Dir[f]] = d))}]
  /\ saved = Unread
  /\ daemon = Fresh(FALSE)
  /\ log = [delivered |-> {}, dropped |-> {}, late |-> {}, read |-> {}, again |-> {}, reopened |-> {}]
  /\ starts = 0 /\ changes = 0

(* fsnotify; equal events that follow each other are one.                  *)
Raised(events, where, kind, name) ==
  IF where \notin daemon.watched \/ (events # <<>> /\ Last(events) = [kind |-> kind, name |-> name])
  THEN events ELSE Append(events, [kind |-> kind, name |-> name])

MakeDir(d) ==
  /\ d \in ToolDirs \ disk.dirs /\ Above[d] \in disk.dirs \cup {Base}
  /\ disk' = [disk EXCEPT !.dirs = @ \cup {d}]
  /\ daemon' = [daemon EXCEPT !.events = Raised(@, Above[d], "dir", d)]
  /\ UNCHANGED <<config, saved, log, starts, changes>>

(* A line, a new version, a new or updated message. A version may have the *)
(* time of the one before, a message that of another.                      *)
Write(f) ==
  \E t \in {Now, Now + 1} \cap 1 .. MaxTime :
    /\ f \in InUse /\ Dir[f] \in disk.dirs \cup {Base}
    /\ disk.length[f] < MaxLength
    /\ Len(daemon.events) < MaxEvents
    /\ Tool[f] = "codex" => t = 1
    /\ disk' = [disk EXCEPT !.length[f] = @ + 1, !.time[f] = t]
    /\ daemon' = [daemon EXCEPT !.events = IF Tool[f] = "opencode" THEN @ ELSE Raised(@, Dir[f], "write", f)]
    /\ log' = [log EXCEPT !.late =
         IF daemon.up /\ (\/ Tool[f] = "gemini" /\ t <= daemon.mark[f]
                          \/ Tool[f] = "opencode" /\ t <= Watermark)
         THEN @ \cup {f} ELSE @ \ {f}]
    /\ UNCHANGED <<config, saved, starts, changes>>

(* A project is tracked, moved to another or given up.                     *)
ChangeConfig(c) ==
  /\ changes < MaxChanges /\ c # config
  /\ changes' = changes + 1
  /\ config' = c
  /\ daemon' = [daemon EXCEPT !.pending = IF daemon.up THEN Targets(c) ELSE @]
  /\ UNCHANGED <<disk, saved, log, starts>>
-----------------------------------------------------------------------------
Start ==
  /\ ~daemon.up /\ starts < MaxStarts
  /\ starts' = starts + 1
  /\ daemon' = Fresh(TRUE)
  /\ log' = [log EXCEPT !.late = {}, !.read = IF disk.tool = "codex" THEN @ ELSE {}]
  /\ UNCHANGED <<config, disk, saved, changes>>

Stop ==
  /\ daemon.up
  /\ daemon' = Fresh(FALSE)
  /\ UNCHANGED <<config, disk, saved, log, starts, changes>>

(* Mutant: what was resolved is kept.                                      *)
UpdateTargetsKeepsCache ==
  \E t \in daemon.pending :
    /\ daemon' = [daemon EXCEPT !.pending = {}, !.mappings = Mapped(t.projects), !.known = t.dirs,
                                !.watched = @ \cup t.dirs]
    /\ UNCHANGED <<config, disk, saved, log, starts, changes>>

(* Everything that was resolved is forgotten; the directories of Gemini    *)
(* were resolved with the targets.                                         *)
UpdateTargets ==
  \E t \in daemon.pending :
    /\ daemon' = [daemon EXCEPT
         !.pending = {}, !.mappings = Mapped(t.projects), !.known = t.dirs, !.watched = @ \cup t.dirs,
         !.cache = [k \in Keys |->
           IF disk.tool = "gemini" /\ \E f \in InUse : Dir[f] = k /\ k \in t.dirs
           THEN ResolveGemini(Mapped(t.projects), Cwd[CHOOSE f \in InUse : Dir[f] = k]) ELSE NoProject]]
    /\ UNCHANGED <<config, disk, saved, log, starts, changes>>

(* scanExistingFiles, beside the loop: the watched directories at its      *)
(* beginning, then one file after the other.                               *)
ScanExistingFiles ==
  \/ /\ daemon.up /\ ~daemon.scanned
     /\ daemon' = [daemon EXCEPT !.scanned = TRUE,
          !.toScan = UNION {Written(d) : d \in daemon.watched \cap SessionDirs}]
     /\ UNCHANGED <<config, disk, saved, log, starts, changes>>
  \/ \E f \in daemon.toScan :
       /\ Done(ReadFile([Reader EXCEPT !.mem.toScan = @ \ {f}], f))
       /\ UNCHANGED <<config, disk, starts, changes>>

HandleFileEvent ==
  /\ \/ /\ daemon.found = {} /\ daemon.events # <<>>
        /\ LET e == Head(daemon.events)
               r == [Reader EXCEPT !.mem.events = Tail(@)]
           IN Done(IF e.kind = "dir" THEN Created(r, e.name) ELSE ReadFile(r, e.name))
     \/ \E f \in daemon.found :
          Done(ReadFound([Reader EXCEPT !.mem.found = @ \ {f}], f))
  /\ UNCHANGED <<config, disk, starts, changes>>

(* Mutant: rows with the time of the watermark are asked for once more.    *)
NewerOrEqual == {f \in InUse : disk.length[f] > 0 /\ disk.time[f] >= Watermark}

(* The rows newer than the watermark, and what a query that fails half way *)
(* yields of them: rows of a later time come later.                        *)
Newer == {f \in InUse : disk.length[f] > 0 /\ disk.time[f] > Watermark}

(* Mutant: the query has no order.                                         *)
RowsUnordered == SUBSET Newer

Rows == {S \in SUBSET Newer : \A f \in S, g \in Newer \ S : disk.time[f] <= disk.time[g]}

(* pollNewMessages: the messages are resolved by path. Those that have the *)
(* time of the last one but were not in the answer are not asked for again.*)
PollNewMessages ==
  /\ daemon.up /\ disk.tool = "opencode"
  /\ \E rows \in Rows \ {{}} :
       LET last == MaxOf({disk.time[f] : f \in rows})
           cache == [k \in Keys |->
             IF daemon.cache[k] = NoProject /\ \E f \in rows : Cwd[f] = k
             THEN ResolveByProjectPath(daemon.mappings, k) ELSE daemon.cache[k]]
           lines == {<<f, disk.length[f]>> : f \in rows}
       IN /\ daemon' = [daemon EXCEPT !.cache = cache, !.mark = [f \in Files |-> last]]
          /\ log' = [AddLinesForDir(log, lines, [f \in rows |-> cache[Cwd[f]]], "whole") EXCEPT
                       !.late = @ \cup {f \in Newer \ rows : disk.time[f] = last}]
  /\ UNCHANGED <<config, disk, saved, starts, changes>>
-----------------------------------------------------------------------------
ToolStep ==
  \/ \E d \in Dirs : MakeDir(d)
  \/ \E f \in Files : Write(f)

Next ==
  \/ ToolStep
  \/ \E c \in Configs : ChangeConfig(c)
  \/ Start
  \/ Stop
  \/ UpdateTargets
  \/ ScanExistingFiles
  \/ HandleFileEvent
  \/ PollNewMessages

Spec == Init /\ [][Next]_vars
-----------------------------------------------------------------------------
(* What is delivered goes to the project that the targets in force give to *)
(* the path of its session, or for Codex to that of another session of the *)
(* same day; no project that was given up or replaced gets anything more.  *)
ResolvedByPath ==
  [][\A x \in log'.delivered \ log.delivered :
       \E f \in Files : /\ f = x.file \/ (Tool[f] = "codex" /\ Dir[f] = Dir[x.file])
                        /\ Resolve(daemon.mappings, f) = x.project]_vars

(* What is dropped has no project that is tracked, but for Codex: there a  *)
(* directory that is new since the last targets, and a session that was    *)
(* already begun when its directory was forgotten, are dropped as well.    *)
DroppedForAReason ==
  \A x \in log.dropped :
    x.tracked => Tool[x.file] = "codex" /\ (~x.known \/ x.part = "rest")

(* Nothing is passed over: what lies behind an offset, a modification time *)
(* or the watermark was read, unless it was written with a time no later   *)
(* than one that was read, or had the time at which a query broke off.     *)
NothingPassedOver ==
  daemon.up =>
    \A f \in InUse : disk.length[f] > 0 =>
      LET last == <<f, disk.length[f]>>
      IN CASE disk.tool = "codex" -> \A i \in 1 .. daemon.mark[f] : <<f, i>> \in log.read
           [] OTHER -> disk.time[f] <= daemon.mark[f] => last \in log.read \/ f \in log.late

(* While the daemon runs, a line, a version and a state of a message is    *)
(* read once; Codex lines once ever, but for those of a directory whose    *)
(* creation is handled after it was found otherwise.                       *)
ReadOnce == \A x \in log.again : x[1] \in log.reopened
=============================================================================
