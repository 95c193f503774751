--------------------------- MODULE TrackingProofs ---------------------------
(***************************************************************************)
(* What holds of Tracking for any number of commands and directories, any  *)
(* capacity of the channel and any tree of directories: the types, that    *)
(* config.json is as the commands one by one would have left it, that a    *)
(* repository has one project and that local configs name projects, each   *)
(* until the first race that spoils it.                                    *)
(***************************************************************************)
EXTENDS Tracking, TLAPS, FiniteSetTheorems

(* A command between the two halves of a write to config.json, and what it  *)
(* writes from.                                                            *)
Writing(c) == cmd[c].pc \in {"fill", "write", "write_remove"}
Base(c) == IF cmd[c].pc = "fill" THEN {} ELSE cmd[c].loaded

(* Before the first race the file is whole, or it is one writer's, which    *)
(* knows what was in it.                                                   *)
FileOfOne ==
  /\ config.text \subseteq {ledger}
  /\ config = Absent => ledger = {}
  /\ daemon.pc = "fill" => config = Emptied /\ ledger = {}
  /\ \A c \in Commands : Writing(c) =>
       /\ config = Emptied /\ daemon.pc # "fill" /\ Base(c) = ledger
       /\ \A b \in Commands : Writing(b) => b = c

SoleWriter == "config" \notin overlaps => FileOfOne

(* Before the first race at the registry, one command at most is about to  *)
(* insert, and what it found is still so.                                  *)
RegistryOfOne ==
  /\ OneEach(registry)
  /\ \A c \in Commands : cmd[c].pc = "insert" =>
       /\ FindByConditions(cmd[c].id, URL(c), cmd[c].org) = {}
       /\ \A b \in Commands : cmd[b].pc = "insert" => b = c

SoleInserter == "registry" \notin overlaps => RegistryOfOne

(* What is about to be saved in a directory came from the registry.        *)
SavesKnown ==
  \A c \in Commands :
    cmd[c].pc \in {"trunc_local", "write_local"} /\ ~cmd[c].offline
      => Names(registry, [id |-> cmd[c].id, org |-> cmd[c].org])

IInv == TypeOK /\ SoleWriter /\ SoleInserter /\ SavesKnown /\ LocalMatchesServer
-----------------------------------------------------------------------------
(* What the operators of the steps do.                                     *)

LEMMA Held ==
  ASSUME NEW x
  PROVE  Content(Holding(x)) = x /\ Holding(x).text = {x} /\ Holding(x).there
  BY DEF Content, Holding

LEMMA Empties ==
  /\ Absent.text = {} /\ Emptied.text = {} /\ Emptied.there /\ ~Absent.there
  /\ Absent # Emptied
  /\ \A x : Holding(x) # Absent /\ Holding(x) # Emptied
  BY DEF Absent, Emptied, Holding

LEMMA WholeFile ==
  ASSUME NEW f, NEW S, IsFile(f, S), f.text # {}
  PROVE  Content(f) \in S /\ f = Holding(Content(f)) /\ f.text = {Content(f)}
  <1>1. PICK x \in f.text : f = Holding(x)
    BY Empties DEF IsFile
  <1> QED
    BY <1>1, Held DEF IsFile

LEMMA FileTypes ==
  ASSUME NEW S
  PROVE  /\ IsFile(Absent, S) /\ IsFile(Emptied, S)
         /\ \A x \in S : IsFile(Holding(x), S)
  BY DEF IsFile, Absent, Emptied, Holding

LEMMA RegistryIds ==
  ASSUME TypeOK
  PROVE  /\ DOMAIN registry \subseteq Nat
         /\ Cardinality(DOMAIN registry) \in Nat
         /\ Cardinality(DOMAIN registry) + 1 \notin DOMAIN registry
  <1>1. Cardinality(DOMAIN registry) \in Nat
    BY FS_CardinalityType DEF TypeOK
  <1> QED
    BY <1>1 DEF TypeOK

(* The main repository of a directory is a directory.                      *)
LEMMA MainRepoType ==
  ASSUME NEW d \in Dirs, IsGitRepo(d)
  PROVE  FindMainRepoPath(d) \in Dirs
  BY TrackingAssumption DEF IsGitRepo, FindMainRepoPath

LEMMA RepoTypes ==
  ASSUME NEW d \in Dirs
  PROVE  DetectGitRepos(d) \subseteq Dirs
  BY MainRepoType DEF DetectGitRepos, FindGitReposInParents

(* One command moves.                                                      *)
LEMMA Moved ==
  ASSUME TypeOK, NEW c \in Commands, NEW x \in CommandState, cmd' = [cmd EXCEPT ![c] = x]
  PROVE  /\ cmd' \in [Commands -> CommandState]
         /\ cmd'[c] = x /\ \A b \in Commands : b # c => cmd'[b] = cmd[b]
  BY DEF TypeOK

LEMMA Fresh ==
  NewCommand \in CommandState
  BY TrackingAssumption DEF NewCommand, CommandState, Pcs, Ended

LEMMA Ends ==
  ASSUME TypeOK, NEW c \in Commands, NEW pc \in Ended, End(c, pc)
  PROVE  \E x \in CommandState : x.pc = pc /\ cmd' = [cmd EXCEPT ![c] = x]
  <1> DEFINE x == [NewCommand EXCEPT !.pc = pc, !.op = cmd[c].op, !.dir = cmd[c].dir,
                                     !.path = cmd[c].path, !.asRepo = cmd[c].asRepo]
  <1>1. cmd[c] \in CommandState
    BY DEF TypeOK
  <1>2. x \in CommandState /\ x.pc = pc
    BY <1>1, Fresh, ZenonT(60) DEF CommandState, Pcs
  <1> QED
    BY <1>2 DEF End

LEMMA Steps ==
  ASSUME TypeOK, NEW c \in Commands, NEW pc \in Pcs, Step(c, pc)
  PROVE  \E x \in CommandState :
           /\ cmd' = [cmd EXCEPT ![c] = x] /\ x = [cmd[c] EXCEPT !.pc = pc] /\ x.pc = pc
  <1>1. cmd[c] \in CommandState /\ cmd \in [Commands -> CommandState]
    BY DEF TypeOK
  <1>2. [cmd[c] EXCEPT !.pc = pc] \in CommandState /\ [cmd[c] EXCEPT !.pc = pc].pc = pc
    BY <1>1 DEF CommandState
  <1>3. cmd' = [cmd EXCEPT ![c] = [cmd[c] EXCEPT !.pc = pc]]
    BY DEF Step
  <1> QED
    BY <1>2, <1>3
-----------------------------------------------------------------------------
(* What the move of one command keeps.                                     *)

Saving == {"trunc_local", "write_local"}
HalfWay == {"fill", "write", "write_remove"}

LEMMA KeepTypes ==
  ASSUME TypeOK, NEW c \in Commands, NEW x \in CommandState, cmd' = [cmd EXCEPT ![c] = x],
         x.pc \in {"create", "fill"} => x.then # "none",
         registry' = registry, local' = local, daemon' = daemon, IsFile(config', SUBSET Project)
  PROVE  TypeOK'
  <1>1. /\ cmd' \in [Commands -> CommandState]
        /\ cmd'[c] = x /\ \A b \in Commands : b # c => cmd'[b] = cmd[b]
    BY Moved
  <1> QED
    BY <1>1 DEF TypeOK

LEMMA KeepFile ==
  ASSUME TypeOK, SoleWriter, NEW c \in Commands, NEW x \in CommandState,
         cmd' = [cmd EXCEPT ![c] = x], x.pc \notin HalfWay,
         config' = config, ledger' = ledger, daemon' = daemon, overlaps \subseteq overlaps'
  PROVE  SoleWriter'
  <1>1. cmd'[c] = x /\ \A b \in Commands : b # c => cmd'[b] = cmd[b]
    BY Moved
  <1>2. SUFFICES ASSUME "config" \notin overlaps' PROVE FileOfOne'
    BY DEF SoleWriter
  <1>3. FileOfOne
    BY <1>2 DEF SoleWriter
  <1>4. \A b \in Commands : Writing(b)' => Writing(b) /\ b # c /\ Base(b)' = Base(b)
    BY <1>1 DEF Writing, Base, HalfWay
  <1> QED
    BY <1>3, <1>4 DEF FileOfOne

LEMMA KeepRegistry ==
  ASSUME TypeOK, SoleInserter, NEW c \in Commands, NEW x \in CommandState,
         cmd' = [cmd EXCEPT ![c] = x], x.pc # "insert",
         registry' = registry, "registry" \in overlaps => "registry" \in overlaps'
  PROVE  SoleInserter'
  <1>1. cmd'[c] = x /\ \A b \in Commands : b # c => cmd'[b] = cmd[b]
    BY Moved
  <1>2. SUFFICES ASSUME "registry" \notin overlaps' PROVE RegistryOfOne'
    BY DEF SoleInserter
  <1>3. RegistryOfOne
    BY <1>2 DEF SoleInserter
  <1>4. \A b \in Commands : cmd'[b].pc = "insert" => cmd[b].pc = "insert" /\ cmd'[b] = cmd[b]
    BY <1>1
  <1>5. \A b \in Commands : cmd'[b] = cmd[b] =>
          FindByConditions(cmd[b].id, URL(b), cmd[b].org)'
            = FindByConditions(cmd[b].id, URL(b), cmd[b].org)
    BY DEF FindByConditions, BuildSearchConditions, URL
  <1>6. OneEach(registry)'
    BY <1>3 DEF RegistryOfOne
  <1> QED
    BY <1>3, <1>4, <1>5, <1>6 DEF RegistryOfOne

LEMMA KeepSaves ==
  ASSUME TypeOK, SavesKnown, LocalMatchesServer,
         NEW c \in Commands, NEW x \in CommandState, cmd' = [cmd EXCEPT ![c] = x],
         x.pc \in Saving /\ ~x.offline => Names(registry, [id |-> x.id, org |-> x.org]),
         registry' = registry, local' = local, offline' = offline
  PROVE  SavesKnown' /\ LocalMatchesServer'
  <1>1. cmd'[c] = x /\ \A b \in Commands : b # c => cmd'[b] = cmd[b]
    BY Moved
  <1> QED
    BY <1>1 DEF SavesKnown, LocalMatchesServer, Saving

(* A move that writes nothing.                                             *)
LEMMA Turn ==
  ASSUME IInv, NEW c \in Commands, NEW x \in CommandState, cmd' = [cmd EXCEPT ![c] = x],
         x.pc \notin HalfWay \cup {"insert"},
         x.pc = "create" => x.then # "none",
         x.pc \in Saving /\ ~x.offline => Names(registry, [id |-> x.id, org |-> x.org]),
         registry' = registry, config' = config, local' = local, daemon' = daemon,
         ledger' = ledger, offline' = offline, overlaps' = overlaps
  PROVE  IInv'
  <1>1. TypeOK'
    BY KeepTypes DEF IInv, TypeOK, HalfWay
  <1> QED
    BY <1>1, KeepFile, KeepRegistry, KeepSaves DEF IInv

(* A move of the daemon that writes nothing.                               *)
LEMMA DaemonTurn ==
  ASSUME IInv, daemon' \in DaemonState, daemon'.pc # "fill",
         registry' = registry, config' = config, local' = local, cmd' = cmd,
         ledger' = ledger, offline' = offline, overlaps' = overlaps
  PROVE  IInv'
  <1>1. TypeOK'
    BY DEF IInv, TypeOK
  <1>2. SoleWriter'
    <2>1. \A c \in Commands : Writing(c)' = Writing(c) /\ Base(c)' = Base(c)
      BY DEF Writing, Base
    <2> QED
      BY <2>1 DEF IInv, SoleWriter, FileOfOne
  <1>3. SoleInserter'
    <2>1. \A c \in Commands : FindByConditions(cmd[c].id, URL(c), cmd[c].org)'
                                = FindByConditions(cmd[c].id, URL(c), cmd[c].org)
      BY DEF FindByConditions, BuildSearchConditions, URL
    <2> QED
      BY <2>1 DEF IInv, SoleInserter, RegistryOfOne, OneEach
  <1>4. SavesKnown' /\ LocalMatchesServer'
    BY DEF IInv, SavesKnown, LocalMatchesServer
  <1> QED
    BY <1>1, <1>2, <1>3, <1>4 DEF IInv

(* A step that leaves files, registry, commands and daemon alone.          *)
LEMMA SameState ==
  ASSUME IInv, registry' = registry, config' = config, local' = local, cmd' = cmd,
         daemon' = daemon, ledger' = ledger, offline' = offline, overlaps' = overlaps
  PROVE  IInv'
  <1>1. \A c \in Commands : /\ Writing(c)' = Writing(c) /\ Base(c)' = Base(c)
                            /\ FindByConditions(cmd[c].id, URL(c), cmd[c].org)'
                                 = FindByConditions(cmd[c].id, URL(c), cmd[c].org)
    BY DEF Writing, Base, FindByConditions, BuildSearchConditions, URL
  <1> QED
    BY <1>1 DEF IInv, TypeOK, SoleWriter, FileOfOne, SoleInserter, RegistryOfOne, OneEach,
                SavesKnown, LocalMatchesServer
-----------------------------------------------------------------------------
(* The steps of a command that write no file.                              *)

Calm == Pcs \ (HalfWay \cup Saving \cup {"create", "insert"})
CalmMove(c) == \E x \in CommandState : x.pc \in Calm /\ cmd' = [cmd EXCEPT ![c] = x]

LEMMA CalmTurn ==
  ASSUME IInv, NEW c \in Commands, CalmMove(c),
         registry' = registry, config' = config, local' = local, daemon' = daemon,
         ledger' = ledger, offline' = offline, overlaps' = overlaps
  PROVE  IInv'
  <1>1. PICK x \in CommandState : x.pc \in Calm /\ cmd' = [cmd EXCEPT ![c] = x]
    BY DEF CalmMove
  <1>2. /\ x.pc \notin HalfWay \cup {"insert"} /\ x.pc # "create" /\ x.pc \notin Saving
    BY <1>1 DEF Calm
  <1> QED
    BY <1>1, <1>2, Turn

LEMMA CalmEnd ==
  ASSUME TypeOK, NEW c \in Commands, NEW pc \in Ended, End(c, pc)
  PROVE  CalmMove(c)
  <1>1. pc \in Calm
    BY DEF Calm, Pcs, Ended, HalfWay, Saving
  <1> QED
    BY <1>1, Ends DEF CalmMove

LEMMA CalmStep ==
  ASSUME TypeOK, NEW c \in Commands, NEW pc \in Calm, Step(c, pc)
  PROVE  CalmMove(c)
  <1>1. pc \in Pcs
    BY DEF Calm
  <1> QED
    BY <1>1, Steps DEF CalmMove

LEMMA BeginStep ==
  ASSUME IInv, NEW c \in Commands, Begin(c)
  PROVE  IInv'
  <1>1. PICK d \in Asked, noGit \in BOOLEAN :
          \/ cmd' = [cmd EXCEPT ![c] =
               [NewCommand EXCEPT !.pc = "detect", !.op = "add", !.dir = d, !.noGit = noGit]]
          \/ cmd' = [cmd EXCEPT ![c] =
               [NewCommand EXCEPT !.pc = "delete", !.op = "remove", !.dir = d]]
    BY DEF Begin
  <1>2. d \in Dirs
    BY TrackingAssumption
  <1>3. /\ [NewCommand EXCEPT !.pc = "detect", !.op = "add", !.dir = d, !.noGit = noGit]
             \in CommandState
        /\ [NewCommand EXCEPT !.pc = "delete", !.op = "remove", !.dir = d] \in CommandState
    BY <1>2, Fresh, ZenonT(60) DEF CommandState, Pcs
  <1>4. /\ [NewCommand EXCEPT !.pc = "detect", !.op = "add", !.dir = d, !.noGit = noGit].pc \in Calm
        /\ [NewCommand EXCEPT !.pc = "delete", !.op = "remove", !.dir = d].pc \in Calm
    BY DEF NewCommand, Calm, Pcs, HalfWay, Saving
  <1>5. CalmMove(c)
    BY <1>1, <1>3, <1>4 DEF CalmMove
  <1> QED
    BY <1>5, CalmTurn DEF Begin, files, back

LEMMA LoadedMoves ==
  ASSUME TypeOK, NEW c \in Commands, NEW caller \in {"detect_global", "load", "load_remove"},
         NEW projects \in SUBSET Project, Loaded(c, caller, projects)
  PROVE  CalmMove(c)
  <1>1. cmd[c] \in CommandState /\ cmd \in [Commands -> CommandState]
    BY DEF TypeOK
  <1>2. AfterLoad(c, caller, projects) \in Calm
    <2>1. AfterLoad(c, caller, projects)
            \in {"choice", "server", "again", "done", "trunc", "trunc_remove", "org"}
      BY DEF AfterLoad, AfterAdd, AfterRemove
    <2> QED
      BY <2>1 DEF Calm, Pcs, Ended, HalfWay, Saving
  <1>3. CASE AfterLoad(c, caller, projects) = "done"
    BY <1>3, CalmEnd DEF Loaded, Ended
  <1>4. CASE AfterLoad(c, caller, projects) # "done"
    <2> DEFINE x == [cmd[c] EXCEPT !.pc = AfterLoad(c, caller, projects), !.loaded = projects,
                                   !.then = "none"]
    <2>1. x \in CommandState /\ x.pc \in Calm
      BY <1>1, <1>2 DEF CommandState, Calm
    <2>2. cmd' = [cmd EXCEPT ![c] = x]
      BY <1>1, <1>4 DEF Loaded
    <2> QED
      BY <2>1, <2>2 DEF CalmMove
  <1> QED
    BY <1>3, <1>4

LEMMA LoadGlobalConfigStep ==
  ASSUME IInv, NEW c \in Commands, LoadGlobalConfig(c)
  PROVE  IInv'
  <1>1. cmd[c] \in CommandState /\ cmd \in [Commands -> CommandState] /\ TypeOK
    BY DEF IInv, TypeOK
  <1>2. /\ registry' = registry /\ config' = config /\ local' = local /\ daemon' = daemon
        /\ ledger' = ledger /\ offline' = offline /\ overlaps' = overlaps
    BY DEF LoadGlobalConfig, files, back
  <1>3. CASE config.text # {} /\ Loaded(c, cmd[c].pc, Content(config))
    <2>1. Content(config) \in SUBSET Project
      BY <1>3, WholeFile DEF IInv, TypeOK
    <2>2. CalmMove(c)
      BY <1>1, <1>3, <2>1, LoadedMoves DEF LoadGlobalConfig
    <2> QED
      BY <1>2, <2>2, CalmTurn
  <1>4. CASE End(c, "failed")
    <2>1. CalmMove(c)
      BY <1>1, <1>4, CalmEnd DEF Ended
    <2> QED
      BY <1>2, <2>1, CalmTurn
  <1>5. CASE cmd' = [cmd EXCEPT ![c].pc = "create", ![c].then = cmd[c].pc]
    <2> DEFINE x == [cmd[c] EXCEPT !.pc = "create", !.then = cmd[c].pc]
    <2>1. x \in CommandState /\ x.pc = "create" /\ x.then # "none"
      BY <1>1 DEF LoadGlobalConfig, CommandState, Pcs
    <2>2. cmd' = [cmd EXCEPT ![c] = x]
      BY <1>1, <1>5
    <2> HIDE DEF x
    <2> QED
      BY <1>2, <2>1, <2>2, Turn DEF HalfWay, Saving
  <1> QED
    BY <1>3, <1>4, <1>5 DEF LoadGlobalConfig

LEMMA FindLocalConfigStep ==
  ASSUME IInv, NEW c \in Commands, FindLocalConfig(c)
  PROVE  IInv'
  <1>1. cmd[c] \in CommandState /\ cmd \in [Commands -> CommandState] /\ TypeOK
    BY DEF IInv, TypeOK
  <1>2. cmd[c].dir \in Dirs /\ IsFile(local[cmd[c].dir], LocalConfig)
    BY <1>1 DEF CommandState, TypeOK
  <1> DEFINE f == local[cmd[c].dir]
             x == [cmd[c] EXCEPT !.pc = "detect_global", !.id = Content(f).id, !.org = Content(f).org]
  <1>3. CalmMove(c)
    <2>1. CASE Step(c, "org")
      BY <1>1, <2>1, CalmStep DEF Calm, Pcs, HalfWay, Saving
    <2>2. CASE End(c, "failed")
      BY <1>1, <2>2, CalmEnd DEF Ended
    <2>3. CASE f.text # {} /\ cmd' = [cmd EXCEPT ![c].pc = "detect_global",
                                 ![c].id = Content(f).id, ![c].org = Content(f).org]
      <3>1. Content(f) \in LocalConfig
        BY <1>2, <2>3, WholeFile
      <3>2. x \in CommandState /\ x.pc \in Calm
        BY <1>1, <3>1, ZenonT(60) DEF CommandState, LocalConfig, Calm, Pcs, HalfWay, Saving
      <3>3. cmd' = [cmd EXCEPT ![c] = x]
        BY <1>1, <2>3
      <3> QED
        BY <3>2, <3>3 DEF CalmMove
    <2> QED
      BY <2>1, <2>2, <2>3 DEF FindLocalConfig
  <1> QED
    BY <1>3, CalmTurn DEF FindLocalConfig, files, back

LEMMA CheckProjectOnServerStep ==
  ASSUME IInv, NEW c \in Commands, CheckProjectOnServer(c)
  PROVE  IInv'
  <1>1. cmd[c] \in CommandState /\ cmd \in [Commands -> CommandState] /\ TypeOK
    BY DEF IInv, TypeOK
  <1> DEFINE x == [cmd[c] EXCEPT !.pc = "choice", !.found = GetByIDAndOrg(cmd[c].id, cmd[c].org)]
  <1>2. CalmMove(c)
    <2>1. CASE Step(c, "choice")
      BY <1>1, <2>1, CalmStep DEF Calm, Pcs, HalfWay, Saving
    <2>2. CASE End(c, "failed")
      BY <1>1, <2>2, CalmEnd DEF Ended
    <2>3. CASE cmd' = [cmd EXCEPT ![c].pc = "choice",
                                  ![c].found = GetByIDAndOrg(cmd[c].id, cmd[c].org)]
      <3>1. GetByIDAndOrg(cmd[c].id, cmd[c].org) \in BOOLEAN
        BY DEF GetByIDAndOrg, Names
      <3>2. x \in CommandState /\ x.pc \in Calm
        BY <1>1, <3>1 DEF CommandState, Calm, Pcs, HalfWay, Saving
      <3>3. cmd' = [cmd EXCEPT ![c] = x]
        BY <1>1, <2>3
      <3> QED
        BY <3>2, <3>3 DEF CalmMove
    <2> QED
      BY <2>1, <2>2, <2>3 DEF CheckProjectOnServer
  <1> QED
    BY <1>2, CalmTurn DEF CheckProjectOnServer, files, back

LEMMA UpdateLocalConfigSelectionStep ==
  ASSUME IInv, NEW c \in Commands, UpdateLocalConfigSelection(c)
  PROVE  IInv'
  <1>1. cmd[c] \in CommandState /\ cmd \in [Commands -> CommandState] /\ TypeOK
    BY DEF IInv, TypeOK
  <1> DEFINE x == [cmd[c] EXCEPT !.pc = "locate", !.path = cmd[c].dir, !.asRepo = TRUE, !.again = TRUE]
  <1>2. CalmMove(c)
    <2>1. CASE Step(c, "delete") \/ Step(c, "org")
      BY <1>1, <2>1, CalmStep DEF Calm, Pcs, HalfWay, Saving
    <2>2. CASE End(c, "cancelled")
      BY <1>1, <2>2, CalmEnd DEF Ended
    <2>3. CASE cmd' = [cmd EXCEPT ![c].pc = "locate", ![c].path = cmd[c].dir, ![c].asRepo = TRUE,
                                  ![c].again = TRUE]
      <3>1. x \in CommandState /\ x.pc \in Calm
        BY <1>1 DEF CommandState, Calm, Pcs, HalfWay, Saving
      <3>2. cmd' = [cmd EXCEPT ![c] = x]
        BY <1>1, <2>3
      <3> QED
        BY <3>1, <3>2 DEF CalmMove
    <2> QED
      BY <2>1, <2>2, <2>3 DEF UpdateLocalConfigSelection
  <1> QED
    BY <1>2, CalmTurn DEF UpdateLocalConfigSelection, files, back

LEMMA UpdateOrgSelectionStep ==
  ASSUME IInv, NEW c \in Commands, UpdateOrgSelection(c)
  PROVE  IInv'
  <1>1. cmd[c] \in CommandState /\ cmd \in [Commands -> CommandState] /\ TypeOK
    BY DEF IInv, TypeOK
  <1>2. CalmMove(c)
    <2>1. CASE End(c, "cancelled") \/ End(c, "failed")
      BY <1>1, <2>1, CalmEnd DEF Ended
    <2>2. ASSUME NEW org \in Orgs, cmd' = [cmd EXCEPT ![c].pc = "git", ![c].org = org]
          PROVE  CalmMove(c)
      <3> DEFINE x == [cmd[c] EXCEPT !.pc = "git", !.org = org]
      <3>1. x \in CommandState /\ x.pc \in Calm
        BY <1>1 DEF CommandState, Calm, Pcs, HalfWay, Saving
      <3>2. cmd' = [cmd EXCEPT ![c] = x]
        BY <1>1, <2>2
      <3> QED
        BY <3>1, <3>2 DEF CalmMove
    <2> QED
      BY <2>1, <2>2 DEF UpdateOrgSelection
  <1> QED
    BY <1>2, CalmTurn DEF UpdateOrgSelection, files, back

LEMMA UpdateGitSelectionStep ==
  ASSUME IInv, NEW c \in Commands, UpdateGitSelection(c)
  PROVE  IInv'
  <1>1. cmd[c] \in CommandState /\ cmd \in [Commands -> CommandState] /\ TypeOK
    BY DEF IInv, TypeOK
  <1>2. cmd[c].dir \in Dirs
    BY <1>1 DEF CommandState
  <1>3. CASE End(c, "cancelled")
    <2>1. CalmMove(c)
      BY <1>1, <1>3, CalmEnd DEF Ended
    <2> QED
      BY <2>1, CalmTurn DEF UpdateGitSelection, files, back
  <1>4. CASE ~End(c, "cancelled")
    <2>1. PICK r \in Dirs, asRepo \in BOOLEAN :
            cmd' = [cmd EXCEPT ![c].pc = "locate", ![c].path = r, ![c].asRepo = asRepo]
      <3>1. \/ \E r \in DetectGitRepos(cmd[c].dir) :
                 cmd' = [cmd EXCEPT ![c].pc = "locate", ![c].path = r, ![c].asRepo = TRUE]
            \/ cmd' = [cmd EXCEPT ![c].pc = "locate", ![c].path = cmd[c].dir, ![c].asRepo = FALSE]
        BY <1>4 DEF UpdateGitSelection
      <3> QED
        BY <1>2, <3>1, RepoTypes
    <2> DEFINE x == [cmd[c] EXCEPT !.pc = "locate", !.path = r, !.asRepo = asRepo]
    <2>2. x \in CommandState /\ x.pc \in Calm
      BY <1>1 DEF CommandState, Calm, Pcs, HalfWay, Saving
    <2>3. cmd' = [cmd EXCEPT ![c] = x]
      BY <1>1, <2>1
    <2>4. CalmMove(c)
      BY <2>2, <2>3 DEF CalmMove
    <2> QED
      BY <2>4, CalmTurn DEF UpdateGitSelection, files, back
  <1> QED
    BY <1>3, <1>4

LEMMA AddAgainStep ==
  ASSUME IInv, NEW c \in Commands, AddAgain(c)
  PROVE  IInv'
  <1>1. cmd[c] \in CommandState /\ cmd \in [Commands -> CommandState] /\ TypeOK
    BY DEF IInv, TypeOK
  <1> DEFINE x == [cmd[c] EXCEPT !.pc = "locate", !.path = Cwd, !.asRepo = FALSE, !.again = FALSE]
  <1>2. x \in CommandState /\ x.pc \in Calm
    BY <1>1, TrackingAssumption, ZenonT(60) DEF CommandState, Calm, Pcs, HalfWay, Saving
  <1>3. cmd' = [cmd EXCEPT ![c] = x]
    BY <1>1 DEF AddAgain
  <1>4. CalmMove(c)
    BY <1>2, <1>3 DEF CalmMove
  <1> QED
    BY <1>4, CalmTurn DEF AddAgain, files, back

LEMMA LocateStep ==
  ASSUME IInv, NEW c \in Commands, Locate(c)
  PROVE  IInv'
  <1>1. cmd[c] \in CommandState /\ cmd \in [Commands -> CommandState] /\ TypeOK
    BY DEF IInv, TypeOK
  <1> DEFINE git == cmd[c].asRepo /\ IsGitRepo(cmd[c].path)
             path == IF git THEN FindMainRepoPath(cmd[c].path) ELSE cmd[c].path
             found == [cmd[c] EXCEPT !.pc = "find", !.path = path, !.git = git, !.offline = FALSE]
  <1>2. git \in BOOLEAN
    BY <1>1 DEF CommandState, IsGitRepo
  <1>3. path \in Dirs
    BY <1>1, MainRepoType DEF CommandState
  <1>4. found \in CommandState /\ found.pc = "find"
    BY <1>1, <1>2, <1>3, ZenonT(60) DEF CommandState, Pcs
  <1>5. CASE End(c, "failed")
    <2>1. CalmMove(c)
      BY <1>1, <1>5, CalmEnd DEF Ended
    <2> QED
      BY <2>1, CalmTurn DEF Locate, files, back
  <1>6. CASE ~End(c, "failed")
    <2>1. PICK id \in Nat : cmd' = [cmd EXCEPT ![c] = [found EXCEPT !.id = id]]
      <3>1. local[path].text # {} => Content(local[path]).id \in Nat
        <4> HIDE DEF path
        <4>1. IsFile(local[path], LocalConfig)
          BY <1>1, <1>3 DEF TypeOK
        <4>2. local[path].text # {} => Content(local[path]) \in LocalConfig
          BY <4>1, WholeFile
        <4> QED
          BY <4>2 DEF LocalConfig
      <3>2. \/ cmd' = [cmd EXCEPT ![c] = [found EXCEPT !.id = 0]]
            \/ /\ local[path].text # {}
               /\ cmd' = [cmd EXCEPT ![c] = [found EXCEPT !.id = Content(local[path]).id]]
        BY <1>6 DEF Locate
      <3> HIDE DEF found, path
      <3> QED
        BY <3>1, <3>2
    <2> HIDE DEF found
    <2>2. [found EXCEPT !.id = id] \in CommandState /\ [found EXCEPT !.id = id].pc = "find"
      BY <1>4 DEF CommandState
    <2>3. "find" \in Calm
      BY DEF Calm, Pcs, HalfWay, Saving
    <2>4. CalmMove(c)
      BY <2>1, <2>2, <2>3 DEF CalmMove
    <2> QED
      BY <2>4, CalmTurn DEF Locate, files, back
  <1> QED
    BY <1>5, <1>6

LEMMA KilledStep ==
  ASSUME IInv, NEW c \in Commands, Killed(c)
  PROVE  IInv'
  <1>1. CalmMove(c)
    BY CalmEnd DEF Killed, IInv, Ended
  <1> QED
    BY <1>1, CalmTurn DEF Killed, files, back
-----------------------------------------------------------------------------
(* The registration, and the local config.                                 *)

LEMMA UnreachableMoves ==
  ASSUME TypeOK, NEW c \in Commands, Unreachable(c)
  PROVE  \E x \in CommandState : /\ cmd' = [cmd EXCEPT ![c] = x]
                                 /\ x.pc \in Calm \/ (x.pc = "trunc_local" /\ x.offline)
  <1>1. cmd[c] \in CommandState /\ cmd \in [Commands -> CommandState]
    BY DEF TypeOK
  <1>2. CASE cmd[c].id # 0
    <2> DEFINE x == [cmd[c] EXCEPT !.pc = "trunc_local", !.offline = TRUE]
    <2>1. x \in CommandState /\ x.pc = "trunc_local" /\ x.offline
      BY <1>1 DEF CommandState, Pcs
    <2>2. cmd' = [cmd EXCEPT ![c] = x]
      BY <1>1, <1>2 DEF Unreachable
    <2> QED
      BY <2>1, <2>2
  <1>3. CASE ~(cmd[c].id # 0)
    <2>1. CalmMove(c)
      BY <1>3, CalmEnd DEF Unreachable, Ended
    <2> QED
      BY <2>1 DEF CalmMove
  <1> QED
    BY <1>2, <1>3

LEMMA FindStep ==
  ASSUME IInv, NEW c \in Commands, Find(c)
  PROVE  IInv'
  <1>1. cmd[c] \in CommandState /\ cmd \in [Commands -> CommandState] /\ TypeOK
    BY DEF IInv, TypeOK
  <1>2. /\ registry' = registry /\ config' = config /\ local' = local /\ daemon' = daemon
        /\ ledger' = ledger /\ offline' = offline
    BY DEF Find, files, back
  <1> DEFINE matches == FindByConditions(cmd[c].id, URL(c), cmd[c].org)
  <1>3. ASSUME NEW p \in matches, overlaps' = overlaps,
               cmd' = [cmd EXCEPT ![c].pc = "trunc_local", ![c].id = p]
        PROVE  IInv'
    <2> DEFINE x == [cmd[c] EXCEPT !.pc = "trunc_local", !.id = p]
    <2>1. p \in DOMAIN registry /\ registry[p].org = cmd[c].org
      BY DEF FindByConditions, BuildSearchConditions
    <2>2. x \in CommandState /\ x.pc = "trunc_local" /\ x.id = p /\ x.org = cmd[c].org
      BY <1>1, <2>1, RegistryIds DEF CommandState, Pcs
    <2>3. cmd' = [cmd EXCEPT ![c] = x]
      BY <1>1, <1>3
    <2> HIDE DEF x
    <2>4. Names(registry, [id |-> x.id, org |-> x.org])
      BY <2>1, <2>2 DEF Names
    <2> QED
      BY <1>2, <1>3, <2>2, <2>3, <2>4, Turn DEF HalfWay
  <1>4. ASSUME matches = {}, Step(c, "insert"),
               overlaps' = IF \E b \in Commands : cmd[b].pc = "insert"
                           THEN overlaps \cup {"registry"} ELSE overlaps
        PROVE  IInv'
    <2>1. PICK x \in CommandState :
            cmd' = [cmd EXCEPT ![c] = x] /\ x = [cmd[c] EXCEPT !.pc = "insert"] /\ x.pc = "insert"
      BY <1>1, <1>4, Steps DEF Pcs
    <2>2. cmd'[c] = x /\ \A b \in Commands : b # c => cmd'[b] = cmd[b]
      BY <1>1, <2>1, Moved
    <2>3. TypeOK' /\ SoleWriter' /\ SavesKnown' /\ LocalMatchesServer'
      <3>1. overlaps \subseteq overlaps'
        BY <1>4
      <3>2. TypeOK'
        BY <1>1, <1>2, <2>1, KeepTypes DEF TypeOK
      <3>3. SoleWriter'
        BY <1>1, <1>2, <2>1, <3>1, KeepFile DEF IInv, HalfWay
      <3> QED
        BY <1>1, <1>2, <2>1, <3>2, <3>3, KeepSaves DEF IInv, Saving
    <2>4. SoleInserter'
      <3>1. SUFFICES ASSUME "registry" \notin overlaps' PROVE RegistryOfOne'
        BY DEF SoleInserter
      <3>2. OneEach(registry) /\ \A b \in Commands : cmd[b].pc # "insert"
        BY <1>4, <3>1 DEF IInv, SoleInserter, RegistryOfOne
      <3>3. x.id = cmd[c].id /\ x.org = cmd[c].org /\ x.git = cmd[c].git /\ x.path = cmd[c].path
        BY <1>1, <2>1 DEF CommandState
      <3>4. FindByConditions(cmd[c].id, URL(c), cmd[c].org)' = {}
        BY <1>2, <1>4, <2>2, <3>3, ZenonT(60) DEF FindByConditions, BuildSearchConditions, URL
      <3>5. \A b \in Commands : cmd'[b].pc = "insert" => b = c
        BY <2>2, <3>2
      <3>6. OneEach(registry)'
        BY <1>2, <3>2
      <3> QED
        BY <3>4, <3>5, <3>6 DEF RegistryOfOne
    <2> QED
      BY <2>3, <2>4 DEF IInv
  <1>5. ASSUME Unreachable(c), overlaps' = overlaps
        PROVE  IInv'
    <2>1. PICK x \in CommandState : /\ cmd' = [cmd EXCEPT ![c] = x]
                                    /\ x.pc \in Calm \/ (x.pc = "trunc_local" /\ x.offline)
      BY <1>1, <1>5, UnreachableMoves
    <2> QED
      BY <1>2, <1>5, <2>1, Turn DEF Calm, HalfWay, Saving
  <1> QED
    BY <1>3, <1>4, <1>5 DEF Find

LEMMA Created ==
  ASSUME TypeOK, NEW org, NEW url, CreateProject(org, url)
  PROVE  LET n == Cardinality(DOMAIN registry) + 1 IN
         /\ n \in Nat /\ n \notin DOMAIN registry
         /\ DOMAIN registry' = DOMAIN registry \cup {n}
         /\ registry'[n] = [org |-> org, url |-> url]
         /\ \A p \in DOMAIN registry : registry'[p] = registry[p]
         /\ IsFiniteSet(DOMAIN registry') /\ DOMAIN registry' = 1 .. Cardinality(DOMAIN registry')
  <1> DEFINE n == Cardinality(DOMAIN registry) + 1
  <1>1. n \in Nat /\ n \notin DOMAIN registry
    BY RegistryIds
  <1>2. /\ DOMAIN registry' = DOMAIN registry \cup {n}
        /\ registry'[n] = [org |-> org, url |-> url]
        /\ \A p \in DOMAIN registry : registry'[p] = registry[p]
    BY <1>1 DEF CreateProject
  <1>3. IsFiniteSet(DOMAIN registry') /\ Cardinality(DOMAIN registry') = n
    <2>1. IsFiniteSet(DOMAIN registry)
      BY DEF TypeOK
    <2>2. /\ IsFiniteSet(DOMAIN registry \cup {n})
          /\ Cardinality(DOMAIN registry \cup {n}) = Cardinality(DOMAIN registry) + 1
      BY <1>1, <2>1, FS_AddElement
    <2> QED
      BY <1>2, <2>2
  <1>4. DOMAIN registry' = 1 .. n
    <2>1. Cardinality(DOMAIN registry) \in Nat /\ DOMAIN registry = 1 .. Cardinality(DOMAIN registry)
      BY RegistryIds DEF TypeOK
    <2> QED
      BY <1>2, <2>1
  <1> QED
    BY <1>1, <1>2, <1>3, <1>4

(* A new project keeps what the invariant says of the registry.            *)
LEMMA InsertKeeps ==
  ASSUME IInv, NEW c \in Commands, cmd[c].pc = "insert", CreateProject(cmd[c].org, URL(c)),
         NEW x \in CommandState, cmd' = [cmd EXCEPT ![c] = x],
         x.pc \in Calm \cup Saving,
         x.pc \in Saving => x.offline \/ Names(registry', [id |-> x.id, org |-> x.org]),
         config' = config, local' = local, daemon' = daemon,
         ledger' = ledger, offline' = offline, overlaps' = overlaps
  PROVE  IInv'
  <1>1. cmd'[c] = x /\ \A b \in Commands : b # c => cmd'[b] = cmd[b]
    BY Moved DEF IInv
  <1> DEFINE n == Cardinality(DOMAIN registry) + 1
  <1>2. /\ n \in Nat /\ n \notin DOMAIN registry
        /\ DOMAIN registry' = DOMAIN registry \cup {n}
        /\ registry'[n] = [org |-> cmd[c].org, url |-> URL(c)]
        /\ \A p \in DOMAIN registry : registry'[p] = registry[p]
        /\ IsFiniteSet(DOMAIN registry') /\ DOMAIN registry' = 1 .. Cardinality(DOMAIN registry')
    BY Created DEF IInv
  <1> HIDE DEF n
  <1>3. \A l : Names(registry, l) => Names(registry', l)
    BY <1>2 DEF Names
  <1>4. TypeOK'
    <2>1. cmd' \in [Commands -> CommandState]
      BY Moved DEF IInv
    <2>2. \A b \in Commands : cmd'[b].pc \in {"create", "fill"} => cmd'[b].then # "none"
      BY <1>1 DEF IInv, TypeOK, Calm, Saving, HalfWay
    <2> QED
      BY <1>2, <2>1, <2>2 DEF IInv, TypeOK
  <1>5. SoleWriter'
    BY KeepFile DEF IInv, Calm, HalfWay, Saving
  <1>6. SoleInserter'
    <2>1. SUFFICES ASSUME "registry" \notin overlaps PROVE RegistryOfOne'
      BY DEF SoleInserter
    <2>2. OneEach(registry) /\ FindByConditions(cmd[c].id, URL(c), cmd[c].org) = {}
      BY <2>1 DEF IInv, SoleInserter, RegistryOfOne
    <2>3. \A b \in Commands : cmd'[b].pc # "insert"
      BY <1>1, <2>1 DEF IInv, SoleInserter, RegistryOfOne, Calm, Saving
    <2>4. ASSUME NEW p \in DOMAIN registry, registry[p] = registry'[n] PROVE registry'[n].url = ""
      <3>1. registry[p].org = cmd[c].org /\ registry[p].url = URL(c) /\ registry'[n].url = URL(c)
        BY <1>2, <2>4
      <3> QED
        BY <2>2, <3>1 DEF FindByConditions, BuildSearchConditions
    <2>5. OneEach(registry')
      BY <1>2, <2>2, <2>4 DEF OneEach
    <2> QED
      BY <2>3, <2>5 DEF RegistryOfOne
  <1>7. SavesKnown' /\ LocalMatchesServer'
    BY <1>1, <1>3 DEF IInv, SavesKnown, LocalMatchesServer, Calm, Saving
  <1> QED
    BY <1>4, <1>5, <1>6, <1>7 DEF IInv

LEMMA InsertStep ==
  ASSUME IInv, NEW c \in Commands, Insert(c)
  PROVE  IInv'
  <1>1. cmd[c] \in CommandState /\ cmd \in [Commands -> CommandState] /\ TypeOK
    BY DEF IInv, TypeOK
  <1>2. /\ config' = config /\ local' = local /\ daemon' = daemon /\ cmd[c].pc = "insert"
        /\ ledger' = ledger /\ offline' = offline /\ overlaps' = overlaps
    BY DEF Insert, files, back
  <1> DEFINE n == Cardinality(DOMAIN registry) + 1
  <1>3. CASE CreateProject(cmd[c].org, URL(c)) /\ cmd' = [cmd EXCEPT ![c].pc = "trunc_local", ![c].id = n]
    <2> DEFINE x == [cmd[c] EXCEPT !.pc = "trunc_local", !.id = n]
    <2>1. /\ n \in Nat /\ n \in DOMAIN registry' /\ registry'[n].org = cmd[c].org
      <3>1. n \in Nat /\ DOMAIN registry' = DOMAIN registry \cup {n}
        BY <1>1, <1>3, Created
      <3>2. registry'[n] = [org |-> cmd[c].org, url |-> URL(c)]
        BY <1>1, <1>3, Created
      <3> QED
        BY <3>1, <3>2
    <2>2. cmd' = [cmd EXCEPT ![c] = x]
      BY <1>1, <1>3
    <2> HIDE DEF n
    <2>3. x \in CommandState /\ x.pc = "trunc_local" /\ x.id = n /\ x.org = cmd[c].org
      BY <1>1, <2>1 DEF CommandState, Pcs
    <2> HIDE DEF x
    <2>4. Names(registry', [id |-> x.id, org |-> x.org])
      BY <2>1, <2>3 DEF Names
    <2> QED
      BY <1>2, <1>3, <2>2, <2>3, <2>4, InsertKeeps DEF Saving
  <1>4. CASE Unreachable(c)
    <2>1. PICK x \in CommandState : /\ cmd' = [cmd EXCEPT ![c] = x]
                                    /\ x.pc \in Calm \/ (x.pc = "trunc_local" /\ x.offline)
      BY <1>1, <1>4, UnreachableMoves
    <2>2. CASE registry' = registry
      BY <1>2, <2>1, <2>2, Turn DEF Calm, HalfWay, Saving
    <2>3. CASE CreateProject(cmd[c].org, URL(c))
      BY <1>2, <2>1, <2>3, InsertKeeps DEF Calm, Saving
    <2> QED
      BY <1>4, <2>2, <2>3 DEF Insert
  <1> QED
    BY <1>3, <1>4 DEF Insert

LEMMA SaveLocalConfigStep ==
  ASSUME IInv, NEW c \in Commands, SaveLocalConfig(c)
  PROVE  IInv'
  <1>1. cmd[c] \in CommandState /\ cmd \in [Commands -> CommandState] /\ TypeOK
    BY DEF IInv, TypeOK
  <1>2. /\ registry' = registry /\ config' = config /\ daemon' = daemon
        /\ ledger' = ledger /\ overlaps' = overlaps
    BY DEF SaveLocalConfig, back
  <1> DEFINE d == cmd[c].path
             saved == [id |-> cmd[c].id, org |-> cmd[c].org]
  <1>3. d \in Dirs /\ saved \in LocalConfig
    BY <1>1 DEF CommandState, LocalConfig
  <1>4. PICK x \in CommandState :
          /\ cmd' = [cmd EXCEPT ![c] = x]
          /\ x.pc \in {"write_local", "load"}
          /\ x.id = cmd[c].id /\ x.org = cmd[c].org /\ x.offline = cmd[c].offline
    <2>1. CASE cmd' = [cmd EXCEPT ![c].pc = "write_local", ![c].unlinked = FALSE]
      <3> DEFINE x == [cmd[c] EXCEPT !.pc = "write_local", !.unlinked = FALSE]
      <3>1. x \in CommandState /\ x.pc = "write_local"
        BY <1>1 DEF CommandState, Pcs
      <3>2. x.id = cmd[c].id /\ x.org = cmd[c].org /\ x.offline = cmd[c].offline
        BY <1>1 DEF CommandState
      <3>3. cmd' = [cmd EXCEPT ![c] = x]
        BY <1>1, <2>1
      <3> QED
        BY <3>1, <3>2, <3>3
    <2>2. CASE Step(c, "load")
      <3>1. PICK x \in CommandState :
              cmd' = [cmd EXCEPT ![c] = x] /\ x = [cmd[c] EXCEPT !.pc = "load"] /\ x.pc = "load"
        BY <1>1, <2>2, Steps DEF Pcs
      <3> QED
        BY <1>1, <3>1 DEF CommandState
    <2> QED
      BY <2>1, <2>2 DEF SaveLocalConfig
  <1>5. cmd'[c] = x /\ \A b \in Commands : b # c => cmd'[b] = cmd[b]
    BY <1>1, <1>4, Moved
  <1>6. /\ cmd[c].pc \in {"trunc_local", "write_local"}
        /\ \/ local' = [local EXCEPT ![d] = Emptied] /\ offline' = offline
           \/ local' = local /\ offline' = offline
           \/ /\ local' = [local EXCEPT ![d] = Holding(saved)]
              /\ offline' = IF cmd[c].offline THEN offline \cup {d} ELSE offline \ {d}
    BY DEF SaveLocalConfig
  <1> HIDE DEF d, saved
  <1>7. TypeOK'
    <2>1. local' = [e \in Dirs |-> local'[e]] /\ \A e \in Dirs : IsFile(local'[e], LocalConfig)
      BY <1>1, <1>3, <1>6, FileTypes DEF TypeOK
    <2>2. cmd' \in [Commands -> CommandState]
      BY <1>1, <1>4, Moved
    <2>3. \A b \in Commands : cmd'[b].pc \in {"create", "fill"} => cmd'[b].then # "none"
      BY <1>1, <1>4, <1>5 DEF TypeOK
    <2> QED
      BY <1>1, <1>2, <2>1, <2>2, <2>3 DEF TypeOK
  <1>8. SoleWriter' /\ SoleInserter'
    BY <1>1, <1>2, <1>4, KeepFile, KeepRegistry DEF IInv, HalfWay
  <1>9. ~cmd[c].offline => Names(registry, saved)
    BY <1>6 DEF IInv, SavesKnown, saved
  <1>10. SavesKnown'
    BY <1>2, <1>4, <1>5, <1>9 DEF IInv, SavesKnown, saved
  <1>11. LocalMatchesServer'
    <2>1. SUFFICES ASSUME NEW e \in Dirs \ offline', NEW l \in local'[e].text, l.org # NoOrg
                   PROVE  Names(registry, l)
      BY <1>2 DEF LocalMatchesServer
    <2>2. CASE e # d
      BY <1>1, <1>3, <1>6, <2>1, <2>2 DEF IInv, LocalMatchesServer, TypeOK
    <2>3. CASE e = d /\ local' = [local EXCEPT ![d] = Emptied]
      BY <1>1, <1>3, <2>3, Empties DEF TypeOK
    <2>4. CASE e = d /\ local' = local /\ offline' = offline
      BY <2>1, <2>4 DEF IInv, LocalMatchesServer
    <2>5. CASE /\ e = d /\ local' = [local EXCEPT ![d] = Holding(saved)]
               /\ offline' = IF cmd[c].offline THEN offline \cup {d} ELSE offline \ {d}
      <3>1. l = saved
        BY <1>1, <1>3, <2>5, Held DEF TypeOK
      <3>2. ~cmd[c].offline
        BY <2>5
      <3> QED
        BY <1>9, <3>1, <3>2
    <2> QED
      BY <1>6, <2>2, <2>3, <2>4, <2>5
  <1> QED
    BY <1>7, <1>8, <1>10, <1>11 DEF IInv

LEMMA DeleteLocalConfigStep ==
  ASSUME IInv, NEW c \in Commands, DeleteLocalConfig(c)
  PROVE  IInv'
  <1>1. cmd \in [Commands -> CommandState] /\ TypeOK
    BY DEF IInv, TypeOK
  <1>2. /\ registry' = registry /\ config' = config /\ daemon' = daemon
        /\ ledger' = ledger /\ overlaps' = overlaps
    BY DEF DeleteLocalConfig, back
  <1> DEFINE d == cmd[c].dir
  <1>3. d \in Dirs /\ local' = [local EXCEPT ![d] = Absent] /\ offline' = offline \ {d}
    BY <1>1 DEF DeleteLocalConfig, CommandState
  <1>4. /\ cmd' \in [Commands -> CommandState] /\ cmd'[c].pc = "load_remove"
        /\ \A b \in Commands : b # c =>
             /\ cmd'[b].pc = cmd[b].pc /\ cmd'[b].then = cmd[b].then
             /\ cmd'[b].loaded = cmd[b].loaded /\ cmd'[b].id = cmd[b].id /\ cmd'[b].org = cmd[b].org
             /\ cmd'[b].git = cmd[b].git /\ cmd'[b].path = cmd[b].path
             /\ cmd'[b].offline = cmd[b].offline
    <2>1. [cmd[c] EXCEPT !.pc = "load_remove"] \in CommandState
      BY <1>1 DEF CommandState, Pcs
    <2>2. ASSUME NEW b \in Commands PROVE [cmd[b] EXCEPT !.unlinked = TRUE] \in CommandState
      <3>1. cmd[b] \in CommandState
        BY <1>1
      <3> QED
        BY <3>1 DEF CommandState
    <2>3. /\ cmd' = [b \in Commands |-> cmd'[b]] /\ cmd'[c] = [cmd[c] EXCEPT !.pc = "load_remove"]
          /\ \A b \in Commands : b # c =>
               cmd'[b] = cmd[b] \/ cmd'[b] = [cmd[b] EXCEPT !.unlinked = TRUE]
      BY DEF DeleteLocalConfig
    <2>4. cmd' \in [Commands -> CommandState]
      BY <1>1, <2>1, <2>2, <2>3
    <2>5. cmd'[c].pc = "load_remove"
      BY <1>1, <2>3 DEF CommandState
    <2>6. ASSUME NEW b \in Commands, cmd'[b] = [cmd[b] EXCEPT !.unlinked = TRUE]
          PROVE  /\ cmd'[b].pc = cmd[b].pc /\ cmd'[b].then = cmd[b].then
                 /\ cmd'[b].loaded = cmd[b].loaded /\ cmd'[b].id = cmd[b].id
                 /\ cmd'[b].org = cmd[b].org /\ cmd'[b].git = cmd[b].git
                 /\ cmd'[b].path = cmd[b].path /\ cmd'[b].offline = cmd[b].offline
      BY <1>1, <2>6 DEF CommandState
    <2> QED
      BY <2>3, <2>4, <2>5, <2>6
  <1> HIDE DEF d
  <1>5. TypeOK'
    <2>1. local' = [e \in Dirs |-> local'[e]] /\ \A e \in Dirs : IsFile(local'[e], LocalConfig)
      BY <1>1, <1>3, FileTypes DEF TypeOK
    <2>2. \A b \in Commands : cmd'[b].pc \in {"create", "fill"} => cmd'[b].then # "none"
      BY <1>1, <1>4 DEF TypeOK
    <2> QED
      BY <1>1, <1>2, <1>4, <2>1, <2>2 DEF TypeOK
  <1>6. SoleWriter'
    <2>1. \A b \in Commands : Writing(b)' => Writing(b) /\ b # c /\ Base(b)' = Base(b)
      BY <1>4 DEF Writing, Base
    <2> QED
      BY <1>2, <2>1 DEF IInv, SoleWriter, FileOfOne
  <1>7. SoleInserter'
    <2>1. ASSUME NEW b \in Commands, cmd'[b].pc = "insert"
          PROVE  /\ cmd[b].pc = "insert"
                 /\ FindByConditions(cmd[b].id, URL(b), cmd[b].org)'
                      = FindByConditions(cmd[b].id, URL(b), cmd[b].org)
      <3>1. b # c
        BY <1>4, <2>1
      <3>2. /\ cmd'[b].id = cmd[b].id /\ cmd'[b].org = cmd[b].org
            /\ cmd'[b].git = cmd[b].git /\ cmd'[b].path = cmd[b].path
        BY <1>4, <3>1
      <3>3. URL(b)' = URL(b)
        BY <3>2 DEF URL
      <3> QED
        BY <1>2, <1>4, <2>1, <3>1, <3>2, <3>3 DEF FindByConditions, BuildSearchConditions
    <2> QED
      BY <1>2, <2>1 DEF IInv, SoleInserter, RegistryOfOne, OneEach
  <1>8. SavesKnown'
    BY <1>2, <1>4 DEF IInv, SavesKnown
  <1>9. LocalMatchesServer'
    <2>1. SUFFICES ASSUME NEW e \in Dirs \ offline', NEW l \in local'[e].text, l.org # NoOrg
                   PROVE  Names(registry, l)
      BY <1>2 DEF LocalMatchesServer
    <2>2. CASE e # d
      BY <1>1, <1>3, <2>1, <2>2 DEF IInv, LocalMatchesServer, TypeOK
    <2>3. CASE e = d
      BY <1>1, <1>3, <2>1, <2>3, Empties DEF TypeOK
    <2> QED
      BY <2>2, <2>3
  <1> QED
    BY <1>5, <1>6, <1>7, <1>8, <1>9 DEF IInv
-----------------------------------------------------------------------------
(* The two halves of a write to config.json.                               *)

LEMMA FirstHalf ==
  ASSUME TypeOK, FileOfOne, config # Emptied, NEW c \in Commands, NEW x \in CommandState,
         cmd' = [cmd EXCEPT ![c] = x], x.pc \in HalfWay,
         ledger = IF x.pc = "fill" THEN {} ELSE x.loaded,
         config' = Emptied, ledger' = ledger, daemon' = daemon
  PROVE  FileOfOne'
  <1>1. cmd'[c] = x /\ \A b \in Commands : b # c => cmd'[b] = cmd[b]
    BY Moved
  <1>2. /\ \A b \in Commands : Writing(b)' => b = c
        /\ Base(c)' = ledger
        /\ daemon.pc # "fill"
    BY <1>1 DEF FileOfOne, Writing, Base
  <1> QED
    BY <1>2, Empties DEF FileOfOne

LEMMA SecondHalf ==
  ASSUME TypeOK, FileOfOne, NEW c \in Commands, NEW x \in CommandState, Writing(c),
         cmd' = [cmd EXCEPT ![c] = x], x.pc \notin HalfWay,
         config' = Holding(ledger'), daemon' = daemon
  PROVE  FileOfOne'
  <1>1. cmd'[c] = x /\ \A b \in Commands : b # c => cmd'[b] = cmd[b]
    BY Moved
  <1>2. (\A b \in Commands : ~Writing(b)') /\ daemon.pc # "fill"
    BY <1>1 DEF FileOfOne, Writing, HalfWay
  <1> QED
    BY <1>2, Held, Empties DEF FileOfOne

LEMMA WriterTurn ==
  ASSUME IInv, NEW c \in Commands, NEW x \in CommandState, cmd' = [cmd EXCEPT ![c] = x],
         x.pc \notin Saving \cup {"create", "insert"},
         x.pc = "fill" => x.then # "none",
         registry' = registry, local' = local, daemon' = daemon, offline' = offline,
         IsFile(config', SUBSET Project), overlaps \subseteq overlaps',
         "registry" \in overlaps => "registry" \in overlaps',
         "config" \notin overlaps' => FileOfOne'
  PROVE  IInv'
  <1>1. TypeOK'
    BY KeepTypes DEF IInv
  <1>2. SoleWriter'
    BY DEF SoleWriter
  <1> QED
    BY <1>1, <1>2, KeepRegistry, KeepSaves DEF IInv

LEMMA CreateStep ==
  ASSUME IInv, NEW c \in Commands, Create(c)
  PROVE  IInv'
  <1>1. cmd[c] \in CommandState /\ TypeOK
    BY DEF IInv, TypeOK
  <1>2. /\ registry' = registry /\ local' = local /\ daemon' = daemon /\ offline' = offline
        /\ ledger' = ledger /\ config' = Emptied /\ cmd[c].pc = "create" /\ Step(c, "fill")
        /\ overlaps' = IF config.there THEN overlaps \cup {"config"} ELSE overlaps
    BY DEF Create, Truncate
  <1>3. PICK x \in CommandState :
          cmd' = [cmd EXCEPT ![c] = x] /\ x = [cmd[c] EXCEPT !.pc = "fill"] /\ x.pc = "fill"
    BY <1>1, <1>2, Steps DEF Pcs
  <1>4. x.then # "none"
    BY <1>1, <1>2, <1>3 DEF TypeOK, CommandState
  <1>5. "config" \notin overlaps' => FileOfOne'
    <2>1. SUFFICES ASSUME "config" \notin overlaps' PROVE FileOfOne'
      OBVIOUS
    <2>2. FileOfOne /\ ~config.there
      BY <1>2, <2>1 DEF IInv, SoleWriter
    <2>3. config = Absent /\ ledger = {}
      BY <2>2, Empties, Held DEF IInv, TypeOK, IsFile, FileOfOne
    <2> QED
      BY <1>1, <1>2, <1>3, <2>2, <2>3, Empties, FirstHalf DEF HalfWay
  <1>6. overlaps \subseteq overlaps' /\ IsFile(config', SUBSET Project)
    BY <1>2, FileTypes
  <1> QED
    BY <1>2, <1>3, <1>4, <1>5, <1>6, WriterTurn DEF Saving

LEMMA FillStep ==
  ASSUME IInv, NEW c \in Commands, Fill(c)
  PROVE  IInv'
  <1>1. cmd[c] \in CommandState /\ TypeOK
    BY DEF IInv, TypeOK
  <1>2. /\ registry' = registry /\ local' = local /\ daemon' = daemon /\ offline' = offline
        /\ ledger' = ledger /\ config' = Holding({}) /\ cmd[c].pc = "fill"
        /\ Loaded(c, cmd[c].then, {})
        /\ overlaps' = IF config.text # {} THEN overlaps \cup {"config"} ELSE overlaps
    BY DEF Fill, Write
  <1>3. cmd[c].then \in {"detect_global", "load", "load_remove"}
    BY <1>1, <1>2 DEF TypeOK, CommandState
  <1>4. CalmMove(c)
    BY <1>1, <1>2, <1>3, LoadedMoves
  <1>5. PICK x \in CommandState : x.pc \in Calm /\ cmd' = [cmd EXCEPT ![c] = x]
    BY <1>4 DEF CalmMove
  <1>6. "config" \notin overlaps' => FileOfOne'
    <2>1. SUFFICES ASSUME "config" \notin overlaps' PROVE FileOfOne'
      OBVIOUS
    <2>2. FileOfOne /\ Writing(c) /\ Base(c) = {}
      BY <1>2, <2>1 DEF IInv, SoleWriter, Writing, Base
    <2>3. ledger = {}
      BY <2>2 DEF FileOfOne
    <2> QED
      BY <1>1, <1>2, <1>5, <2>2, <2>3, SecondHalf DEF Calm
  <1>7. overlaps \subseteq overlaps' /\ IsFile(config', SUBSET Project)
    BY <1>2, FileTypes
  <1> QED
    BY <1>2, <1>5, <1>6, <1>7, WriterTurn DEF Calm, HalfWay, Saving

LEMMA SaveTruncatesStep ==
  ASSUME IInv, NEW c \in Commands, SaveTruncates(c)
  PROVE  IInv'
  <1>1. cmd[c] \in CommandState /\ TypeOK
    BY DEF IInv, TypeOK
  <1>2. /\ registry' = registry /\ local' = local /\ daemon' = daemon /\ offline' = offline
        /\ ledger' = ledger /\ config' = Emptied
        /\ overlaps' = IF config # Holding(cmd[c].loaded) THEN overlaps \cup {"config"} ELSE overlaps
    BY DEF SaveTruncates, Truncate
  <1>3. PICK x \in CommandState :
          /\ cmd' = [cmd EXCEPT ![c] = x]
          /\ x.pc \in {"write", "write_remove"} /\ x.loaded = cmd[c].loaded
    <2>1. PICK pc \in {"write", "write_remove"} : Step(c, pc)
      BY DEF SaveTruncates
    <2>2. PICK x \in CommandState :
            cmd' = [cmd EXCEPT ![c] = x] /\ x = [cmd[c] EXCEPT !.pc = pc] /\ x.pc = pc
      BY <1>1, <2>1, Steps DEF Pcs
    <2> QED
      BY <1>1, <2>2 DEF CommandState
  <1>4. "config" \notin overlaps' => FileOfOne'
    <2>1. SUFFICES ASSUME "config" \notin overlaps' PROVE FileOfOne'
      OBVIOUS
    <2>2. FileOfOne /\ config = Holding(cmd[c].loaded)
      BY <1>2, <2>1 DEF IInv, SoleWriter
    <2>3. ledger = cmd[c].loaded /\ config # Emptied
      BY <2>2, Held, Empties DEF FileOfOne
    <2> QED
      BY <1>1, <1>2, <1>3, <2>2, <2>3, FirstHalf DEF HalfWay
  <1>5. overlaps \subseteq overlaps' /\ IsFile(config', SUBSET Project)
    BY <1>2, FileTypes
  <1> QED
    BY <1>2, <1>3, <1>4, <1>5, WriterTurn DEF Saving

LEMMA SaveWritesStep ==
  ASSUME IInv, NEW c \in Commands, SaveWrites(c)
  PROVE  IInv'
  <1>1. cmd[c] \in CommandState /\ TypeOK
    BY DEF IInv, TypeOK
  <1> DEFINE project == [id |-> cmd[c].id, path |-> cmd[c].path, git |-> cmd[c].git]
  <1>2. /\ registry' = registry /\ local' = local /\ daemon' = daemon /\ offline' = offline
        /\ ledger' = ledger \cup {project} /\ config' = Holding(cmd[c].loaded \cup {project})
        /\ overlaps' = IF config # Emptied THEN overlaps \cup {"config"} ELSE overlaps
        /\ cmd[c].pc = "write" /\ EndAdd(c)
    BY DEF SaveWrites, Write, AppendTo
  <1>3. CalmMove(c)
    <2>1. CASE End(c, "done")
      BY <1>1, <2>1, CalmEnd DEF Ended
    <2>2. CASE Step(c, "again")
      BY <1>1, <2>2, CalmStep DEF Calm, Pcs, HalfWay, Saving
    <2> QED
      BY <1>2, <2>1, <2>2 DEF EndAdd
  <1>4. PICK x \in CommandState : x.pc \in Calm /\ cmd' = [cmd EXCEPT ![c] = x]
    BY <1>3 DEF CalmMove
  <1>5. "config" \notin overlaps' => FileOfOne'
    <2>1. SUFFICES ASSUME "config" \notin overlaps' PROVE FileOfOne'
      OBVIOUS
    <2>2. FileOfOne /\ Writing(c) /\ Base(c) = cmd[c].loaded
      BY <1>2, <2>1 DEF IInv, SoleWriter, Writing, Base
    <2>3. config' = Holding(ledger')
      BY <1>2, <2>2 DEF FileOfOne
    <2> QED
      BY <1>1, <1>2, <1>4, <2>2, <2>3, SecondHalf DEF Calm
  <1>6. overlaps \subseteq overlaps' /\ IsFile(config', SUBSET Project)
    <2>1. project \in Project /\ cmd[c].loaded \in SUBSET Project
      BY <1>1 DEF CommandState, Project
    <2> QED
      BY <1>2, <2>1, FileTypes
  <1> QED
    BY <1>2, <1>4, <1>5, <1>6, WriterTurn DEF Calm, HalfWay, Saving

LEMMA RemoveWritesStep ==
  ASSUME IInv, NEW c \in Commands, RemoveWrites(c)
  PROVE  IInv'
  <1>1. cmd[c] \in CommandState /\ TypeOK
    BY DEF IInv, TypeOK
  <1>2. /\ registry' = registry /\ local' = local /\ daemon' = daemon /\ offline' = offline
        /\ ledger' = {p \in ledger : p.path # cmd[c].dir}
        /\ config' = Holding(cmd[c].loaded \ AtPath(c, cmd[c].loaded))
        /\ overlaps' = IF config # Emptied THEN overlaps \cup {"config"} ELSE overlaps
        /\ cmd[c].pc = "write_remove"
    BY DEF RemoveWrites, Write
  <1>3. CalmMove(c)
    <2>1. CASE End(c, "done")
      BY <1>1, <2>1, CalmEnd DEF Ended
    <2>2. CASE Step(c, "org")
      BY <1>1, <2>2, CalmStep DEF Calm, Pcs, HalfWay, Saving
    <2> QED
      BY <2>1, <2>2 DEF RemoveWrites
  <1>4. PICK x \in CommandState : x.pc \in Calm /\ cmd' = [cmd EXCEPT ![c] = x]
    BY <1>3 DEF CalmMove
  <1>5. "config" \notin overlaps' => FileOfOne'
    <2>1. SUFFICES ASSUME "config" \notin overlaps' PROVE FileOfOne'
      OBVIOUS
    <2>2. FileOfOne /\ Writing(c) /\ Base(c) = cmd[c].loaded
      BY <1>2, <2>1 DEF IInv, SoleWriter, Writing, Base
    <2>3. cmd[c].loaded \ AtPath(c, cmd[c].loaded) = {p \in ledger : p.path # cmd[c].dir}
      BY <2>2 DEF FileOfOne, AtPath
    <2> QED
      BY <1>1, <1>2, <1>4, <2>2, <2>3, SecondHalf DEF Calm
  <1>6. overlaps \subseteq overlaps' /\ IsFile(config', SUBSET Project)
    <2>1. cmd[c].loaded \in SUBSET Project
      BY <1>1 DEF CommandState
    <2> QED
      BY <1>2, <2>1, FileTypes
  <1> QED
    BY <1>2, <1>4, <1>5, <1>6, WriterTurn DEF Calm, HalfWay, Saving

LEMMA CommandStep ==
  ASSUME IInv, NEW c \in Commands, Command(c)
  PROVE  IInv'
  BY LoadGlobalConfigStep, CreateStep, FillStep, FindLocalConfigStep, CheckProjectOnServerStep,
     UpdateLocalConfigSelectionStep, UpdateOrgSelectionStep, UpdateGitSelectionStep, AddAgainStep,
     LocateStep, FindStep, InsertStep, SaveLocalConfigStep, SaveTruncatesStep, SaveWritesStep,
     DeleteLocalConfigStep, RemoveWritesStep
     DEF Command
-----------------------------------------------------------------------------
(* The steps of the daemon.                                                *)

LEMMA DownType ==
  Down \in DaemonState /\ Down.pc = "down" /\ [Down EXCEPT !.pc = "load"] \in DaemonState
  BY DEF Down, DaemonState

LEMMA LoadConfigStep ==
  ASSUME IInv, LoadConfig
  PROVE  IInv'
  <1>1. daemon \in DaemonState
    BY DEF IInv, TypeOK
  <1>2. PICK pc \in {"build", "add", "loop", "create"}, loaded \in SUBSET Project :
          daemon' = [daemon EXCEPT !.pc = pc, !.loaded = loaded]
    <2>1. CASE config.text # {}
      <3>1. Content(config) \in SUBSET Project
        BY <2>1, WholeFile DEF IInv, TypeOK
      <3>2. daemon' = [daemon EXCEPT !.pc = "build", !.loaded = Content(config)]
        BY <2>1, Empties DEF LoadConfig
      <3> QED
        BY <3>1, <3>2
    <2>2. CASE config.text = {}
      <3>1. PICK pc \in {"add", "loop", "create"} : daemon' = [daemon EXCEPT !.pc = pc]
        <4>1. config = Emptied \/ config = Absent
          BY <2>2, Held DEF IInv, TypeOK, IsFile
        <4> QED
          BY <2>2, <4>1, Empties DEF LoadConfig, AfterChange
      <3>2. daemon.loaded \in SUBSET Project
        BY <1>1 DEF DaemonState
      <3>3. daemon' = [daemon EXCEPT !.pc = pc, !.loaded = daemon.loaded]
        BY <1>1, <3>1 DEF DaemonState
      <3> QED
        BY <3>2, <3>3
    <2> QED
      BY <2>1, <2>2
  <1>3. daemon' \in DaemonState /\ daemon'.pc # "fill"
    BY <1>1, <1>2 DEF DaemonState
  <1> QED
    BY <1>3, DaemonTurn DEF LoadConfig, files

LEMMA SaveConfigStep ==
  ASSUME IInv, SaveConfig
  PROVE  IInv'
  <1>1. daemon \in DaemonState
    BY DEF IInv, TypeOK
  <1>2. /\ registry' = registry /\ local' = local /\ cmd' = cmd /\ ledger' = ledger
        /\ offline' = offline
    BY DEF SaveConfig
  <1>3. \/ /\ daemon.pc = "create" /\ config' = Emptied /\ daemon' = [daemon EXCEPT !.pc = "fill"]
           /\ overlaps' = IF config.there THEN overlaps \cup {"config"} ELSE overlaps
        \/ /\ daemon.pc = "fill" /\ config' = Holding({})
           /\ daemon' = [daemon EXCEPT !.pc = "build", !.loaded = {}]
           /\ overlaps' = IF config.text # {} THEN overlaps \cup {"config"} ELSE overlaps
    BY DEF SaveConfig
  <1>4. \A c \in Commands : Writing(c)' = Writing(c) /\ Base(c)' = Base(c)
    BY <1>2 DEF Writing, Base
  <1>5. TypeOK'
    <2>1. daemon' \in DaemonState
      BY <1>1, <1>3 DEF DaemonState
    <2>2. IsFile(config', SUBSET Project)
      BY <1>3, FileTypes
    <2> QED
      BY <1>2, <2>1, <2>2 DEF IInv, TypeOK
  <1>6. SoleWriter'
    <2>1. SUFFICES ASSUME "config" \notin overlaps' PROVE FileOfOne'
      BY DEF SoleWriter
    <2>2. FileOfOne
      BY <1>3, <2>1 DEF IInv, SoleWriter
    <2>3. CASE daemon.pc = "create"
      <3>1. ~config.there /\ config' = Emptied
        BY <1>3, <2>1, <2>3
      <3>2. config = Absent /\ ledger = {}
        BY <2>2, <3>1, Empties, Held DEF IInv, TypeOK, IsFile, FileOfOne
      <3>3. \A c \in Commands : ~Writing(c)
        BY <2>2, <3>2, Empties DEF FileOfOne
      <3> QED
        BY <1>2, <1>4, <3>1, <3>2, <3>3, Empties DEF FileOfOne
    <2>4. CASE daemon.pc = "fill"
      <3>1. ledger = {} /\ config' = Holding({}) /\ \A c \in Commands : ~Writing(c)
        BY <1>3, <2>2, <2>4 DEF FileOfOne
      <3>2. daemon'.pc # "fill"
        BY <1>1, <1>3, <2>4 DEF DaemonState
      <3> QED
        BY <1>2, <1>4, <3>1, <3>2, Held, Empties DEF FileOfOne
    <2> QED
      BY <1>3, <2>3, <2>4
  <1>7. SoleInserter'
    <2>1. \A c \in Commands : FindByConditions(cmd[c].id, URL(c), cmd[c].org)'
                                = FindByConditions(cmd[c].id, URL(c), cmd[c].org)
      BY <1>2 DEF FindByConditions, BuildSearchConditions, URL
    <2>2. "registry" \in overlaps => "registry" \in overlaps'
      BY <1>3
    <2> QED
      BY <1>2, <2>1, <2>2 DEF IInv, SoleInserter, RegistryOfOne, OneEach
  <1>8. SavesKnown' /\ LocalMatchesServer'
    BY <1>2 DEF IInv, SavesKnown, LocalMatchesServer
  <1> QED
    BY <1>5, <1>6, <1>7, <1>8 DEF IInv

LEMMA DaemonStep ==
  ASSUME IInv, Daemon \/ Start \/ Stop \/ UpdateTargets
  PROVE  IInv'
  <1>1. daemon \in DaemonState
    BY DEF IInv, TypeOK
  <1>2. CASE LoadConfig
    BY <1>2, LoadConfigStep
  <1>3. CASE SaveConfig
    BY <1>3, SaveConfigStep
  <1>4. CASE Publish
    <2>1. daemon' \in DaemonState /\ daemon'.pc # "fill"
      BY <1>1, <1>4 DEF Publish, AfterChange, DaemonState
    <2> QED
      BY <1>4, <2>1, DaemonTurn DEF Publish, files
  <1>5. CASE AddWatch
    <2>1. daemon' \in DaemonState /\ daemon'.pc # "fill"
      BY <1>1, <1>5 DEF AddWatch, DaemonState
    <2> QED
      BY <1>5, <2>1, DaemonTurn DEF AddWatch, files
  <1>6. CASE TakeEvent
    <2>1. daemon' \in DaemonState /\ daemon'.pc # "fill"
      BY <1>1, <1>6 DEF TakeEvent, DaemonState
    <2> QED
      BY <1>6, <2>1, DaemonTurn DEF TakeEvent, files
  <1>7. CASE Start
    <2>1. daemon' \in DaemonState /\ daemon'.pc # "fill"
      BY <1>7, DownType DEF Start, Down
    <2> QED
      BY <1>7, <2>1, DaemonTurn DEF Start, files
  <1>8. CASE Stop
    <2>1. daemon' \in DaemonState /\ daemon'.pc # "fill"
      BY <1>8, DownType DEF Stop
    <2> QED
      BY <1>8, <2>1, DaemonTurn DEF Stop, files
  <1>9. CASE UpdateTargets
    <2>1. daemon'.pc # "fill" \/ daemon' = daemon
      BY <1>9 DEF UpdateTargets
    <2> QED
      BY <1>9, SameState DEF UpdateTargets, files
  <1> QED
    BY <1>2, <1>3, <1>4, <1>5, <1>6, <1>7, <1>8, <1>9 DEF Daemon
-----------------------------------------------------------------------------
LEMMA Initially == Init => IInv
  <1> SUFFICES ASSUME Init PROVE IInv
    OBVIOUS
  <1>1. PICK w \in Worlds : registry = w.registry /\ config = w.config /\ local = w.local
    BY DEF Init
  <1>2. /\ IsFiniteSet(DOMAIN registry) /\ DOMAIN registry = 1 .. Cardinality(DOMAIN registry)
        /\ OneEach(registry) /\ IsFile(config, SUBSET Project)
        /\ local = [d \in Dirs |-> local[d]]
        /\ \A d \in Dirs :
             /\ IsFile(local[d], LocalConfig)
             /\ \A l \in local[d].text : l.org # NoOrg => Names(registry, l)
    BY <1>1, WorldsAssumption
  <1>3. /\ cmd \in [Commands -> CommandState]
        /\ \A c \in Commands : cmd[c].pc \in {"idle", "cancelled"}
    <2>1. [NewCommand EXCEPT !.pc = "cancelled"] \in CommandState
      BY Fresh DEF CommandState, Pcs, Ended
    <2>2. NewCommand.pc = "idle" /\ [NewCommand EXCEPT !.pc = "cancelled"].pc = "cancelled"
      BY DEF NewCommand
    <2> QED
      BY <2>1, <2>2, Fresh DEF Init
  <1>4. daemon = Down /\ ledger = UNION config.text
    BY DEF Init
  <1>5. TypeOK
    BY <1>2, <1>3, <1>4, DownType DEF TypeOK
  <1>6. FileOfOne
    <2>1. config.text \subseteq {ledger}
      <3>1. config = Absent \/ config = Emptied \/ \E x \in config.text : config = Holding(x)
        BY <1>2 DEF IsFile
      <3> QED
        BY <1>4, <3>1, Held, Empties
    <2>2. config = Absent => ledger = {}
      BY <1>4, Empties
    <2> QED
      BY <1>3, <1>4, <2>1, <2>2, DownType DEF FileOfOne, Writing
  <1>7. RegistryOfOne
    BY <1>2, <1>3 DEF RegistryOfOne
  <1>8. SavesKnown /\ LocalMatchesServer
    BY <1>2, <1>3 DEF SavesKnown, LocalMatchesServer
  <1> QED
    BY <1>5, <1>6, <1>7, <1>8 DEF IInv, SoleWriter, SoleInserter

LEMMA Consecution == IInv /\ [Next]_vars => IInv'
  <1> SUFFICES ASSUME IInv, [Next]_vars PROVE IInv'
    OBVIOUS
  <1>1. CASE UNCHANGED vars
    BY <1>1, SameState DEF vars, files, back
  <1>2. ASSUME NEW c \in Commands, Begin(c) \/ Command(c) \/ Killed(c)
        PROVE  IInv'
    BY <1>2, BeginStep, CommandStep, KilledStep
  <1>3. CASE Daemon \/ Start \/ Stop \/ UpdateTargets
    BY <1>3, DaemonStep
  <1> QED
    BY <1>1, <1>2, <1>3 DEF Next

LEMMA Invariant == Spec => []IInv
  BY Initially, Consecution, PTL DEF Spec
-----------------------------------------------------------------------------
(* Files, registry, commands and daemon have their types: a file is never   *)
(* but absent, emptied or whole.                                           *)
THEOREM TypeCorrect == Spec => []TypeOK
  <1>1. IInv => TypeOK
    BY DEF IInv
  <1> QED
    BY <1>1, Invariant, PTL

(* However many commands add and remove directories, fail, are killed or   *)
(* run beside the daemon: until one of them writes to config.json over     *)
(* what it did not read, the file holds what they would have made of it    *)
(* one after the other.                                                    *)
THEOREM SerialWithoutRaces == Spec => []SerialUnlessRaced
  <1>1. IInv => SerialUnlessRaced
    BY DEF IInv, SoleWriter, FileOfOne, SerialUnlessRaced
  <1> QED
    BY <1>1, Invariant, PTL

(* No number of clones, worktrees, retries and lost answers registers a    *)
(* repository twice in an organization before two registrations overlap.   *)
THEOREM RegisteredOnce == Spec => []OneProjectPerRepository
  <1>1. IInv => OneProjectPerRepository
    BY DEF IInv, SoleInserter, RegistryOfOne, OneProjectPerRepository
  <1> QED
    BY <1>1, Invariant, PTL

(* A local config that names an organization names a project of it, except *)
(* where it was last written without the API.                              *)
THEOREM LocalNamesProject == Spec => []LocalMatchesServer
  <1>1. IInv => LocalMatchesServer
    BY DEF IInv
  <1> QED
    BY <1>1, Invariant, PTL
=============================================================================
