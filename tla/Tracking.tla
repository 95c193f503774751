------------------------------ MODULE Tracking -----------------------------
(***************************************************************************)
(* Which directories are tracked: the commands `cops add` and `cops        *)
(* remove`, the files they write, the project registry of the API and the  *)
(* daemon, which turns the files into the targets that it watches.         *)
(*                                                                         *)
(* Commands share config.json with each other and with the daemon without  *)
(* a lock (the mutex of the adapter is of one process), and os.WriteFile   *)
(* truncates before it writes. Every file operation, API query and answer  *)
(* of the user is a step. A command may be killed anywhere, a call to the  *)
(* API may fail or lose its answer, the daemon may stop and start again.   *)
(***************************************************************************)
EXTENDS Naturals, FiniteSets, FiniteSetsExt, Sequences

CONSTANTS
  Dirs,         \* directories below the home directory
  ParentDir,    \* the directory above each, "home" above the topmost
  GitFile,      \* what .git is in each: "none", "directory", or, in a worktree,
                \* the main repository that its gitdir line points into
  RemoteURL,    \* url of origin, "" where git finds none
  Asked,        \* directories given to the commands
  Cwd,          \* where the commands are run
  Orgs,         \* organizations of the user
  Commands,     \* 1 .. n, the commands run
  Worlds,       \* what is there at first
  Buffer,       \* capacity of the channel between the two watchers
  Runs,         \* bound: which commands are run beside how many starts of the daemon
  MaxProjects, MaxEvents, MaxKills, MaxFailures  \* bounds

ASSUME TrackingAssumption ==
  /\ Asked \subseteq Dirs /\ Cwd \in Dirs
  /\ \A d \in Dirs : \/ GitFile[d] \in {"none", "directory"}
                     \/ GitFile[d] \in Dirs /\ ParentDir[GitFile[d]] \in Dirs
  /\ Commands \subseteq Nat /\ Buffer \in Nat \ {0}
  /\ {MaxProjects, MaxEvents, MaxKills, MaxFailures} \subseteq Nat
  /\ \A r \in Runs : r.commands \subseteq Commands /\ r.starts \in Nat

VARIABLES
  registry,   \* the projects collection: org and url by project id
  config,     \* ~/.cops/config.json
  local,      \* .cops/config.json of each directory
  cmd,        \* the commands
  daemon,     \* the configuration watcher
  events,     \* inotify events of config.json that it has not taken
  channel,    \* target lists published and not taken
  watched,    \* targets the log watcher has
  starts, kills, failures,  \* for the bounds: starts of the daemon left, kills, failures
  ledger,     \* history: config.json as the commands one by one would have left it
  overlaps,   \* history: which read-then-write sections met another write
  offline,    \* history: directories whose local config was written without the API
  missed      \* history: why the daemon may not know the files as they are

files == <<config, local>>
back == <<daemon, events, channel, watched>>
bounds == <<starts, kills, failures>>
vars == <<registry, files, cmd, back, bounds, ledger, overlaps, offline, missed>>
-----------------------------------------------------------------------------
Ids == 1 .. MaxProjects
NoOrg == "no org"

(* A file: text has no element while the file is empty, else its content.  *)
Absent == [there |-> FALSE, text |-> {}]
Emptied == [there |-> TRUE, text |-> {}]
Holding(content) == [there |-> TRUE, text |-> {content}]
Content(f) == CHOOSE content \in f.text : TRUE

NewCommand == [pc |-> "idle", op |-> "none", dir |-> Cwd, noGit |-> FALSE, org |-> NoOrg,
               path |-> Cwd, git |-> FALSE, asRepo |-> FALSE, id |-> 0, loaded |-> {},
               then |-> "none", found |-> FALSE, again |-> FALSE, offline |-> FALSE,
               unlinked |-> FALSE]
Ended == {"idle", "done", "failed", "cancelled", "killed"}

(* What the files hold.                                                    *)
Project == [id : Nat, path : Dirs, git : BOOLEAN]
LocalConfig == [id : Nat, org : Orgs \cup {NoOrg}]
IsFile(f, Contents) ==
  /\ f = Absent \/ f = Emptied \/ \E content \in f.text : f = Holding(content)
  /\ f.text \subseteq Contents

OneEach(projects) ==
  \A p, q \in DOMAIN projects : projects[p].url # "" /\ projects[p] = projects[q] => p = q
Names(projects, l) == l.id \in DOMAIN projects /\ projects[l.id].org = l.org

(* What earlier commands have left: projects with ids in their order, no   *)
(* repository twice, and local configs that name them.                     *)
ASSUME WorldsAssumption ==
  \A w \in Worlds :
    /\ IsFiniteSet(DOMAIN w.registry) /\ DOMAIN w.registry = 1 .. Cardinality(DOMAIN w.registry)
    /\ OneEach(w.registry)
    /\ IsFile(w.config, SUBSET Project)
    /\ w.local = [d \in Dirs |-> w.local[d]]
    /\ \A d \in Dirs :
         /\ IsFile(w.local[d], LocalConfig)
         /\ \A l \in w.local[d].text : l.org # NoOrg => Names(w.registry, l)
-----------------------------------------------------------------------------
(* gitutil.go of the CLI                                                   *)

IsGitRepo(d) == GitFile[d] # "none"

(* The gitdir line of a worktree is <main>/.git/worktrees/<name>; the code  *)
(* goes up three levels, to <main>, and then one more.                     *)
FindMainRepoPath(d) ==
  IF GitFile[d] = "directory" THEN d ELSE ParentDir[GitFile[d]]

Above[d \in Dirs] ==
  IF ParentDir[d] \in Dirs THEN {ParentDir[d]} \cup Above[ParentDir[d]] ELSE {}

FindGitReposInParents(d) == {p \in Dirs : p \in Above[d] /\ IsGitRepo(p)}

(* The repositories the user can choose from.                              *)
DetectGitRepos(d) ==
  FindGitReposInParents(d) \cup {FindMainRepoPath(r) : r \in {d} \cap {x \in Dirs : IsGitRepo(x)}}

(* ListWorktrees and the daemon's GetWorktrees, without the main path.     *)
GetWorktrees(d) == {w \in Dirs : GitFile[w] = d}
-----------------------------------------------------------------------------
(* project_repo.go                                                         *)

(* Mutant: the url condition is left out.                                  *)
BuildSearchConditionsById(id, url) == {p \in DOMAIN registry : p = id}

BuildSearchConditions(id, url) ==
  {p \in DOMAIN registry : p = id \/ (url # "" /\ registry[p].url = url)}

(* Mutant: the organization is left out of the filter.                     *)
FindByConditionsAnywhere(id, url, org) == BuildSearchConditions(id, url)

FindByConditions(id, url, org) ==
  {p \in BuildSearchConditions(id, url) : registry[p].org = org}

CreateProject(org, url) ==
  LET id == Cardinality(DOMAIN registry) + 1 IN
  registry' = [p \in DOMAIN registry \cup {id} |->
                 IF p = id THEN [org |-> org, url |-> url] ELSE registry[p]]

GetByIDAndOrg(id, org) == Names(registry, [id |-> id, org |-> org])
-----------------------------------------------------------------------------
(* configwatcher_service.go                                                *)

Target(d, type) ==
  [path |-> d, id |-> Content(local[d]).id, org |-> Content(local[d]).org, type |-> type]

(* A directory whose local config cannot be read, or has no organization,   *)
(* gives no target, and then neither do its worktrees.                     *)
HasLocal(d) == local[d].text # {} /\ Content(local[d]).org # NoOrg

BuildWatchTargets(projects) ==
  LET roots == {p \in projects : HasLocal(p.path)}
      trees == UNION {GetWorktrees(p.path) : p \in {q \in roots : q.git}}
  IN {Target(p.path, "root") : p \in roots}
       \cup {Target(w, "worktree") : w \in {v \in trees : HasLocal(v)}}

(* What happens to a write to config.json on the daemon's side: an event,   *)
(* or nothing when the file is not watched yet.                            *)
Notify ==
  /\ events' = IF daemon.watching THEN Min({events + 1, MaxEvents}) ELSE events
  /\ missed' = IF daemon.pc # "down" /\ ~daemon.watching THEN missed \cup {"start"} ELSE missed

(* The two halves of os.WriteFile on config.json.                          *)
Truncate == config' = Emptied /\ Notify
Write(projects) == config' = Holding(projects) /\ Notify
-----------------------------------------------------------------------------
Fails == failures < MaxFailures /\ failures' = failures + 1

Step(c, pc) == cmd' = [cmd EXCEPT ![c].pc = pc]

(* The end of a command: only what it was about is kept.                   *)
End(c, pc) ==
  cmd' = [cmd EXCEPT ![c] = [NewCommand EXCEPT !.pc = pc, !.op = cmd[c].op,
    !.dir = cmd[c].dir, !.path = cmd[c].path, !.asRepo = cmd[c].asRepo]]

(* Both commands, and the first step of each. Commands start in their      *)
(* order: they are alike, so no other order needs to be looked at.         *)
Begin(c) ==
  /\ cmd[c].pc = "idle"
  /\ \A b \in Commands : b < c => cmd[b].pc # "idle"
  /\ \E d \in Asked :
       \/ \E noGit \in BOOLEAN : cmd' = [cmd EXCEPT ![c] =
             [NewCommand EXCEPT !.pc = "detect", !.op = "add", !.dir = d, !.noGit = noGit]]
       \/ cmd' = [cmd EXCEPT ![c] =
             [NewCommand EXCEPT !.pc = "delete", !.op = "remove", !.dir = d]]
  /\ UNCHANGED <<registry, files, back, bounds, ledger, overlaps, offline, missed>>
-----------------------------------------------------------------------------
(* LoadGlobalConfig, for its three callers, who go on in different ways.   *)

Registered(c, projects) == \E p \in projects : p.id = cmd[c].id
AtPath(c, projects) == {p \in projects : p.path = cmd[c].dir}
AfterRemove(c) == IF cmd[c].op = "add" THEN "org" ELSE "done"
AfterAdd(c) == IF cmd[c].again THEN "again" ELSE "done"

AfterLoad(c, caller, projects) ==
  CASE caller = "detect_global" -> IF cmd[c].org = NoOrg THEN "choice" ELSE "server"
    [] caller = "load" -> IF Registered(c, projects) THEN AfterAdd(c) ELSE "trunc"
    [] caller = "load_remove" -> IF AtPath(c, projects) # {} THEN "trunc_remove" ELSE AfterRemove(c)

Loaded(c, caller, projects) ==
  IF AfterLoad(c, caller, projects) = "done"
  THEN End(c, "done")
  ELSE cmd' = [cmd EXCEPT ![c].pc = AfterLoad(c, caller, projects), ![c].loaded = projects,
                          ![c].then = "none"]

LoadGlobalConfig(c) ==
  /\ cmd[c].pc \in {"detect_global", "load", "load_remove"}
  /\ \/ config.text # {} /\ Loaded(c, cmd[c].pc, Content(config))
     \/ config = Emptied /\ End(c, "failed")
     \/ config = Absent /\ cmd' = [cmd EXCEPT ![c].pc = "create", ![c].then = cmd[c].pc]
  /\ UNCHANGED <<registry, files, back, bounds, ledger, overlaps, offline, missed>>

(* A config.json that was not there is made; another process may have made *)
(* it since.                                                               *)
Create(c) ==
  /\ cmd[c].pc = "create"
  /\ overlaps' = IF config.there THEN overlaps \cup {"config"} ELSE overlaps
  /\ Truncate /\ Step(c, "fill")
  /\ UNCHANGED <<registry, local, daemon, channel, watched, bounds, ledger, offline>>

Fill(c) ==
  /\ cmd[c].pc = "fill"
  /\ overlaps' = IF config.text # {} THEN overlaps \cup {"config"} ELSE overlaps
  /\ Write({}) /\ Loaded(c, cmd[c].then, {})
  /\ UNCHANGED <<registry, local, daemon, channel, watched, bounds, ledger, offline>>
-----------------------------------------------------------------------------
(* The dialogue of `cops add`.                                             *)

FindLocalConfig(c) ==
  /\ cmd[c].pc = "detect"
  /\ LET d == cmd[c].dir IN
       \/ local[d] = Absent /\ Step(c, "org")
       \/ local[d] = Emptied /\ End(c, "failed")
       \/ /\ local[d].text # {}
          /\ cmd' = [cmd EXCEPT ![c].pc = "detect_global", ![c].id = Content(local[d]).id,
                                ![c].org = Content(local[d]).org]
  /\ UNCHANGED <<registry, files, back, bounds, ledger, overlaps, offline, missed>>

(* An error of the API counts as not found; one of the sign-in ends it.    *)
CheckProjectOnServer(c) ==
  /\ cmd[c].pc = "server"
  /\ \/ /\ cmd' = [cmd EXCEPT ![c].pc = "choice",
                             ![c].found = GetByIDAndOrg(cmd[c].id, cmd[c].org)]
        /\ UNCHANGED failures
     \/ Fails /\ (Step(c, "choice") \/ End(c, "failed"))
  /\ UNCHANGED <<registry, files, back, starts, kills, ledger, overlaps, offline, missed>>

(* What the user is offered depends on the server and on config.json as    *)
(* they were when they were asked.                                         *)
UpdateLocalConfigSelection(c) ==
  LET known == Registered(c, cmd[c].loaded) IN
  /\ cmd[c].pc = "choice"
  /\ \/ End(c, "cancelled")
     \/ (cmd[c].found => known) /\ Step(c, "delete")
     \/ /\ cmd[c].found /\ ~known
        /\ \/ cmd' = [cmd EXCEPT ![c].pc = "locate", ![c].path = cmd[c].dir, ![c].asRepo = TRUE,
                                  ![c].again = TRUE]
           \/ Step(c, "org")
  /\ UNCHANGED <<registry, files, back, bounds, ledger, overlaps, offline, missed>>

UpdateOrgSelection(c) ==
  /\ cmd[c].pc = "org"
  /\ \/ \E org \in Orgs : cmd' = [cmd EXCEPT ![c].pc = "git", ![c].org = org]
        /\ UNCHANGED failures
     \/ End(c, "cancelled") /\ UNCHANGED failures
     \/ Fails /\ End(c, "failed")
  /\ UNCHANGED <<registry, files, back, starts, kills, ledger, overlaps, offline, missed>>

(* The repository, or the directory itself, and then the name and whether   *)
(* to send past logs: the request to the daemon that the latter makes after *)
(* the project was added changes nothing here.                             *)
UpdateGitSelection(c) ==
  LET repos == IF cmd[c].noGit THEN {} ELSE DetectGitRepos(cmd[c].dir) IN
  /\ cmd[c].pc = "git"
  /\ \/ End(c, "cancelled")
     \/ \E r \in repos :
          cmd' = [cmd EXCEPT ![c].pc = "locate", ![c].path = r, ![c].asRepo = TRUE]
     \/ cmd' = [cmd EXCEPT ![c].pc = "locate", ![c].path = cmd[c].dir, ![c].asRepo = FALSE]
  /\ UNCHANGED <<registry, files, back, bounds, ledger, overlaps, offline, missed>>

(* "Connect to existing project" has added the project; the command, whose  *)
(* dialogue yields an organization and no path, adds a second time. An     *)
(* empty path is the working directory, and not as a repository.           *)
AddAgain(c) ==
  /\ cmd[c].pc = "again"
  /\ cmd' = [cmd EXCEPT ![c].pc = "locate", ![c].path = Cwd, ![c].asRepo = FALSE,
                        ![c].again = FALSE]
  /\ UNCHANGED <<registry, files, back, bounds, ledger, overlaps, offline, missed>>
-----------------------------------------------------------------------------
(* AddProject                                                              *)

Locate(c) ==
  LET git == cmd[c].asRepo /\ IsGitRepo(cmd[c].path)
      path == IF git THEN FindMainRepoPath(cmd[c].path) ELSE cmd[c].path
      found == [cmd[c] EXCEPT !.pc = "find", !.path = path, !.git = git, !.offline = FALSE]
  IN
  /\ cmd[c].pc = "locate"
  /\ \/ local[path] = Absent /\ cmd' = [cmd EXCEPT ![c] = [found EXCEPT !.id = 0]]
     \/ local[path] = Emptied /\ End(c, "failed")
     \/ /\ local[path].text # {}
        /\ cmd' = [cmd EXCEPT ![c] = [found EXCEPT !.id = Content(local[path]).id]]
  /\ UNCHANGED <<registry, files, back, bounds, ledger, overlaps, offline, missed>>

URL(c) == IF cmd[c].git THEN RemoteURL[cmd[c].path] ELSE ""

(* The API cannot be reached, or its answer is lost: the id in the local   *)
(* config is good enough, with whatever organization was asked for.        *)
Unreachable(c) ==
  IF cmd[c].id # 0
  THEN cmd' = [cmd EXCEPT ![c].pc = "trunc_local", ![c].offline = TRUE]
  ELSE End(c, "failed")

Find(c) ==
  LET matches == FindByConditions(cmd[c].id, URL(c), cmd[c].org) IN
  /\ cmd[c].pc = "find"
  /\ \/ /\ \E p \in matches : cmd' = [cmd EXCEPT ![c].pc = "trunc_local", ![c].id = p]
        /\ UNCHANGED <<failures, overlaps>>
     \/ /\ matches = {} /\ Step(c, "insert") /\ UNCHANGED failures
        /\ overlaps' = IF \E b \in Commands : cmd[b].pc = "insert"
                       THEN overlaps \cup {"registry"} ELSE overlaps
     \/ Fails /\ Unreachable(c) /\ UNCHANGED overlaps
  /\ UNCHANGED <<registry, files, back, starts, kills, ledger, offline, missed>>

Insert(c) ==
  /\ cmd[c].pc = "insert" /\ Cardinality(DOMAIN registry) < MaxProjects
  /\ \/ /\ CreateProject(cmd[c].org, URL(c))
        /\ \/ /\ cmd' = [cmd EXCEPT ![c].pc = "trunc_local",
                                     ![c].id = Cardinality(DOMAIN registry) + 1]
              /\ UNCHANGED failures
           \/ Fails /\ Unreachable(c)
     \/ Fails /\ Unreachable(c) /\ UNCHANGED registry
  /\ UNCHANGED <<files, back, starts, kills, ledger, overlaps, offline, missed>>

SaveLocalConfig(c) ==
  LET d == cmd[c].path
      saved == [id |-> cmd[c].id, org |-> cmd[c].org]
  IN
  /\ \/ /\ cmd[c].pc = "trunc_local" /\ local' = [local EXCEPT ![d] = Emptied]
        /\ cmd' = [cmd EXCEPT ![c].pc = "write_local", ![c].unlinked = FALSE]
        /\ UNCHANGED offline
     \/ /\ cmd[c].pc = "write_local" /\ Step(c, "load")
        /\ IF cmd[c].unlinked THEN UNCHANGED <<local, offline>> ELSE
             /\ local' = [local EXCEPT ![d] = Holding(saved)]
             /\ offline' = IF cmd[c].offline THEN offline \cup {d} ELSE offline \ {d}
  /\ missed' = missed \cup {"local"}
  /\ UNCHANGED <<registry, config, back, bounds, ledger, overlaps>>

(* Mutant: what is saved is the new project only.                          *)
AppendToNone(projects, project) == {project}

AppendTo(projects, project) == projects \cup {project}

SaveTruncates(c) ==
  /\ cmd[c].pc \in {"trunc", "trunc_remove"}
  /\ overlaps' = IF config # Holding(cmd[c].loaded) THEN overlaps \cup {"config"} ELSE overlaps
  /\ Truncate /\ Step(c, IF cmd[c].pc = "trunc" THEN "write" ELSE "write_remove")
  /\ UNCHANGED <<registry, local, daemon, channel, watched, bounds, ledger, offline>>

EndAdd(c) == IF AfterAdd(c) = "done" THEN End(c, "done") ELSE Step(c, "again")

SaveWrites(c) ==
  LET project == [id |-> cmd[c].id, path |-> cmd[c].path, git |-> cmd[c].git] IN
  /\ cmd[c].pc = "write"
  /\ Write(AppendTo(cmd[c].loaded, project)) /\ EndAdd(c)
  /\ overlaps' = IF config # Emptied THEN overlaps \cup {"config"} ELSE overlaps
  /\ ledger' = ledger \cup {project}
  /\ UNCHANGED <<registry, local, daemon, channel, watched, bounds, offline>>
-----------------------------------------------------------------------------
(* RemoveProjectByPath: the command `cops remove`, and the reset of `add`. *)

DeleteLocalConfig(c) ==
  LET d == cmd[c].dir IN
  /\ cmd[c].pc = "delete"
  /\ local' = [local EXCEPT ![d] = Absent]
  /\ offline' = offline \ {d}
  /\ cmd' = [b \in Commands |->
       CASE b = c -> [cmd[b] EXCEPT !.pc = "load_remove"]
         [] b # c /\ cmd[b].pc = "write_local" /\ cmd[b].path = d -> [cmd[b] EXCEPT !.unlinked = TRUE]
         [] OTHER -> cmd[b]]
  /\ missed' = missed \cup {"local"}
  /\ UNCHANGED <<registry, config, back, bounds, ledger, overlaps>>

RemoveWrites(c) ==
  /\ cmd[c].pc = "write_remove"
  /\ Write(cmd[c].loaded \ AtPath(c, cmd[c].loaded))
  /\ IF cmd[c].op = "add" THEN Step(c, "org") ELSE End(c, "done")
  /\ overlaps' = IF config # Emptied THEN overlaps \cup {"config"} ELSE overlaps
  /\ ledger' = {p \in ledger : p.path # cmd[c].dir}
  /\ UNCHANGED <<registry, local, daemon, channel, watched, bounds, offline>>

Killed(c) ==
  /\ kills < MaxKills /\ kills' = kills + 1
  /\ cmd[c].pc \notin Ended /\ End(c, "killed")
  /\ UNCHANGED <<registry, files, back, starts, failures, ledger, overlaps, offline, missed>>

Command(c) ==
  \/ LoadGlobalConfig(c) \/ Create(c) \/ Fill(c)
  \/ FindLocalConfig(c) \/ CheckProjectOnServer(c) \/ UpdateLocalConfigSelection(c)
  \/ UpdateOrgSelection(c) \/ UpdateGitSelection(c) \/ AddAgain(c)
  \/ Locate(c) \/ Find(c) \/ Insert(c) \/ SaveLocalConfig(c)
  \/ SaveTruncates(c) \/ SaveWrites(c) \/ DeleteLocalConfig(c) \/ RemoveWrites(c)
-----------------------------------------------------------------------------
(* The daemon: the handlers of configwatcher and of logwatcher.            *)

Down == [pc |-> "down", watching |-> FALSE, loaded |-> {}]

Start ==
  /\ daemon.pc = "down" /\ starts > 0 /\ starts' = starts - 1
  /\ daemon' = [Down EXCEPT !.pc = "load"]
  /\ UNCHANGED <<registry, files, cmd, events, channel, watched, kills, failures, ledger, overlaps,
                 offline, missed>>

(* After the first load the file is watched, later loads end in the loop.  *)
AfterChange == IF daemon.watching THEN "loop" ELSE "add"

LoadConfig ==
  /\ daemon.pc = "load"
  /\ daemon' = CASE config.text # {} -> [daemon EXCEPT !.pc = "build", !.loaded = Content(config)]
                 [] config = Emptied -> [daemon EXCEPT !.pc = AfterChange]
                 [] config = Absent -> [daemon EXCEPT !.pc = "create"]
  /\ missed' = missed \ {"start"}
  /\ UNCHANGED <<registry, files, cmd, events, channel, watched, bounds, ledger, overlaps, offline>>

SaveConfig ==
  /\ \/ /\ daemon.pc = "create" /\ config' = Emptied
        /\ daemon' = [daemon EXCEPT !.pc = "fill"]
        /\ overlaps' = IF config.there THEN overlaps \cup {"config"} ELSE overlaps
     \/ /\ daemon.pc = "fill" /\ config' = Holding({})
        /\ daemon' = [daemon EXCEPT !.pc = "build", !.loaded = {}]
        /\ overlaps' = IF config.text # {} THEN overlaps \cup {"config"} ELSE overlaps
  /\ UNCHANGED <<registry, local, cmd, events, channel, watched, bounds, ledger, offline, missed>>

(* The local configs are read in one step. A full channel loses what is    *)
(* published: the newest.                                                  *)
Publish ==
  /\ daemon.pc = "build"
  /\ daemon' = [daemon EXCEPT !.pc = AfterChange, !.loaded = {}]
  /\ IF Len(channel) < Buffer
       THEN /\ channel' = Append(channel, BuildWatchTargets(daemon.loaded))
            /\ missed' = missed \ {"local", "dropped"}
       ELSE UNCHANGED channel /\ missed' = missed \cup {"dropped"}
  /\ UNCHANGED <<registry, files, cmd, events, watched, bounds, ledger, overlaps, offline>>

AddWatch ==
  /\ daemon.pc = "add" /\ config.there
  /\ daemon' = [daemon EXCEPT !.pc = "loop", !.watching = TRUE]
  /\ UNCHANGED <<registry, files, cmd, events, channel, watched, bounds, ledger, overlaps, offline,
                 missed>>

(* Mutant: only the creation of a file counts.                             *)
TakeCreated ==
  /\ daemon.pc = "loop" /\ events > 0 /\ events' = events - 1
  /\ UNCHANGED <<registry, files, cmd, daemon, channel, watched, bounds, ledger, overlaps, offline,
                 missed>>

TakeEvent ==
  /\ daemon.pc = "loop" /\ events > 0 /\ events' = events - 1
  /\ daemon' = [daemon EXCEPT !.pc = "load"]
  /\ UNCHANGED <<registry, files, cmd, channel, watched, bounds, ledger, overlaps, offline, missed>>

UpdateTargets ==
  /\ channel # <<>> /\ watched' = Head(channel) /\ channel' = Tail(channel)
  /\ UNCHANGED <<registry, files, cmd, daemon, events, bounds, ledger, overlaps, offline, missed>>

(* Nothing of it is kept.                                                  *)
Stop ==
  /\ daemon.pc # "down"
  /\ daemon' = Down /\ events' = 0 /\ channel' = <<>> /\ watched' = {} /\ missed' = {}
  /\ UNCHANGED <<registry, files, cmd, bounds, ledger, overlaps, offline>>

Daemon == LoadConfig \/ SaveConfig \/ Publish \/ AddWatch \/ TakeEvent

Init ==
  /\ \E w \in Worlds : registry = w.registry /\ config = w.config /\ local = w.local
  /\ \E r \in Runs :
       /\ cmd = [c \in Commands |-> IF c \in r.commands THEN NewCommand
                                    ELSE [NewCommand EXCEPT !.pc = "cancelled"]]
       /\ starts = r.starts
  /\ daemon = Down /\ events = 0 /\ channel = <<>> /\ watched = {}
  /\ kills = 0 /\ failures = 0
  /\ ledger = UNION config.text
  /\ overlaps = {} /\ offline = {} /\ missed = {}

Next ==
  \/ \E c \in Commands : Begin(c) \/ Command(c) \/ Killed(c)
  \/ Start \/ Daemon \/ UpdateTargets \/ Stop

(* What runs keeps running: the daemon's two goroutines. Nobody must start  *)
(* a command or answer its questions.                                      *)
Fairness == WF_vars(Daemon) /\ WF_vars(UpdateTargets)

Spec == Init /\ [][Next]_vars
FairSpec == Spec /\ Fairness
-----------------------------------------------------------------------------
Pcs ==
  Ended \cup {"detect", "detect_global", "server", "choice", "delete", "load_remove", "trunc_remove",
             "write_remove", "org", "git", "locate", "find", "insert", "trunc_local", "write_local",
             "load", "create", "fill", "trunc", "write", "again"}

CommandState ==
  [pc : Pcs,
   op : {"none", "add", "remove"}, dir : Dirs, noGit : BOOLEAN, org : Orgs \cup {NoOrg},
   path : Dirs, git : BOOLEAN, asRepo : BOOLEAN, id : Nat, loaded : SUBSET Project,
   then : {"none", "detect_global", "load", "load_remove"}, found : BOOLEAN, again : BOOLEAN,
   offline : BOOLEAN, unlinked : BOOLEAN]

DaemonState ==
  [pc : {"down", "load", "create", "fill", "build", "add", "loop"}, watching : BOOLEAN,
   loaded : SUBSET Project]

(* The files are never but absent, emptied or whole, and a command knows   *)
(* for what it loads config.json.                                          *)
TypeOK ==
  /\ IsFiniteSet(DOMAIN registry) /\ DOMAIN registry = 1 .. Cardinality(DOMAIN registry)
  /\ IsFile(config, SUBSET Project)
  /\ local = [d \in Dirs |-> local[d]] /\ \A d \in Dirs : IsFile(local[d], LocalConfig)
  /\ cmd \in [Commands -> CommandState]
  /\ \A c \in Commands : cmd[c].pc \in {"create", "fill"} => cmd[c].then # "none"
  /\ daemon \in DaemonState

(* config.json holds what the commands that were run, one after the other,  *)
(* would have made of it (SaveGlobalConfig, tracking_service.go:205, :328), *)
(* unless one of them, or the daemon when it made the missing file, read    *)
(* the file before another wrote it and wrote after.                       *)
SerialUnlessRaced ==
  "config" \notin overlaps => \A projects \in config.text : projects = ledger

(* The registry has one project of a url in an organization, however many   *)
(* clones, worktrees, retries and lost answers (FindOrCreate,              *)
(* project_repo.go:31), unless two registrations were both between the     *)
(* query and the insertion.                                                *)
OneProjectPerRepository ==
  "registry" \notin overlaps => OneEach(registry)

(* A local config names a project of the organization it names, so that    *)
(* the logs of the directory are accepted, unless it was written when the  *)
(* API could not be reached (tracking_service.go:150).                     *)
LocalMatchesServer ==
  \A d \in Dirs \ offline : \A l \in local[d].text : l.org # NoOrg => Names(registry, l)

(* The log watcher ends up with the targets that the files ask for, unless  *)
(* config.json was left empty, or the daemon was not told of the last      *)
(* change: it fell between the first load and the watch, nothing but a     *)
(* local config changed, or the channel was full.                          *)
Converges ==
  <>[](daemon.pc = "down" \/ config.text = {} \/ missed # {} \/
       \A projects \in config.text : watched = BuildWatchTargets(projects))

(* What the command's help says of a worktree, that the main repository is  *)
(* registered: what was chosen as a repository is one (add.go:26).         *)
RepositoryRegistered ==
  \A c \in Commands :
    cmd[c].pc = "done" /\ cmd[c].op = "add" /\ cmd[c].asRepo => IsGitRepo(cmd[c].path)

=============================================================================
