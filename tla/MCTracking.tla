----------------------------- MODULE MCTracking ----------------------------
(* A repository with a worktree beside it, the directory above both, and   *)
(* four machines: an empty one, one that tracks the repository, a fresh    *)
(* clone of a repository whose .cops is committed, and one whose local     *)
(* config has no organization.                                             *)
EXTENDS Tracking

MCDirs == {"projects", "main", "tree"}
MCParentDir == [d \in MCDirs |-> IF d = "projects" THEN "home" ELSE "projects"]
MCGitFile == [projects |-> "none", main |-> "directory", tree |-> "main"]
MCRemoteURL == [projects |-> "", main |-> "url", tree |-> "url"]

Tracked == Holding({[id |-> 1, path |-> "main", git |-> TRUE]})
Nowhere == [d \in MCDirs |-> Absent]
Of(org) == [Nowhere EXCEPT !["main"] = Holding([id |-> 1, org |-> org])]
Known(org) == [p \in {1} |-> [org |-> org, url |-> "url"]]
NoProjects == [p \in {} |-> {}]

World(registered, global, locals) == [registry |-> registered, config |-> global, local |-> locals]
MCWorlds ==
  {World(NoProjects, Absent, Nowhere)}
    \cup {World(Known("org1"), Tracked, Of("org1")), World(Known("org1"), Holding({}), Of("org1")),
          World(Known("org1"), Tracked, Of(NoOrg))}

(* Two commands without the daemon, or one beside a daemon that is started  *)
(* twice.                                                                  *)
TwoCommands == [commands |-> {1, 2}, starts |-> 0]
OneBesideDaemon == [commands |-> {1}, starts |-> 2]
AllRuns == {TwoCommands, OneBesideDaemon}
OneCommand == {[commands |-> {1}, starts |-> 0]}
============================================================================
