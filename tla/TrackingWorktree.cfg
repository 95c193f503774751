SPECIFICATION Spec
CONSTANTS
  Dirs <- MCDirs
  ParentDir <- MCParentDir
  GitFile <- MCGitFile
  RemoteURL <- MCRemoteURL
  Worlds <- MCWorlds
  Asked = {"main", "tree"}
  Cwd = "main"
  Orgs = {"org1", "org2"}
  Commands = {1, 2}
  Runs <- OneCommand
  Buffer = 1
  MaxProjects = 5
  MaxEvents = 2
  MaxKills = 0
  MaxFailures = 0
CHECK_DEADLOCK FALSE
INVARIANTS RepositoryRegistered
