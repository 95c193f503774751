SPECIFICATION FairSpec
CONSTANTS
  Dirs <- MCDirs
  ParentDir <- MCParentDir
  GitFile <- MCGitFile
  RemoteURL <- MCRemoteURL
  Worlds <- MCWorlds
  Asked = {"main", "tree"}
  Cwd = "main"
  Orgs = {"org1", "org2"}
  Commands = {1, 2}
  Runs <- AllRuns
  Buffer = 1
  MaxProjects = 5
  MaxEvents = 2
  MaxKills = 1
  MaxFailures = 1
CHECK_DEADLOCK FALSE
INVARIANTS SerialUnlessRaced OneProjectPerRepository LocalMatchesServer
PROPERTIES Converges
