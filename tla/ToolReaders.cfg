SPECIFICATION Spec
CONSTANTS
  Configs <- MCConfigs
  Dirs <- MCDirs
  Base = "base"
  Above <- MCAbove
  Old <- MCOld
  Files <- MCFiles
  Tool <- MCTool
  Dir <- MCDir
  Cwd <- MCCwd
  MaxLength = 2
  MaxTime = 2
  MaxStarts = 2
  MaxChanges = 1
  MaxEvents = 2
   
PROPERTIES ResolvedByPath
CHECK_DEADLOCK FALSE
