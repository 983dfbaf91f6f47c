SPECIFICATION AlgSpec
CONSTANTS
  NoText = NoText
  NoOutput = NoOutput
  NoLog = NoLog
  Within <- MCWithin
  Block = 2
  NameMax = 3
  PrefixMax = 4
  SizeDigits = 1
  NameOrder <- MCNameOrder
  NameLen <- MCNameLen
  LocalRoot <- MCLocalRoot
  Chunk = 2
  MaxRead = 6
  PatchInputs <- MCPatchInputs
  FileTexts <- MCContents
  Hunks <- MCHunks
  Trees <- MCTrees
  Foreign <- MCForeign
  ClientPaths <- MCPaths
  Bases <- MCBases
  Logs <- MCLogs
  TailSizes = {0, 1, 2, 3}
INVARIANTS
    ParserExact
    HunksExact
    TarExact
    PathsExact
    TailExact
CHECK_DEADLOCK FALSE
