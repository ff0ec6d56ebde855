SPECIFICATION Spec
CONSTANTS
  None = None
  StartNode = StartNode
  EndNode = EndNode
  Names <- MCNames
  DefNames <- MCDefNames
  Writable <- MCWritable
  Definable <- MCDefinable
  Words <- MCWords
  WordSplice <- MCWordSplice
  NumberedNames <- MCNumberedNames
  Aliases <- MCAliases
  NormalName <- MCNormalName
  CopyName <- MCCopyName
  BranchLists <- MCBranchLists
  ActionLists <- MCActionLists
  Seeds <- MCSeeds
  SubflowId = "g"
  InvocationName = "Invoke"
  MaxEdits = 2
  MaxSelected = 3
  MaxStates = 4
CHECK_DEADLOCK FALSE
INVARIANT UsesAreDefined
