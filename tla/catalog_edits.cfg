SPECIFICATION Spec
CONSTANTS
  None = None
  Paths = {"/a", "/a:b"}
  ColonPaths = {"/a:b"}
  CutOff <- MCCutOff
  Methods = {"get", "post"}
  Ids = {"x", "y"}
  Texts = {"t"}
  ComponentNames = {"A", "B"}
  Schemas <- MCSchemas
  ComponentTexts <- MCComponentTexts
  Referenced = {"x"}
  Seeds <- MCSeeds
  MaxEdits = 2
CHECK_DEADLOCK FALSE
INVARIANTS
  TypeOK
  
  ExamplesConform
PROPERTIES
  EditsLeaveItReadable
  DeletionsAreMeant
