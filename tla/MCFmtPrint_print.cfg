SPECIFICATION Spec
CONSTANTS
  W = 6
  Character <- MCCharacter
  Prints <- MCPrints
  MaxCalls = 2
INVARIANTS
  OutputRight
  InBuffer
PROPERTY
  Returns
