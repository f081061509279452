\* The same hooks: what Inside promises of the field it is given.
SPECIFICATION Spec
CONSTANTS
  Structs = {"Registers", "Timer", "Status", "Byte"}
  Registers = "Registers"
  Layout <- MCLayout
  Size = 32
  Offsets <- AllBytes
  Chains <- MCChains
  Scalar = "scalar"
PROPERTY InsideReachesField
