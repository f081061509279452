\* Every byte of the register file, every order of the calls, the structure
\* State reached as an array or with Inside.
SPECIFICATION Spec
CONSTANTS
  Structs = {"Registers", "Timer", "Status", "Byte"}
  Registers = "Registers"
  Layout <- MCLayout
  Size = 32
  Offsets <- AllBytes
  Chains <- MCChains
  Scalar = "scalar"
INVARIANTS TypeOK OffsetsRelative Dispatch
