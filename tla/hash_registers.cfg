\* Registers that are keyed by addresses.
CONSTANTS
  v1 = v1  v2 = v2  v3 = v3
  a1 = a1  a2 = a2  a3 = a3
  nil = nil
  TVar <- ThreeTVars
  Addr <- ThreeAddrs
  Nil = nil
  HashRegisters = TRUE
SPECIFICATION Spec
SYMMETRY Symmetric
INVARIANT KeysValid
