SPECIFICATION Spec
CONSTANT
  Settings <- RereadSettings
INVARIANTS
  InStep
