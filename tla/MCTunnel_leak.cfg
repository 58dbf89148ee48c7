SPECIFICATION Spec
CONSTANTS
  Settings <- LeakSettings
  MaxConn = 8
INVARIANT AllClosed
