SPECIFICATION Spec
CONSTANTS
  NSANDBOXES = 2
  Blocks = {b1, b2, b3}
  NULL = NULL
  Masks = {{"MEMORY"}, {"SYSCALL"}, {"SYSCALL", "IPC"}}
INVARIANTS
  TypeOK
  CountIsExact
  MemoryIsPrivate
PROPERTY
  KeepsPromise
