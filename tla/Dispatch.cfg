SPECIFICATION Spec
CONSTANTS
  Lines = {0, 1, 8}
  Irqs = {8, 16}
  Exceptions = {13}
  NULL = NULL
  default_irq_handler = default_irq_handler
  keyboard_handler = keyboard_handler
  driver = driver
INVARIANTS
  TypeOK
  NothingLeftInService
  MasksAreAsAsked
PROPERTY NoLineIsDead
