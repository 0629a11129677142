SPECIFICATION Spec
CONSTANTS
  Lines = {1}
  Irqs = {1}
  Exceptions = {13}
  NULL = NULL
  default_irq_handler = default_irq_handler
  keyboard_handler = keyboard_handler
  driver = driver
PROPERTY KeyboardIsHeard
