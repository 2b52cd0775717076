CONSTANTS
  Handle = {a, b, c}
  NoHandle = NoHandle
  MaxTime = 3
SPECIFICATION Spec
PROPERTY FiresAtDeadline
