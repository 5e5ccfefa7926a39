CONSTANTS
  PIPE_BUFFER_SIZE = 8
  Lines <- MCLines
  Readings <- MCReadings
SPECIFICATION Spec
CHECK_DEADLOCK FALSE
INVARIANTS
  TypeOK
  CaptureScoped
  PipeShowsBoth
  NumbersReadBack
  ColourShownAsTyped
