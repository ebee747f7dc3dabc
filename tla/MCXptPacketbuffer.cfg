\* Login and the packets of the server; one byte too many for the writer's buffer, and
\* packets larger than the reader's.
SPECIFICATION Spec
CONSTANTS
  Base = 3
  WriteLimit = 8
  ReadLimit = 5
  Layouts <- AllLayouts
  Handlers <- HandlerLayouts
INVARIANTS
  RoundTrip
  CursorInBounds
  CutRefused
