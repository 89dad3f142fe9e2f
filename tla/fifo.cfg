SPECIFICATION Spec
CONSTANTS
  Buffers = {b1, b2, b3, b4}
  NoBuffer = NoBuffer
  Contexts = {c1, c2}
PROPERTY QueuesAreSequences
