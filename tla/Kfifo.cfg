SPECIFICATION Spec
CONSTANTS
    Byte = {0, 1}
    Size = 4
    Modulus = 8
    MaxChunk = 3
INVARIANTS PeekCovered
PROPERTY ImplementsByteFifo
