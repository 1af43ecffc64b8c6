CONSTANTS
    Buffers = {b1, b2, b3}
    BufSize = 2
    Cap = 4
    MaxBytes = 5
SPECIFICATION Spec
SYMMETRY Symmetry
INVARIANTS BytesInOrder KeptStays BufferHasOneHome
