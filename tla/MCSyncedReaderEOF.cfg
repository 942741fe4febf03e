SPECIFICATION Spec
CONSTANTS
    MaxBytes = 2
    MaxSeeks = 0
INVARIANT
    EOFIsFinal
