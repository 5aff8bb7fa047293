CONSTANTS
  MaxLen = 2
  PeerLen = 2
  MaxChunk = 2
  MaxBytes = 4
  HeadAfterRead = FALSE
SPECIFICATION Spec
INVARIANTS TypeOK Bounds Fifo
PROPERTY TransferConserves
