\* One ring of 3 places and 3 sample values: the write and the read position
\* both wrap, and the ring is both full and empty.
CONSTANTS
  Samples = {0, 1, 2}
  Silence = 0
  Capacity = 3
SPECIFICATION FifoSpec
PROPERTY ImplementsQueue
