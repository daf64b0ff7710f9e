\* Every kernel and multiplier on regions of whole chunks.
CONSTANTS
  BitXor <- MCBitXor
  BitAnd <- MCBitAnd
  Constants <- MCConstants
  Lengths <- MCLengths
  BufLen <- MCBufLen
SPECIFICATION GFSpec
INVARIANTS RegionResult NoWritePastLength
\* One behaviour is one call; it ends when the kernel returns.
CHECK_DEADLOCK FALSE
