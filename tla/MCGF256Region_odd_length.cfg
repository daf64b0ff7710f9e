\* A region whose length is not a multiple of 16.
CONSTANTS
  BitXor <- MCBitXor
  BitAnd <- MCBitAnd
  Constants <- MCConstants
  Lengths <- MCOddLengths
  BufLen <- MCBufLen
SPECIFICATION GFSpec
INVARIANT NoWritePastLength
CHECK_DEADLOCK FALSE
