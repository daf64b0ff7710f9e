CONSTANTS
  FecModes = {"fixed"}
  FecK <- MCFecK
  FecPercentage <- MCFecPercentage
  MaxBlockIdx <- MCMaxBlockIdx
  MaxKeys <- MCMaxKeys
  MaxNonce <- MCMaxNonce
  Cards = {c1, c2}
SPECIFICATION Spec
INVARIANT SessionCallbacksBounded
