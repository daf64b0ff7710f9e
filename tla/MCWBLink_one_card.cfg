CONSTANTS
  FecModes = {"disabled", "fixed", "variable"}
  FecK <- MCFecK
  FecPercentage <- MCFecPercentage
  MaxBlockIdx <- MCMaxBlockIdx
  MaxKeys <- MCMaxKeys
  MaxNonce <- MCMaxNonce
  Cards = {c1}
SPECIFICATION Spec
INVARIANTS TypeOK MonotoneNoncesPerKey SessionCallbacksBounded
