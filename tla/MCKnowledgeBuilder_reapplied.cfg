SPECIFICATION MCSpec
CONSTANTS
  a = a  b = b  c = c
  Texts = {a,b,c}
  Overlap <- Alike
  Said <- Extracted
  MaxTurns = 2
  MaxInputs = 1
PROPERTY ReapplyIsNoOp
