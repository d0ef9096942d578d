SPECIFICATION Spec
CONSTANTS
  Fragments <- Words
  Text <- TwoTexts
  Batches <- TheirBatches
  Procs = {p1, p2}
  AcceptedMax = 1
  MaxUpsets = 2
SYMMETRY Alike
INVARIANT TypeOK
INVARIANT OnceInDocumentOrder
INVARIANT NothingForgotten
CHECK_DEADLOCK FALSE
CONSTRAINT StillSound
