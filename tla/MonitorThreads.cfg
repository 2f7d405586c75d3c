CONSTANTS
  t1 = t1
  t2 = t2
  Threads = {t1, t2}
  Threshold = 85
  Word = 8
  MaxTicks = 2
  NoReading = NoReading
INIT Init
NEXT Next
SYMMETRY Symmetry
INVARIANT TypeOK
INVARIANT LoneLoadInRange
INVARIANT SerialLoadTrue
PROPERTY SerialAlertsTrue
