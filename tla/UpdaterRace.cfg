CONSTANTS
  u1 = u1
  u2 = u2
  u3 = u3
  binary = binary
  scripts = scripts
  Updates = {u1, u2, u3}
  Parts = {binary, scripts}
  MaxReleases = 2
INIT Init
NEXT Next
SYMMETRY Symmetry
INVARIANT TypeOK
INVARIANT LoneOkInstalls
INVARIANT LoneOkRuns
INVARIANT StoppedOnlyByFailure
