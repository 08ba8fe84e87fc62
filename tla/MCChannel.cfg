\* Seal, open, rewrite: any four caller steps through the AEAD entry points.
SPECIFICATION ChannelSpec
CONSTANTS
  Radix = 10
  ChaBlock = 8
  PolyBlock = 4
  CtrMod = 102
  k1 = k1
  k2 = k2
  n1 = n1
  n2 = n2
  z = z
  stray = stray
  Keys = {k1, k2}
  Nonces = {n1, n2}
  ZeroKey = z
  ZeroNonce = z
  CallerOtks = {}
  ZeroTag = z
  StrayTags = {stray}
  Profile = "B"
  AeadRequests <- MCRequests
  CipherInputs = {}
  Extents = {}
  Edits <- MCEdits
  InitMem <- MCInitMem
  MaxCallerSteps = 4
INVARIANTS OpensExactlySealed OpensToSealedText
\* The caller may stop calling.
CHECK_DEADLOCK FALSE
