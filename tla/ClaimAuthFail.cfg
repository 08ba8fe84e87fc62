\* docs/API.md:133 against aead_decrypt.
SPECIFICATION Spec
CONSTANTS
  Radix = 10
  ChaBlock = 8
  PolyBlock = 4
  CtrMod = 102
  k1 = k1
  k2 = k2
  n1 = n1
  z = z
  otk1 = otk1
  stray = stray
  Keys = {k1, k2}
  Nonces = {n1}
  ZeroKey = z
  ZeroNonce = z
  CallerOtks = {otk1}
  ZeroTag = z
  StrayTags = {stray}
  Profile = "B"
  AeadRequests <- MCRequests
  CipherInputs <- MCCipherInputs
  Extents <- MCExtents
  Edits <- MCEdits
  InitMem <- MCInitMem
  MaxCallerSteps = 3
PROPERTY AuthFailureWritesNothing
\* The caller may stop calling.
CHECK_DEADLOCK FALSE
