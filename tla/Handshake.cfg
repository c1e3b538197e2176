CONSTANTS
  W = 4 P = 13 G = 2
  Timeouts = {0, 2}
  ReadTimeouts = {0, 1, 3}
  Targets = {"a"}
  Flags = {1}
  IDs = {1}
  MaxTime = 6
  Chunks = 2
SPECIFICATION Spec
INVARIANTS SecretsAgree HandshakeAgrees HandshakeBounded NoSpuriousTimeout
CHECK_DEADLOCK FALSE
