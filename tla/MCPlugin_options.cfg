SPECIFICATION Spec
CONSTANTS
  WORDS <- Words
  SYMBOLS <- Symbols
  MaxText = 6
  ServerSetups <- Servers
  ClientSetups <- Clients
  Names <- TwoNames
  KEY_PATH <- KeyPath
  ServerEnv <- Env
  ClientEnv <- Env
  MaxGens = 2
  MaxSwaps = 2
INVARIANTS
  TextIsReadAsMeant
  PastedSetupWorks
  OneEchKey
CHECK_DEADLOCK FALSE
