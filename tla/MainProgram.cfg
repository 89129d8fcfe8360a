SPECIFICATION FairSpec
CONSTANTS
  Argvs <- MCArgvs
  Environs <- MCEnvirons
  Unset = "Unset"
  Files <- MCFiles
  Unreadable <- MCUnreadable
  Stoi <- MCStoi
  TextOf <- MCTextOf
INVARIANTS
  TypeOK
  ConfigMeaning
  ExitTellsTruth
PROPERTIES
  SignalSparesHolder
  SignalEndsProgram
CHECK_DEADLOCK FALSE
