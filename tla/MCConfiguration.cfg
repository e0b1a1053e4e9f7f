\* Some 150 pairs of API files, three tool runs, and every order of up to seven gates.
SPECIFICATION Spec
CONSTANTS
  Missing = Missing
  Apis <- MCApis
  Others <- MCOthers
  PortName <- MCPortName
  Verbs <- MCVerbs
  Given <- MCGiven
  MaxParams = 3
  MaxString = 9
  Size = 14
  Ending <- MCEnding
  Tails = {0, 1, 2}
  Devices <- MCDevices
  MaxRuns = 3
INVARIANTS
  ExpansionIsComplete
  ConfigurationsFit
  CommandsAreWhole
  DevicesAreChains
PROPERTY
  StartsWithItsApi
CHECK_DEADLOCK FALSE
