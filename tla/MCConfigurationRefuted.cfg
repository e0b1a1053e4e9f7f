\* Each of these statements of the documentation has a counterexample here:
\* uncomment one at a time.
SPECIFICATION Spec
CONSTANTS
  Missing = Missing
  Apis <- MCApis
  Others <- MCOthers
  PortName <- MCPortName
  Verbs <- MCVerbs
  Given <- MCGiven
  MaxParams = 3
  MaxString = 9
  Size = 14
  Ending <- MCEnding
  Tails = {0, 1, 2}
  Devices <- MCDevices
  MaxRuns = 3
INVARIANT
  TemplatesAreSent
\*  WiringNamesTheGates
CHECK_DEADLOCK FALSE
