\* Each of these statements of the documentation has a counterexample here:
\* uncomment one at a time.
SPECIFICATION FairSpec
CONSTANTS
  t1 = t1
  t2 = t2
  visa = visa
  visa2 = visa2
  old = old
  junk = junk
  NoLib = NoLib
  Threads = {t1, t2}
  Libs = {visa, visa2, old, junk}
  Kind <- MCKind
  Proto <- MCProto
  Builtin = "VISA"
  Builtins <- MCBuiltins
  Standard = {visa, old}
  Searches <- MCSearches
  Unreadable <- MCUnreadable
  MaxCalls = 3
CHECK_DEADLOCK FALSE
PROPERTY
  BuiltinsAreAvailable
\*  CustomPluginIsUsed
