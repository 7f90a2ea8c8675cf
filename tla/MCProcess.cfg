SPECIFICATION Spec
CONSTANTS
  OptionSets <- MCOptionSets
  ArgumentLists <- MCArgumentLists
  EnvFiles <- MCEnvFiles
  Upper <- MCUpper
  Missing = Missing
  Unreadable = Unreadable
  Numerals = {"80"}
  NoName = NoName
  NoValue = NoValue
  Documents = {d, e}
  Unsaveable = {e}
INVARIANTS
  TypeOK
  SettingsAreAsGiven
  ListensAsTold
PROPERTIES
  StartKeepsData
  StartEnds
