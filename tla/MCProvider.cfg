SPECIFICATION Spec
CONSTANTS
  Names <- Strings
  Indices <- Idx
  Contents <- Values
  Depth = 3
  ApiKey = "api_key"
  Defaults <- DefaultTable
  Files <- FileSet
  OptionSets <- OptionSet
  Answers <- AnswerSet
INVARIANTS
  SettingsHavePriority
  MetadataReturn
