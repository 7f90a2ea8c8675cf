SPECIFICATION Spec
CONSTANTS
  Calls = {c1, c2}
  Incoming = {c2}
  Handlers = {h1}
  Whisper = whisper
  MaxTurns = 3
  NoCall = NoCall
INVARIANTS
  TypeOK
  HistoryPaired
  VoiceKnowsEarlier
  HeardIsRemembered
  NewestCallSpeaks
  AgentOutlivesUsers
CHECK_DEADLOCK FALSE
