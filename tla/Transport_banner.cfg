\* A proxy that answers 200.
CONSTANTS
  Answers <- PlainAnswers
  Settings <- TCPSettings
SPECIFICATION Spec
INVARIANT ReadyForHandshake
CHECK_DEADLOCK FALSE
