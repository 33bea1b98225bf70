CONSTANTS
  host = host
  hash = hash
  garbled = garbled
  fifo = fifo
  picked = picked
  Blank = Blank
  NoAnswer = NoAnswer
  Texts <- MCTexts
  Endless = {fifo}
  Refused <- MCRefused
  Paths = {picked}
SPECIFICATION Spec
INVARIANTS TypeOK AnswerMatchesForm OneFieldListens
PROPERTIES PickedFileIsSent LoadingEnds
CHECK_DEADLOCK FALSE
