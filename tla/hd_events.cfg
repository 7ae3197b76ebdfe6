SPECIFICATION FairEventSpec
CONSTANTS
  NBeats = 1
  Attempts = 3
  ChatAttempts = 2
  Linked = {TRUE, FALSE}
  Chatty = {TRUE, FALSE}
  Raising = FALSE
PROPERTY KeepsPromise
PROPERTY BeatsStop
PROPERTY PersonToo
CHECK_DEADLOCK FALSE
