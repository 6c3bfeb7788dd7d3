SPECIFICATION TalkSpec
CONSTANTS
  WebChats = 2
  MaxSessions = 2
  MaxHistory = 3
  MaxMessages = 3
CHECK_DEADLOCK FALSE
PROPERTY
  EntriesKept
