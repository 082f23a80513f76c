\* About 2,600 cases of URL, session table, description and transport.
SPECIFICATION Spec
CONSTANTS
  None = None
  ServerAddress = "server"
  GroupAddresses = {"group"}
  ClientPort = 10000
  ServerPort <- MCServerPort
  Plays <- MCPlays
  MaxRequests = 2
  Cases <- MCCases
INVARIANTS ParserIsSectionwise RefusedForCause ExchangeAgrees
CHECK_DEADLOCK FALSE
