CONSTANTS
  conversation = conversation
  Turns = {t1, t2}
  Conversations = {conversation}
  ConversationOf <- OneConversation
  Readers = {r1}
  MaxTurns = 2
  MaxBytes = 3
  RunningBytes = 1
  OutcomeBytes = {1, 3}
  NoTurn = NoTurn
SPECIFICATION FairSpec
PROPERTIES
  LiveTurnNotInterrupted
  ImplementsLedger
  OrphansAreRecovered
