CONSTANTS
  conversation = conversation
  Turns = {t1}
  Conversations = {conversation}
  ConversationOf <- OneConversation
  Readers = {r1}
  MaxTurns = 2
  MaxBytes = 4
  RunningBytes = 1
  OutcomeBytes = {2}
  NoTurn = NoTurn
SPECIFICATION Spec
PROPERTIES
  OutcomeIsFinal
