SPECIFICATION FairSpec
CONSTANTS
  Nobody = Nobody
  Layout <- MCLayout
  Script <- MCScript
INVARIANTS TypeOK InPlace MessagesMatch
PROPERTY ConversionsEnd
