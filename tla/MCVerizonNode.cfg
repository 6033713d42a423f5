SPECIFICATION FairSpec
PROPERTY DeletedGoes
CHECK_DEADLOCK FALSE
