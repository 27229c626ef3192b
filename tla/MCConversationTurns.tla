------------------------ MODULE MCConversationTurns ------------------------
EXTENDS ConversationTurns

CONSTANTS t1, t2, t3

TurnSymmetry == Permutations(Turns)
=============================================================================
