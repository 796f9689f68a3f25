--------------------------- MODULE MCProviderTurns ---------------------------
EXTENDS ProviderTurns
CONSTANTS c, i
==============================================================================
