--------------------------- MODULE MCTitleSession ---------------------------
EXTENDS TitleSession
=============================================================================
