--------------------------- MODULE MCPthreadRwlock --------------------------
EXTENDS PthreadRwlock
=============================================================================
