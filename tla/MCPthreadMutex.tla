--------------------------- MODULE MCPthreadMutex ---------------------------
EXTENDS PthreadMutex
=============================================================================
