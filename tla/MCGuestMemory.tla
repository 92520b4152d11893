---------------------------- MODULE MCGuestMemory ----------------------------
EXTENDS GuestMemory
=============================================================================
