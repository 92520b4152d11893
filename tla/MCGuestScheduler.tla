-------------------------- MODULE MCGuestScheduler --------------------------
EXTENDS GuestScheduler

\* Two objects to wait for: waiters of one key must not be woken by the other.
MCServiceKeys == {<<"semaphore", 1>>, <<"event-flag", 2>>}
=============================================================================
