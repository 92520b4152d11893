---------------------------- MODULE MCGuestLeases ----------------------------
EXTENDS GuestLeases

\* A dispatch with two written buffers, one that reads a buffer and writes an
\* image, and one that reads a single buffer, of which three fit in the ids.
MCShapes ==
  {[buffers |-> <<Binding({1}, TRUE), Binding({2}, TRUE)>>, images |-> <<>>],
   [buffers |-> <<Binding({1}, FALSE)>>, images |-> <<Binding({2}, TRUE)>>],
   [buffers |-> <<Binding({1}, FALSE)>>, images |-> <<>>]}

\* Device buffers of one page, and one of two.
MCLogicalSize == <<1, 1, 1, 2>>
=============================================================================
