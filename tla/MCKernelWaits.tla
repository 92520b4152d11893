--------------------------- MODULE MCKernelWaits -----------------------------
EXTENDS KernelWaits

\* Wait modes: all with every bit cleared, any with its pattern cleared; then one with both clear bits and one beyond the mask,
\* which do not decode.
MCWaitModes == {17, 34, 49, 65}
=============================================================================
