------------------------------ MODULE MCEventLoop ------------------------------
EXTENDS EventLoop

CONSTANTS h1, h2, h3, h4

\* Enough for two passes of two handles, one of which schedules the second.
MCHandles == {h1, h2, h3, h4}

\* Handles have no names of their own: they are told apart by the order in which
\* they are scheduled, and this one stands for all.
InOneOrder == IsPrefix(scheduled', << h1, h2, h3, h4 >>)
=============================================================================
