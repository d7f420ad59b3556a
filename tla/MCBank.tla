------------------------------- MODULE MCBank -------------------------------
\* Bank on a two-element safe and a two-bit uint64_t.
EXTENDS Bank

MCUids == 0 .. UCHAR_MAX - 1
MCAllUids == 0 .. UCHAR_MAX
MCAmounts == 0 .. UINT64_MAX
=============================================================================
