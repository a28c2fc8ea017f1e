----------------------------- MODULE MCConsole -----------------------------
\* Instances of Console for TLC: its constants are model values and numbers.
EXTENDS Console
=============================================================================
