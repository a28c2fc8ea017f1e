------------------------------ MODULE MCCamera ------------------------------
\* Instances of Camera for TLC: its constants are model values and numbers.
EXTENDS Camera
=============================================================================
