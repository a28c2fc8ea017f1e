---------------------------- MODULE MCHostMedia ----------------------------
\* Instances of HostMedia for TLC.
EXTENDS HostMedia

AnyFault == FaultKinds
=============================================================================
