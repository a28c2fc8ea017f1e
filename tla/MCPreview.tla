----------------------------- MODULE MCPreview -----------------------------
\* Instances of Preview for TLC.
EXTENDS Preview, TLC

CONSTANTS a1, a2, m1

\* The first agent records the screen alone, the second a microphone.
OneMicrophone == (a1 :> {}) @@ (a2 :> {m1})
\* The one agent records screen and microphone.
ScreenAndMicrophone == (a1 :> {m1})

AnyFault == FaultKinds
NoFault == {}
=============================================================================
