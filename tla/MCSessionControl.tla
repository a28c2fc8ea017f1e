-------------------------- MODULE MCSessionControl --------------------------
(***************************************************************************)
(* Instances of SessionControl.  Agents are interchangeable, and so are    *)
(* handler slots: no definition compares them or picks a particular one.   *)
(***************************************************************************)
EXTENDS SessionControl, TLC

Symmetry == Permutations(Agent) \cup Permutations(Handler)

\* Every request there is, one at a time.
EveryKind == {"ready", "failed", "stopped", "stop", "save", "discard", "manifest", "complete"}

\* The requests that meet while a session is being prepared.
PreparingKinds == {"ready", "failed", "discard"}

\* Requests that read the session row and write it back, from the barrier to
\* the review gate.
RacingKinds == {"ready", "failed", "stop", "stopped", "save"}
=============================================================================
