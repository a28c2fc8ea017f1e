-------------------------- MODULE SessionLifecycle --------------------------
(***************************************************************************)
(* What the control plane promises of a session, and nothing else: a row   *)
(* appears in `preparing', moves only along the transition table, reaches  *)
(* object storage only by way of the operator's Save, and never leaves a   *)
(* terminal state.  The detailed modules are checked against this one.     *)
(***************************************************************************)
EXTENDS SessionStates

CONSTANT Session

VARIABLES state,  \* state[s]: the column `state' of session s
          saved   \* the sessions whose Save an operator has pressed

vars == <<state, saved>>

TypeOK == /\ state \in [Session -> SessionState \cup {Absent}]
          /\ saved \subseteq Session

Init == /\ state = [s \in Session |-> Absent]
        /\ saved = {}

Create(s) == /\ state[s] = Absent
             /\ state' = [state EXCEPT ![s] = "preparing"]
             /\ UNCHANGED saved

\* The review gate: the only way into `uploading' is the operator's decision.
Save(s) == /\ isLegalTransition(state[s], "uploading")
           /\ state' = [state EXCEPT ![s] = "uploading"]
           /\ saved' = saved \cup {s}

Advance(s, to) == /\ to # "uploading"
                  /\ isLegalTransition(state[s], to)
                  /\ state' = [state EXCEPT ![s] = to]
                  /\ UNCHANGED saved

Next == \E s \in Session : \/ Create(s)
                           \/ Save(s)
                           \/ \E to \in SessionState : Advance(s, to)

Spec == Init /\ [][Next]_vars

-----------------------------------------------------------------------------
\* The review gate of session.entity.ts: no session is being uploaded or is
\* stored unless an operator saved it, and none that was discarded was saved.
ReviewGate == \A s \in Session :
                /\ state[s] \in {"uploading", "stored"} => s \in saved
                /\ state[s] = "discarded" => s \notin saved

\* A terminal state is final: nothing reopens a stored, discarded or failed
\* session ('treats stored and discarded as terminal' in the entity's spec).
TerminalIsFinal ==
  [][\A s \in Session : state[s] \in Terminal => state'[s] = state[s]]_vars
=============================================================================
