----------------------------- MODULE MCActivity -----------------------------
\* Instances of Activity for TLC: two Ctrl keys and one that is no modifier.
EXTENDS Activity, TLC

CONSTANTS ctrlL, ctrlR, letter

Modifiers == (ctrlL :> "ctrl") @@ (ctrlR :> "ctrl")

Symmetry == Permutations(Window) \cup Permutations({ctrlL, ctrlR})
=============================================================================
