---------------------------- MODULE SessionStates ----------------------------
(***************************************************************************)
(* The states of a recording session and the table of transitions that    *)
(* src/sessions/entities/session.entity.ts enumerates.  Every other module *)
(* that speaks of a session's state takes both from here.                  *)
(***************************************************************************)

SessionState == {"preparing", "recording", "stopping", "review",
                 "uploading", "stored", "discarded", "failed"}

\* "absent" stands for a session row that create() has not inserted yet.
Absent == "absent"

LEGAL == [preparing |-> {"recording", "failed", "discarded"},
          recording |-> {"stopping", "failed"},
          stopping  |-> {"review", "failed"},
          review    |-> {"uploading", "discarded"},
          uploading |-> {"stored", "failed"},
          stored    |-> {},
          discarded |-> {},
          failed    |-> {},
          absent    |-> {}]

isLegalTransition(from, to) == to \in LEGAL[from]

\* The states the table gives no way out of.
Terminal == {q \in SessionState : LEGAL[q] = {}}
=============================================================================
