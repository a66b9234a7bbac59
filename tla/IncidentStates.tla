--------------------------- MODULE IncidentStates ---------------------------
(***************************************************************************)
(* The incident state machine of backend/app/incidents/state_machine.py:   *)
(* the thirteen states an incident row may hold, the transition table, and *)
(* the check that change_incident_state makes before it writes a new state.*)
(* Every component that moves an incident extends this module.             *)
(***************************************************************************)

IncidentState ==
  {"DETECTED", "COLLECTING_EVIDENCE", "CLASSIFYING", "DIAGNOSING",
   "ACTION_PROPOSED", "POLICY_EVALUATION", "AWAITING_APPROVAL", "EXECUTING",
   "VERIFYING", "ROLLBACK", "RESOLVED", "BLOCKED", "ESCALATED"}

\* The states that release the active-incident gauge and end a workflow.
TerminalState == {"RESOLVED", "BLOCKED", "ESCALATED"}

ALLOWED_TRANSITIONS ==
  [DETECTED            |-> {"COLLECTING_EVIDENCE", "BLOCKED", "ESCALATED"},
   COLLECTING_EVIDENCE |-> {"CLASSIFYING", "BLOCKED", "ESCALATED"},
   CLASSIFYING         |-> {"DIAGNOSING", "ACTION_PROPOSED", "BLOCKED",
                            "ESCALATED"},
   DIAGNOSING          |-> {"ACTION_PROPOSED", "BLOCKED", "ESCALATED"},
   ACTION_PROPOSED     |-> {"POLICY_EVALUATION", "BLOCKED", "ESCALATED"},
   POLICY_EVALUATION   |-> {"AWAITING_APPROVAL", "EXECUTING", "BLOCKED",
                            "ESCALATED"},
   AWAITING_APPROVAL   |-> {"POLICY_EVALUATION", "EXECUTING", "BLOCKED",
                            "ESCALATED"},
   EXECUTING           |-> {"VERIFYING", "ROLLBACK", "ESCALATED"},
   VERIFYING           |-> {"EXECUTING", "ROLLBACK", "RESOLVED", "ESCALATED"},
   ROLLBACK            |-> {"VERIFYING", "RESOLVED", "ESCALATED"},
   RESOLVED            |-> {},
   BLOCKED             |-> {},
   ESCALATED           |-> {}]

\* change_incident_state(incident, target, force): the caller's copy of the
\* row is in state `seen`.  Equal states return early; otherwise the move is
\* refused (409) unless it is forced or the table allows it.
MayMove(seen, target, force) ==
  \/ seen = target
  \/ force
  \/ target \in ALLOWED_TRANSITIONS[seen]

=============================================================================
