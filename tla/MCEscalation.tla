---------------------------- MODULE MCEscalation ----------------------------
(* Instances of Escalation for model checking.                             *)
EXTENDS Escalation

TwoSteps == <<0, 1>>
AllOperations == {"acknowledge", "unacknowledge", "snooze", "unsnooze", "resolve",
                  "recover", "relapse", "pause"}
=============================================================================
