----------------------------- MODULE MCIncidents -----------------------------
(* Instances of Incidents for model checking. *)
EXTENDS Incidents, TLC

CONSTANTS db, api

OneCheck == {api}
NoParents == api :> {}
EverySignal == api :> Signal

ParentAndChild == {db, api}
ApiNeedsDb == (db :> {}) @@ (api :> {db})
DownAndUp == [c \in ParentAndChild |-> {"down", "up"}]

AllOperations == {"acknowledge", "unacknowledge", "resolve", "delete", "window"}
None == {}
=============================================================================
