------------------------------ MODULE MCRecords ------------------------------
(* The readers and keepers of what is recorded.  They share no state here, *)
(* so an instance is one of them at work, the others at rest.              *)
EXTENDS PushHub, Projections, Goal, Lineage, Reload, SqliteJournal, Workflow

CONSTANTS e1, e2

VARIABLE part \* the one at work

MCSeeds == {<<e1>>, <<e1, e2>>}

Parts == {"hub", "projections", "goal", "lineage", "reload", "sqlite", "workflow"}

RecordsInit ==
  /\ part \in Parts
  /\ part # "hub" => from = [s \in Subscribers |-> Omitted]
  /\ part # "lineage" =>
       /\ spawned_by = [s \in Sessions |-> NoLink]
       /\ parent_session = [s \in Sessions |-> NoLink]
  /\ part # "reload" => config = CHOOSE d \in Accepted : TRUE
  /\ Init /\ ProjectionsInit /\ GoalInit /\ SqliteInit /\ LineageInit /\ ReloadInit /\ WorkflowInit

RecordsNext ==
  /\ \/ /\ part = "hub" /\ Next
        /\ UNCHANGED <<projectionVars, goalVars, lineageVars, reloadVars, sqliteVars, workflowVars>>
     \/ /\ part = "projections" /\ ProjectionsNext
        /\ UNCHANGED <<vars, goalVars, lineageVars, reloadVars, sqliteVars, workflowVars>>
     \/ /\ part = "goal" /\ GoalNext
        /\ UNCHANGED <<vars, projectionVars, lineageVars, reloadVars, sqliteVars, workflowVars>>
     \/ /\ part = "lineage" /\ LineageNext
        /\ UNCHANGED <<vars, projectionVars, goalVars, reloadVars, sqliteVars, workflowVars>>
     \/ /\ part = "reload" /\ ReloadNext
        /\ UNCHANGED <<vars, projectionVars, goalVars, lineageVars, sqliteVars, workflowVars>>
     \/ /\ part = "sqlite" /\ SqliteNext
        /\ UNCHANGED <<vars, projectionVars, goalVars, lineageVars, reloadVars, workflowVars>>
     \/ /\ part = "workflow" /\ WorkflowNext
        /\ UNCHANGED <<vars, projectionVars, goalVars, lineageVars, reloadVars, sqliteVars>>
  /\ UNCHANGED part

RecordsSpec ==
  RecordsInit
    /\ [][RecordsNext]_<<vars, projectionVars, goalVars, lineageVars, reloadVars, sqliteVars,
                         workflowVars, part>>
=============================================================================
