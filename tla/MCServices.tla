----------------------------- MODULE MCServices -----------------------------
(* The services of a harness that work beside its turns.  They share no    *)
(* state, so an instance is one of them at work, the others at rest.       *)
EXTENDS Jobs, Schedule, McpServer, Files, Inbox, Shell, TLC

CONSTANTS x, y, m1

VARIABLE part \* the one at work

MCMenus == {{x}, {y}}
MCRules == {[once |-> FALSE, anchor |-> 1, every |-> 2],
            [once |-> TRUE, anchor |-> 2, every |-> 0]}
MCSeed == <<[target |-> "next-turn", start |-> 0, removed |-> 0, inserted |-> <<m1>>],
            [target |-> "next-turn", start |-> 0, removed |-> 1, inserted |-> <<>>]>>

(* The names of schedules differ in nothing but what is done under them. *)
Symmetry == Permutations(Names)

Parts == {"jobs", "schedule", "mcp", "files", "inbox", "shell"}

Init == /\ JobsInit /\ ScheduleInit /\ McpInit /\ FilesInit /\ InboxInit /\ ShellInit
        /\ part \in Parts
        /\ part # "inbox" => torn = 0
        /\ part # "mcp" => watch.enabled

Next == /\ \/ /\ part = "jobs" /\ JobsNext
              /\ UNCHANGED <<scheduleVars, mcpVars, filesVars, inboxVars, shellVars>>
           \/ /\ part = "schedule" /\ ScheduleNext
              /\ UNCHANGED <<jobsVars, mcpVars, filesVars, inboxVars, shellVars>>
           \/ /\ part = "mcp" /\ McpNext
              /\ UNCHANGED <<jobsVars, scheduleVars, filesVars, inboxVars, shellVars>>
           \/ /\ part = "files" /\ FilesNext
              /\ UNCHANGED <<jobsVars, scheduleVars, mcpVars, inboxVars, shellVars>>
           \/ /\ part = "inbox" /\ InboxNext
              /\ UNCHANGED <<jobsVars, scheduleVars, mcpVars, filesVars, shellVars>>
           \/ /\ part = "shell" /\ ShellNext
              /\ UNCHANGED <<jobsVars, scheduleVars, mcpVars, filesVars, inboxVars>>
        /\ UNCHANGED part

Spec == Init /\ [][Next]_<<jobsVars, scheduleVars, mcpVars, filesVars, inboxVars, shellVars, part>>
=============================================================================
