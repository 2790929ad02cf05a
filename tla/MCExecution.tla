---------------------------- MODULE MCExecution ----------------------------
(***************************************************************************)
(* A small instance of Execution.  `fix' is what Engine::promote makes: low *)
(* risk, no rollback, verified by the program of its last step.  `tidy'    *)
(* affects the user's work and has a rollback of two operations, the first *)
(* of which writes more than a pipe holds.  The folder on the floor list   *)
(* lies inside the folder that can be granted.                             *)
(***************************************************************************)
EXTENDS Execution

MCTarget  == {"cargo", "git", "project", "project/.ssh"}
MCFolder  == {"project", "project/.ssh"}
MCCommand == {"cargo", "git"}
MCCovers  == [g \in MCFolder \cup MCCommand |->
                IF g = "project" THEN {"project", "project/.ssh"} ELSE {g}]
MCForbidden == {"project/.ssh"}

MCOperation == {"settle", "build", "check", "restore"}
MCTargetsOf == [settle  |-> {}, build |-> {"cargo"}, check |-> {"cargo"},
                restore |-> {"git", "project"}]
MCOutput    == [settle |-> 0, build |-> 1, check |-> 0, restore |-> 2]

MCCapability == {"fix", "tidy"}
MCDefinition ==
    [fix  |-> [steps |-> <<"settle", "build">>, verification |-> "build",
               rollback |-> << >>, risk |-> "low", reversible |-> TRUE],
     tidy |-> [steps |-> <<"build">>, verification |-> "check",
               rollback |-> <<"restore", "build">>, risk |-> "moderate",
               reversible |-> TRUE]]

=============================================================================
