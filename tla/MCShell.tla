------------------------------ MODULE MCShell -------------------------------
(***************************************************************************)
(* Instances of Shell for TLC.                                              *)
(***************************************************************************)
EXTENDS Shell

ABC          == {"a", "b", "c"}
AllCommands  == {"cd", "mkdir", "rm", "cp", "mv", "find"}
LastName     == [p \in Names \X Names |-> p[2]]
=============================================================================
