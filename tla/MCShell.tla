------------------------------ MODULE MCShell ------------------------------
(***************************************************************************)
(* Shell with the one command "q", which takes no argument: with blanks    *)
(* and other q's behind it a line is a bad command.  No character but q    *)
(* and the blank is typed.                                                 *)
(***************************************************************************)
EXTENDS Shell

MCCommands == [c \in {"q"} |-> 0]
MCSettings == <<"t", "t">>
=============================================================================
