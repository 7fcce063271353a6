------------------------------ MODULE LogBase -------------------------------
(***************************************************************************)
(* What CLog is built on: CMemBuffer, the room AddLogItem gives a line in  *)
(* one, and make_dirs, which makes the directory of its files.  A          *)
(* behaviour concerns one of them, part.                                   *)
(***************************************************************************)
EXTENDS LogLine, MakeDirs

VARIABLE part

basevars == <<bufvars, linevars, dirvars, part>>

BaseInit ==
    /\ BufInit /\ LineInit /\ DirInit
    /\ part \in {"buffer", "line", "dirs"}
    /\ part # "dirs" => made = 0 /\ allowed = 0   \* one of the states that look alike

BaseNext ==
    /\ \/ part = "buffer" /\ BufNext /\ UNCHANGED <<linevars, dirvars>>
       \/ part = "line" /\ LineNext /\ UNCHANGED dirvars
       \/ part = "dirs" /\ DirNext /\ UNCHANGED <<bufvars, linevars>>
    /\ UNCHANGED part

BaseSpec == BaseInit /\ [][BaseNext]_basevars
=============================================================================
