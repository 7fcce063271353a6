------------------------------ MODULE MakeDirs ------------------------------
(***************************************************************************)
(* make_dirs: the directories of a path, made one by one by any number of  *)
(* threads or processes at once (every program that logs to one place).    *)
(* The levels of the path are 1 .. Depth.  One of them may be a symbolic   *)
(* link to a directory: it leads on, but lstat does not call it one.       *)
(*                                                                         *)
(* Nothing is removed.  Other reasons for mkdir to fail (no permission, a  *)
(* file of that name) are one: the level is not allowed.                   *)
(***************************************************************************)
EXTENDS Integers

CONSTANTS
    Makers,   \* threads and processes
    Depth

ASSUME DepthAssumption == Depth \in Nat \ {0}

VARIABLES
    made,      \* levels 1 .. made exist
    link,      \* the level that is a link, or 0
    allowed,   \* levels 1 .. allowed may be made
    dpc,       \* where each maker is
    at,        \* the level it is about
    \* history
    results    \* what each has returned, or -1

dirvars == <<made, link, allowed, dpc, at, results>>

DirLevels == 1..Depth

DirInit ==
    /\ made \in 0..Depth /\ link \in 0..made /\ allowed \in made..Depth
    /\ dpc = [m \in Makers |-> "idle"]
    /\ at = [m \in Makers |-> 0]
    /\ results = [m \in Makers |-> -1]

directory_exists(i) == i <= made /\ i # link

\* mkdir makes one level, below those that exist.
mkdir(i) == i = made + 1 /\ i <= allowed

make_dirs(m) ==
    /\ dpc[m] = "idle" /\ results[m] = -1
    /\ dpc' = [dpc EXCEPT ![m] = "test"]
    /\ at' = [at EXCEPT ![m] = 1]
    /\ UNCHANGED <<made, link, allowed, results>>

\* make_dir has returned ok for the level maker m is about.  The loop stops
\* at the first failure; the whole path, the last level, is tried in any case
\* and decides.
Return(m, ok) ==
    IF at[m] = Depth
    THEN /\ results' = [results EXCEPT ![m] = IF ok THEN 0 ELSE 1]
         /\ dpc' = [dpc EXCEPT ![m] = "idle"]
         /\ UNCHANGED at
    ELSE /\ at' = [at EXCEPT ![m] = IF ok THEN @ + 1 ELSE Depth]
         /\ dpc' = [dpc EXCEPT ![m] = "test"]
         /\ UNCHANGED results

\* make_dir up to its test.
Test(m) ==
    /\ dpc[m] = "test"
    /\ IF directory_exists(at[m])
       THEN Return(m, TRUE)
       ELSE dpc' = [dpc EXCEPT ![m] = "mkdir"] /\ UNCHANGED <<at, results>>
    /\ UNCHANGED <<made, link, allowed>>

\* Mutant: whether mkdir failed is not asked.
MakeUnchecked(m) ==
    /\ dpc[m] = "mkdir"
    /\ made' = IF mkdir(at[m]) THEN at[m] ELSE made
    /\ Return(m, TRUE)
    /\ UNCHANGED <<link, allowed>>

\* The rest of make_dir: in between another maker may have made the level.
Make(m) ==
    /\ dpc[m] = "mkdir"
    /\ made' = IF mkdir(at[m]) THEN at[m] ELSE made
    /\ Return(m, mkdir(at[m]))
    /\ UNCHANGED <<link, allowed>>

DirNext == \E m \in Makers : make_dirs(m) \/ Test(m) \/ Make(m)

DirSpec == DirInit /\ [][DirNext]_dirvars

-----------------------------------------------------------------------------
(* Properties. *)

DirTypeOK ==
    /\ made \in 0..Depth /\ link \in 0..made /\ allowed \in made..Depth
    /\ dpc \in [Makers -> {"idle", "test", "mkdir"}]
    /\ at \in [Makers -> 0..Depth]
    /\ results \in [Makers -> {-1, 0, 1}]

AllReturned == \A m \in Makers : results[m] # -1

\* When all who were to make a path of no links have returned, and nothing
\* forbade it, the path is there and one of them knows; the others may have
\* been told it is not, as each may lose a level to another between its test
\* and its mkdir (util.cpp:590-606,639-649).
\* Who is told it is there is right.  A link within the path stops the loop,
\* so that nothing but a last level is made; a path that is itself a link
\* is never good enough.
DirsMade ==
    /\ DirTypeOK
    /\ \A m \in Makers : results[m] = 0 => made = Depth /\ link # Depth
    /\ AllReturned /\ Makers # {} =>
          /\ link = 0 /\ allowed = Depth => \E m \in Makers : results[m] = 0
          /\ link \in 1..(Depth - 1) /\ allowed = Depth =>
                \/ \E m \in Makers : results[m] = 0
                \/ made < Depth - 1
          /\ link = Depth => \A m \in Makers : results[m] = 1
=============================================================================
