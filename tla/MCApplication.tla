--------------------------- MODULE MCApplication ---------------------------
(* An instance of Application for TLC: a directory, a file in it, and both  *)
(* once more, through a second argument.  The file may shrink or grow.      *)
EXTENDS Application

MCNames == {"dir", "file"}

MCItems == <<[name |-> "dir", directory |-> TRUE, size |-> 1, most |-> 1],
             [name |-> "file", directory |-> FALSE, size |-> 1, most |-> 2],
             [name |-> "dir", directory |-> TRUE, size |-> 1, most |-> 1],
             [name |-> "file", directory |-> FALSE, size |-> 1, most |-> 2]>>

\* The items are such as FinalBar is for.
ASSUME MCItemsAssumption == SizesFit
=============================================================================
