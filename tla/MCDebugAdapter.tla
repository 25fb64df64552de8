--------------------------- MODULE MCDebugAdapter ---------------------------
(* A table with one safepoint in each of two files; a client that controls  *)
(* the program, and one that steps and looks at it.                         *)
EXTENDS DebugAdapter
CONSTANTS e1, e2, f1, f2
MCFileOf == [e \in Entries |-> IF e = e1 THEN f1 ELSE f2]
MCClients ==
  { [kinds |-> Resumes \cup {"launch", "pause", "setBreakpoints", "disconnect"}, requests |-> 4],
    [kinds |-> Inspects \cup {"launch", "stepIn"}, requests |-> 6] }
=============================================================================
