----------------------------- MODULE MCMemVars -----------------------------
\* A name that is another one when it is cut to eleven characters, and values
\* of every kind that a file does not hold as they were; what they are restored
\* as are values of the kinds it holds.
EXTENDS MemVars

SomeNames == {"x", "longname", "longname2"}
Cut == [n \in SomeNames |-> IF n = "x" THEN n ELSE "longname"]

SomeValues == {[type |-> "integer", data |-> 2], [type |-> "real", data |-> 4],
               Text(5), Date(12, 31), Null}
=============================================================================
