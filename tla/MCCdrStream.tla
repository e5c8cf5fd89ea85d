----------------------------- MODULE MCCdrStream -----------------------------
(***************************************************************************)
(* The calls of the stream on small instances.                             *)
(***************************************************************************)
EXTENDS CdrStream

MCArrays == {<<>>, <<6, 300>>}

\* One member on each side of every limit of the short and the long header, and
\* each length code with a size that suits it and one that does not.
MCMembers ==
  { [must |-> 1, id |-> 5, size |-> 8, code |-> NoCode],
    [must |-> 0, id |-> 16128, size |-> 65535, code |-> NoCode],
    [must |-> 0, id |-> 16129, size |-> 12, code |-> 6],
    [must |-> 1, id |-> 7, size |-> 65536, code |-> 7],
    [must |-> 0, id |-> 268435456, size |-> 70001, code |-> 0],
    [must |-> 0, id |-> 3, size |-> 2, code |-> 0] }

=============================================================================
