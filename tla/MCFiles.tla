------------------------------- MODULE MCFiles -------------------------------
(* An instance of Files for TLC: a directory, a file, and calls that meet at  *)
(* them, with paths through "." and ".." and names that exist or do not.      *)
EXTENDS Files, TLC

Call(op, path, to, abs) ==
  [op |-> op, path |-> path, to |-> to, abs |-> abs, toabs |-> abs]

AllCalls ==
  {Call("creat", <<"d", "f">>, <<>>, TRUE),
   Call("chdir", <<>>, <<>>, TRUE),
   Call("mkdir", <<"f">>, <<>>, FALSE),
   Call("chdir", <<"d", "d">>, <<>>, TRUE),
   Call("open", <<"..">>, <<>>, FALSE),
   Call("unlink", <<"d">>, <<>>, TRUE),
   Call("unlink", <<"d", "d">>, <<>>, TRUE),
   Call("unlink", <<"d", "f">>, <<>>, TRUE),
   Call("unlink", <<"d", "..">>, <<>>, TRUE),
   Call("link", <<"f">>, <<"d", "f">>, TRUE),
   Call("link", <<"f">>, <<"d", ".">>, TRUE),
   Call("copy", <<"f">>, <<"d", "f">>, TRUE)}

Symmetry == Permutations(Callers)

=============================================================================
