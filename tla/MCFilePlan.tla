----------------------------- MODULE MCFilePlan -----------------------------
(* Model-checking instance of FilePlan: the plans of the CLI's commands, and the
   two kinds that only its library exports. *)
EXTENDS FilePlan

d == <<"", "d">>
e == <<"", "e">>
f == <<"", "f">>
g == <<"", "g">>

Tree(folders, files) ==
    [p \in folders |-> Directory] @@ [p \in files |-> File("user", p)]

Operation(path, to, overwrite) == [path |-> path, to |-> to, overwrite |-> overwrite]
At1(path) == Operation(path, path, FALSE)
Over(path) == Operation(path, path, TRUE)
Plan(kind, ops, tree) == [kind |-> kind, ops |-> ops, tree |-> tree]

Project == Tree({<<>>, <<d>>}, {<<f>>, <<g>>, <<d, f>>})

Commands ==
    { Plan("write", <<At1(<<f>>), At1(<<d, e, f>>)>>, <<>>),               \* new
      Plan("write", <<At1(<<e, f>>), At1(<<d, g>>)>>, Project),            \* generate
      Plan("write", <<Over(<<f>>), Over(<<e>>), Over(<<g>>)>>, Project),   \* model add
      Plan("write", <<At1(<<f>>)>>, Project),                             \* refused
      Plan("remove", <<At1(<<d, f>>), At1(<<d>>)>>, Project),             \* destroy skill
      Plan("remove", <<At1(<<d>>), At1(<<f>>)>>, Project),
      Plan("mkdir", <<At1(<<e, d>>), At1(<<e, f>>), At1(<<d>>)>>, Project),
      Plan("move", <<Operation(<<d>>, <<e, g>>, FALSE)>>, Project),
      Plan("move", <<Operation(<<f>>, <<e>>, FALSE)>>, Project) }
=============================================================================
