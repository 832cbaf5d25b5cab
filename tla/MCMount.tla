------------------------------ MODULE MCMount ------------------------------
(* A small mount. *)
EXTENDS Mount

Item(name, kind, tree) == [name |-> name, kind |-> kind, tree |-> tree]

\* A directory with a directory and an empty one; a file that is a source for
\* itself, and a directory that looks like one.
SomeTrees ==
    ("src" :> {Item("d", "dir", "sub"), Item("e", "dir", NoTree), Item("f", "file", "big")})
    @@ ("sub" :> {Item("s", "symlink", "to")})
    @@ ("one" :> {Item("f", "file", "big")})

Sources(path, tree) == [path |-> path, tree |-> tree]
\* Two roots with directories above them in common, and everything.
SomeRoots ==
    ("t1" :> <<Sources(<<"a", "b">>, "src"), Sources(<<"a", "f">>, "one"), Sources(<<"d">>, "one")>>)
    @@ ("t2" :> <<Sources(<<>>, "src")>>)

\* The second chunk is empty, the last one is the first again.
SomeFiles == ("big" :> <<"k", "z", "m", "k">>)
SomeLengths == ("k" :> 2) @@ ("z" :> 0) @@ ("m" :> 1)
SomeSpans == [offset : {0, 2, 5}, size : {1, 4}]
=============================================================================
