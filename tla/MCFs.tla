-------------------------------- MODULE MCFs --------------------------------
(***************************************************************************)
(* Instances of Fs for model checking.  Processes that make the same calls *)
(* are alike.                                                              *)
(***************************************************************************)
EXTENDS Fs

Op(op, path) == [op |-> op, path |-> path]
Ln(old, new) == [op |-> "link", path |-> old, new |-> new]
Dir(me, up) == ("." :> me) @@ (".." :> up)
All(calls) == [p \in Proc |-> calls]

\* The root with a file "a".
FlatTree == (1 :> (Dir(1, 1) @@ ("a" :> 2))) @@ (2 :> <<>>)
FlatCalls == All({Op("creat", <<"/", "b">>), Op("open", <<"/", "a">>), Op("unlink", <<"/", "a">>),
                  Op("unlink", <<"/", "b">>), Ln(<<"/", "a">>, <<"/", "b">>)})

\* The root with an empty directory "d".
DirTree == (1 :> (Dir(1, 1) @@ ("d" :> 2))) @@ (2 :> Dir(2, 1))
DirCalls == All({Op("creat", <<"/", "d", "x">>), Op("unlink", <<"/", "d", "x">>),
                 Op("unlink", <<"/", "d">>), Op("mkdir", <<"/", "d">>)})

\* A directory inside a directory: both are removed under a program that works there and
\* goes up from there.
NestTree == (1 :> (Dir(1, 1) @@ ("d" :> 2))) @@ (2 :> (Dir(2, 1) @@ ("e" :> 3))) @@ (3 :> Dir(3, 2))
NestCalls == All({Op("chdir", <<"/", "d", "e">>), Op("unlink", <<"/", "d", "e">>),
                  Op("unlink", <<"/", "d">>), Op("chdir", <<"..">>)})

\* One program makes names, the others look them up.
RootTree == 1 :> Dir(1, 1)
LookCalls(maker) ==
  [p \in Proc |->
     IF p = maker
       THEN {Op("creat", <<"/", "b">>), Op("mkdir", <<"/", "d">>), Ln(<<"/", "b">>, <<"/", "d", "c">>)}
       ELSE {Op("open", <<"/", "d", "c">>), Op("openw", <<"/", "d">>), Op("chdir", <<"/", "d">>),
             Op("chdir", <<"..">>), Op("creat", <<"/">>), Op("mknod", <<"/", "b">>)}]

Loads == {[calls |-> FlatCalls, nofile |-> 1, tree |-> FlatTree],
          [calls |-> DirCalls, nofile |-> 0, tree |-> DirTree],
          [calls |-> NestCalls, nofile |-> 0, tree |-> NestTree]}
         \cup {[calls |-> LookCalls(p), nofile |-> 1, tree |-> RootTree] : p \in Proc}

\* Two programs create and remove the same name.
CrossCalls == All({Op("creat", <<"/", "b">>), Op("unlink", <<"/", "b">>)})
Cross == {[calls |-> CrossCalls, nofile |-> 1, tree |-> FlatTree]}

Symmetry == Permutations(Proc)
=============================================================================
