-------------------------- MODULE MCParallelBuild --------------------------
(* Small file trees for ParallelBuild.                                     *)
EXTENDS ParallelBuild, TLC

\* A tree whose parts repeat each other: "x/a" and "y/a" are the same file
\* of two chunks, "y/b" is a file of the first of them, "x" has a single entry,
\* and "z" is an empty file of the root.
TreeDirs == {"root", "x", "y"}
TreeFiles == {"xa", "ya", "yb", "z"}
TreeEntries == ("root" :> <<"x", "y", "z">>) @@ ("x" :> <<"xa">>) @@ ("y" :> <<"ya", "yb">>)
TreeName == ("root" :> "root") @@ ("x" :> "x") @@ ("y" :> "y")
              @@ ("xa" :> "a") @@ ("ya" :> "a") @@ ("yb" :> "b")
              @@ ("z" :> "z")
TreeContent == ("xa" :> <<"p", "q">>) @@ ("ya" :> <<"p", "q">>) @@ ("yb" :> <<"p">>)
                 @@ ("z" :> <<>>)

Sizes == ("p" :> 2) @@ ("q" :> 3)
=============================================================================
