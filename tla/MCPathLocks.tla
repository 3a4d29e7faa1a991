---------------------------- MODULE MCPathLocks ----------------------------
(* Two small trees for PathLocks, and the operations run on each. *)
EXTENDS PathLocks

\* Two files of one directory.
MCPaths == {"/", "/a", "/a/x", "/a/y", "/b"}
MCParent == [p \in MCPaths |-> IF p \in {"/a/x", "/a/y"} THEN "/a" ELSE "/"]
MCRank == [p \in MCPaths |-> CASE p = "/" -> 0 [] p = "/a" -> 1 [] p = "/a/x" -> 2
                               [] p = "/a/y" -> 3 [] p = "/b" -> 4]

\* Saves, creations and deletions at four places, and a rename whose keys ascend: it
\* moves a child of the root below /b.
DeepPaths == {"/", "/a", "/b", "/b/c", "/b/c/z"}
DeepParent == [p \in DeepPaths |-> CASE p = "/b/c/z" -> "/b/c" [] p = "/b/c" -> "/b"
                                     [] OTHER -> "/"]
DeepRank == [p \in DeepPaths |-> CASE p = "/" -> 0 [] p = "/a" -> 1 [] p = "/b" -> 2
                                   [] p = "/b/c" -> 3 [] p = "/b/c/z" -> 4]
MovePlans == {<<"/a", "/b/c">>} \cup {<<p>> : p \in {"/", "/b", "/b/c", "/b/c/z"}}

\* Renaming a file within its directory, as the file browser does.
RenamePlans == {<<"/a/x", "/a/y">>}
=============================================================================
