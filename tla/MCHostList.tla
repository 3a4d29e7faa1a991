------------------------------ MODULE MCHostList ------------------------------
(* Instances of HostList: a user's and a system's configuration, a directory of included
   files that name each other, and a second path to one of them. *)
EXTENDS HostList

CONSTANTS user, system, x, y, link, A, B, star

Canonical == [f \in Files |-> IF f = link THEN x ELSE f]
BothRoots == <<user, system>>

Host(word) == [key |-> "host", word |-> word]
Include(pattern) == [key |-> "include", pattern |-> pattern]

\* Patterns: a file by name, or `all`, which matches both paths of x, and y.
Patterns == [q \in Files \cup {"all"} |-> IF q = "all" THEN {link, x, y} ELSE {q}]
Sorted == user :> 1 @@ system :> 2 @@ link :> 3 @@ x :> 4 @@ y :> 5

At(u, s, atX, atY) == (user :> u) @@ (system :> s) @@ (x :> atX) @@ (y :> atY) @@ (link :> NoFile)

Configurations ==
  { At(<<Host(A), Host(star), Include("all"), Host(B)>>, <<Host(A)>>,
       <<Include(y)>>, <<Include(link), Host(B), Host(A)>>),
    At(<<Include(x)>>, <<Include(y), Host(A)>>, <<Include(user), Include(y)>>, <<Host(B)>>),
    At(<<Include(x), Host(B)>>, <<Host(B), Include("all")>>, <<Host(A)>>, NoFile),
    At(<<Include(x), Host(A), Host(B)>>, NoFile, <<Include(link), Host(B)>>, NoFile),
    At(<<Include(x)>>, <<Host(A)>>, <<Include(y)>>, <<Include(link), Host(B)>>),
    At(NoFile, <<Include(x)>>, <<Include(y)>>, <<Include(user), Include(x), Host(A)>>) }
=============================================================================
