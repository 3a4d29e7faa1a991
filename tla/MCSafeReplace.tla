---------------------------- MODULE MCSafeReplace ----------------------------
(* Instances of SafeReplace: the names of one directory's files. *)
EXTENDS SafeReplace

CONSTANTS s1, s2, c1, c2

TempNames == [s \in Savers |-> IF s = s1 THEN ".file.1.tmp" ELSE ".file.2.tmp"]
BackNames == [s \in Savers |-> IF s = s1 THEN ".file.1.bak" ELSE ".file.2.bak"]

OpenSSH == [posix |-> TRUE, fsync |-> TRUE]
Plain == [posix |-> FALSE, fsync |-> FALSE]
AnyServer == {OpenSSH, Plain}
PlainServer == {Plain}
=============================================================================
