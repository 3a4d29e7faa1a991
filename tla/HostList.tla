------------------------------- MODULE HostList -------------------------------
(***************************************************************************)
(* The list of hosts: HostsTreeProvider, the walk of discoverHosts through  *)
(* the user's and the system's ssh configuration and the files they         *)
(* include, and the check of every host by ssh -G. The files may change      *)
(* while they are read, and a refresh may begin a second load beside the    *)
(* first.                                                                  *)
(*                                                                         *)
(* A file has a line here for each word of a Host, and for each pattern of  *)
(* an Include: the loops of parseFile run over both alike. A pattern stands  *)
(* for the same files wherever it is (it is absolute, or the files that have *)
(* it are in one directory).                                               *)
(***************************************************************************)
EXTENDS Integers, SequencesExt

CONSTANTS Files,       \* paths of configuration files
          Real,        \* realpath
          Roots,       \* the user's configuration, and the system's
          Words,       \* of Host lines
          Concrete,    \* the words isConcreteAlias accepts
          Contents,    \* what the file system may hold: the lines at each canonical path,
                       \* or NoFile
          NoFile,
          Matches,     \* the files that a pattern stands for if they exist
          Order,       \* where each comes when they are sorted
          MaxDepth,    \* MAX_INCLUDE_DEPTH
          Loads,       \* calls of #load there may be
          MaxEdits     \* bound on the changes of the configuration

\* What splitConfigWords makes of the lines of a file.
Lines == [key : {"host"}, word : Words] \cup [key : {"include"}, pattern : DOMAIN Matches]

ASSUME HostListAssumption ==
  /\ IsFiniteSet(Files) /\ Real \in [Files -> Files]
  /\ Roots \in Seq(Files) /\ Roots # <<>>
  /\ Concrete \subseteq Words /\ Matches \in [DOMAIN Matches -> SUBSET Files]
  /\ \A content \in Contents, f \in Files : content[f] = NoFile \/ content[f] \in Seq(Lines)
  /\ Order \in [Files -> Nat] /\ MaxDepth \in Nat /\ MaxEdits \in Nat

VARIABLES disk,      \* one of Contents
          edits,     \* changes so far
          items,     \* #items: the hosts and their sources, if they are loaded
          pc,        \* of each load: where it awaits
          roots,     \* the configurations still to be parsed
          stack,     \* the files being parsed, innermost last: path, lines and matches left
          file,      \* the file to be resolved or read
          visited, found,  \* the fields of ParseState
          unchecked, \* the hosts ssh -G has not answered for
          steady     \* no code: the configuration has not changed since the load began

walk == <<roots, stack, file, visited, found>>
listVars == <<disk, edits, items, pc, walk, unchecked, steady>>

NoItems == [loaded |-> FALSE, hosts |-> <<>>]
Items(hosts) == [loaded |-> TRUE, hosts |-> hosts]
Exists(f) == disk[Real[f]] # NoFile

ListInit == /\ disk \in Contents /\ edits = 0 /\ items = NoItems
            /\ pc = [l \in Loads |-> "idle"]
            /\ roots = [l \in Loads |-> <<>>] /\ stack = [l \in Loads |-> <<>>]
            /\ file = [l \in Loads |-> Head(Roots)]
            /\ visited = [l \in Loads |-> {}] /\ found = [l \in Loads |-> <<>>]
            /\ unchecked = [l \in Loads |-> {}] /\ steady = [l \in Loads |-> TRUE]

To(l, step) == pc' = [pc EXCEPT ![l] = step]

-----------------------------------------------------------------------------
\* getChildren, when there are no items: it does not know of a load in progress.
GetChildren(l) ==
  /\ items = NoItems /\ pc[l] = "idle" /\ To(l, "resolve")
  /\ roots' = [roots EXCEPT ![l] = Tail(Roots)]
  /\ steady' = [steady EXCEPT ![l] = TRUE]
  /\ UNCHANGED <<disk, edits, items, stack, file, visited, found, unchecked>>

Refresh == /\ items' = NoItems /\ items # NoItems
           /\ UNCHANGED <<disk, edits, pc, walk, unchecked, steady>>

\* The user edits the configuration. "It is never watched."
Edit == /\ edits < MaxEdits /\ edits' = edits + 1
        /\ disk' \in Contents \ {disk}
        /\ steady' = [l \in Loads |-> FALSE]
        /\ UNCHANGED <<items, pc, walk, unchecked>>

-----------------------------------------------------------------------------
\* Slip: every route to a file is followed.
Seen_None(l, f) == FALSE

\* "Two Includes reaching the same file by different routes are the same file".
Seen(l, f) == Real[f] \in visited[l]

\* parseFile: the depth, realpath, and the files visited.
Resolve(l) ==
  /\ pc[l] = "resolve"
  /\ IF Len(stack[l]) > MaxDepth THEN To(l, "threw") /\ UNCHANGED visited
     ELSE IF ~Exists(file[l]) \/ Seen(l, file[l]) THEN To(l, "line") /\ UNCHANGED visited
     ELSE To(l, "read") /\ visited' = [visited EXCEPT ![l] = @ \cup {Real[file[l]]}]
  /\ UNCHANGED <<disk, edits, items, roots, stack, file, found, unchecked, steady>>

\* readFile. A file that cannot be read is passed over.
Read(l) ==
  /\ pc[l] = "read" /\ To(l, "line")
  /\ stack' = [stack EXCEPT ![l] =
       IF Exists(file[l])
       THEN Append(@, [path |-> file[l], lines |-> disk[Real[file[l]]], matches |-> {}]) ELSE @]
  /\ UNCHANGED <<disk, edits, items, roots, file, visited, found, unchecked, steady>>

\* Slip: the last file that names a host is its source.
Added_Last(hosts, word, f) ==
  Append(SelectSeq(hosts, LAMBDA h : h.alias # word), [alias |-> word, source |-> f])

\* A word of a Host line: the first file that names a host is its source.
Added(hosts, word, f) ==
  IF word \in Concrete /\ \A i \in DOMAIN hosts : hosts[i].alias # word
  THEN Append(hosts, [alias |-> word, source |-> f]) ELSE hosts

Top(l) == Last(stack[l])
SetTop(l, frame) == stack' = [stack EXCEPT ![l] = Append(Front(@), frame)]

\* The next that parseFile and discoverHosts do: of the innermost file, the next file its
\* Include matched, or its next line. They await nothing but expandGlob.
NextMatch(l) == \E f \in Top(l).matches :
  /\ \A g \in Top(l).matches : Order[f] <= Order[g]
  /\ file' = [file EXCEPT ![l] = f] /\ To(l, "resolve")
  /\ SetTop(l, [Top(l) EXCEPT !.matches = @ \ {f}])
  /\ UNCHANGED <<roots, found, unchecked>>

\* Its next line, and what expandGlob finds for an Include: the files that exist.
TakeLine(l, files) == /\ Top(l).matches = {} /\ Top(l).lines # <<>>
                      /\ SetTop(l, [Top(l) EXCEPT !.lines = Tail(@), !.matches = files])
                      /\ UNCHANGED <<pc, roots, file, unchecked>>

HostLine(l) == /\ TakeLine(l, {}) /\ Head(Top(l).lines).key = "host"
               /\ found' = [found EXCEPT ![l] = Added(@, Head(Top(l).lines).word, Top(l).path)]

IncludeLine(l) == /\ Top(l).lines # <<>> /\ Head(Top(l).lines).key = "include"
                  /\ TakeLine(l, {f \in Matches[Head(Top(l).lines).pattern] : Exists(f)})
                  /\ UNCHANGED found

EndOfFile(l) == /\ Top(l).matches = {} /\ Top(l).lines = <<>>
                /\ stack' = [stack EXCEPT ![l] = Front(@)]
                /\ UNCHANGED <<pc, roots, file, found, unchecked>>

\* The system's configuration comes after the user's; then ssh -G is asked about each host.
NextRoot(l) ==
  /\ stack[l] = <<>>
  /\ IF roots[l] # <<>>
     THEN /\ file' = [file EXCEPT ![l] = Head(roots[l])] /\ To(l, "resolve")
          /\ roots' = [roots EXCEPT ![l] = Tail(@)]
          /\ UNCHANGED unchecked
     ELSE /\ To(l, "validate")
          /\ unchecked' = [unchecked EXCEPT ![l] = {h.alias : h \in Range(found[l])}]
          /\ UNCHANGED <<file, roots>>
  /\ UNCHANGED <<stack, found>>

Parse(l) == /\ pc[l] = "line"
            /\ \/ stack[l] # <<>> /\ (NextMatch(l) \/ HostLine(l) \/ IncludeLine(l) \/ EndOfFile(l))
               \/ NextRoot(l)
            /\ UNCHANGED <<disk, edits, items, visited, steady>>

-----------------------------------------------------------------------------
\* validateHost: ssh -G answers, for good or bad, which is shown with the host.
Checked(l, a) == /\ pc[l] = "validate" /\ a \in unchecked[l]
                 /\ unchecked' = [unchecked EXCEPT ![l] = @ \ {a}]
                 /\ UNCHANGED <<disk, edits, items, pc, walk, steady>>

\* Slip: ssh -G is waited for without end.
Overdue_Never(l) == {}

\* SSH_G_TIMEOUT_MS, which every run of ssh -G has.
Overdue(l) == unchecked[l]

CheckTimesOut(l) == \E a \in Overdue(l) : Checked(l, a)

\* The load is over, and its items are the ones there are, whatever has happened since.
Settle(l) ==
  /\ \/ pc[l] = "validate" /\ unchecked[l] = {} /\ items' = Items(found[l])
     \/ pc[l] = "threw" /\ items' = Items(<<>>)
  /\ To(l, IF pc[l] = "threw" THEN "failed" ELSE "done")
  /\ UNCHANGED <<disk, edits, walk, unchecked, steady>>

-----------------------------------------------------------------------------
Load(l) == Resolve(l) \/ Read(l) \/ Parse(l) \/ CheckTimesOut(l) \/ Settle(l)

ListNext == \/ Refresh \/ Edit
            \/ \E l \in Loads : \/ GetChildren(l) \/ Load(l)
                                \/ \E a \in unchecked[l] : Checked(l, a)

ListSpec == ListInit /\ [][ListNext]_listVars

\* The file system answers, and timeouts run out; ssh -G need not.
ListFairSpec == ListSpec /\ \A l \in Loads : WF_listVars(Load(l))

-----------------------------------------------------------------------------
\* What is there to be found: the files that can be reached from a set, by any route.
There == {f \in Files : Exists(f)}

Included(f) == UNION {Matches[line.pattern] :
                        line \in {x \in Range(disk[Real[f]]) : x.key = "include"}}

\* A set of files from which no Include leads to another, and that has those of S.
Closed(S, T) == \A f \in There : f \in S \/ (\E g \in T : f \in Included(g)) => f \in T
Reach(S) == {f \in There : \A T \in SUBSET There : Closed(S, T) => f \in T}

Names(f) == {line.word : line \in {x \in Range(disk[Real[f]]) : x.key = "host"}} \cap Concrete

\* The list is complete whatever way the files include each other: it has every host of
\* every file in reach, once, and "its aliases win when a name appears in both" of the user's
\* configuration. A load gives up only if the files are more than MAX_INCLUDE_DEPTH, never
\* for a cycle. (Of a configuration that has not changed meanwhile.)
ListIsComplete ==
  \A l \in Loads : steady[l] =>
    LET hosts == Range(found[l])
        source(a) == Real[(CHOOSE h \in hosts : h.alias = a).source]
    IN /\ pc[l] = "done" =>
            /\ {h.alias : h \in hosts} = UNION {Names(f) : f \in Reach(Range(Roots))}
            /\ Len(found[l]) = Cardinality({h.alias : h \in hosts})
            /\ \A f \in Reach({Head(Roots)}) : \A a \in Names(f) :
                 source(a) \in {Real[g] : g \in Reach({Head(Roots)})}
       /\ pc[l] \in {"threw", "failed"} =>
            Cardinality({Real[f] : f \in Reach(Range(Roots))}) > MaxDepth

\* The list of hosts appears, whatever ssh -G does.
LoadEnds == \A l \in Loads : pc[l] # "idle" ~> pc[l] \in {"done", "failed"}
=============================================================================
