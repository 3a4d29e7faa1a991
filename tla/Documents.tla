------------------------------ MODULE Documents ------------------------------
(***************************************************************************)
(* Opening and saving documents: RemoteFileSystemProvider's readFile,       *)
(* writeFile, delete and release with the baselines they remember, and the  *)
(* conflict check of RemoteSession.writeFile, in several windows and beside *)
(* other programs that change the same files.                              *)
(*                                                                         *)
(* safeReplace is one step here: SafeReplace shows that with posix-rename   *)
(* nobody sees a state in between. The write lock of a window is a set of   *)
(* owners here: PathLocks shows that it excludes and that nobody starves.   *)
(***************************************************************************)
EXTENDS Integers, FiniteSets

CONSTANTS Windows,     \* extension hosts, each with a provider and a session of its own
          Docs,        \* the documents, by their URI
          Paths,
          PathOf,      \* remotePathOf, which ignores the host in the URI
          Tasks,       \* provider calls there may be in progress at once
          MaxVersions, \* bound on the versions written
          Nobody,      \* who is no window: another program
          Others,      \* whether programs elsewhere change the files
          Forgets,     \* whether the stat that refreshes a baseline may fail
          Discards     \* whether the user may discard changes at a conflict

\* A version stands for a content and for the size and mtime that a stat returns. (Two
\* versions of one size written in one second are the same to this program.)
Versions == 0..MaxVersions
Missing == 0

ASSUME DocumentsAssumption ==
  /\ PathOf \in [Docs -> Paths]
  /\ MaxVersions \in Nat \ {0} /\ Nobody \notin Windows
  /\ Others \in BOOLEAN /\ Forgets \in BOOLEAN /\ Discards \in BOOLEAN

VARIABLES file,     \* the version under each path
          made,     \* versions written so far
          by,       \* who wrote each: a window, or another program
          base,     \* #documents of each window: the baseline of a document, or Missing
          seen,     \* the versions the text in an editor has been: no code, for the properties
          pc,       \* where each call is suspended
          win, doc, \* the window and the document it is for
          known,    \* writeFile: the baseline it captured; readFile: `before`
          current,  \* writeFile: the version its check found
          agreed,   \* writeFile: the version the user said to overwrite
          handle,   \* readFile: the version of the file its handle is open on
          parts,    \* readFile: the versions its data came from
          attempt   \* readFile: the number of this attempt

reading == <<handle, parts, attempt>>
saving == <<current, agreed>>
vars == <<file, made, by, base, seen, pc, win, doc, known, saving, reading>>

path(t) == PathOf[doc[t]]

-----------------------------------------------------------------------------
Init == /\ file = [p \in Paths |-> 1]
        /\ made = 1
        /\ by = [v \in Versions |-> Nobody]
        /\ base = [w \in Windows |-> [d \in Docs |-> Missing]]
        /\ seen = [w \in Windows |-> [d \in Docs |-> {}]]
        /\ pc = [t \in Tasks |-> "idle"]
        /\ win \in [Tasks -> Windows] /\ doc \in [Tasks -> Docs]
        /\ known = [t \in Tasks |-> Missing]
        /\ current = [t \in Tasks |-> Missing] /\ agreed = [t \in Tasks |-> Missing]
        /\ handle = [t \in Tasks |-> Missing] /\ parts = [t \in Tasks |-> {}]
        /\ attempt = [t \in Tasks |-> 0]

Goto(t, step) == pc' = [pc EXCEPT ![t] = step]

\* VS Code (external to src) calls the provider of window w for document d. It opens,
\* creates and closes a document while nothing else is under way for it.
Alone(w, d) == \A t \in Tasks : pc[t] # "idle" => win[t] # w \/ doc[t] # d

Call(t, w, d, step) == /\ seen[w][d] = {} => Alone(w, d)
                       /\ pc[t] = "idle" /\ Goto(t, step)
                       /\ win' = [win EXCEPT ![t] = w] /\ doc' = [doc EXCEPT ![t] = d]
                       /\ UNCHANGED <<file, made, by, base, seen, saving, handle, parts>>

End(t) == /\ pc' = [pc EXCEPT ![t] = "idle"]
          /\ known' = [known EXCEPT ![t] = Missing]
          /\ current' = [current EXCEPT ![t] = Missing]
          /\ agreed' = [agreed EXCEPT ![t] = Missing]
          /\ handle' = [handle EXCEPT ![t] = Missing]
          /\ parts' = [parts EXCEPT ![t] = {}]
          /\ attempt' = [attempt EXCEPT ![t] = 0]

\* this.#documents.set and .delete
Remember(t, v) == base' = [base EXCEPT ![win[t]][doc[t]] = v]
Forget(t) == Remember(t, Missing)

\* The lock of a path and its parent: one window's operations in a directory exclude
\* one another.
Locked == {"checking", "asking", "replacing", "removing"}
LockFree(t) == \A u \in Tasks : win[u] = win[t] => pc[u] \notin Locked

-----------------------------------------------------------------------------
\* readFile of the provider, and of the session, whose two attempts each stat, read and
\* stat again.
Open(t, w, d) == /\ Call(t, w, d, "before")
                 /\ attempt' = [attempt EXCEPT ![t] = 1]
                 /\ UNCHANGED known

Before(t) ==
  /\ pc[t] = "before"
  /\ \/ file[path(t)] = Missing /\ End(t)
     \/ /\ file[path(t)] # Missing
        /\ known' = [known EXCEPT ![t] = file[path(t)]]
        /\ Goto(t, "open")
        /\ UNCHANGED <<saving, reading>>
  /\ UNCHANGED <<file, made, by, base, seen, win, doc>>

OpenHandle(t) ==
  /\ pc[t] = "open"
  /\ \/ file[path(t)] = Missing /\ End(t)
     \/ /\ file[path(t)] # Missing
        /\ handle' = [handle EXCEPT ![t] = file[path(t)]]
        /\ parts' = [parts EXCEPT ![t] = {}]
        /\ Goto(t, "read")
        /\ UNCHANGED <<known, saving, attempt>>
  /\ UNCHANGED <<file, made, by, base, seen, win, doc>>

\* A READ returns what the open file holds; the last one ends the loop.
Read(t) ==
  /\ pc[t] = "read"
  /\ parts' = [parts EXCEPT ![t] = @ \cup {handle[t]}]
  /\ pc' \in {pc, [pc EXCEPT ![t] = "after"]}
  /\ UNCHANGED <<file, made, by, base, seen, win, doc, known, saving, handle, attempt>>

Retry(t) == /\ attempt' = [attempt EXCEPT ![t] = @ + 1]
            /\ Goto(t, "before")
            /\ UNCHANGED <<base, seen, known, saving, handle, parts>>

\* The content and its baseline go to the editor and to #documents at once.
Opened(t) == /\ Remember(t, file[path(t)])
             /\ seen' = [seen EXCEPT ![win[t]][doc[t]] = parts[t]]
             /\ End(t)

\* Slip: the second stat is not compared with the first.
After_Unchecked(t) ==
  /\ pc[t] = "after"
  /\ \/ file[path(t)] = Missing /\ End(t) /\ UNCHANGED <<base, seen>>
     \/ file[path(t)] # Missing /\ Opened(t)
  /\ UNCHANGED <<file, made, by, win, doc>>

\* The two stats agree, or it tries once more, or gives up.
After(t) ==
  /\ pc[t] = "after"
  /\ \/ file[path(t)] = known[t] /\ Opened(t)
     \/ file[path(t)] \notin {Missing, known[t]} /\ attempt[t] < 2 /\ Retry(t)
     \/ /\ file[path(t)] = Missing \/ (file[path(t)] # known[t] /\ attempt[t] = 2)
        /\ End(t) /\ UNCHANGED <<base, seen>>
  /\ UNCHANGED <<file, made, by, win, doc>>

-----------------------------------------------------------------------------
\* writeFile: the baseline is captured before the user is asked to confirm.
Save(t, w, d) == /\ Call(t, w, d, "confirming")
                 /\ known' = [known EXCEPT ![t] = base[w][d]]
                 /\ UNCHANGED attempt

Decline(t) == /\ pc[t] = "confirming" /\ End(t)
              /\ UNCHANGED <<file, made, by, base, seen, win, doc>>

Confirm(t) == /\ pc[t] = "confirming" /\ Goto(t, "waiting")
              /\ UNCHANGED <<file, made, by, base, seen, win, doc, known, saving, reading>>

\* Slip: the check is made before the lock is taken, the replace inside.
Lock_Late(t) ==
  /\ pc[t] = "waiting"
  /\ Goto(t, IF known[t] # Missing THEN "checking" ELSE "replacing")
  /\ UNCHANGED <<file, made, by, base, seen, win, doc, known, saving, reading>>

\* RemoteSession.writeFile in its lock: without a baseline there is no check.
Lock(t) ==
  /\ pc[t] = "waiting" /\ LockFree(t)
  /\ Goto(t, IF known[t] # Missing THEN "checking" ELSE "replacing")
  /\ UNCHANGED <<file, made, by, base, seen, win, doc, known, saving, reading>>

\* A file that is gone is no conflict.
Check(t) ==
  /\ pc[t] = "checking"
  /\ current' = [current EXCEPT ![t] = file[path(t)]]
  /\ Goto(t, IF file[path(t)] \in {Missing, known[t]} THEN "replacing" ELSE "asking")
  /\ UNCHANGED <<file, made, by, base, seen, win, doc, known, agreed, reading>>

\* The conflict dialog, with the lock held: overwrite, cancel, or discard, which clears
\* the whole map.
Overwrite(t) ==
  /\ pc[t] = "asking" /\ Goto(t, "replacing")
  /\ agreed' = [agreed EXCEPT ![t] = current[t]]
  /\ UNCHANGED <<file, made, by, base, seen, win, doc, known, current, reading>>

Cancel(t) == /\ pc[t] = "asking" /\ End(t)
             /\ UNCHANGED <<file, made, by, base, seen, win, doc>>

Discard(t) == /\ Discards /\ pc[t] = "asking" /\ End(t)
              /\ base' = [base EXCEPT ![win[t]] = [d \in Docs |-> Missing]]
              /\ UNCHANGED <<file, made, by, seen, win, doc>>

\* safeReplace, which succeeds or fails as a whole; the lock is released.
Swap(t) == /\ pc[t] = "replacing" /\ made < MaxVersions
           /\ made' = made + 1
           /\ file' = [file EXCEPT ![path(t)] = made + 1]
           /\ by' = [by EXCEPT ![made + 1] = win[t]]

Replace(t) ==
  /\ Swap(t)
  /\ seen' = [seen EXCEPT ![win[t]][doc[t]] = IF @ = {} THEN @ ELSE {made + 1}]
  /\ Goto(t, "refreshing")
  /\ UNCHANGED <<base, win, doc, known, saving, reading>>

\* A request fails and the call throws; the swap may have been performed all the same.
Fail(t) ==
  /\ pc[t] \in {"before", "open", "read", "after", "checking", "replacing", "removing"}
  /\ End(t)
  /\ Swap(t) \/ UNCHANGED <<file, made, by>>
  /\ UNCHANGED <<base, seen, win, doc>>

\* The new baseline is whatever is there now; if there is nothing, or the stat fails,
\* there is none.
Refresh(t) ==
  /\ pc[t] = "refreshing" /\ End(t)
  /\ Remember(t, file[path(t)]) \/ (Forgets /\ Forget(t))
  /\ UNCHANGED <<file, made, by, seen, win, doc>>

-----------------------------------------------------------------------------
\* delete of a file: stat, then remove under the lock.
Delete(t, w, d) == /\ file[PathOf[d]] # Missing /\ Call(t, w, d, "deleting")
                   /\ UNCHANGED <<known, attempt>>

LockDelete(t) ==
  /\ pc[t] = "deleting" /\ LockFree(t) /\ Goto(t, "removing")
  /\ UNCHANGED <<file, made, by, base, seen, win, doc, known, saving, reading>>

Remove(t) ==
  /\ pc[t] = "removing" /\ End(t)
  /\ \/ /\ file[path(t)] # Missing
        /\ file' = [file EXCEPT ![path(t)] = Missing]
        /\ Forget(t)
        /\ seen' = [seen EXCEPT ![win[t]][doc[t]] = {}]
     \/ UNCHANGED <<file, base, seen>>
  /\ UNCHANGED <<made, by, win, doc>>

\* An editor closes: release.
Release(w, d) ==
  /\ Alone(w, d)
  /\ base' = [base EXCEPT ![w][d] = Missing]
  /\ seen' = [seen EXCEPT ![w][d] = {}]
  /\ UNCHANGED <<file, made, by, pc, win, doc, known, saving, reading>>

\* Another program writes the file in place, which open handles see, or removes it.
Write(p) ==
  /\ Others /\ made < MaxVersions
  /\ made' = made + 1
  /\ file' = [file EXCEPT ![p] = made + 1]
  /\ handle' = [t \in Tasks |-> IF handle[t] # Missing /\ path(t) = p /\ handle[t] = file[p]
                                THEN made + 1 ELSE handle[t]]
  /\ UNCHANGED <<by, base, seen, pc, win, doc, known, saving, parts, attempt>>

Unlink(p) == /\ Others /\ file[p] # Missing
             /\ file' = [file EXCEPT ![p] = Missing]
             /\ UNCHANGED <<made, by, base, seen, pc, win, doc, known, saving, reading>>

Advance(t) == \/ Before(t) \/ OpenHandle(t) \/ Read(t) \/ After(t)
              \/ Decline(t) \/ Confirm(t) \/ Lock(t) \/ Check(t)
              \/ Overwrite(t) \/ Cancel(t) \/ Discard(t)
              \/ Replace(t) \/ Fail(t) \/ Refresh(t)
              \/ LockDelete(t) \/ Remove(t)

Next == \/ \E t \in Tasks : Advance(t)
        \/ \E w \in Windows, d \in Docs :
             \/ Release(w, d)
             \/ \E t \in Tasks : Open(t, w, d) \/ Save(t, w, d) \/ Delete(t, w, d)
        \/ \E p \in Paths : Write(p) \/ Unlink(p)

Spec == Init /\ [][Next]_vars

-----------------------------------------------------------------------------
\* Every variable has its type; a baseline is a version that has existed. (An aid when the
\* model is changed: no run lists it.)
TypeOK ==
  /\ made \in 1..MaxVersions
  /\ file \in [Paths -> 0..made]
  /\ by \in [Versions -> Windows \cup {Nobody}]
  /\ base \in [Windows -> [Docs -> 0..made]]
  /\ seen \in [Windows -> [Docs -> SUBSET (1..made)]]
  /\ pc \in [Tasks -> {"idle", "before", "open", "read", "after", "confirming", "waiting",
                       "refreshing", "deleting"} \cup Locked]
  /\ win \in [Tasks -> Windows] /\ doc \in [Tasks -> Docs]
  /\ known \in [Tasks -> 0..made] /\ current \in [Tasks -> 0..made]
  /\ agreed \in [Tasks -> 0..made] /\ handle \in [Tasks -> 0..made]
  /\ parts \in [Tasks -> SUBSET (1..made)] /\ attempt \in [Tasks -> 0..2]

\* "the bytes we assembled may be a mix of two versions, and silently handing that to an
\* editor would be worse": what readFile hands to the editor is one version, and its
\* baseline is that of this version.
ReadIsOneVersion ==
  [][\A t \in Tasks : pc[t] = "after" /\ pc'[t] = "idle" /\ base' # base =>
        parts[t] = {base'[win[t]][doc[t]]}]_vars

\* "checking it outside would leave a window in which another save could land between the
\* check and the replace": a save that has a baseline replaces that version, or one the
\* user agreed to overwrite; if it is any other, the version is not of the same window.
OverwritesAreAgreed ==
  [][\A t \in Tasks :
       LET p == path(t) IN
       pc[t] = "replacing" /\ pc'[t] = "refreshing" /\ known[t] # Missing =>
         \/ file[p] \in {Missing, known[t], agreed[t]}
         \/ by[file[p]] # win[t]]_vars

\* "a change someone else made in the meantime is never silently overwritten": a save goes
\* on without asking only if the file is gone or holds what the editor has read or saved.
\* (Only of documents that were opened; and not of what changes after the check.) No run
\* lists it, and it is false: a baseline may be of a version nobody has seen.
NoSilentOverwrite ==
  [][\A t \in Tasks :
       LET text == seen[win[t]][doc[t]] IN
       /\ pc[t] \in {"waiting", "checking"} /\ pc'[t] = "replacing" /\ text # {}
       => file[path(t)] \in {Missing} \cup text]_vars
=============================================================================
