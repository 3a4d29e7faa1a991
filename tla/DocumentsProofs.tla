--------------------------- MODULE DocumentsProofs ---------------------------
(* What is opened is one version, and what is overwritten is known: for any number of windows, *)
(* documents, calls and versions.                                                             *)
EXTENDS Documents, TLAPS

\* A read in progress. As long as the file is the version of its first stat, its handle is open
\* on that version, and all that it has read came from there: versions never come back.
Reads(t) ==
  /\ pc[t] \in {"open", "read", "after"} => known[t] # Missing
  /\ pc[t] \in {"read", "after"} =>
       /\ handle[t] # Missing
       /\ file[path(t)] = known[t] => handle[t] = known[t] /\ parts[t] \subseteq {known[t]}
  /\ pc[t] = "after" => parts[t] # {}

\* One window's calls exclude one another.
Exclusive ==
  \A t, u \in Tasks : t # u /\ pc[t] \in Locked /\ pc[u] \in Locked => win[t] # win[u]

\* Versions not yet made were written by nobody.
Unwritten == \A v \in Versions : v > made => by[v] = Nobody

\* A save that has checked. The file is what it found, or somebody else's since.
Foreign(t) == by[file[path(t)]] # win[t]
Checked(t) ==
  /\ pc[t] = "asking" => file[path(t)] \in {Missing, current[t]} \/ Foreign(t)
  /\ pc[t] = "replacing" /\ known[t] # Missing =>
       file[path(t)] \in {Missing, known[t], agreed[t]} \/ Foreign(t)

IInv == TypeOK /\ Exclusive /\ Unwritten /\ \A t \in Tasks : Reads(t) /\ Checked(t)

-----------------------------------------------------------------------------
\* The invariant holds before the first call.
LEMMA InitIInv == Init => IInv
<1> USE DocumentsAssumption
<1> SUFFICES ASSUME Init PROVE IInv
  OBVIOUS
<1>1. TypeOK
  BY DEF Init, TypeOK, Versions, Missing
<1>2. Exclusive /\ Unwritten /\ \A t \in Tasks : Reads(t) /\ Checked(t)
  BY DEF Init, Exclusive, Unwritten, Reads, Checked, Locked
<1> QED BY <1>1, <1>2 DEF IInv

\* What a step does to the files: nothing, or a file is removed, or it becomes a new version,
\* of the window w.
FileStep(w) ==
  \/ UNCHANGED <<file, made, by>>
  \/ \E p \in Paths : file' = [file EXCEPT ![p] = Missing] /\ UNCHANGED <<made, by>>
  \/ /\ made < MaxVersions /\ made' = made + 1 /\ by' = [by EXCEPT ![made + 1] = w]
     /\ \E p \in Paths : file' = [file EXCEPT ![p] = made + 1]

\* The variables of one call.
Same(t) == UNCHANGED <<pc[t], win[t], doc[t], known[t], current[t], agreed[t], handle[t], parts[t],
                       attempt[t]>>

\* A step of a call changes one file at most, and makes at most one version, of its window.
LEMMA AdvanceFiles == ASSUME TypeOK, NEW t \in Tasks, Advance(t) PROVE FileStep(win[t])
<1> USE DocumentsAssumption
<1>1. path(t) \in Paths
  BY DEF TypeOK, path
<1>2. CASE Replace(t) \/ Fail(t)
  BY <1>1, <1>2 DEF Replace, Fail, Swap, FileStep
<1>3. CASE Remove(t)
  BY <1>1, <1>3 DEF Remove, FileStep
<1>4. CASE UNCHANGED <<file, made, by>>
  BY <1>4 DEF FileStep
<1> QED
  BY <1>2, <1>3, <1>4 DEF Advance, Before, OpenHandle, Read, After, Decline, Confirm, Lock, Check,
     Overwrite, Cancel, Discard, Refresh, LockDelete

\* The files keep their types, whoever writes them.
LEMMA FilesTyped ==
  ASSUME TypeOK, NEW w \in Windows \cup {Nobody}, FileStep(w)
  PROVE  /\ made' \in 1..MaxVersions /\ made <= made'
         /\ file' \in [Paths -> 0..made']
         /\ by' \in [Versions -> Windows \cup {Nobody}]
<1> USE DocumentsAssumption DEF TypeOK, Versions, Missing
<1>1. CASE UNCHANGED <<file, made, by>>
  BY <1>1
<1>2. CASE \E p \in Paths : file' = [file EXCEPT ![p] = Missing] /\ UNCHANGED <<made, by>>
  BY <1>2
<1>3. CASE /\ made < MaxVersions /\ made' = made + 1 /\ by' = [by EXCEPT ![made + 1] = w]
           /\ \E p \in Paths : file' = [file EXCEPT ![p] = made + 1]
  BY <1>3
<1> QED BY <1>1, <1>2, <1>3 DEF FileStep

\* Where a call may be.
Steps == {"idle", "before", "open", "read", "after", "confirming", "waiting",
          "refreshing", "deleting"} \cup Locked

\* The end of a call forgets all that it knew.
LEMMA EndTyped ==
  ASSUME TypeOK, NEW t \in Tasks, End(t)
  PROVE  /\ pc' \in [Tasks -> Steps]
         /\ known' \in [Tasks -> 0..made] /\ current' \in [Tasks -> 0..made]
         /\ agreed' \in [Tasks -> 0..made] /\ handle' \in [Tasks -> 0..made]
         /\ parts' \in [Tasks -> SUBSET (1..made)] /\ attempt' \in [Tasks -> 0..2]
  BY DEF TypeOK, End, Missing, Steps

\* Types of calls and documents under one bound on the versions are types under a higher one.
CallsTyped(n) ==
  /\ base' \in [Windows -> [Docs -> 0..n]]
  /\ seen' \in [Windows -> [Docs -> SUBSET (1..n)]]
  /\ pc' \in [Tasks -> Steps]
  /\ win' \in [Tasks -> Windows] /\ doc' \in [Tasks -> Docs]
  /\ known' \in [Tasks -> 0..n] /\ current' \in [Tasks -> 0..n]
  /\ agreed' \in [Tasks -> 0..n] /\ handle' \in [Tasks -> 0..n]
  /\ parts' \in [Tasks -> SUBSET (1..n)] /\ attempt' \in [Tasks -> 0..2]

\* What is typed for some versions is typed for more.
LEMMA Widened ==
  ASSUME NEW m \in Nat, NEW n \in Nat, m <= n, CallsTyped(m) PROVE CallsTyped(n)
<1>1. 0..m \subseteq 0..n /\ SUBSET (1..m) \subseteq SUBSET (1..n)
  OBVIOUS
<1> HIDE DEF Steps
<1> QED BY <1>1 DEF CallsTyped

\* Other programs write and remove files as well.
LEMMA OthersFiles ==
  ASSUME IInv, NEW p \in Paths, Write(p) \/ Unlink(p) PROVE FileStep(Nobody)
<1> USE DocumentsAssumption DEF IInv
<1>1. CASE Write(p)
  <2>1. made + 1 \in Versions /\ by[made + 1] = Nobody
    BY <1>1 DEF Write, Unwritten, TypeOK, Versions
  <2>2. by' = [by EXCEPT ![made + 1] = Nobody]
    BY <1>1, <2>1 DEF Write, TypeOK
  <2> QED BY <1>1, <2>2 DEF Write, FileStep
<1>2. CASE Unlink(p)
  BY <1>2 DEF Unlink, FileStep
<1> QED BY <1>1, <1>2

\* A call or its next step keeps the types.
LEMMA AdvanceTyped ==
  ASSUME TypeOK, NEW t \in Tasks, Reads(t), Advance(t) PROVE CallsTyped(made')
<1> USE DocumentsAssumption
<1>0. /\ made \in Nat /\ made' \in Nat /\ made <= made' /\ path(t) \in Paths
      /\ file \in [Paths -> 0..made]
  BY AdvanceFiles, FilesTyped DEF TypeOK, path
<1>1. CASE Before(t)
  BY <1>0, <1>1, EndTyped DEF Before, TypeOK, CallsTyped, Steps, Goto, saving, reading
<1>2. CASE OpenHandle(t)
  BY <1>0, <1>2, EndTyped DEF OpenHandle, TypeOK, CallsTyped, Steps, Goto, saving, Missing
<1>3. CASE Read(t)
  <2>1. handle[t] \in 1..made
    BY <1>3 DEF Read, Reads, TypeOK, Missing
  <2>2. parts' \in [Tasks -> SUBSET (1..made)]
    BY <1>3, <2>1 DEF Read, TypeOK
  <2>3. pc' \in [Tasks -> Steps]
    BY <1>3 DEF Read, TypeOK, Steps
  <2> QED BY <1>0, <1>3, <2>2, <2>3 DEF Read, TypeOK, CallsTyped, saving
<1>4. CASE After(t)
  <2>1. UNCHANGED <<file, made, by, win, doc>>
    BY <1>4 DEF After
  <2>2. CASE Opened(t)
    <3>1. /\ base' \in [Windows -> [Docs -> 0..made]]
          /\ seen' \in [Windows -> [Docs -> SUBSET (1..made)]]
      BY <1>0, <2>2 DEF Opened, Remember, TypeOK
    <3>2. End(t)
      BY <2>2 DEF Opened
    <3> QED BY <2>1, <3>1, <3>2, EndTyped DEF TypeOK, CallsTyped, Steps
  <2>3. CASE Retry(t) /\ attempt[t] < 2
    <3>1. pc' \in [Tasks -> Steps]
      BY <2>3 DEF Retry, Goto, TypeOK, Steps
    <3>2. attempt \in [Tasks -> 0..2]
      BY DEF TypeOK
    <3>3. attempt' \in [Tasks -> 0..2]
      BY <2>3, <3>2 DEF Retry
    <3> QED BY <2>1, <2>3, <3>1, <3>3 DEF Retry, TypeOK, CallsTyped, saving
  <2>4. CASE End(t) /\ UNCHANGED <<base, seen>>
    BY <2>1, <2>4, EndTyped DEF TypeOK, CallsTyped, Steps
  <2> QED BY <1>4, <2>2, <2>3, <2>4 DEF After
<1>5. CASE Decline(t) \/ Cancel(t)
  BY <1>0, <1>5, EndTyped DEF Decline, Cancel, TypeOK, CallsTyped, Steps
<1>6. CASE Confirm(t) \/ Lock(t) \/ LockDelete(t)
  BY <1>0, <1>6 DEF Confirm, Lock, LockDelete, TypeOK, CallsTyped, Steps, Goto, saving, reading, Locked
<1>7. CASE Check(t) \/ Overwrite(t)
  BY <1>0, <1>7 DEF Check, Overwrite, TypeOK, CallsTyped, Steps, Goto, reading, Locked
<1>8. CASE Discard(t) \/ Refresh(t) \/ Remove(t)
  <2>1. End(t) /\ UNCHANGED <<made, win, doc>>
    BY <1>8 DEF Discard, Refresh, Remove
  <2>2. base' \in [Windows -> [Docs -> 0..made]]
    <3>1. win[t] \in Windows /\ doc[t] \in Docs /\ file[path(t)] \in 0..made
      BY <1>0 DEF TypeOK
    <3>2. ASSUME NEW v \in 0..made, base' = [base EXCEPT ![win[t]][doc[t]] = v]
          PROVE  base' \in [Windows -> [Docs -> 0..made]]
      BY <3>1, <3>2 DEF TypeOK
    <3>3. CASE base' = [base EXCEPT ![win[t]] = [d \in Docs |-> Missing]]
      BY <1>0, <3>1, <3>3 DEF TypeOK, Missing
    <3>4. CASE base' = base
      BY <3>4 DEF TypeOK
    <3>5. \/ base' = [base EXCEPT ![win[t]][doc[t]] = file[path(t)]]
          \/ base' = [base EXCEPT ![win[t]][doc[t]] = 0]
          \/ base' = [base EXCEPT ![win[t]] = [d \in Docs |-> Missing]]
          \/ base' = base
      BY <1>8 DEF Discard, Refresh, Remove, Remember, Forget, Missing
    <3> QED BY <1>0, <3>1, <3>2, <3>3, <3>4, <3>5
  <2>3. seen' \in [Windows -> [Docs -> SUBSET (1..made)]]
    <3>1. \/ seen' = [seen EXCEPT ![win[t]][doc[t]] = {}]
          \/ seen' = seen
      BY <1>8 DEF Discard, Refresh, Remove
    <3>2. win[t] \in Windows /\ doc[t] \in Docs
          /\ seen \in [Windows -> [Docs -> SUBSET (1..made)]]
      BY DEF TypeOK
    <3>3. ASSUME NEW S \in SUBSET (1..made), seen' = [seen EXCEPT ![win[t]][doc[t]] = S]
          PROVE  seen' \in [Windows -> [Docs -> SUBSET (1..made)]]
      BY <3>2, <3>3
    <3> QED BY <3>1, <3>2, <3>3
  <2> QED BY <2>1, <2>2, <2>3, EndTyped DEF TypeOK, CallsTyped, Steps
<1>9. CASE Replace(t)
  <2>1. UNCHANGED <<base, win, doc, known, current, agreed, handle, parts, attempt>>
        /\ made' = made + 1
    BY <1>9 DEF Replace, Swap, saving, reading
  <2>2. pc' \in [Tasks -> Steps]
    BY <1>9 DEF Replace, Goto, TypeOK, Steps
  <2>3. 0..made \subseteq 0..made' /\ SUBSET (1..made) \subseteq SUBSET (1..made')
        /\ {made + 1} \subseteq 1..made'
    BY <1>0, <2>1
  <2>4. seen' \in [Windows -> [Docs -> SUBSET (1..made')]]
    BY <1>9, <2>3 DEF Replace, TypeOK
  <2> QED BY <2>1, <2>2, <2>3, <2>4 DEF TypeOK, CallsTyped
<1>10. CASE Fail(t)
  <2>1. CallsTyped(made)
    BY <1>10, EndTyped DEF Fail, TypeOK, CallsTyped, Steps
  <2> QED BY <1>0, <2>1, Widened
<1> QED
  BY <1>1, <1>2, <1>3, <1>4, <1>5, <1>6, <1>7, <1>8, <1>9, <1>10 DEF Advance

\* Every step keeps the types.
LEMMA StepTypeOK == IInv /\ [Next]_vars => TypeOK'
<1> SUFFICES ASSUME IInv, [Next]_vars PROVE TypeOK'
  OBVIOUS
<1> USE DocumentsAssumption
<1>0. TypeOK /\ made \in Nat
  BY DEF IInv, TypeOK
<1>1. ASSUME NEW w \in Windows \cup {Nobody}, FileStep(w), CallsTyped(made') PROVE TypeOK'
  BY <1>0, <1>1, FilesTyped DEF TypeOK, CallsTyped, Steps
<1>2. ASSUME NEW t \in Tasks, Advance(t) PROVE TypeOK'
  <2>1. Reads(t) /\ win[t] \in Windows
    BY DEF IInv, TypeOK
  <2> QED BY <1>0, <1>1, <1>2, <2>1, AdvanceFiles, AdvanceTyped
<1>3. ASSUME UNCHANGED <<file, made, by>>, CallsTyped(made) PROVE TypeOK'
  BY <1>0, <1>3 DEF TypeOK, CallsTyped, Steps
<1>4. ASSUME NEW w \in Windows, NEW d \in Docs, NEW t \in Tasks,
             Open(t, w, d) \/ Save(t, w, d) \/ Delete(t, w, d)
      PROVE  TypeOK'
  <2>1. \E step \in {"before", "confirming", "deleting"} : Call(t, w, d, step)
    BY <1>4 DEF Open, Save, Delete
  <2>2. /\ UNCHANGED <<file, made, by, base, seen, current, agreed, handle, parts>>
        /\ pc' \in [Tasks -> Steps] /\ win' \in [Tasks -> Windows] /\ doc' \in [Tasks -> Docs]
    BY <1>0, <2>1 DEF Call, Goto, saving, TypeOK, Steps
  <2>3. known' \in [Tasks -> 0..made] /\ attempt' \in [Tasks -> 0..2]
    <3>1. /\ known \in [Tasks -> 0..made] /\ attempt \in [Tasks -> 0..2]
          /\ base[w][d] \in 0..made
      BY DEF IInv, TypeOK
    <3>2. known' \in {known, [known EXCEPT ![t] = base[w][d]]}
          /\ attempt' \in {attempt, [attempt EXCEPT ![t] = 1]}
      BY <1>4 DEF Open, Save, Delete
    <3> QED BY <3>1, <3>2
  <2> QED BY <1>0, <1>3, <2>2, <2>3 DEF TypeOK, CallsTyped
<1>5. ASSUME NEW w \in Windows, NEW d \in Docs, Release(w, d) PROVE TypeOK'
  <2>1. /\ base' \in [Windows -> [Docs -> 0..made]]
        /\ seen' \in [Windows -> [Docs -> SUBSET (1..made)]]
    <3>1. /\ base \in [Windows -> [Docs -> 0..made]]
          /\ seen \in [Windows -> [Docs -> SUBSET (1..made)]]
      BY DEF IInv, TypeOK
    <3>2. base' = [base EXCEPT ![w][d] = 0] /\ seen' = [seen EXCEPT ![w][d] = {}]
      BY <1>5 DEF Release, Missing
    <3>3. 0 \in 0..made /\ {} \in SUBSET (1..made)
      BY <1>0
    <3> QED BY <3>1, <3>2, <3>3
  <2> QED BY <1>0, <1>3, <1>5, <2>1 DEF Release, TypeOK, CallsTyped, Steps, saving, reading
<1>6. ASSUME NEW p \in Paths, Write(p) \/ Unlink(p) PROVE TypeOK'
  <2>1. FileStep(Nobody) /\ made' \in Nat /\ made <= made'
    BY <1>0, <1>6, OthersFiles, FilesTyped
  <2>2. handle' \in [Tasks -> 0..made']
    <3>1. handle \in [Tasks -> 0..made]
      BY DEF IInv, TypeOK
    <3>2. CASE Write(p)
      BY <1>0, <3>1, <3>2 DEF Write
    <3>3. CASE Unlink(p)
      BY <3>1, <3>3 DEF Unlink, reading
    <3> QED BY <1>6, <3>2, <3>3
  <2>3. /\ UNCHANGED <<base, seen, pc, win, doc, known, current, agreed, parts, attempt>>
    BY <1>6 DEF Write, Unlink, saving, reading
  <2>4. 0..made \subseteq 0..made' /\ SUBSET (1..made) \subseteq SUBSET (1..made')
    BY <1>0, <2>1
  <2>5. CallsTyped(made')
    BY <1>0, <2>2, <2>3, <2>4 DEF TypeOK, CallsTyped, Steps
  <2> QED BY <1>1, <2>1, <2>5
<1>7. CASE UNCHANGED vars
  BY <1>0, <1>3, <1>7 DEF vars, TypeOK, CallsTyped, Steps, saving, reading
<1> QED BY <1>2, <1>4, <1>5, <1>6, <1>7 DEF Next

-----------------------------------------------------------------------------
\* A call takes the lock only if no other call of its window has it.
Moves(t) == \E step : /\ pc' = [pc EXCEPT ![t] = step]
                      /\ step \in Locked => LockFree(t) \/ pc[t] \in Locked

\* No step of a call takes the lock from another.
LEMMA AdvanceMoves ==
  ASSUME TypeOK, NEW t \in Tasks, Advance(t)
  PROVE  UNCHANGED win /\ Moves(t)
<1>1. UNCHANGED win
  BY DEF Advance, Before, OpenHandle, Read, After, Decline, Confirm, Lock, Check, Overwrite,
         Cancel, Discard, Replace, Fail, Refresh, LockDelete, Remove
<1>2. CASE \/ Before(t) \/ OpenHandle(t) \/ Decline(t) \/ Confirm(t) \/ Cancel(t) \/ Discard(t)
           \/ Replace(t) \/ Fail(t) \/ Refresh(t) \/ Remove(t) \/ After(t)
  <2>1. \E step \in {"idle", "open", "read", "waiting", "refreshing", "before"} :
          pc' = [pc EXCEPT ![t] = step]
    BY <1>2 DEF Before, OpenHandle, Decline, Confirm, Cancel, Discard, Replace, Fail, Refresh,
                Remove, After, Opened, Retry, End, Goto
  <2> QED BY <1>1, <2>1 DEF Locked, Moves
<1>3. CASE Read(t)
  <2>1. pc = [pc EXCEPT ![t] = "read"]
    BY <1>3 DEF Read, TypeOK
  <2> QED BY <1>1, <1>3, <2>1 DEF Read, Locked, Moves
<1>4. CASE Lock(t) \/ LockDelete(t)
  BY <1>1, <1>4 DEF Lock, LockDelete, Goto, Moves
<1>5. CASE Check(t) \/ Overwrite(t)
  BY <1>1, <1>5 DEF Check, Overwrite, Goto, Locked, Moves
<1> QED BY <1>2, <1>3, <1>4, <1>5 DEF Advance

\* A new call has no lock yet.
LEMMA CallMoves ==
  ASSUME TypeOK, NEW w \in Windows, NEW d \in Docs, NEW t \in Tasks,
         Open(t, w, d) \/ Save(t, w, d) \/ Delete(t, w, d)
  PROVE  /\ win' = [win EXCEPT ![t] = w] /\ pc[t] \notin Locked
         /\ \E step \in {"before", "confirming", "deleting"} : pc' = [pc EXCEPT ![t] = step]
BY DEF Open, Save, Delete, Call, Goto, Locked

\* The lock lets one call of a window in at a time.
LEMMA StepExclusive == IInv /\ [Next]_vars => Exclusive'
<1> SUFFICES ASSUME IInv, [Next]_vars PROVE Exclusive'
  OBVIOUS
<1> USE DEF IInv
<1>0. pc \in [Tasks -> Steps] /\ win \in [Tasks -> Windows]
  BY DEF TypeOK, Steps
<1>1. ASSUME NEW t \in Tasks, UNCHANGED win, Moves(t)
      PROVE  Exclusive'
  BY <1>0, <1>1 DEF Exclusive, LockFree, Moves
<1>2. ASSUME NEW t \in Tasks, Advance(t) PROVE Exclusive'
  BY <1>1, <1>2, AdvanceMoves
<1>3. ASSUME NEW w \in Windows, NEW d \in Docs, NEW t \in Tasks,
             Open(t, w, d) \/ Save(t, w, d) \/ Delete(t, w, d)
      PROVE  Exclusive'
  BY <1>0, <1>3, CallMoves DEF Exclusive, Locked
<1>4. CASE UNCHANGED <<pc, win>>
  BY <1>4 DEF Exclusive
<1> QED BY <1>2, <1>3, <1>4 DEF Next, Release, Write, Unlink, vars

\* A version that is not made has no author, after every step too.
LEMMA StepUnwritten == IInv /\ [Next]_vars => Unwritten'
<1> SUFFICES ASSUME IInv, [Next]_vars PROVE Unwritten'
  OBVIOUS
<1> USE DocumentsAssumption DEF IInv
<1>1. ASSUME NEW w, FileStep(w) PROVE Unwritten'
  BY <1>1 DEF FileStep, Unwritten, TypeOK, Versions
<1>2. ASSUME UNCHANGED <<file, made, by>> PROVE Unwritten'
  BY <1>2 DEF Unwritten
<1> QED
  BY <1>1, <1>2, AdvanceFiles, OthersFiles
  DEF Next, Open, Save, Delete, Call, Release, vars

-----------------------------------------------------------------------------
\* A file that changes becomes a version no call has seen, or is gone: of a read that is left
\* alone meanwhile all stays true.
LEMMA ReadsKept ==
  ASSUME IInv, NEW w, FileStep(w), NEW g \in Tasks, Same(g) PROVE Reads(g)'
<1> USE DocumentsAssumption
<1>1. Reads(g) /\ known[g] \in 0..made /\ made \in Nat /\ path(g) \in Paths /\ path(g)' = path(g)
  BY DEF IInv, TypeOK, path, Same
<1>2. file'[path(g)] \in {file[path(g)], Missing, made + 1}
  BY <1>1 DEF FileStep, IInv, TypeOK
<1> QED BY <1>1, <1>2 DEF Reads, Same, Missing

\* Every step keeps what is known of a read.
LEMMA StepReads == IInv /\ [Next]_vars => (\A g \in Tasks : Reads(g))'
<1> SUFFICES ASSUME IInv, [Next]_vars, NEW g \in Tasks PROVE Reads(g)'
  OBVIOUS
<1> USE DocumentsAssumption
<1>0. TypeOK /\ Reads(g) /\ path(g) \in Paths
  BY DEF IInv, TypeOK, path
<1>i. ASSUME pc'[g] \notin {"open", "read", "after"} PROVE Reads(g)'
  BY <1>i DEF Reads
<1>1. ASSUME NEW t \in Tasks, t # g, Advance(t) PROVE Reads(g)'
  <2>1. Same(g)
    BY <1>0, <1>1 DEF TypeOK, Same, Advance, Before, OpenHandle, Read, After, Decline, Confirm, Lock, Check,
       Overwrite, Cancel, Discard, Replace, Fail, Refresh, LockDelete, Remove, Opened, Retry, End,
       Goto, saving, reading
  <2> QED BY <1>0, <1>1, <2>1, AdvanceFiles, ReadsKept
<1>2. ASSUME Advance(g) PROVE Reads(g)'
  <2>1. CASE Before(g)
    <3>1. UNCHANGED <<file, doc>>
      BY <2>1 DEF Before
    <3>2. CASE End(g)
      BY <1>0, <1>i, <3>2 DEF End, TypeOK
    <3>3. CASE file[path(g)] # Missing /\ known' = [known EXCEPT ![g] = file[path(g)]] /\ Goto(g, "open")
      BY <1>0, <3>1, <3>3 DEF Reads, Goto, TypeOK
    <3> QED BY <2>1, <3>2, <3>3 DEF Before
  <2>2. CASE OpenHandle(g)
    <3>1. CASE End(g)
      BY <1>0, <1>i, <3>1 DEF End, TypeOK
    <3>2. CASE ~End(g)
      BY <1>0, <2>2, <3>2 DEF OpenHandle, Reads, Goto, TypeOK, path
    <3> QED BY <3>1, <3>2
  <2>3. CASE Read(g)
    <3>1. pc'[g] \in {"read", "after"}
      BY <1>0, <2>3 DEF Read, TypeOK
    <3>2. /\ parts'[g] = parts[g] \cup {handle[g]} /\ pc[g] = "read"
          /\ UNCHANGED <<file, doc, known, handle>>
      BY <1>0, <2>3 DEF Read, TypeOK
    <3> QED BY <1>0, <3>1, <3>2 DEF Reads, path
  <2>4. CASE After(g)
    <3>1. pc'[g] \in {"idle", "before"}
      BY <1>0, <2>4 DEF After, Opened, Retry, End, Goto, TypeOK
    <3> QED BY <1>i, <3>1
  <2>5. CASE ~(Before(g) \/ OpenHandle(g) \/ Read(g) \/ After(g))
    <3>1. pc'[g] \in {"idle", "waiting", "checking", "replacing", "asking", "refreshing", "removing"}
      BY <1>0, <1>2, <2>5 DEF Advance, Decline, Confirm, Lock, Check, Overwrite, Cancel, Discard,
         Replace, Fail, Refresh, LockDelete, Remove, End, Goto, TypeOK
    <3> QED BY <1>i, <3>1
  <2> QED BY <2>1, <2>2, <2>3, <2>4, <2>5
<1>3. ASSUME NEW w \in Windows, NEW d \in Docs, NEW t \in Tasks,
             Open(t, w, d) \/ Save(t, w, d) \/ Delete(t, w, d)
      PROVE  Reads(g)'
  <2>1. CASE t = g
    <3>1. pc'[g] \in {"before", "confirming", "deleting"}
      BY <1>0, <1>3, <2>1 DEF Open, Save, Delete, Call, Goto, TypeOK
    <3> QED BY <1>i, <3>1
  <2>2. CASE t # g
    <3>1. Same(g) /\ UNCHANGED <<file, made, by>>
      BY <1>0, <1>3, <2>2 DEF Same, Open, Save, Delete, Call, Goto, TypeOK, saving, reading
    <3> QED BY <3>1, ReadsKept DEF FileStep
  <2> QED BY <2>1, <2>2
<1>4. ASSUME NEW p \in Paths, Write(p) PROVE Reads(g)'
  <2>1. /\ UNCHANGED <<pc, doc, known, parts>> /\ made' = made + 1
        /\ file'[path(g)] = IF path(g) = p THEN made + 1 ELSE file[path(g)]
        /\ handle'[g] \in {handle[g], made + 1}
        /\ path(g) # p => handle'[g] = handle[g]
    BY <1>0, <1>4 DEF Write, TypeOK, saving
  <2>2. made + 1 # Missing /\ known[g] # made + 1
    BY <1>0 DEF TypeOK, Missing
  <2> QED BY <1>0, <2>1, <2>2 DEF Reads, path
<1>5. ASSUME NEW p \in Paths, Unlink(p) PROVE Reads(g)'
  <2>1. Same(g)
    BY <1>5 DEF Unlink, Same, saving, reading
  <2> QED BY <1>5, <2>1, OthersFiles, ReadsKept
<1>6. CASE UNCHANGED vars \/ \E w \in Windows, d \in Docs : Release(w, d)
  <2>1. Same(g) /\ UNCHANGED <<file, made, by>>
    BY <1>6 DEF vars, Release, Same, saving, reading
  <2> QED BY <2>1, ReadsKept DEF FileStep
<1> QED BY <1>1, <1>2, <1>3, <1>4, <1>5, <1>6 DEF Next

\* What another window or another program writes is foreign, and what this window writes is
\* written under a lock that the save holds.
LEMMA CheckedKept ==
  ASSUME IInv, NEW w, FileStep(w), NEW g \in Tasks, Same(g),
         pc[g] \in {"asking", "replacing"} => w # win[g] \/ UNCHANGED <<made, by>>
  PROVE  Checked(g)'
<1> USE DocumentsAssumption
<1>1. /\ Checked(g) /\ path(g) \in Paths /\ path(g)' = path(g) /\ file \in [Paths -> 0..made]
      /\ by \in [Versions -> Windows \cup {Nobody}] /\ made \in 1..MaxVersions /\ 0..made \subseteq Versions
  BY DEF IInv, TypeOK, path, Same, Versions
<1>2. CASE UNCHANGED <<file, made, by>>
  BY <1>1, <1>2 DEF Checked, Foreign, Same
<1>3. CASE \E p \in Paths : file' = [file EXCEPT ![p] = Missing] /\ UNCHANGED by
  BY <1>1, <1>3 DEF Checked, Foreign, Same
<1>4. CASE /\ w # win[g] /\ made < MaxVersions /\ made' = made + 1 /\ by' = [by EXCEPT ![made + 1] = w]
           /\ \E p \in Paths : file' = [file EXCEPT ![p] = made + 1]
  <2>1. PICK p \in Paths : file' = [file EXCEPT ![p] = made + 1]
    BY <1>4
  <2>2. CASE p = path(g)
    <3>1. file'[path(g)] = made + 1 /\ by'[made + 1] = w
      BY <1>1, <1>4, <2>1, <2>2 DEF Versions
    <3> QED BY <1>1, <1>4, <3>1 DEF Checked, Foreign, Same
  <2>3. CASE p # path(g)
    <3>1. file'[path(g)] = file[path(g)] /\ by'[file[path(g)]] = by[file[path(g)]]
      BY <1>1, <1>4, <2>1, <2>3 DEF Versions
    <3> QED BY <1>1, <3>1 DEF Checked, Foreign, Same
  <2> QED BY <2>2, <2>3
<1>5. pc[g] \notin {"asking", "replacing"} => Checked(g)'
  BY DEF Checked, Same
<1> QED BY <1>1, <1>2, <1>3, <1>4, <1>5 DEF FileStep

\* Every step keeps what is known of a save that has checked.
LEMMA StepChecked == IInv /\ [Next]_vars => (\A g \in Tasks : Checked(g))'
<1> SUFFICES ASSUME IInv, [Next]_vars, NEW g \in Tasks PROVE Checked(g)'
  OBVIOUS
<1> USE DocumentsAssumption
<1>0. TypeOK /\ Checked(g) /\ path(g) \in Paths
  BY DEF IInv, TypeOK, path
<1>i. ASSUME pc'[g] \notin {"asking", "replacing"} PROVE Checked(g)'
  BY <1>i DEF Checked
<1>1. ASSUME NEW t \in Tasks, t # g, Advance(t) PROVE Checked(g)'
  <2>1. Same(g)
    BY <1>0, <1>1 DEF TypeOK, Same, Advance, Before, OpenHandle, Read, After, Decline, Confirm, Lock, Check,
       Overwrite, Cancel, Discard, Replace, Fail, Refresh, LockDelete, Remove, Opened, Retry, End,
       Goto, saving, reading
  <2>2. CASE Replace(t) \/ Fail(t)
    <3>1. UNCHANGED <<file, made, by>> \/ pc[t] = "replacing"
      BY <2>2 DEF Replace, Fail, Swap
    <3>2. pc[t] = "replacing" /\ pc[g] \in {"asking", "replacing"} => win[t] # win[g]
      BY <1>1 DEF IInv, Exclusive, Locked
    <3> QED BY <1>0, <1>1, <2>1, <3>1, <3>2, AdvanceFiles, CheckedKept
  <2>3. CASE Remove(t)
    <3>1. UNCHANGED <<made, by>>
      BY <2>3 DEF Remove
    <3> QED BY <1>0, <1>1, <2>1, <3>1, AdvanceFiles, CheckedKept
  <2>4. CASE UNCHANGED <<file, made, by>>
    BY <2>1, <2>4, CheckedKept DEF FileStep
  <2> QED
    BY <1>1, <2>2, <2>3, <2>4 DEF Advance, Before, OpenHandle, Read, After, Decline, Confirm, Lock,
       Check, Overwrite, Cancel, Discard, Refresh, LockDelete
<1>2. ASSUME Advance(g) PROVE Checked(g)'
  <2>1. CASE Lock(g)
    BY <1>0, <2>1 DEF Lock, Goto, Checked, TypeOK, saving, reading
  <2>2. CASE Check(g)
    BY <1>0, <2>2 DEF Check, Goto, Checked, TypeOK, reading, path
  <2>3. CASE Overwrite(g)
    <3>1. /\ UNCHANGED <<file, by, win, doc, known, current>>
          /\ pc[g] = "asking" /\ pc'[g] = "replacing" /\ agreed'[g] = current[g]
      BY <1>0, <2>3 DEF Overwrite, Goto, TypeOK
    <3> QED BY <1>0, <3>1 DEF Checked, Foreign, path
  <2>4. CASE ~(Lock(g) \/ Check(g) \/ Overwrite(g))
    <3>1. pc'[g] \notin {"asking", "replacing"}
      BY <1>0, <1>2, <2>4 DEF Advance, Before, OpenHandle, Read, After, Opened, Retry, Decline,
         Confirm, Cancel, Discard, Replace, Fail, Refresh, LockDelete, Remove, End, Goto, TypeOK
    <3> QED BY <1>i, <3>1
  <2> QED BY <2>1, <2>2, <2>3, <2>4
<1>3. ASSUME NEW w \in Windows, NEW d \in Docs, NEW t \in Tasks,
             Open(t, w, d) \/ Save(t, w, d) \/ Delete(t, w, d)
      PROVE  Checked(g)'
  <2>1. CASE t = g
    <3>1. pc'[g] \in {"before", "confirming", "deleting"}
      BY <1>0, <1>3, <2>1 DEF Open, Save, Delete, Call, Goto, TypeOK
    <3> QED BY <1>i, <3>1
  <2>2. CASE t # g
    <3>1. Same(g) /\ UNCHANGED <<file, made, by>>
      BY <1>0, <1>3, <2>2 DEF Same, Open, Save, Delete, Call, Goto, TypeOK, saving, reading
    <3> QED BY <3>1, CheckedKept DEF FileStep
  <2> QED BY <2>1, <2>2
<1>4. ASSUME NEW p \in Paths, Write(p) PROVE Checked(g)'
  <2>1. FileStep(Nobody) /\ Nobody # win[g]
    BY <1>0, <1>4, OthersFiles DEF TypeOK
  <2>2. UNCHANGED <<pc[g], win[g], doc[g], known[g], current[g], agreed[g]>>
    BY <1>4 DEF Write, saving
  <2>3. PICK p1 \in Paths : file' = [file EXCEPT ![p1] = made + 1]
    BY <1>4 DEF Write
  <2> QED BY <1>0, <1>4, <2>1, <2>2, <2>3 DEF Write, Checked, Foreign, IInv, Unwritten, TypeOK, path, Versions
<1>5. ASSUME NEW p \in Paths, Unlink(p) PROVE Checked(g)'
  <2>1. Same(g)
    BY <1>5 DEF Unlink, Same, saving, reading
  <2> QED BY <1>5, <2>1, OthersFiles, CheckedKept DEF Unlink
<1>6. CASE UNCHANGED vars \/ \E w \in Windows, d \in Docs : Release(w, d)
  <2>1. Same(g) /\ UNCHANGED <<file, made, by>>
    BY <1>6 DEF vars, Release, Same, saving, reading
  <2> QED BY <2>1, CheckedKept DEF FileStep
<1> QED BY <1>1, <1>2, <1>3, <1>4, <1>5, <1>6 DEF Next

\* The invariant, of every behaviour.
LEMMA Invariance == Spec => []IInv
<1>1. Init => IInv
  BY InitIInv
<1>2. IInv /\ [Next]_vars => IInv'
  BY StepTypeOK, StepExclusive, StepUnwritten, StepReads, StepChecked DEF IInv
<1> QED BY <1>1, <1>2, PTL DEF Spec

-----------------------------------------------------------------------------
\* The types of the state are those the code gives it.
THEOREM Typing == Spec => []TypeOK
<1>1. IInv => TypeOK
  BY DEF IInv
<1> QED BY Invariance, <1>1, PTL

\* RemoteSession.readFile: however many programs write the file meanwhile, what an editor is
\* given is one version with its own baseline.
THEOREM OneVersionIsRead == Spec => ReadIsOneVersion
<1> DEFINE Given(t) == pc[t] = "after" /\ pc'[t] = "idle" /\ base' # base
<1>1. ASSUME IInv, Next, NEW t \in Tasks, Given(t)
      PROVE  parts[t] = {base'[win[t]][doc[t]]}
  <2>1. pc \in [Tasks -> Steps] /\ win[t] \in Windows /\ doc[t] \in Docs
        /\ base \in [Windows -> [Docs -> 0..made]] /\ win' \in [Tasks -> Windows]
    BY <1>1, StepTypeOK DEF IInv, TypeOK, Steps
  <2>2. Opened(t) /\ file[path(t)] = known[t]
    <3>1. After(t)
      <4>1. ASSUME NEW u \in Tasks, Advance(u), u # t PROVE FALSE
        BY <1>1, <2>1, <4>1 DEF Advance, Before, OpenHandle, Read, After, Decline, Confirm, Lock, Check,
           Overwrite, Cancel, Discard, Replace, Fail, Refresh, LockDelete, Remove, Opened, Retry,
           End, Goto
      <4>2. ASSUME Advance(t) PROVE After(t)
        BY <1>1, <4>2 DEF Advance, Before, OpenHandle, Read, Decline, Confirm, Lock, Check,
           Overwrite, Cancel, Discard, Replace, Fail, Refresh, LockDelete, Remove
      <4>3. ASSUME NEW w \in Windows, NEW d \in Docs, NEW u \in Tasks,
                   Open(u, w, d) \/ Save(u, w, d) \/ Delete(u, w, d)
            PROVE  FALSE
        BY <1>1, <4>3 DEF Open, Save, Delete, Call
      <4> QED BY <1>1, <4>1, <4>2, <4>3 DEF Next, Release, Write, Unlink
    <3> QED BY <1>1, <2>1, <3>1 DEF After, Retry
  <2>3. parts[t] = {known[t]}
    BY <1>1, <2>2 DEF IInv, Reads
  <2>4. base'[win[t]][doc[t]] = file[path(t)]
    BY <2>1, <2>2 DEF Opened, Remember
  <2> QED BY <2>2, <2>3, <2>4
<1>2. IInv /\ [Next]_vars => [\A t \in Tasks : Given(t) => parts[t] = {base'[win[t]][doc[t]]}]_vars
  BY <1>1
<1> QED BY Invariance, <1>2, PTL DEF Spec, ReadIsOneVersion

\* RemoteSession.writeFile: the check and the swap are under one lock, so that of its own window
\* a save overwrites only what it knows or the user agreed to.
THEOREM OverwritingIsAgreed == Spec => OverwritesAreAgreed
<1> DEFINE Swaps(t) == pc[t] = "replacing" /\ pc'[t] = "refreshing" /\ known[t] # Missing
           Agreed(t) == \/ file[path(t)] \in {Missing, known[t], agreed[t]}
                        \/ by[file[path(t)]] # win[t]
<1>1. IInv => \A t \in Tasks : Swaps(t) => Agreed(t)
  BY DEF IInv, Checked, Foreign
<1>2. IInv => [\A t \in Tasks : LET p == path(t) IN
                 pc[t] = "replacing" /\ pc'[t] = "refreshing" /\ known[t] # Missing =>
                   \/ file[p] \in {Missing, known[t], agreed[t]}
                   \/ by[file[p]] # win[t]]_vars
  BY <1>1
<1> QED BY Invariance, <1>2, PTL DEF Spec, OverwritesAreAgreed
-----------------------------------------------------------------------------
\* What the calls of all windows have of the locks: a call past its check, or removing, has that
\* of its window.
Holds == [t \in Tasks |-> IF pc[t] \in Locked THEN {win[t]} ELSE {}]
Locks == INSTANCE ExclusiveLocks WITH Ops <- Tasks, Paths <- Windows, holds <- Holds

\* The lock of writeFile and remove is no more than the registry gives: it keeps the promise,
\* ExclusiveLocks, that PathLocks keeps.
THEOREM LockIsExclusive == Spec => Locks!Spec
<1>1. Init => Locks!Init
  BY DEF Init, Locks!Init, Holds, Locked
<1>2. IInv /\ [Next]_vars => [Locks!Next]_Holds
  <2> SUFFICES ASSUME IInv, [Next]_vars PROVE Locks!Next \/ Holds' = Holds
    OBVIOUS
  <2>1. TypeOK /\ pc \in [Tasks -> Steps] /\ win \in [Tasks -> Windows]
    BY DEF IInv, TypeOK, Steps
  <2>2. ASSUME NEW t \in Tasks, UNCHANGED win, Moves(t) PROVE Locks!Next \/ Holds' = Holds
    <3>1. PICK step : /\ pc' = [pc EXCEPT ![t] = step]
                      /\ step \in Locked => LockFree(t) \/ pc[t] \in Locked
      BY <2>2 DEF Moves
    <3>2. Holds' = [Holds EXCEPT ![t] = IF step \in Locked THEN {win[t]} ELSE {}]
      BY <2>1, <2>2, <3>1 DEF Holds
    <3>3. CASE step \in Locked /\ pc[t] \notin Locked
      <4>1. \A u \in Tasks : win[t] \notin Holds[u]
        BY <3>1, <3>3 DEF LockFree, Holds
      <4>2. Holds[t] = {} /\ win[t] \in Windows
        BY <2>1, <3>3 DEF Holds
      <4>3. Locks!Take(t, win[t])
        BY <3>2, <3>3, <4>1, <4>2 DEF Locks!Take
      <4> QED BY <4>2, <4>3 DEF Locks!Next
    <3>4. CASE step \notin Locked /\ pc[t] \in Locked
      <4> DEFINE S == {win[t]}  heir == [k \in S |-> t]
      <4>1. Holds[t] = S /\ S \in SUBSET Holds[t] /\ heir \in [S -> Tasks]
        BY <3>4 DEF Holds
      <4>2. \A q \in Tasks : Holds'[q] = IF q = t THEN {} ELSE Holds[q]
        BY <3>2, <3>4 DEF Holds
      <4>3. \A q \in Tasks : q # t => {k \in S : heir[k] = q} = {}
        OBVIOUS
      <4>4. Locks!Give(t, S, heir)
        <5>1. \A q \in Tasks : Holds'[q] = IF q = t THEN Holds[t] \ S
                                           ELSE Holds[q] \cup {k \in S : heir[k] = q}
          BY <4>1, <4>2, <4>3
        <5>2. Holds' = [q \in Tasks |-> Holds'[q]]
          BY DEF Holds
        <5> HIDE DEF S, heir
        <5> QED BY <5>1, <5>2 DEF Locks!Give
      <4> QED BY <4>1, <4>4 DEF Locks!Next
    <3>5. CASE step \in Locked <=> pc[t] \in Locked
      BY <3>2, <3>5 DEF Holds
    <3> QED BY <3>3, <3>4, <3>5
  <2>3. ASSUME NEW t \in Tasks, Advance(t) PROVE Locks!Next \/ Holds' = Holds
    BY <2>1, <2>2, <2>3, AdvanceMoves
  <2>4. ASSUME NEW w \in Windows, NEW d \in Docs, NEW t \in Tasks,
               Open(t, w, d) \/ Save(t, w, d) \/ Delete(t, w, d)
        PROVE  Holds' = Holds
    BY <2>1, <2>4, CallMoves DEF Holds, Locked
  <2>5. CASE UNCHANGED <<pc, win>>
    BY <2>5 DEF Holds
  <2> QED BY <2>3, <2>4, <2>5 DEF Next, Release, Write, Unlink, vars
<1> QED BY Invariance, <1>1, <1>2, PTL DEF Spec, Locks!Spec
=============================================================================
