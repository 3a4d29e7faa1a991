----------------------------- MODULE SafeReplace -----------------------------
(***************************************************************************)
(* safeReplace and sweepArtifacts (core/src/fs/safeReplace.ts): how a save  *)
(* replaces one remote file through a temporary file, by an atomic rename   *)
(* or through a backup, and how the sweep of a new session removes what an  *)
(* interrupted save left behind.                                           *)
(*                                                                         *)
(* Every request travels down the wire of its session and is executed in   *)
(* order; it may be refused, its caller may give up waiting for it, and the *)
(* session may die before or after it was executed.                        *)
(***************************************************************************)
EXTENDS Integers, Sequences, FiniteSets

CONSTANTS Savers,    \* saves of the one file, each with a token of its own
          Sessions,  \* the RemoteSessions there may be, one after another
          Target,    \* the path of the file
          Temp,      \* the temporary name of each save
          Back,      \* the backup name of each save
          Original,  \* who wrote the content the file has to begin with
          None,
          Servers,   \* the capabilities a server may have: [posix, fsync]
          Homes,     \* whether the file may lie in the directory sessions sweep
          Refusals,  \* whether the server may refuse a request it could perform
          Timeouts,  \* whether a caller may give up on a request
          Drops,     \* whether a session may die
          Overlap    \* whether a second window may hold a session as well

Names == {Target} \cup {Temp[s] : s \in Savers} \cup {Back[s] : s \in Savers}
Artifacts == Names \ {Target}
Actors == Savers \cup Sessions

ASSUME ReplaceAssumption ==
  /\ Savers \cap Sessions = {}
  /\ Temp \in [Savers -> Artifacts] /\ Back \in [Savers -> Artifacts]
  /\ \A s, t \in Savers : /\ Temp[s] # Back[t]
                          /\ s # t => Temp[s] # Temp[t] /\ Back[s] # Back[t]
  /\ Original \notin Savers /\ None \notin Savers \cup {Original}
  /\ Servers \subseteq [posix : BOOLEAN, fsync : BOOLEAN]
  /\ Homes \subseteq BOOLEAN
  /\ {Refusals, Timeouts, Drops, Overlap} \subseteq BOOLEAN

VARIABLES caps,     \* the capabilities of the server
          swept,    \* whether the file lies in the rootPath of the sessions
          fs,       \* what each name of the directory holds
          wire,     \* per session, the requests the server has not executed yet
          session,  \* whether each session is still to come, up, or down
          home,     \* the session a save runs in
          pc,       \* the request whose outcome each save or sweep awaits
          outcome,  \* what came of that request
          existed,  \* originalExisted
          verdict,  \* what the caller of safeReplace was told
          found     \* the artifacts a sweep has still to remove

vars == <<caps, swept, fs, wire, session, home, pc, outcome, existed, verdict, found>>

\* What a file holds: whose content, and whether all of it.
Missing == [by |-> None, whole |-> FALSE]
Part(s) == [by |-> s, whole |-> FALSE]
Whole(s) == [by |-> s, whole |-> TRUE]

Verdicts == {"none", "saved", "failed", "unchanged", "stranded"}
Saving(s) == pc[s] \notin {"idle", "done"}

-----------------------------------------------------------------------------
Init == /\ caps \in Servers /\ swept \in Homes
        /\ fs \in {[n \in Names |-> IF n = Target THEN c ELSE Missing] :
                     c \in {Missing, Whole(Original)}}
        /\ wire = [c \in Sessions |-> <<>>]
        /\ session = [c \in Sessions |-> "new"]
        /\ home = [s \in Savers |-> None]
        /\ pc = [a \in Actors |-> "idle"]
        /\ outcome = [a \in Actors |-> "none"]
        /\ existed = [s \in Savers |-> TRUE]
        /\ verdict = [s \in Savers |-> "none"]
        /\ found = [c \in Sessions |-> {}]

\* A request down the wire of c, awaited by a. A closed client refuses it at once.
Send(a, c, step, op, from, to) ==
  /\ pc' = [pc EXCEPT ![a] = step]
  /\ IF session[c] = "up"
     THEN /\ wire' = [wire EXCEPT ![c] = Append(@,
                        [who |-> a, step |-> step, op |-> op, from |-> from, to |-> to])]
          /\ outcome' = [outcome EXCEPT ![a] = "waiting"]
     ELSE outcome' = [outcome EXCEPT ![a] = "lost"] /\ UNCHANGED wire
  /\ UNCHANGED verdict

Ask(s, step, op, from, to) == Send(s, home[s], step, op, from, to)

\* The save ends and its caller is told v.
End(s, v) == /\ pc' = [pc EXCEPT ![s] = "done"]
             /\ verdict' = [verdict EXCEPT ![s] = v]
             /\ outcome' = [outcome EXCEPT ![s] = "none"]
             /\ UNCHANGED wire

-----------------------------------------------------------------------------
\* The server (external to src): it executes the requests of a session in order.
Possible(q) ==
  CASE q.op \in {"posix", "rename", "remove"} /\ fs[q.from] = Missing -> {"missing"}
    [] q.op = "rename" /\ fs[q.from] # Missing /\ fs[q.to] # Missing -> {"refused"}
    [] OTHER -> {"ok"} \cup (IF Refusals THEN {"refused"} ELSE {})

Effect(q) ==
  CASE q.op = "open" -> [fs EXCEPT ![q.to] = Part(q.who)]
    [] q.op = "write" -> IF fs[q.to] = Missing THEN fs
                         ELSE [fs EXCEPT ![q.to] = Whole(q.who)]
    [] q.op \in {"posix", "rename"} -> [fs EXCEPT ![q.to] = fs[q.from], ![q.from] = Missing]
    [] q.op = "remove" -> [fs EXCEPT ![q.from] = Missing]
    [] OTHER -> fs

\* isArtifactName
IsArtifact(n) == n \in Artifacts

Awaited(q) == pc[q.who] = q.step /\ outcome[q.who] = "waiting"

\* Continuations run before the next event: nothing else happens while the outcome
\* of a request has not been acted upon.
Quiet == \A a \in Actors : outcome[a] \in {"none", "waiting"}

\* The reply of a request that was given up on is discarded, and one still on its way
\* when the session dies or the timeout fires is never seen.
Serve(c) ==
  /\ Quiet
  /\ session[c] = "up" /\ wire[c] # <<>>
  /\ LET q == Head(wire[c]) IN
       \E out \in Possible(q),
          seen \in IF Drops \/ Timeouts THEN BOOLEAN ELSE {TRUE} :
         /\ fs' = IF out = "ok" THEN Effect(q) ELSE fs
         /\ outcome' = IF seen /\ Awaited(q) THEN [outcome EXCEPT ![q.who] = out]
                       ELSE outcome
         /\ IF seen /\ Awaited(q) /\ q.op = "list" /\ out = "ok"
            THEN \E batch \in SUBSET {n \in Names : IsArtifact(n) /\ fs[n] # Missing} :
                   found' = [found EXCEPT ![c] = @ \cup batch]
            ELSE UNCHANGED found
  /\ wire' = [wire EXCEPT ![c] = Tail(@)]
  /\ UNCHANGED <<caps, swept, session, home, pc, existed, verdict>>

\* SftpClient gives up on a request after its timeout; the server may yet perform it.
GiveUp(a) == /\ Timeouts /\ Quiet /\ outcome[a] = "waiting"
             /\ outcome' = [outcome EXCEPT ![a] = "lost"]
             /\ UNCHANGED <<caps, swept, fs, wire, session, home, pc, existed, verdict, found>>

\* The session dies: what the server has not executed is lost, and every waiting
\* request fails.
Drop(c) ==
  /\ Drops /\ Quiet /\ session[c] = "up"
  /\ session' = [session EXCEPT ![c] = "down"]
  /\ wire' = [wire EXCEPT ![c] = <<>>]
  /\ outcome' = [a \in Actors |->
                   IF /\ outcome[a] = "waiting"
                      /\ a = c \/ (a \in Savers /\ home[a] = c)
                   THEN "lost" ELSE outcome[a]]
  /\ UNCHANGED <<caps, swept, fs, home, pc, existed, verdict, found>>

-----------------------------------------------------------------------------
\* A session comes up; #establish lists its rootPath for leftovers at once, and only
\* that directory.
Connect(c) ==
  /\ Quiet /\ session[c] = "new"
  /\ Overlap \/ \A d \in Sessions : session[d] # "up"
  /\ session' = [session EXCEPT ![c] = "up"]
  /\ IF swept
     THEN /\ pc' = [pc EXCEPT ![c] = "opendir"]
          /\ outcome' = [outcome EXCEPT ![c] = "waiting"]
          /\ wire' = [wire EXCEPT ![c] = <<[who |-> c, step |-> "opendir", op |-> "sync",
                                            from |-> None, to |-> None]>>]
     ELSE UNCHANGED <<pc, outcome, wire>>
  /\ UNCHANGED <<caps, swept, fs, home, existed, verdict, found>>

\* The sweep goes on without a request.
SweepTo(c, step, result) == /\ pc' = [pc EXCEPT ![c] = step]
                            /\ outcome' = [outcome EXCEPT ![c] = result]
                            /\ UNCHANGED <<wire, verdict>>

\* readDirectory asks for batch after batch; if one fails the sweep finds nothing.
SweepListed(c) ==
  /\ pc[c] \in {"opendir", "list"} /\ outcome[c] # "waiting"
  /\ \/ outcome[c] = "ok" /\ Send(c, c, "list", "list", None, None) /\ UNCHANGED found
     \/ outcome[c] = "ok" /\ pc[c] = "list" /\ SweepTo(c, "sweep", "ok") /\ UNCHANGED found
     \/ /\ outcome[c] # "ok" /\ SweepTo(c, "done", "none")
        /\ found' = [found EXCEPT ![c] = {}]
  /\ UNCHANGED <<caps, swept, fs, session, home, existed>>

\* sweepArtifacts removes the next leftover, whatever came of the last one.
SweepNext(c) ==
  /\ pc[c] = "sweep" /\ outcome[c] # "waiting"
  /\ \/ \E n \in found[c] : /\ Send(c, c, "sweep", "remove", n, None)
                            /\ found' = [found EXCEPT ![c] = @ \ {n}]
     \/ found[c] = {} /\ SweepTo(c, "done", "none") /\ UNCHANGED found
  /\ UNCHANGED <<caps, swept, fs, session, home, existed>>

-----------------------------------------------------------------------------
\* RemoteSession.writeFile once it has the write lock of the path and its parent,
\* which is its session's: writeTemporary opens the temporary file.
Save(s) ==
  /\ Quiet /\ pc[s] = "idle"
  /\ \E c \in Sessions :
       /\ session[c] = "up"
       /\ \A t \in Savers : Saving(t) => home[t] # c
       /\ home' = [home EXCEPT ![s] = c]
       /\ Send(s, c, "open", "open", None, Temp[s])
  /\ UNCHANGED <<caps, swept, fs, session, existed, found>>

\* What happens when the outcome of a save's request is known. The chunks of writeAll
\* are one request.
After(s, step) == pc[s] = step /\ outcome[s] # "waiting"
Ok(s) == outcome[s] = "ok"

\* The catch of writeTemporary: close the handle, then remove the file.
CloseAnyway(s) == Ask(s, "abandon", "close", None, Temp[s])
Discard(s) == Ask(s, "discard", "remove", Temp[s], None)
CloseTemp(s) == Ask(s, "close", "close", None, Temp[s])
SyncOrClose(s) == IF caps.fsync THEN Ask(s, "fsync", "sync", None, Temp[s]) ELSE CloseTemp(s)

Opened(s) == /\ After(s, "open")
             /\ IF Ok(s) THEN Ask(s, "write", "write", None, Temp[s]) ELSE End(s, "failed")

\* Slip: a failed write goes unnoticed.
Written_Unchecked(s) == After(s, "write") /\ SyncOrClose(s)

Written(s) == After(s, "write") /\ IF Ok(s) THEN SyncOrClose(s) ELSE CloseAnyway(s)
Synced(s) == After(s, "fsync") /\ IF Ok(s) THEN CloseTemp(s) ELSE CloseAnyway(s)

\* Slip: the old file is removed to make room for the new one.
Closed_RemoveFirst(s) ==
  /\ After(s, "close")
  /\ IF Ok(s) THEN Ask(s, "aside", "remove", Target, None) ELSE CloseAnyway(s)

\* The temporary file is complete: swap it in, or move the original aside.
Closed(s) ==
  /\ After(s, "close")
  /\ CASE ~Ok(s) -> CloseAnyway(s)
       [] Ok(s) /\ caps.posix -> Ask(s, "swap", "posix", Temp[s], Target)
       [] Ok(s) /\ ~caps.posix -> Ask(s, "aside", "rename", Target, Back[s])

Abandoned(s) == After(s, "abandon") /\ Discard(s)

\* Slip: a swap that has timed out is tried again.
Swapped_Retry(s) ==
  /\ After(s, "swap")
  /\ CASE outcome[s] = "ok" -> End(s, "saved")
       [] outcome[s] = "lost" -> Ask(s, "swap", "posix", Temp[s], Target)
       [] OTHER -> Discard(s)

\* Slip: a temporary file that is gone counts as swapped in.
Swapped_Missing(s) ==
  /\ After(s, "swap")
  /\ IF outcome[s] \in {"ok", "missing"} THEN End(s, "saved") ELSE Discard(s)

Swapped(s) == After(s, "swap") /\ IF Ok(s) THEN End(s, "saved") ELSE Discard(s)

\* removeQuietly, and the throw after it; after a failed step 1 that the file is
\* unchanged.
Discarded(s) == \/ After(s, "discard") /\ End(s, "failed")
                \/ After(s, "undo") /\ End(s, "unchanged")

\* Step 1 of replaceViaBackup is answered: on to step 2, unless it failed for another
\* reason than a missing original.
MovedAside(s) ==
  /\ After(s, "aside")
  /\ existed' = [existed EXCEPT ![s] = outcome[s] # "missing"]
  /\ IF outcome[s] \in {"ok", "missing"}
     THEN Ask(s, "place", "rename", Temp[s], Target)
     ELSE Ask(s, "undo", "remove", Temp[s], None)

DropBackup(s) == Ask(s, "unback", "remove", Back[s], None)

\* Slips: the backup is removed whatever came of step 2; there is no rollback.
Placed_DropsBackup(s) ==
  After(s, "place") /\ IF existed[s] THEN DropBackup(s) ELSE End(s, "saved")

Placed_NoRollback(s) ==
  /\ After(s, "place")
  /\ CASE ~Ok(s) -> Discard(s)
       [] Ok(s) /\ existed[s] -> DropBackup(s)
       [] Ok(s) /\ ~existed[s] -> End(s, "saved")

\* Step 2: drop the backup, or roll back.
Placed(s) ==
  /\ After(s, "place")
  /\ CASE Ok(s) /\ existed[s] -> DropBackup(s)
       [] Ok(s) /\ ~existed[s] -> End(s, "saved")
       [] ~Ok(s) /\ existed[s] -> Ask(s, "restore", "rename", Back[s], Target)
       [] ~Ok(s) /\ ~existed[s] -> Discard(s)

\* The rollback is answered. If it worked the temporary file is removed ...
Restored(s) ==
  /\ After(s, "restore")
  /\ IF Ok(s) THEN Ask(s, "tidy", "remove", Temp[s], None) ELSE End(s, "stranded")

\* ... and "the original has been restored" is thrown, inside the try whose catch
\* turns it into "the original could not be restored".
Tidied(s) == After(s, "tidy") /\ End(s, "stranded")

\* Step 3: the save has succeeded, with or without an orphaned backup.
BackupDropped(s) == After(s, "unback") /\ End(s, "saved")

Advance(s) ==
  /\ \/ MovedAside(s)
     \/ /\ \/ Opened(s) \/ Written(s) \/ Synced(s) \/ Closed(s) \/ Abandoned(s)
           \/ Swapped(s) \/ Discarded(s) \/ Placed(s) \/ Restored(s) \/ Tidied(s)
           \/ BackupDropped(s)
        /\ UNCHANGED existed
  /\ UNCHANGED <<caps, swept, fs, session, home, found>>

Next == \/ \E c \in Sessions : Connect(c) \/ Serve(c) \/ Drop(c) \/ SweepListed(c) \/ SweepNext(c)
        \/ \E a \in Actors : GiveUp(a)
        \/ \E s \in Savers : Save(s) \/ Advance(s)

Spec == Init /\ [][Next]_vars

-----------------------------------------------------------------------------
Contents == {Missing} \cup {Whole(s) : s \in Savers \cup {Original}} \cup {Part(s) : s \in Savers}

\* Every variable has its type. (An aid when the model is changed: no run lists it.)
TypeOK ==
  /\ fs \in [Names -> Contents]
  /\ session \in [Sessions -> {"new", "up", "down"}]
  /\ home \in [Savers -> Sessions \cup {None}]
  /\ pc \in [Actors -> {"idle", "done", "opendir", "list", "sweep", "open", "write", "fsync",
                        "close", "abandon", "discard", "undo", "swap", "aside",
                        "place", "restore", "tidy", "unback"}]
  /\ outcome \in [Actors -> {"none", "waiting", "ok", "missing", "refused", "lost"}]
  /\ existed \in [Savers -> BOOLEAN]
  /\ verdict \in [Savers -> Verdicts]
  /\ found \in [Sessions -> SUBSET Artifacts]
  /\ \A c \in Sessions : \A i \in 1..Len(wire[c]) :
       wire[c][i].who \in Actors /\ wire[c][i].op \in
         {"open", "write", "sync", "close", "posix", "rename", "remove", "list"}

\* "never a half-written file": the file is absent or complete, whoever is saving, whichever
\* requests fail, and whenever the late ones are performed. "Atomically when
\* posix-rename@openssh.com exists": a file that is there stays there.
NeverHalf == [][/\ fs'[Target] = Missing \/ fs'[Target].whole
                /\ caps.posix /\ fs[Target].whole => fs'[Target].whole]_vars

\* Once there is a complete version of the file, under its name or a backup's, there
\* always is one: no save destroys the last, however it is interrupted.
Kept == \E n \in {Target} \cup {Back[s] : s \in Savers} : fs[n].whole
NothingLost == [][~swept /\ Kept => Kept']_vars

\* The same of the sweep: what it removes as left over is not the only version.
SweepSparesTheLast == [][Kept => Kept']_vars

\* "every failure leaves either the original or the new content in place, never
\* nothing": a save that ends saved or plainly failed leaves a complete file, if there
\* was one and no other save has ended otherwise.
NothingMissingSilently ==
  [][\A s \in Savers :
       /\ verdict'[s] # verdict[s] /\ Kept
       /\ \A t \in Savers : verdict'[t] \notin {"stranded", "unchanged"}
       => fs'[Target].whole]_vars

\* A save that reports success is the one whose content is there.
SavedIsThere ==
  [][\A s \in Savers : verdict'[s] = "saved" /\ verdict[s] # "saved" =>
                         fs[Target] = Whole(s)]_vars

\* A save that may yet touch the file: it has not come to that, or what it asked for to that
\* end has not been performed.
Touching(s) == \/ pc[s] \in {"open", "write", "fsync", "close", "aside"}
               \/ pc[s] = "place" /\ outcome[s] # "ok"
               \/ \E c \in Sessions : \E i \in 1..Len(wire[c]) :
                    /\ wire[c][i].who = s
                    /\ wire[c][i].step \in {"swap", "aside", "place", "restore"}
Live == {s \in Savers : Touching(s)}
SetAside == {fs[Back[s]].by : s \in Savers} \ {None}
Heard == [s \in Savers |-> CASE pc[s] = "idle" -> "new"
                             [] pc[s] = "done" -> verdict[s]
                             [] OTHER -> "busy"]

\* "Replace a remote file's contents without ever truncating the original": the saves of one
\* window implement a file that is replaced, and a success is final, whatever the saves before
\* it have left on the wire.
File == INSTANCE ReplacedFile WITH atomic <- caps.posix, content <- fs[Target].by,
                                   aside <- SetAside, live <- Live, told <- Heard
ImplementsFile == File!Spec

\* No run checks the next two; they are false.
\* "Say exactly where the data is": the report of a failed rollback names the backup
\* and the temporary file, and the contents are there.
StrandedIsTrue ==
  \A s \in Savers : verdict[s] = "stranded" => fs[Back[s]].whole /\ fs[Temp[s]] = Whole(s)

\* "the original could not be moved aside. It is unchanged": then it was not moved.
UnchangedIsTrue == \A s \in Savers : verdict[s] = "unchanged" => ~fs[Back[s]].whole
=============================================================================
