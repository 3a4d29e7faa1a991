-------------------------- MODULE SafeReplaceProofs --------------------------
(* No half-written file and no version lost, for any number of saves, sessions and servers; and of
   one window that success means success, that a missing file is owned up to, and that the saves
   implement a file that is replaced. *)
EXTENDS SafeReplace, TLAPS

\* Absent or complete.
Full(n) == fs[n] = Missing \/ fs[n].whole

\* What each request of a save asks for.
Shape(q) ==
  LET s == q.who IN
  CASE q.step = "open"    -> q.op = "open"   /\ q.to = Temp[s]
    [] q.step = "write"   -> q.op = "write"  /\ q.to = Temp[s]
    [] q.step = "fsync"   -> q.op = "sync"
    [] q.step \in {"close", "abandon"} -> q.op = "close"
    [] q.step \in {"discard", "undo", "tidy"} -> q.op = "remove" /\ q.from = Temp[s]
    [] q.step = "swap"    -> q.op = "posix"  /\ q.from = Temp[s] /\ q.to = Target
    [] q.step = "aside"   -> q.op = "rename" /\ q.from = Target  /\ q.to = Back[s] /\ ~caps.posix
    [] q.step = "place"   -> q.op = "rename" /\ q.from = Temp[s] /\ q.to = Target
    [] q.step = "restore" -> q.op = "rename" /\ q.from = Back[s] /\ q.to = Target
    [] q.step = "unback"  -> q.op = "remove" /\ q.from = Back[s]
    [] OTHER -> FALSE

\* Where a save may be while a request of it is still on the wire: it may have given up on it.
Later(step) ==
  CASE step = "write" -> {"write", "abandon", "discard"}
    [] step = "fsync" -> {"fsync", "abandon", "discard"}
    [] step = "close" -> {"close", "abandon", "discard"}
    [] step = "abandon" -> {"abandon", "discard"}
    [] step = "swap" -> {"swap", "discard"}
    [] step = "aside" -> {"aside", "undo"}
    [] step = "place" -> {"place", "restore", "tidy", "discard"}
    [] OTHER -> {step}

\* A request on the wire of c: of a sweep, or of a save that runs there.
Timely(q) == \/ pc[q.who] \in Later(q.step)
             \/ pc[q.who] = "done" /\ (verdict[q.who] = "saved" <=> q.step = "unback")
OfSave(q, c) == /\ q.who \in Savers /\ home[q.who] = c /\ Shape(q) /\ Timely(q)
                /\ pc[q.who] = q.step => outcome[q.who] \in {"waiting", "lost"}
OfSweep(q, c) == /\ q.who = c /\ q.op \in {"sync", "list", "remove"} /\ swept
                 /\ q.op = "remove" => q.from \in Artifacts

\* Of two requests of one save on a wire: no step twice, and nothing that fills the temporary
\* file beside something that moves it into place.
Apart(q, r) == q.who = r.who /\ q.who \in Savers =>
  /\ q.step # r.step
  /\ {q.step, r.step} \cap {"open", "write"} = {} \/ {q.step, r.step} \cap {"swap", "place"} = {}

Wires == \A c \in Sessions : \A i \in 1..Len(wire[c]) :
           /\ OfSave(wire[c][i], c) \/ OfSweep(wire[c][i], c)
           /\ \A j \in 1..Len(wire[c]) : i # j => Apart(wire[c][i], wire[c][j])

\* The temporary file is filled, or gone.
Moving(s) == \E c \in Sessions : \E i \in 1..Len(wire[c]) :
               wire[c][i].who = s /\ wire[c][i].step \in {"swap", "place"}
Filled(s) == \/ pc[s] \in {"fsync", "close", "swap", "aside", "place"}
             \/ pc[s] = "write" /\ outcome[s] = "ok"
             \/ Moving(s)

\* What is swapped in is there when the save learns of it.
InPlace(s) == pc[s] \in {"swap", "place"} /\ outcome[s] = "ok" => fs[Target].whole

Files == /\ Full(Target)
         /\ \A s \in Savers : Full(Back[s]) /\ InPlace(s) /\ (Filled(s) => Full(Temp[s]))

\* A save that has removed its backup, or is about to: there is another version.
Released(s) == pc[s] = "unback" \/ (pc[s] = "done" /\ verdict[s] = "saved")
Another == \E n \in {Target} \cup {Back[s] : s \in {t \in Savers : ~Released(t)}} : fs[n].whole
Spared == ~swept /\ (\E s \in Savers : Released(s)) => Another

\* The types that the argument needs.
Steps == {"idle", "done", "opendir", "list", "sweep", "open", "write", "fsync", "close", "abandon",
          "discard", "undo", "swap", "aside", "place", "restore", "tidy", "unback"}
Outcomes == {"none", "waiting", "ok", "missing", "refused", "lost"}
Ops == {"open", "write", "sync", "close", "posix", "rename", "remove", "list"}
Requests == [who : Actors, step : Steps, op : Ops,
             from : Names \cup {None}, to : Names \cup {None}]
Typed == /\ fs \in [Names -> Contents] /\ wire \in [Sessions -> Seq(Requests)]
         /\ home \in [Savers -> Sessions \cup {None}]
         /\ \A s \in Savers : pc[s] # "idle" => home[s] \in Sessions
         /\ pc \in [Actors -> Steps] /\ outcome \in [Actors -> Outcomes]
         /\ verdict \in [Savers -> Verdicts]
         /\ found \in [Sessions -> SUBSET Artifacts]
         /\ \A c \in Sessions : ~swept => pc[c] = "idle"

IInv == Typed /\ Wires /\ Files /\ Spared

-----------------------------------------------------------------------------
\* No two names of the directory are the same.
LEMMA NamesApart ==
  /\ Target \in Names /\ Artifacts \subseteq Names /\ Target \notin Artifacts
  /\ \A s \in Savers : {Temp[s], Back[s]} \subseteq Artifacts
  /\ \A s, t \in Savers : Temp[s] # Back[t] /\ (s # t => Temp[s] # Temp[t] /\ Back[s] # Back[t])
  BY ReplaceAssumption DEF Names, Artifacts

\* Initially no request is on a wire, and every file is absent or complete.
LEMMA InitIInv == Init => IInv
<1> SUFFICES ASSUME Init PROVE IInv
  OBVIOUS
<1>1. Typed
  <2>1. fs \in [Names -> Contents]
    BY DEF Init, Contents
  <2>2. <<>> \in Seq(Requests)
    OBVIOUS
  <2>3. wire \in [Sessions -> Seq(Requests)]
    BY <2>2 DEF Init
  <2>4. found \in [Sessions -> SUBSET Artifacts]
    BY DEF Init
  <2>5. home \in [Savers -> Sessions \cup {None}] /\ verdict \in [Savers -> Verdicts]
    BY DEF Init, Verdicts
  <2>6. pc \in [Actors -> Steps] /\ outcome \in [Actors -> Outcomes]
    BY DEF Init, Steps, Outcomes
  <2>7. \A a \in Actors : pc[a] = "idle"
    BY DEF Init, Actors
  <2> QED BY <2>1, <2>3, <2>4, <2>5, <2>6, <2>7 DEF Typed, Actors
<1>2. Wires
  BY DEF Init, Wires
<1>3. Files
  <2>1. \A n \in Names : Full(n)
    BY DEF Init, Full, Whole
  <2>2. \A s \in Savers : pc[s] = "idle"
    BY DEF Init, Actors
  <2> QED BY <2>1, <2>2, NamesApart DEF Files, InPlace, Filled, Moving, Init
<1>4. Spared
  BY DEF Init, Spared, Released, Actors
<1> QED BY <1>1, <1>2, <1>3, <1>4 DEF IInv

-----------------------------------------------------------------------------
\* What the server does when it executes q: it fills a temporary file, removes an artifact, or
\* moves a file to a name that is free, or by posix-rename into place.
Fills(q) == /\ q.who \in Savers /\ q.step \in {"open", "write"}
            /\ \E x \in {Part(q.who), Whole(q.who)} : /\ fs' = [fs EXCEPT ![Temp[q.who]] = x]
                                                      /\ q.step = "write" => x.whole
Removes(q, n) == /\ fs' = [fs EXCEPT ![n] = Missing] /\ n \in Artifacts
                 /\ \/ q.who \in Savers /\ n = Temp[q.who]
                    \/ q.who \in Savers /\ n = Back[q.who] /\ q.step = "unback"
                    \/ swept
Moved(q, from, to) == /\ q.who \in Savers /\ fs[from] # Missing
                      /\ fs' = [fs EXCEPT ![to] = fs[from], ![from] = Missing]
Puts(q) == Moved(q, Temp[q.who], Target) /\ q.step \in {"swap", "place"}
                                         /\ (q.step = "place" => fs[Target] = Missing)
SetsAside(q) == Moved(q, Target, Back[q.who]) /\ q.step = "aside" /\ ~caps.posix
PutsBack(q) == Moved(q, Back[q.who], Target) /\ q.step = "restore" /\ fs[Target] = Missing

Executes(q) == \/ Fills(q) \/ Puts(q) \/ SetsAside(q) \/ PutsBack(q)
               \/ \E n \in Artifacts : Removes(q, n)

\* The first request on the wire is executed or refused, and its outcome may be seen.
LEMMA Served ==
  ASSUME IInv, NEW c \in Sessions, Serve(c)
  PROVE  LET q == wire[c][1] IN
         /\ 1 \in 1..Len(wire[c]) /\ q \in Requests /\ (OfSave(q, c) \/ OfSweep(q, c))
         /\ fs' = fs \/ Executes(q)
         /\ \/ outcome' = outcome
            \/ /\ pc[q.who] = q.step /\ outcome[q.who] = "waiting"
               /\ \E out \in {"ok", "missing", "refused"} :
                    /\ outcome' = [outcome EXCEPT ![q.who] = out]
                    /\ out # "ok" => fs' = fs
                    /\ out = "ok" /\ q.step \in {"swap", "place"} /\ OfSave(q, c) => Puts(q)
                    /\ out = "ok" /\ q.step = "write" /\ OfSave(q, c) =>
                         fs' = [fs EXCEPT ![Temp[q.who]] = Whole(q.who)] \/ (fs' = fs /\ fs[Temp[q.who]] = Missing)
<1> DEFINE q == wire[c][1]
<1>1. /\ wire[c] \in Seq(Requests) /\ wire[c] # <<>> /\ Head(wire[c]) = q
      /\ 1 \in 1..Len(wire[c]) /\ q \in Requests
  BY DEF IInv, Typed, Serve
<1>2. OfSave(q, c) \/ OfSweep(q, c)
  BY <1>1 DEF IInv, Wires
<1> HIDE DEF q
<1>3. PICK out \in Possible(q), seen \in BOOLEAN :
        /\ fs' = IF out = "ok" THEN Effect(q) ELSE fs
        /\ outcome' = IF seen /\ Awaited(q) THEN [outcome EXCEPT ![q.who] = out] ELSE outcome
  BY <1>1 DEF Serve
<1>4. out \in {"ok", "missing", "refused"}
  BY DEF Possible
<1>5. ASSUME out = "ok", OfSave(q, c)
      PROVE  /\ fs' = fs \/ Executes(q)
             /\ q.step \in {"swap", "place"} => Puts(q)
             /\ q.step = "write" => \/ fs' = [fs EXCEPT ![Temp[q.who]] = Whole(q.who)]
                                    \/ fs' = fs /\ fs[Temp[q.who]] = Missing
  <2>0. /\ fs' = Effect(q) /\ q.who \in Savers /\ Shape(q)
        /\ Temp[q.who] \in Artifacts /\ Back[q.who] \in Artifacts
    BY <1>3, <1>5, NamesApart DEF OfSave
  <2>1. CASE q.step = "open"
    <3>1. fs' = [fs EXCEPT ![Temp[q.who]] = Part(q.who)]
      BY <2>0, <2>1 DEF Shape, Effect
    <3> QED BY <2>0, <2>1, <3>1 DEF Executes, Fills
  <2>2. CASE q.step = "write"
    <3>1. /\ Whole(q.who).whole
          /\ \/ fs' = fs /\ fs[Temp[q.who]] = Missing
             \/ fs' = [fs EXCEPT ![Temp[q.who]] = Whole(q.who)]
      BY <2>0, <2>2 DEF Shape, Effect, Whole
    <3> QED BY <2>0, <2>2, <3>1 DEF Executes, Fills
  <2>3. CASE q.step \in {"discard", "undo", "tidy", "unback"}
    <3>1. \E n \in {Temp[q.who], Back[q.who]} :
            /\ fs' = [fs EXCEPT ![n] = Missing]
            /\ n = Back[q.who] => q.step = "unback" \/ n = Temp[q.who]
      BY <2>0, <2>3 DEF Shape, Effect
    <3> QED BY <2>0, <2>3, <3>1 DEF Executes, Removes
  <2>4. CASE q.step \in {"swap", "place"}
    <3>1. /\ q.op \in {"posix", "rename"} /\ q.from = Temp[q.who] /\ q.to = Target
          /\ q.step = "place" => q.op = "rename"
      BY <2>0, <2>4 DEF Shape
    <3>2. fs[q.from] # Missing /\ (q.op = "rename" => fs[q.to] = Missing)
      BY <1>5, <3>1 DEF Possible
    <3> QED BY <2>0, <2>4, <3>1, <3>2 DEF Effect, Executes, Puts, Moved
  <2>5. CASE q.step \in {"aside", "restore"}
    <3>1. /\ q.op = "rename" /\ (q.step = "aside" => ~caps.posix)
          /\ q.step = "aside" => q.from = Target /\ q.to = Back[q.who]
          /\ q.step = "restore" => q.from = Back[q.who] /\ q.to = Target
      BY <2>0, <2>5 DEF Shape
    <3>2. fs[q.from] # Missing /\ fs[q.to] = Missing
      BY <1>5, <3>1 DEF Possible
    <3>3. fs' = [fs EXCEPT ![q.to] = fs[q.from], ![q.from] = Missing]
      BY <2>0, <3>1 DEF Effect
    <3>4. CASE q.step = "aside"
      BY <2>0, <3>1, <3>2, <3>3, <3>4 DEF Executes, SetsAside, Moved
    <3>5. CASE q.step = "restore"
      BY <2>0, <3>1, <3>2, <3>3, <3>5 DEF Executes, PutsBack, Moved
    <3> QED BY <2>5, <3>4, <3>5
  <2>6. CASE q.step \in {"fsync", "close", "abandon"}
    BY <2>0, <2>6 DEF Shape, Effect
  <2> QED BY <2>0, <2>1, <2>2, <2>3, <2>4, <2>5, <2>6 DEF Shape
<1>6. ASSUME out = "ok", OfSweep(q, c) PROVE fs' = fs \/ Executes(q)
  BY <1>3, <1>6 DEF OfSweep, Effect, Executes, Removes
<1>7. outcome' = outcome \/ (/\ Awaited(q) /\ outcome' = [outcome EXCEPT ![q.who] = out])
  BY <1>3
<1>8. (fs' = fs \/ Executes(q)) /\ (out # "ok" => fs' = fs)
  BY <1>2, <1>3, <1>5, <1>6
<1> QED BY <1>1, <1>2, <1>4, <1>5, <1>7, <1>8 DEF Awaited, q

-----------------------------------------------------------------------------
\* The next request of a save, and the ends it may come to: what the catch blocks and the
\* conditions of safeReplace come down to.
Follows(s, step) ==
  LET ok == outcome[s] = "ok" IN
  CASE pc[s] = "open"    -> ok /\ step = "write"
    [] pc[s] = "write"   -> IF ok THEN step \in {"fsync", "close"} ELSE step = "abandon"
    [] pc[s] = "fsync"   -> IF ok THEN step = "close" ELSE step = "abandon"
    [] pc[s] = "close"   -> step = IF ~ok THEN "abandon" ELSE IF caps.posix THEN "swap" ELSE "aside"
    [] pc[s] = "abandon" -> step = "discard"
    [] pc[s] = "swap"    -> ~ok /\ step = "discard"
    [] pc[s] = "aside"   -> IF outcome[s] \in {"ok", "missing"} THEN step = "place" ELSE step = "undo"
    [] pc[s] = "place"   -> IF ok THEN step = "unback"
                            ELSE step = IF existed[s] THEN "restore" ELSE "discard"
    [] pc[s] = "restore" -> ok /\ step = "tidy"
    [] OTHER -> FALSE

Ends(s, v) ==
  CASE v = "saved"     -> pc[s] = "unback" \/ (pc[s] \in {"swap", "place"} /\ outcome[s] = "ok")
    [] v = "failed"    -> pc[s] \in {"open", "discard"}
    [] v = "unchanged" -> pc[s] = "undo"
    [] v = "stranded"  -> pc[s] \in {"restore", "tidy"}
    [] OTHER -> FALSE

\* What originalExisted is after the step: it is known once the original was moved aside.
Knows(s) == existed' = IF pc[s] = "aside" THEN [existed EXCEPT ![s] = outcome[s] # "missing"]
                       ELSE existed

Going(s) == pc[s] \notin {"idle", "done"} /\ outcome[s] # "waiting"

\* A save that goes on sends the request that follows, or ends.
LEMMA Advances ==
  ASSUME NEW s \in Savers, Advance(s)
  PROVE  /\ UNCHANGED <<caps, swept, fs, session, home, found>> /\ Going(s) /\ Knows(s)
         /\ \/ \E v \in Verdicts : End(s, v) /\ Ends(s, v)
            \/ \E q \in Requests : /\ q.who = s /\ Shape(q) /\ Follows(s, q.step)
                                   /\ Send(s, home[s], q.step, q.op, q.from, q.to)
<1>0. /\ s \in Actors /\ {Temp[s], Back[s], Target, None} \subseteq Names \cup {None}
      /\ UNCHANGED <<caps, swept, fs, session, home, found>>
  BY NamesApart DEF Advance, Actors
<1> DEFINE Sends == \E q \in Requests : /\ q.who = s /\ Shape(q) /\ Follows(s, q.step)
                                        /\ Send(s, home[s], q.step, q.op, q.from, q.to)
           Stops == \E v \in Verdicts : End(s, v) /\ Ends(s, v)
<1>1. ASSUME NEW step \in Steps, NEW op \in Ops,
             NEW from \in Names \cup {None}, NEW to \in Names \cup {None},
             Ask(s, step, op, from, to), Follows(s, step),
             Shape([who |-> s, step |-> step, op |-> op, from |-> from, to |-> to])
      PROVE  Sends
  <2> DEFINE q == [who |-> s, step |-> step, op |-> op, from |-> from, to |-> to]
  <2>1. q \in Requests /\ q.who = s /\ Shape(q) /\ Follows(s, q.step)
        /\ Send(s, home[s], q.step, q.op, q.from, q.to)
    BY <1>0, <1>1 DEF Requests, Ask
  <2> QED BY <2>1
<1>2. ASSUME NEW v \in Verdicts, End(s, v), Ends(s, v) PROVE Stops
  BY <1>2
<1>k. Knows(s)
  BY DEF Advance, After, MovedAside, Opened, Written, Synced, Closed, Abandoned, Swapped, Discarded,
         Placed, Restored, Tidied, BackupDropped, Knows
<1> SUFFICES Going(s) /\ (Sends \/ Stops)
  BY <1>0, <1>k
<1> HIDE DEF Sends, Stops
<1> USE <1>0 DEF After, Ok
<1>3. CASE Opened(s)
  <2>1. Going(s)
    BY <1>3 DEF Opened, Going
  <2>2. Sends \/ Stops
    BY <1>1, <1>2, <1>3 DEF Opened, Follows, Shape, Ends, Verdicts, Steps, Ops
  <2> QED BY <2>1, <2>2
<1>4. CASE Written(s)
  <2>1. Going(s)
    BY <1>4 DEF Written, Going
  <2>2. Sends \/ Stops
    BY <1>1, <1>2, <1>4 DEF Written, SyncOrClose, CloseTemp, CloseAnyway, Follows, Shape, Ends, Verdicts, Steps, Ops
  <2> QED BY <2>1, <2>2
<1>5. CASE Synced(s)
  <2>1. Going(s)
    BY <1>5 DEF Synced, Going
  <2>2. Sends \/ Stops
    BY <1>1, <1>2, <1>5 DEF Synced, CloseTemp, CloseAnyway, Follows, Shape, Ends, Verdicts, Steps, Ops
  <2> QED BY <2>1, <2>2
<1>6. CASE Closed(s)
  <2>1. Going(s)
    BY <1>6 DEF Closed, Going
  <2>2. Sends \/ Stops
    <3>1. pc[s] = "close" /\ (Ok(s) => IF caps.posix THEN Ask(s, "swap", "posix", Temp[s], Target)
                                        ELSE Ask(s, "aside", "rename", Target, Back[s]))
          /\ (~Ok(s) => CloseAnyway(s))
      BY <1>6 DEF Closed
    <3>2. CASE ~Ok(s)
      BY <1>1, <3>1, <3>2 DEF CloseAnyway, Follows, Shape, Steps, Ops
    <3>3. CASE Ok(s) /\ caps.posix
      BY <1>1, <3>1, <3>3 DEF Follows, Shape, Steps, Ops
    <3>4. CASE Ok(s) /\ ~caps.posix
      BY <1>1, <3>1, <3>4 DEF Follows, Shape, Steps, Ops
    <3> QED BY <3>2, <3>3, <3>4
  <2> QED BY <2>1, <2>2
<1>7. CASE Abandoned(s)
  <2>1. Going(s)
    BY <1>7 DEF Abandoned, Going
  <2>2. Sends \/ Stops
    BY <1>1, <1>2, <1>7 DEF Abandoned, Discard, Follows, Shape, Ends, Verdicts, Steps, Ops
  <2> QED BY <2>1, <2>2
<1>8. CASE Swapped(s)
  <2>1. Going(s)
    BY <1>8 DEF Swapped, Going
  <2>2. Sends \/ Stops
    BY <1>1, <1>2, <1>8 DEF Swapped, Discard, Follows, Shape, Ends, Verdicts, Steps, Ops
  <2> QED BY <2>1, <2>2
<1>9. CASE Discarded(s)
  <2>1. Going(s)
    BY <1>9 DEF Discarded, Going
  <2>2. Sends \/ Stops
    BY <1>1, <1>2, <1>9 DEF Discarded, Follows, Shape, Ends, Verdicts, Steps, Ops
  <2> QED BY <2>1, <2>2
<1>10. CASE MovedAside(s)
  <2>1. Going(s)
    BY <1>10 DEF MovedAside, Going
  <2>2. Sends \/ Stops
    BY <1>1, <1>2, <1>10 DEF MovedAside, Follows, Shape, Ends, Verdicts, Steps, Ops
  <2> QED BY <2>1, <2>2
<1>11. CASE Placed(s)
  <2>1. Going(s)
    BY <1>11 DEF Placed, Going
  <2>2. Sends \/ Stops
    <3>1. /\ pc[s] = "place"
          /\ \/ Ok(s) /\ (DropBackup(s) \/ End(s, "saved"))
             \/ ~Ok(s) /\ existed[s] /\ Ask(s, "restore", "rename", Back[s], Target)
             \/ ~Ok(s) /\ ~existed[s] /\ Discard(s)
      BY <1>11 DEF Placed
    <3>2. CASE Ok(s) /\ DropBackup(s)
      BY <1>1, <3>1, <3>2 DEF DropBackup, Follows, Shape, Steps, Ops
    <3>3. CASE Ok(s) /\ End(s, "saved")
      BY <1>2, <3>1, <3>3 DEF Ends, Verdicts
    <3>4. CASE ~Ok(s) /\ existed[s] /\ Ask(s, "restore", "rename", Back[s], Target)
      BY <1>1, <3>1, <3>4 DEF Follows, Shape, Steps, Ops
    <3>5. CASE ~Ok(s) /\ ~existed[s] /\ Discard(s)
      BY <1>1, <3>1, <3>5 DEF Discard, Follows, Shape, Steps, Ops
    <3> QED BY <3>1, <3>2, <3>3, <3>4, <3>5
  <2> QED BY <2>1, <2>2
<1>12. CASE Restored(s)
  <2>1. Going(s)
    BY <1>12 DEF Restored, Going
  <2>2. Sends \/ Stops
    BY <1>1, <1>2, <1>12 DEF Restored, Follows, Shape, Ends, Verdicts, Steps, Ops
  <2> QED BY <2>1, <2>2
<1>13. CASE Tidied(s)
  <2>1. Going(s)
    BY <1>13 DEF Tidied, Going
  <2>2. Sends \/ Stops
    BY <1>1, <1>2, <1>13 DEF Tidied, Follows, Shape, Ends, Verdicts, Steps, Ops
  <2> QED BY <2>1, <2>2
<1>14. CASE BackupDropped(s)
  <2>1. Going(s)
    BY <1>14 DEF BackupDropped, Going
  <2>2. Sends \/ Stops
    BY <1>1, <1>2, <1>14 DEF BackupDropped, Follows, Shape, Ends, Verdicts, Steps, Ops
  <2> QED BY <2>1, <2>2
<1> QED BY <1>3, <1>4, <1>5, <1>6, <1>7, <1>8, <1>9, <1>10, <1>11, <1>12, <1>13, <1>14 DEF Advance

\* The next request of a sweep: the next batch, or the removal of something it has found.
LEMMA Sweeps ==
  ASSUME Typed, NEW c \in Sessions, SweepListed(c) \/ SweepNext(c)
  PROVE  /\ UNCHANGED <<caps, swept, fs, home, verdict>> /\ swept
         /\ found' \in [Sessions -> SUBSET Artifacts]
         /\ \/ \E q \in Requests : /\ q.who = c /\ q.op \in {"list", "remove"}
                                   /\ q.op = "remove" => q.from \in Artifacts
                                   /\ Send(c, c, q.step, q.op, q.from, q.to)
            \/ /\ UNCHANGED wire
               /\ \E step \in Steps, o \in {"none", "ok"} :
                    pc' = [pc EXCEPT ![c] = step] /\ outcome' = [outcome EXCEPT ![c] = o]
<1>0. /\ UNCHANGED <<caps, swept, fs, home, verdict>> /\ swept /\ c \in Actors
      /\ found \in [Sessions -> SUBSET Artifacts] /\ Artifacts \subseteq Names
  BY NamesApart DEF SweepListed, SweepNext, SweepTo, Send, Typed, Actors
<1> DEFINE Sends == \E q \in Requests : /\ q.who = c /\ q.op \in {"list", "remove"}
                                        /\ q.op = "remove" => q.from \in Artifacts
                                        /\ Send(c, c, q.step, q.op, q.from, q.to)
           Goes == /\ UNCHANGED wire
                   /\ \E step \in Steps, o \in {"none", "ok"} :
                        pc' = [pc EXCEPT ![c] = step] /\ outcome' = [outcome EXCEPT ![c] = o]
<1>1. ASSUME NEW step \in Steps, NEW op \in {"list", "remove"}, NEW from \in Artifacts \cup {None},
             op = "remove" => from \in Artifacts, Send(c, c, step, op, from, None)
      PROVE  Sends
  <2> DEFINE q == [who |-> c, step |-> step, op |-> op, from |-> from, to |-> None]
  <2>1. /\ q \in Requests /\ q.who = c /\ q.op \in {"list", "remove"}
        /\ q.op = "remove" => q.from \in Artifacts
        /\ Send(c, c, q.step, q.op, q.from, q.to)
    BY <1>0, <1>1 DEF Requests, Ops
  <2> QED BY <2>1
<1>2. ASSUME NEW step \in Steps, NEW o \in {"none", "ok"}, SweepTo(c, step, o) PROVE Goes
  BY <1>2 DEF SweepTo
<1> HIDE DEF Sends, Goes
<1>3. found' \in [Sessions -> SUBSET Artifacts] /\ (Sends \/ Goes)
  <2>1. CASE SweepListed(c)
    <3>1. found' \in [Sessions -> SUBSET Artifacts]
      BY <1>0, <2>1 DEF SweepListed
    <3>2. Send(c, c, "list", "list", None, None) \/ SweepTo(c, "sweep", "ok") \/ SweepTo(c, "done", "none")
      BY <2>1 DEF SweepListed
    <3> QED BY <1>1, <1>2, <3>1, <3>2 DEF Steps
  <2>2. CASE SweepNext(c)
    <3>1. found' \in [Sessions -> SUBSET Artifacts]
      BY <1>0, <2>2 DEF SweepNext
    <3>2. (\E n \in found[c] : Send(c, c, "sweep", "remove", n, None)) \/ SweepTo(c, "done", "none")
      BY <2>2 DEF SweepNext
    <3>3. found[c] \subseteq Artifacts
      BY <1>0
    <3> QED BY <1>1, <1>2, <3>1, <3>2, <3>3 DEF Steps
  <2> QED BY <2>1, <2>2
<1> QED BY <1>0, <1>3 DEF Sends, Goes

\* What sending q does.
LEMMA Sending ==
  ASSUME Typed, NEW a \in Actors, NEW c \in Sessions, NEW q \in Requests, q.who = a,
         Send(a, c, q.step, q.op, q.from, q.to)
  PROVE  /\ pc' = [pc EXCEPT ![a] = q.step] /\ verdict' = verdict
         /\ \E o \in {"waiting", "lost"} : outcome' = [outcome EXCEPT ![a] = o]
         /\ wire' = wire \/ wire' = [wire EXCEPT ![c] = Append(wire[c], q)]
         /\ pc' \in [Actors -> Steps] /\ outcome' \in [Actors -> Outcomes]
         /\ wire' \in [Sessions -> Seq(Requests)]
<1>1. q = [who |-> a, step |-> q.step, op |-> q.op, from |-> q.from, to |-> q.to]
  BY DEF Requests
<1>2. wire' = wire \/ wire' = [wire EXCEPT ![c] = Append(wire[c], q)]
  BY <1>1 DEF Send
<1>3. /\ pc' = [pc EXCEPT ![a] = q.step] /\ verdict' = verdict
      /\ \E o \in {"waiting", "lost"} : outcome' = [outcome EXCEPT ![a] = o]
  BY DEF Send
<1>4. wire \in [Sessions -> Seq(Requests)] /\ Append(wire[c], q) \in Seq(Requests)
  BY DEF Typed
<1>5. wire' \in [Sessions -> Seq(Requests)]
  BY <1>2, <1>4
<1>6. pc' \in [Actors -> Steps] /\ outcome' \in [Actors -> Outcomes]
  BY <1>3 DEF Typed, Outcomes, Requests
<1> QED BY <1>2, <1>3, <1>5, <1>6

\* A save is in the session its requests go through.
LEMMA AtHome ==
  ASSUME Typed, NEW s \in Savers, Going(s)
  PROVE  home[s] \in Sessions /\ s \in Actors
  BY DEF Typed, Going, Actors

\* A new save takes a session, and opens its temporary file.
LEMMA Saves ==
  ASSUME Typed, NEW s \in Savers, Save(s)
  PROVE  /\ UNCHANGED <<caps, swept, fs, verdict, found>> /\ pc[s] = "idle" /\ s \in Actors
         /\ \E c \in Sessions, q \in Requests :
              /\ home' = [home EXCEPT ![s] = c] /\ q.who = s /\ q.step = "open" /\ Shape(q)
              /\ Send(s, c, q.step, q.op, q.from, q.to)
<1>1. PICK c \in Sessions : /\ home' = [home EXCEPT ![s] = c]
                            /\ Send(s, c, "open", "open", None, Temp[s])
  BY DEF Save
<1> DEFINE q == [who |-> s, step |-> "open", op |-> "open", from |-> None, to |-> Temp[s]]
<1>2. s \in Actors /\ Temp[s] \in Names
  BY NamesApart DEF Actors
<1>3. q \in Requests /\ q.who = s /\ q.step = "open" /\ Shape(q)
  BY <1>2 DEF Requests, Steps, Ops, Shape
<1>4. UNCHANGED <<caps, swept, fs, verdict, found>> /\ pc[s] = "idle"
  BY DEF Save, Send
<1> QED BY <1>1, <1>2, <1>3, <1>4

\* Every step keeps the types.
LEMMA StepTyped == IInv /\ [Next]_vars => Typed'
<1> SUFFICES ASSUME IInv, [Next]_vars PROVE Typed'
  OBVIOUS
<1>0. Typed
  BY DEF IInv
<1>1. ASSUME NEW c \in Sessions, Serve(c) PROVE Typed'
  <2> DEFINE q == wire[c][1]
  <2>1. /\ q \in Requests /\ (fs' = fs \/ Executes(q))
        /\ \/ outcome' = outcome
           \/ \E out \in {"ok", "missing", "refused"} : outcome' = [outcome EXCEPT ![q.who] = out]
    BY <1>1, Served
  <2> HIDE DEF q
  <2>2. fs' \in [Names -> Contents]
    <3>1. /\ fs \in [Names -> Contents] /\ Missing \in Contents
          /\ \A s \in Savers : Part(s) \in Contents /\ Whole(s) \in Contents
      BY <1>0 DEF Typed, Contents
    <3> QED BY <2>1, <3>1, NamesApart
          DEF Executes, Fills, Removes, Puts, SetsAside, PutsBack, Moved
  <2>3. outcome' \in [Actors -> Outcomes]
    BY <1>0, <2>1 DEF Typed, Outcomes
  <2>4. wire' \in [Sessions -> Seq(Requests)]
    <3>1. wire \in [Sessions -> Seq(Requests)] /\ wire' = [wire EXCEPT ![c] = Tail(wire[c])] /\ wire[c] # <<>>
      BY <1>0, <1>1 DEF Typed, Serve
    <3>2. Tail(wire[c]) \in Seq(Requests)
      BY <3>1
    <3> QED BY <3>1, <3>2
  <2>5. found' \in [Sessions -> SUBSET Artifacts]
    <3>1. \/ found' = found
          \/ \E batch \in SUBSET {n \in Names : IsArtifact(n) /\ fs[n] # Missing} :
               found' = [found EXCEPT ![c] = @ \cup batch]
      BY <1>1 DEF Serve
    <3> QED BY <1>0, <3>1 DEF Typed, IsArtifact
  <2>6. UNCHANGED <<swept, home, pc, verdict>>
    BY <1>1 DEF Serve
  <2> QED BY <1>0, <2>2, <2>3, <2>4, <2>5, <2>6 DEF Typed
<1>2. ASSUME NEW a \in Actors, GiveUp(a) PROVE Typed'
  <2>1. outcome' \in [Actors -> Outcomes]
    BY <1>0, <1>2 DEF GiveUp, Typed, Outcomes
  <2> QED BY <1>0, <1>2, <2>1 DEF GiveUp, Typed
<1>3. ASSUME NEW c \in Sessions, Drop(c) PROVE Typed'
  <2>1. outcome' \in [Actors -> Outcomes]
    BY <1>0, <1>3 DEF Drop, Typed, Outcomes
  <2>2. wire' \in [Sessions -> Seq(Requests)]
    <3>1. <<>> \in Seq(Requests)
      OBVIOUS
    <3> QED BY <1>0, <1>3, <3>1 DEF Drop, Typed
  <2> QED BY <1>0, <1>3, <2>1, <2>2 DEF Drop, Typed
<1>4. ASSUME NEW c \in Sessions, Connect(c) PROVE Typed'
  <2>0. c \in Actors /\ c \notin Savers
    BY ReplaceAssumption DEF Actors
  <2>1. outcome' \in [Actors -> Outcomes] /\ pc' \in [Actors -> Steps]
    BY <1>0, <1>4 DEF Connect, Typed, Outcomes, Steps
  <2>2. wire' \in [Sessions -> Seq(Requests)]
    <3> DEFINE q == [who |-> c, step |-> "opendir", op |-> "sync", from |-> None, to |-> None]
    <3>1. q \in Requests
      BY <2>0 DEF Requests, Steps, Ops
    <3>2. <<q>> \in Seq(Requests)
      BY <3>1
    <3> QED BY <1>0, <1>4, <3>2 DEF Connect, Typed
  <2>3. \A s \in Savers : pc'[s] = pc[s]
    BY <1>0, <1>4, <2>0 DEF Connect, Typed, Actors
  <2>4. UNCHANGED <<swept, fs, home, verdict, found>> /\ (~swept => pc' = pc)
    BY <1>4 DEF Connect
  <2> QED BY <1>0, <2>1, <2>2, <2>3, <2>4 DEF Typed
<1>5. ASSUME NEW c \in Sessions, SweepListed(c) \/ SweepNext(c) PROVE Typed'
  <2>0. c \in Actors /\ c \notin Savers
    BY ReplaceAssumption DEF Actors
  <2>1. /\ UNCHANGED <<swept, fs, home, verdict>> /\ swept
        /\ found' \in [Sessions -> SUBSET Artifacts]
    BY <1>0, <1>5, Sweeps
  <2>2. /\ wire' \in [Sessions -> Seq(Requests)] /\ outcome' \in [Actors -> Outcomes]
        /\ pc' \in [Actors -> Steps] /\ \A s \in Savers : pc'[s] = pc[s]
    <3>1. CASE \E q \in Requests : q.who = c /\ Send(c, c, q.step, q.op, q.from, q.to)
      BY <1>0, <2>0, <3>1, Sending DEF Typed, Actors
    <3>2. CASE UNCHANGED wire /\ \E step \in Steps, o \in {"none", "ok"} :
                 pc' = [pc EXCEPT ![c] = step] /\ outcome' = [outcome EXCEPT ![c] = o]
      BY <1>0, <2>0, <3>2 DEF Typed, Actors, Outcomes
    <3> QED BY <1>0, <1>5, <3>1, <3>2, Sweeps
  <2> QED BY <1>0, <2>1, <2>2 DEF Typed
<1>6. ASSUME NEW s \in Savers, Save(s) PROVE Typed'
  <2>1. /\ UNCHANGED <<caps, swept, fs, verdict, found>> /\ s \in Actors
        /\ \E c \in Sessions, q \in Requests :
             /\ home' = [home EXCEPT ![s] = c] /\ q.who = s
             /\ Send(s, c, q.step, q.op, q.from, q.to)
    BY <1>0, <1>6, Saves
  <2>2. PICK c \in Sessions, q \in Requests :
             /\ home' = [home EXCEPT ![s] = c] /\ q.who = s
             /\ Send(s, c, q.step, q.op, q.from, q.to)
    BY <2>1
  <2>3. /\ wire' \in [Sessions -> Seq(Requests)] /\ outcome' \in [Actors -> Outcomes]
        /\ pc' \in [Actors -> Steps] /\ pc' = [pc EXCEPT ![s] = q.step]
    BY <1>0, <2>1, <2>2, Sending
  <2>4. /\ home' \in [Savers -> Sessions \cup {None}] /\ home'[s] \in Sessions
        /\ \A t \in Savers : t # s => home'[t] = home[t] /\ pc'[t] = pc[t]
        /\ \A d \in Sessions : pc'[d] = pc[d]
    BY <1>0, <2>2, <2>3, ReplaceAssumption DEF Typed, Actors
  <2>5. /\ \A t \in Savers : pc'[t] # "idle" => home'[t] \in Sessions
        /\ \A d \in Sessions : ~swept' => pc'[d] = "idle"
    BY <1>0, <2>1, <2>4 DEF Typed
  <2> QED BY <1>0, <2>1, <2>3, <2>4, <2>5 DEF Typed
<1>7. ASSUME NEW s \in Savers, Advance(s) PROVE Typed'
  <2>1. UNCHANGED <<caps, swept, fs, session, home, found>> /\ Going(s)
    BY <1>7, Advances
  <2>2. home[s] \in Sessions /\ s \in Actors /\ s \notin Sessions
    BY <1>0, <2>1, AtHome, ReplaceAssumption
  <2>3. /\ wire' \in [Sessions -> Seq(Requests)] /\ outcome' \in [Actors -> Outcomes]
        /\ verdict' \in [Savers -> Verdicts]
        /\ pc' \in [Actors -> Steps] /\ \E step \in Steps : pc' = [pc EXCEPT ![s] = step]
    <3>1. CASE \E v \in Verdicts : End(s, v)
      BY <1>0, <2>2, <3>1 DEF End, Typed, Steps, Outcomes
    <3>2. CASE \E q \in Requests : q.who = s /\ Send(s, home[s], q.step, q.op, q.from, q.to)
      <4>1. PICK q \in Requests : q.who = s /\ Send(s, home[s], q.step, q.op, q.from, q.to)
        BY <3>2
      <4>2. /\ wire' \in [Sessions -> Seq(Requests)] /\ outcome' \in [Actors -> Outcomes]
            /\ verdict' = verdict
            /\ pc' \in [Actors -> Steps] /\ pc' = [pc EXCEPT ![s] = q.step]
        BY <1>0, <2>2, <4>1, Sending
      <4>3. q.step \in Steps /\ verdict \in [Savers -> Verdicts]
        BY <1>0 DEF Typed, Requests
      <4> QED BY <4>2, <4>3
    <3> QED BY <1>7, <3>1, <3>2, Advances
  <2> QED BY <1>0, <2>1, <2>2, <2>3 DEF Typed
<1>8. CASE UNCHANGED vars
  BY <1>0, <1>8 DEF vars, Typed
<1> QED BY <1>1, <1>2, <1>3, <1>4, <1>5, <1>6, <1>7, <1>8 DEF Next

-----------------------------------------------------------------------------
\* A request on the wire of a session.
On(r, d) == \E i \in 1..Len(wire[d]) : wire[d][i] = r
Fine(r, d) == OfSave(r, d) \/ OfSweep(r, d)

\* Every request on a wire is fine; one of a save is on the wire of its session.
LEMMA Fines ==
  ASSUME IInv, NEW d \in Sessions, NEW r, On(r, d)
  PROVE  /\ r \in Requests /\ Fine(r, d)
         /\ r.who \in Savers => OfSave(r, d)
         /\ r.who \notin Savers => OfSweep(r, d)
<1>1. PICK i \in 1..Len(wire[d]) : wire[d][i] = r
  BY DEF On
<1>2. wire[d] \in Seq(Requests) /\ Fine(r, d)
  BY <1>1 DEF IInv, Typed, Wires, Fine
<1> QED BY <1>1, <1>2, ReplaceAssumption DEF Fine, OfSave, OfSweep

\* If what is on the wires stays fine, and what is sent is fine and apart from the rest, then
\* the wires are as they should be.
LEMMA SentWires ==
  ASSUME IInv, NEW c \in Sessions, NEW q \in Requests,
         wire' = wire \/ wire' = [wire EXCEPT ![c] = Append(wire[c], q)],
         Fine(q, c)',
         \A d \in Sessions : \A r \in Requests : On(r, d) => Fine(r, d)',
         \A r \in Requests : On(r, c) => Apart(q, r)
  PROVE  Wires'
<1>1. wire \in [Sessions -> Seq(Requests)]
  BY DEF IInv, Typed
<1>2. \A d \in Sessions : \A i \in 1..Len(wire[d]) : wire[d][i] \in Requests /\ On(wire[d][i], d)
  BY <1>1 DEF On
<1>3. \A d \in Sessions : \A i, j \in 1..Len(wire[d]) : i # j => Apart(wire[d][i], wire[d][j])
  BY DEF IInv, Wires
<1>4. SUFFICES ASSUME NEW d \in Sessions, NEW i \in 1..Len(wire'[d])
      PROVE  /\ \E r \in Requests : wire'[d][i] = r /\ Fine(r, d)'
             /\ \A j \in 1..Len(wire'[d]) : i # j => Apart(wire'[d][i], wire'[d][j])
  BY DEF Wires, Fine, Apart, OfSave, OfSweep, Shape, Timely
<1>5. CASE wire'[d] = wire[d]
  BY <1>2, <1>3, <1>4, <1>5
<1>6. CASE wire'[d] # wire[d]
  <2>1. d = c /\ wire'[c] = Append(wire[c], q) /\ wire[c] \in Seq(Requests)
    BY <1>1, <1>6
  <2> DEFINE n == Len(wire[c])
  <2>2. /\ n \in Nat /\ Len(wire'[c]) = n + 1 /\ wire'[c][n + 1] = q
        /\ \A k \in 1..n : wire'[c][k] = wire[c][k]
    BY <2>1
  <2>3. \A r \in Requests : Apart(q, r) <=> Apart(r, q)
    BY DEF Apart
  <2>4. \A k \in 1..n : Apart(q, wire[c][k]) /\ Apart(wire[c][k], q)
    BY <1>2, <2>1, <2>3
  <2>5. i = n + 1 \/ i \in 1..n
    BY <2>1, <2>2
  <2>6. \E r \in Requests : wire'[d][i] = r /\ Fine(r, d)'
    <3>1. CASE i = n + 1
      BY <2>1, <2>2, <3>1
    <3>2. CASE i \in 1..n
      BY <1>2, <2>1, <2>2, <3>2
    <3> QED BY <2>5, <3>1, <3>2
  <2>7. ASSUME NEW j \in 1..Len(wire'[d]), i # j PROVE Apart(wire'[d][i], wire'[d][j])
    <3>1. j = n + 1 \/ j \in 1..n
      BY <2>1, <2>2
    <3> HIDE DEF n
    <3> QED BY <1>3, <2>1, <2>2, <2>4, <2>5, <2>7, <3>1
  <2> QED BY <2>6, <2>7
<1> QED BY <1>5, <1>6

\* A save goes on only when its last request was answered or given up on: what it sends next
\* may follow whatever of its requests is still on the wire.
LEMMA Overtaking ==
  ASSUME NEW s \in Savers, NEW old \in Steps, NEW step \in Steps,
         pc[s] \in Later(old), old \notin {"idle", "done"},
         pc[s] = old => outcome[s] \in {"waiting", "lost"},
         Going(s), Follows(s, step)
  PROVE  /\ step \in Later(old) /\ step # old
         /\ {old, step} \cap {"open", "write"} = {} \/ {old, step} \cap {"swap", "place"} = {}
<1>1. CASE pc[s] = old
  <2>1. outcome[s] = "lost"
    BY <1>1 DEF Going
  <2> QED BY <1>1, <2>1 DEF Later, Follows
<1>2. CASE pc[s] # old
  BY <1>2 DEF Later, Follows
<1> QED BY <1>1, <1>2

\* The same of a step that sends nothing.
LEMMA KeptWires ==
  ASSUME IInv,
         \A d \in Sessions : \/ wire'[d] = wire[d] \/ wire'[d] = <<>>
                             \/ wire[d] # <<>> /\ wire'[d] = Tail(wire[d]),
         \A d \in Sessions : \A r \in Requests : On(r, d)' => Fine(r, d)'
  PROVE  Wires'
<1>1. SUFFICES ASSUME NEW d \in Sessions, NEW i \in 1..Len(wire'[d])
      PROVE  /\ \E r \in Requests : wire'[d][i] = r /\ Fine(r, d)'
             /\ \A j \in 1..Len(wire'[d]) : i # j => Apart(wire'[d][i], wire'[d][j])
  BY DEF Wires, Fine, Apart, OfSave, OfSweep, Shape, Timely
<1>2. wire[d] \in Seq(Requests)
  BY DEF IInv, Typed
<1>3. \A k, l \in 1..Len(wire[d]) : k # l => Apart(wire[d][k], wire[d][l])
  BY DEF IInv, Wires
<1>4. wire'[d] \in Seq(Requests) /\ \A j \in 1..Len(wire'[d]) : i # j => Apart(wire'[d][i], wire'[d][j])
  <2>1. CASE wire'[d] = wire[d]
    BY <1>2, <1>3, <2>1
  <2>2. CASE wire'[d] = <<>>
    BY <2>2
  <2>3. CASE wire[d] # <<>> /\ wire'[d] = Tail(wire[d])
    <3>1. /\ Tail(wire[d]) \in Seq(Requests) /\ Len(wire'[d]) = Len(wire[d]) - 1
          /\ \A k \in 1..Len(wire'[d]) : wire'[d][k] = wire[d][k + 1] /\ k + 1 \in 1..Len(wire[d])
      BY <1>2, <2>3
    <3>2. Len(wire[d]) \in Nat /\ \A k \in 1..Len(wire'[d]) : k \in Int
      BY <1>2
    <3>3. ASSUME NEW j \in 1..Len(wire'[d]), i # j PROVE Apart(wire'[d][i], wire'[d][j])
      <4>1. i + 1 # j + 1
        BY <3>2, <3>3
      <4> QED BY <1>3, <3>1, <4>1
    <3> QED BY <2>3, <3>1, <3>3
  <2> QED BY <2>1, <2>2, <2>3
<1>5. \E r \in Requests : wire'[d][i] = r /\ Fine(r, d)'
  <2>1. wire'[d][i] \in Requests
    BY <1>4
  <2>2. \A r \in Requests : r = wire'[d][i] => On(r, d)'
    BY DEF On
  <2> QED BY <2>1, <2>2
<1> QED BY <1>4, <1>5

\* What the execution of the first request does to the others.
LEMMA ServedWires == ASSUME IInv, NEW c \in Sessions, Serve(c) PROVE Wires'
<1> DEFINE q == wire[c][1]
<1>1. /\ 1 \in 1..Len(wire[c]) /\ q \in Requests /\ Fine(q, c)
      /\ \/ outcome' = outcome
         \/ /\ pc[q.who] = q.step
            /\ \E out \in {"ok", "missing", "refused"} : outcome' = [outcome EXCEPT ![q.who] = out]
  BY Served DEF Fine
<1>2. /\ wire[c] \in Seq(Requests) /\ wire[c] # <<>> /\ wire' = [wire EXCEPT ![c] = Tail(wire[c])]
      /\ wire \in [Sessions -> Seq(Requests)] /\ outcome \in [Actors -> Outcomes]
      /\ UNCHANGED <<caps, swept, home, pc, verdict>>
  BY DEF IInv, Typed, Serve
<1>3. \A d \in Sessions : \/ wire'[d] = wire[d]
                          \/ wire[d] # <<>> /\ wire'[d] = Tail(wire[d])
  BY <1>2
<1>4. ASSUME NEW d \in Sessions, NEW r \in Requests, On(r, d)'
      PROVE  Fine(r, d)'
  <2>1. PICK i \in 1..Len(wire'[d]) : wire'[d][i] = r
    BY <1>4 DEF On
  <2>2. CASE d = c
    <3>1. /\ Len(wire'[c]) = Len(wire[c]) - 1 /\ Len(wire[c]) \in Nat
          /\ wire'[c][i] = wire[c][i + 1] /\ i + 1 \in 1..Len(wire[c]) /\ i + 1 # 1
      BY <1>2, <2>1, <2>2
    <3>2. On(r, c)
      BY <2>1, <2>2, <3>1 DEF On
    <3>3. Apart(q, r)
      <4>1. Apart(wire[c][1], wire[c][i + 1])
        BY <1>1, <3>1 DEF IInv, Wires
      <4> QED BY <2>1, <2>2, <3>1, <4>1
    <3> HIDE DEF q
    <3>4. r.who = q.who /\ r.who \in Savers => r.step # q.step
      BY <3>3 DEF Apart
    <3>5. CASE r.who \in Savers
      <4>1. OfSave(r, c)
        BY <3>2, <3>5, Fines
      <4>2. pc[r.who] = r.step => outcome'[r.who] = outcome[r.who]
        BY <1>1, <1>2, <3>4, <3>5 DEF Actors
      <4> QED BY <1>2, <2>2, <4>1, <4>2 DEF Fine, OfSave, Timely, Shape
    <3>6. CASE r.who \notin Savers
      <4>1. OfSweep(r, c)
        BY <3>2, <3>6, Fines
      <4> QED BY <1>2, <2>2, <4>1 DEF Fine, OfSweep
    <3> QED BY <3>5, <3>6
  <2>3. CASE d # c
    <3>1. On(r, d) /\ On(q, c)
      BY <1>1, <1>2, <2>1, <2>3 DEF On
    <3> HIDE DEF q
    <3>2. CASE r.who \in Savers
      <4>1. OfSave(r, d) /\ (q.who \in Savers => home[q.who] = c)
        BY <3>1, <3>2, Fines DEF OfSave
      <4>2. r.who # q.who
        BY <2>3, <3>2, <4>1 DEF OfSave
      <4>3. outcome'[r.who] = outcome[r.who]
        BY <1>1, <1>2, <3>2, <4>2 DEF Actors
      <4> QED BY <1>2, <4>1, <4>3 DEF Fine, OfSave, Timely, Shape
    <3>3. CASE r.who \notin Savers
      <4>1. OfSweep(r, d)
        BY <3>1, <3>3, Fines
      <4> QED BY <1>2, <4>1 DEF Fine, OfSweep
    <3> QED BY <3>2, <3>3
  <2> QED BY <2>2, <2>3
<1> QED BY <1>3, <1>4, KeptWires

\* Every step keeps the requests on the wires in their order: what is sent is apart from what is
\* still on its way, and what is on its way stays timely.
LEMMA StepWires == IInv /\ [Next]_vars => Wires'
<1> SUFFICES ASSUME IInv, [Next]_vars PROVE Wires'
  OBVIOUS
<1>0. Typed /\ Savers \cap Sessions = {}
  BY ReplaceAssumption DEF IInv
<1>1. ASSUME NEW c \in Sessions, Serve(c) PROVE Wires'
  BY <1>1, ServedWires
<1>2. ASSUME NEW a \in Actors, GiveUp(a) PROVE Wires'
  <2>1. UNCHANGED <<caps, swept, wire, home, pc, verdict>>
    BY <1>2 DEF GiveUp
  <2>2. \A s \in Savers : outcome'[s] = outcome[s] \/ outcome'[s] = "lost"
    BY <1>0, <1>2 DEF GiveUp, Typed, Actors
  <2>3. ASSUME NEW d \in Sessions, NEW r \in Requests, On(r, d)' PROVE Fine(r, d)'
    <3>1. Fine(r, d)
      BY <2>1, <2>3, Fines DEF On
    <3> QED BY <2>1, <2>2, <3>1 DEF Fine, OfSave, OfSweep, Timely, Shape
  <2> QED BY <2>1, <2>3, KeptWires
<1>3. ASSUME NEW c \in Sessions, Drop(c) PROVE Wires'
  <2>1. UNCHANGED <<caps, swept, home, pc, verdict>>
    BY <1>3 DEF Drop
  <2>2. \A s \in Savers : outcome'[s] = outcome[s] \/ outcome'[s] = "lost"
    BY <1>3 DEF Drop, Actors
  <2>3. \A d \in Sessions : wire'[d] = wire[d] \/ wire'[d] = <<>>
    BY <1>0, <1>3 DEF Drop, Typed
  <2>4. ASSUME NEW d \in Sessions, NEW r \in Requests, On(r, d)' PROVE Fine(r, d)'
    <3>1. wire'[d] = wire[d]
      BY <2>3, <2>4 DEF On
    <3>2. Fine(r, d)
      BY <2>4, <3>1, Fines DEF On
    <3> QED BY <2>1, <2>2, <3>2 DEF Fine, OfSave, OfSweep, Timely, Shape
  <2> QED BY <2>3, <2>4, KeptWires
<1>4. ASSUME NEW c \in Sessions, Connect(c) PROVE Wires'
  <2>1. /\ UNCHANGED <<caps, swept, home, verdict>>
        /\ \A s \in Savers : pc'[s] = pc[s] /\ outcome'[s] = outcome[s]
    BY <1>0, <1>4 DEF Connect, Typed, Actors
  <2>2. ASSUME NEW d \in Sessions, NEW r \in Requests, Fine(r, d) PROVE Fine(r, d)'
    BY <2>1, <2>2 DEF Fine, OfSave, OfSweep, Timely, Shape
  <2>3. CASE wire' = wire
    <3>1. \A d \in Sessions : \A r \in Requests : On(r, d)' => Fine(r, d)'
      BY <2>2, <2>3, Fines DEF On
    <3> QED BY <2>3, <3>1, KeptWires
  <2>4. CASE wire' # wire
    <3> DEFINE q == [who |-> c, step |-> "opendir", op |-> "sync", from |-> None, to |-> None]
    <3>1. swept /\ wire' = [wire EXCEPT ![c] = <<q>>] /\ q \in Requests /\ OfSweep(q, c)'
      BY <1>4, <2>1, <2>4 DEF Connect, OfSweep, Requests, Steps, Ops, Actors
    <3>2. wire \in [Sessions -> Seq(Requests)] /\ c \notin Savers
      BY <1>0 DEF Typed
    <3> SUFFICES ASSUME NEW d \in Sessions, NEW i \in 1..Len(wire'[d])
        PROVE  /\ \E r \in Requests : wire'[d][i] = r /\ Fine(r, d)'
               /\ \A j \in 1..Len(wire'[d]) : i # j => Apart(wire'[d][i], wire'[d][j])
      BY DEF Wires, Fine, Apart, OfSave, OfSweep, Shape, Timely
    <3>3. CASE d = c
      <4>1. wire'[d] = <<q>> /\ i = 1 /\ wire'[d][i] = q /\ \A j \in 1..Len(wire'[d]) : j = 1
        BY <3>1, <3>2, <3>3
      <4> QED BY <3>1, <3>3, <4>1 DEF Fine
    <3>4. CASE d # c
      <4>1. wire'[d] = wire[d] /\ wire[d] \in Seq(Requests)
        BY <3>1, <3>2, <3>4
      <4>2. wire[d][i] \in Requests /\ On(wire[d][i], d)
        BY <4>1 DEF On
      <4>3. \A r \in Requests : r = wire[d][i] => Fine(r, d)'
        BY <2>2, <4>2, Fines
      <4>4. \A j \in 1..Len(wire[d]) : i # j => Apart(wire[d][i], wire[d][j])
        BY <4>1 DEF IInv, Wires
      <4> QED BY <4>1, <4>2, <4>3, <4>4
    <3> QED BY <3>3, <3>4
  <2> QED BY <2>3, <2>4
<1>5. ASSUME NEW c \in Sessions, SweepListed(c) \/ SweepNext(c) PROVE Wires'
  <2>1. /\ UNCHANGED <<caps, swept, fs, home, verdict>> /\ swept /\ c \in Actors /\ c \notin Savers
        /\ \/ \E q \in Requests : /\ q.who = c /\ q.op \in {"list", "remove"}
                                  /\ q.op = "remove" => q.from \in Artifacts
                                  /\ Send(c, c, q.step, q.op, q.from, q.to)
           \/ /\ UNCHANGED wire
              /\ \E step \in Steps, o \in {"none", "ok"} :
                   pc' = [pc EXCEPT ![c] = step] /\ outcome' = [outcome EXCEPT ![c] = o]
    BY <1>0, <1>5, Sweeps DEF Actors
  <2>2. ASSUME \A s \in Savers : pc'[s] = pc[s] /\ outcome'[s] = outcome[s],
               NEW d \in Sessions, NEW r \in Requests, On(r, d)
        PROVE  Fine(r, d)'
    <3>1. Fine(r, d)
      BY <2>2, Fines
    <3> QED BY <2>1, <2>2, <3>1 DEF Fine, OfSave, OfSweep, Timely, Shape
  <2>3. ASSUME NEW q \in Requests, q.who = c, q.op \in {"list", "remove"},
               q.op = "remove" => q.from \in Artifacts, Send(c, c, q.step, q.op, q.from, q.to)
        PROVE  Wires'
    <3>1. /\ wire' = wire \/ wire' = [wire EXCEPT ![c] = Append(wire[c], q)]
          /\ pc' = [pc EXCEPT ![c] = q.step]
          /\ \E o \in {"waiting", "lost"} : outcome' = [outcome EXCEPT ![c] = o]
      BY <1>0, <2>1, <2>3, Sending
    <3>2. \A s \in Savers : pc'[s] = pc[s] /\ outcome'[s] = outcome[s]
      BY <1>0, <2>1, <3>1 DEF Typed, Actors
    <3>3. Fine(q, c)' /\ \A r \in Requests : Apart(q, r)
      BY <2>1, <2>3 DEF Fine, OfSweep, Apart
    <3> QED BY <2>2, <3>1, <3>2, <3>3, SentWires
  <2>4. ASSUME UNCHANGED wire, NEW step \in Steps, NEW o \in {"none", "ok"},
               pc' = [pc EXCEPT ![c] = step], outcome' = [outcome EXCEPT ![c] = o]
        PROVE  Wires'
    <3>1. \A s \in Savers : pc'[s] = pc[s] /\ outcome'[s] = outcome[s]
      BY <1>0, <2>1, <2>4 DEF Typed, Actors
    <3>2. \A d \in Sessions : \A r \in Requests : On(r, d)' => Fine(r, d)'
      BY <2>2, <2>4, <3>1 DEF On
    <3> QED BY <2>4, <3>2, KeptWires
  <2> QED BY <2>1, <2>3, <2>4
<1>6. ASSUME NEW s \in Savers, Save(s) PROVE Wires'
  <2>1. /\ UNCHANGED <<caps, swept, fs, verdict, found>> /\ pc[s] = "idle" /\ s \in Actors
        /\ \E c \in Sessions, q \in Requests :
             /\ home' = [home EXCEPT ![s] = c] /\ q.who = s /\ q.step = "open" /\ Shape(q)
             /\ Send(s, c, q.step, q.op, q.from, q.to)
    BY <1>0, <1>6, Saves
  <2>2. PICK c \in Sessions, q \in Requests :
             /\ home' = [home EXCEPT ![s] = c] /\ q.who = s /\ q.step = "open" /\ Shape(q)
             /\ Send(s, c, q.step, q.op, q.from, q.to)
    BY <2>1
  <2>3. /\ wire' = wire \/ wire' = [wire EXCEPT ![c] = Append(wire[c], q)]
        /\ pc' = [pc EXCEPT ![s] = "open"]
        /\ \E o \in {"waiting", "lost"} : outcome' = [outcome EXCEPT ![s] = o]
    BY <1>0, <2>1, <2>2, Sending
  <2>4. /\ home'[s] = c /\ pc'[s] = "open" /\ outcome'[s] \in {"waiting", "lost"}
        /\ \A t \in Savers : t # s => /\ home'[t] = home[t] /\ pc'[t] = pc[t]
                                      /\ outcome'[t] = outcome[t]
    BY <1>0, <2>1, <2>2, <2>3 DEF Typed, Actors
  <2>5. ASSUME NEW d \in Sessions, NEW r \in Requests, On(r, d)
        PROVE  r.who # s /\ Fine(r, d)'
    <3>1. Fine(r, d)
      BY <2>5, Fines
    <3>2. r.who # s
      <4>1. r.who = s => OfSave(r, d)
        BY <2>5, Fines
      <4> QED BY <2>1, <4>1 DEF OfSave, Shape, Timely, Later
    <3> QED BY <2>1, <2>4, <3>1, <3>2 DEF Fine, OfSave, OfSweep, Timely, Shape
  <2>6. Fine(q, c)'
    BY <2>1, <2>2, <2>4 DEF Fine, OfSave, Timely, Later, Shape
  <2>7. \A r \in Requests : On(r, c) => Apart(q, r)
    BY <2>2, <2>5 DEF Apart
  <2> QED BY <2>3, <2>5, <2>6, <2>7, SentWires
<1>7. ASSUME NEW s \in Savers, Advance(s) PROVE Wires'
  <2>1. UNCHANGED <<caps, swept, home>> /\ Going(s)
    BY <1>7, Advances
  <2>2. home[s] \in Sessions /\ s \in Actors /\ s \notin Sessions
    BY <1>0, <2>1, AtHome
  <2>3. ASSUME NEW d \in Sessions, NEW r \in Requests, On(r, d), r.who = s
        PROVE  /\ home[s] = d /\ Shape(r) /\ pc[s] \in Later(r.step) /\ r.step \notin {"idle", "done"}
               /\ r.step \in Steps /\ (pc[s] = r.step => outcome[s] \in {"waiting", "lost"})
    <3>1. OfSave(r, d)
      BY <2>3, Fines
    <3> QED BY <2>1, <2>3, <3>1 DEF OfSave, Timely, Going, Shape, Requests
  <2>4. ASSUME \A t \in Savers : t # s => /\ pc'[t] = pc[t] /\ outcome'[t] = outcome[t]
                                          /\ verdict'[t] = verdict[t],
               NEW d \in Sessions, NEW r \in Requests, On(r, d), r.who # s
        PROVE  Fine(r, d)'
    <3>1. Fine(r, d)
      BY <2>4, Fines
    <3> QED BY <2>1, <2>4, <3>1 DEF Fine, OfSave, OfSweep, Timely, Shape
  <2>5. ASSUME NEW v \in Verdicts, End(s, v), Ends(s, v) PROVE Wires'
    <3>1. /\ UNCHANGED wire /\ pc'[s] = "done" /\ verdict'[s] = v
          /\ \A t \in Savers : t # s => /\ pc'[t] = pc[t] /\ outcome'[t] = outcome[t]
                                        /\ verdict'[t] = verdict[t]
      BY <1>0, <2>2, <2>5 DEF End, Typed, Actors
    <3>2. ASSUME NEW d \in Sessions, NEW r \in Requests, On(r, d), r.who = s PROVE Fine(r, d)'
      <4>1. /\ home[s] = d /\ Shape(r) /\ pc[s] \in Later(r.step) /\ r.step \notin {"idle", "done"}
            /\ pc[s] = r.step => outcome[s] \in {"waiting", "lost"}
        BY <2>3, <3>2
      <4>2. v = "saved" <=> r.step = "unback"
        BY <2>1, <2>5, <4>1 DEF Ends, Later, Going
      <4> QED BY <2>1, <3>1, <3>2, <4>1, <4>2 DEF Fine, OfSave, Timely, Shape
    <3>3. \A d \in Sessions : \A r \in Requests : On(r, d)' => Fine(r, d)'
      BY <2>4, <3>1, <3>2 DEF On
    <3> QED BY <3>1, <3>3, KeptWires
  <2>6. ASSUME NEW q \in Requests, q.who = s, Shape(q), Follows(s, q.step),
               Send(s, home[s], q.step, q.op, q.from, q.to)
        PROVE  Wires'
    <3>0. PICK c \in Sessions : c = home[s]
      BY <2>2
    <3>1. /\ wire' = wire \/ wire' = [wire EXCEPT ![c] = Append(wire[c], q)]
          /\ pc' = [pc EXCEPT ![s] = q.step] /\ verdict' = verdict
          /\ \E o \in {"waiting", "lost"} : outcome' = [outcome EXCEPT ![s] = o]
      BY <1>0, <2>2, <2>6, <3>0, Sending
    <3>2. /\ pc'[s] = q.step /\ outcome'[s] \in {"waiting", "lost"} /\ q.step \in Steps
          /\ \A t \in Savers : t # s => /\ pc'[t] = pc[t] /\ outcome'[t] = outcome[t]
                                        /\ verdict'[t] = verdict[t]
      BY <1>0, <2>2, <3>1 DEF Typed, Actors, Requests
    <3>3. ASSUME NEW d \in Sessions, NEW r \in Requests, On(r, d), r.who = s
          PROVE  Fine(r, d)' /\ Apart(q, r)
      <4>1. /\ home[s] = d /\ Shape(r) /\ pc[s] \in Later(r.step) /\ r.step \notin {"idle", "done"}
            /\ r.step \in Steps /\ (pc[s] = r.step => outcome[s] \in {"waiting", "lost"})
        BY <2>3, <3>3
      <4>2. /\ q.step \in Later(r.step) /\ q.step # r.step
            /\ \/ {r.step, q.step} \cap {"open", "write"} = {}
               \/ {r.step, q.step} \cap {"swap", "place"} = {}
        BY <2>1, <2>6, <3>2, <4>1, Overtaking
      <4>3. Apart(q, r)
        BY <4>2 DEF Apart
      <4>4. Fine(r, d)'
        BY <2>1, <3>2, <3>3, <4>1, <4>2 DEF Fine, OfSave, Timely, Shape
      <4> QED BY <4>3, <4>4
    <3>4. Fine(q, c)'
      <4>1. q.step \in Later(q.step)
        BY <2>6 DEF Shape, Later
      <4> QED BY <2>1, <2>6, <3>0, <3>2, <4>1 DEF Fine, OfSave, Timely, Shape
    <3>5. \A r \in Requests : On(r, c) => Apart(q, r)
      <4>1. \A r \in Requests : r.who # s => Apart(q, r)
        BY <2>6 DEF Apart
      <4> QED BY <3>3, <4>1
    <3>6. \A d \in Sessions : \A r \in Requests : On(r, d) => Fine(r, d)'
      BY <2>4, <3>2, <3>3
    <3> QED BY <3>1, <3>4, <3>5, <3>6, SentWires
  <2> QED BY <1>7, <2>5, <2>6, Advances
<1>8. CASE UNCHANGED vars
  <2>1. UNCHANGED <<caps, swept, wire, home, pc, outcome, verdict>>
    BY <1>8 DEF vars
  <2> QED BY <2>1 DEF IInv, Wires, OfSave, OfSweep, Timely, Shape, Apart
<1> QED BY <1>1, <1>2, <1>3, <1>4, <1>5, <1>6, <1>7, <1>8 DEF Next

-----------------------------------------------------------------------------
\* What is on the wires after a request was sent.
LEMMA Sent ==
  ASSUME Typed, NEW c \in Sessions, NEW q \in Requests,
         wire' = wire \/ wire' = [wire EXCEPT ![c] = Append(wire[c], q)],
         NEW s, Moving(s)'
  PROVE  Moving(s) \/ (q.who = s /\ q.step \in {"swap", "place"})
<1>1. PICK d \in Sessions : \E i \in 1..Len(wire'[d]) :
               wire'[d][i].who = s /\ wire'[d][i].step \in {"swap", "place"}
  BY DEF Moving
<1>2. PICK i \in 1..Len(wire'[d]) : wire'[d][i].who = s /\ wire'[d][i].step \in {"swap", "place"}
  BY <1>1
<1>3. wire \in [Sessions -> Seq(Requests)]
  BY DEF Typed
<1>4. CASE wire'[d] = wire[d]
  BY <1>2, <1>4 DEF Moving
<1>5. CASE wire'[d] # wire[d]
  <2>1. d = c /\ wire[c] \in Seq(Requests) /\ wire'[d] = Append(wire[c], q)
    BY <1>3, <1>5
  <2>2. (i \in 1..Len(wire[c]) /\ wire'[d][i] = wire[c][i]) \/ wire'[d][i] = q
    BY <2>1
  <2> QED BY <1>2, <2>1, <2>2 DEF Moving
<1> QED BY <1>4, <1>5

\* What holds of a save before and after a step that is not the server's.
Calm(s) == /\ Filled(s)' => Filled(s)
           /\ InPlace(s)'
           /\ Released(s)' => Released(s) \/ fs[Target].whole

\* A step that is not the server's moves no file. A save whose temporary file must be filled has
\* had it filled before, none believes its file in place that is not, and one that releases its
\* backup has put a complete file in place.
LEMMA CalmSteps ==
  ASSUME IInv, [Next]_vars, ~(\E c \in Sessions : Serve(c))
  PROVE  UNCHANGED <<fs, swept>> /\ \A s \in Savers : Calm(s)
<1>0. Typed /\ Savers \cap Sessions = {} /\ \A s \in Savers : InPlace(s)
  BY ReplaceAssumption DEF IInv, Files
<1>1. ASSUME UNCHANGED <<fs, pc, verdict>>, \A s \in Savers : Moving(s)' => Moving(s),
             \A s \in Savers : outcome'[s] = outcome[s] \/ outcome'[s] = "lost"
      PROVE  \A s \in Savers : Calm(s)
  BY <1>0, <1>1 DEF Calm, Filled, InPlace, Released
<1>2. ASSUME NEW a \in Actors, GiveUp(a) PROVE UNCHANGED <<fs, swept>> /\ \A s \in Savers : Calm(s)
  <2>1. UNCHANGED <<fs, swept, wire, pc, verdict>>
    BY <1>2 DEF GiveUp
  <2>2. \A s \in Savers : outcome'[s] = outcome[s] \/ outcome'[s] = "lost"
    BY <1>0, <1>2 DEF GiveUp, Typed, Actors
  <2> QED BY <1>1, <2>1, <2>2 DEF Moving
<1>3. ASSUME NEW c \in Sessions, Drop(c) PROVE UNCHANGED <<fs, swept>> /\ \A s \in Savers : Calm(s)
  <2>1. UNCHANGED <<fs, swept, pc, verdict>>
    BY <1>3 DEF Drop
  <2>2. \A s \in Savers : outcome'[s] = outcome[s] \/ outcome'[s] = "lost"
    BY <1>3 DEF Drop, Actors
  <2>3. \A d \in Sessions : wire'[d] = wire[d] \/ wire'[d] = <<>>
    BY <1>0, <1>3 DEF Drop, Typed
  <2>4. \A s \in Savers : Moving(s)' => Moving(s)
    BY <2>3 DEF Moving
  <2> QED BY <1>1, <2>1, <2>2, <2>4
<1>4. ASSUME NEW c \in Sessions, Connect(c) PROVE UNCHANGED <<fs, swept>> /\ \A s \in Savers : Calm(s)
  <2>1. /\ UNCHANGED <<fs, swept, verdict>>
        /\ \A s \in Savers : pc'[s] = pc[s] /\ outcome'[s] = outcome[s]
    BY <1>0, <1>4 DEF Connect, Typed, Actors
  <2>2. ASSUME NEW s \in Savers, Moving(s)' PROVE Moving(s)
    <3> DEFINE q == [who |-> c, step |-> "opendir", op |-> "sync", from |-> None, to |-> None]
    <3>1. /\ wire \in [Sessions -> Seq(Requests)] /\ q.step \notin {"swap", "place"}
          /\ wire' = wire \/ wire' = [wire EXCEPT ![c] = <<q>>]
      BY <1>0, <1>4 DEF Connect, Typed
    <3> HIDE DEF q
    <3>2. PICK d \in Sessions : \E i \in 1..Len(wire'[d]) :
               wire'[d][i].who = s /\ wire'[d][i].step \in {"swap", "place"}
      BY <2>2 DEF Moving
    <3>3. wire'[d] = wire[d] \/ wire'[d] = <<q>>
      BY <3>1
    <3>4. wire'[d] # <<q>>
      BY <3>1, <3>2
    <3> QED BY <3>2, <3>3, <3>4 DEF Moving
  <2> QED BY <1>0, <2>1, <2>2 DEF Calm, Filled, InPlace, Released
<1>5. ASSUME NEW c \in Sessions, SweepListed(c) \/ SweepNext(c)
      PROVE  UNCHANGED <<fs, swept>> /\ \A s \in Savers : Calm(s)
  <2>1. UNCHANGED <<fs, swept, verdict>> /\ c \in Actors /\ c \notin Savers
    BY <1>0, <1>5, Sweeps DEF Actors
  <2>2. /\ \A s \in Savers : Moving(s)' => Moving(s)
        /\ \A s \in Savers : pc'[s] = pc[s] /\ outcome'[s] = outcome[s]
    <3>1. CASE \E q \in Requests : q.who = c /\ Send(c, c, q.step, q.op, q.from, q.to)
      <4>1. PICK q \in Requests : q.who = c /\ Send(c, c, q.step, q.op, q.from, q.to)
        BY <3>1
      <4>2. /\ wire' = wire \/ wire' = [wire EXCEPT ![c] = Append(wire[c], q)]
            /\ pc' = [pc EXCEPT ![c] = q.step]
            /\ \E o \in {"waiting", "lost"} : outcome' = [outcome EXCEPT ![c] = o]
        BY <1>0, <2>1, <4>1, Sending
      <4>3. \A s \in Savers : Moving(s)' => Moving(s)
        BY <1>0, <2>1, <4>1, <4>2, Sent
      <4> QED BY <1>0, <2>1, <4>2, <4>3 DEF Typed, Actors
    <3>2. CASE UNCHANGED wire /\ \E step \in Steps, o \in {"none", "ok"} :
                 pc' = [pc EXCEPT ![c] = step] /\ outcome' = [outcome EXCEPT ![c] = o]
      BY <1>0, <2>1, <3>2 DEF Typed, Actors, Moving
    <3> QED BY <1>0, <1>5, <3>1, <3>2, Sweeps
  <2> QED BY <1>0, <2>1, <2>2 DEF Calm, Filled, InPlace, Released
<1>6. ASSUME NEW s \in Savers, Save(s) PROVE UNCHANGED <<fs, swept>> /\ \A t \in Savers : Calm(t)
  <2>1. /\ UNCHANGED <<fs, swept, verdict>> /\ pc[s] = "idle" /\ s \in Actors
        /\ \E c \in Sessions, q \in Requests : /\ q.who = s /\ q.step = "open"
                                               /\ Send(s, c, q.step, q.op, q.from, q.to)
    BY <1>0, <1>6, Saves
  <2>2. PICK c \in Sessions, q \in Requests : /\ q.who = s /\ q.step = "open"
                                              /\ Send(s, c, q.step, q.op, q.from, q.to)
    BY <2>1
  <2>3. /\ wire' = wire \/ wire' = [wire EXCEPT ![c] = Append(wire[c], q)]
        /\ pc' = [pc EXCEPT ![s] = "open"]
        /\ \E o \in {"waiting", "lost"} : outcome' = [outcome EXCEPT ![s] = o]
    BY <1>0, <2>1, <2>2, Sending
  <2>4. \A t \in Savers : Moving(t)' => Moving(t)
    BY <1>0, <2>2, <2>3, Sent
  <2>5. /\ pc'[s] = "open"
        /\ \A t \in Savers : t # s => pc'[t] = pc[t] /\ outcome'[t] = outcome[t]
    BY <1>0, <2>1, <2>3 DEF Typed, Actors
  <2> QED BY <1>0, <2>1, <2>4, <2>5 DEF Calm, Filled, InPlace, Released
<1>7. ASSUME NEW s \in Savers, Advance(s) PROVE UNCHANGED <<fs, swept>> /\ \A t \in Savers : Calm(t)
  <2>1. UNCHANGED <<fs, swept>> /\ Going(s)
    BY <1>7, Advances
  <2>2. home[s] \in Sessions /\ s \in Actors
    BY <1>0, <2>1, AtHome
  <2>3. ASSUME NEW v \in Verdicts, End(s, v), Ends(s, v) PROVE \A t \in Savers : Calm(t)
    <3>1. /\ UNCHANGED wire /\ pc'[s] = "done" /\ verdict'[s] = v
          /\ \A t \in Savers : t # s => /\ pc'[t] = pc[t] /\ outcome'[t] = outcome[t]
                                        /\ verdict'[t] = verdict[t]
      BY <1>0, <2>2, <2>3 DEF End, Typed, Actors
    <3>2. v = "saved" => Released(s) \/ fs[Target].whole
      BY <1>0, <2>3 DEF Ends, InPlace, Released
    <3> QED BY <1>0, <2>1, <3>1, <3>2 DEF Calm, Filled, InPlace, Released, Moving
  <2>4. ASSUME NEW q \in Requests, q.who = s, Follows(s, q.step),
               Send(s, home[s], q.step, q.op, q.from, q.to)
        PROVE  \A t \in Savers : Calm(t)
    <3>0. PICK c \in Sessions : c = home[s]
      BY <2>2
    <3>1. /\ wire' = wire \/ wire' = [wire EXCEPT ![c] = Append(wire[c], q)]
          /\ pc' = [pc EXCEPT ![s] = q.step] /\ verdict' = verdict
          /\ \E o \in {"waiting", "lost"} : outcome' = [outcome EXCEPT ![s] = o]
      BY <1>0, <2>2, <2>4, <3>0, Sending
    <3>2. /\ pc'[s] = q.step /\ outcome'[s] \in {"waiting", "lost"}
          /\ \A t \in Savers : t # s => pc'[t] = pc[t] /\ outcome'[t] = outcome[t]
      BY <1>0, <2>2, <3>1 DEF Typed, Actors
    <3>3. \A t \in Savers : t # s /\ Moving(t)' => Moving(t)
      BY <1>0, <2>4, <3>1, Sent
    <3>4. \A t \in Savers : t # s => Calm(t)
      BY <1>0, <2>1, <3>1, <3>2, <3>3 DEF Calm, Filled, InPlace, Released
    <3>5. q.step \in {"fsync", "close", "swap", "aside", "place"} => Filled(s)
      BY <2>4 DEF Follows, Filled
    <3>6. Filled(s)' => Filled(s)
      BY <1>0, <2>4, <3>1, <3>2, <3>5, Sent DEF Filled
    <3>7. q.step = "unback" => fs[Target].whole
      BY <1>0, <2>4 DEF Follows, InPlace
    <3>8. Released(s)' => Released(s) \/ fs[Target].whole
      BY <2>1, <2>4, <3>1, <3>2, <3>7 DEF Released, Follows, Going
    <3> QED BY <3>2, <3>4, <3>6, <3>8 DEF Calm, InPlace
  <2> QED BY <1>7, <2>1, <2>3, <2>4, Advances
<1>8. CASE UNCHANGED vars
  <2>1. UNCHANGED <<fs, swept, wire, pc, outcome, verdict>>
    BY <1>8 DEF vars
  <2> QED BY <1>1, <2>1 DEF Moving
<1> QED BY <1>2, <1>3, <1>4, <1>5, <1>6, <1>7, <1>8 DEF Next

-----------------------------------------------------------------------------
\* What the server may do to the file, to the backups and to the temporary files.
LEMMA Executed ==
  ASSUME IInv, NEW c \in Sessions, NEW q \in Requests, On(q, c), Executes(q)
  PROVE  /\ fs[Target]' = Missing \/ fs[Target]'.whole
         /\ \A s \in Savers : fs[Back[s]]' = Missing \/ fs[Back[s]]'.whole
         /\ caps.posix /\ fs[Target].whole => fs[Target]'.whole
         /\ \A s \in Savers : Filled(s) => fs[Temp[s]]' = Missing \/ fs[Temp[s]]'.whole
<1>1. /\ fs \in [Names -> Contents] /\ Full(Target)
      /\ \A s \in Savers : Full(Back[s]) /\ (Filled(s) => Full(Temp[s]))
      /\ \A s \in Savers : Temp[s] \in Names /\ Back[s] \in Names
      /\ \A s \in Savers : Temp[s] # Target /\ Back[s] # Target /\ Target \in Names
  BY NamesApart DEF IInv, Typed, Files
<1>2. CASE Fills(q)
  <2>1. PICK x \in Contents : /\ fs' = [fs EXCEPT ![Temp[q.who]] = x]
                              /\ q.step = "write" => x.whole
    BY <1>2 DEF Fills, Contents
  <2>2. /\ q.who \in Savers /\ q.step \in {"open", "write"} /\ OfSave(q, c)
    BY <1>2, Fines DEF Fills
  <2>3. ASSUME Filled(q.who) PROVE q.step = "write"
    <3>1. CASE Moving(q.who)
      <4>1. PICK d \in Sessions : \E i \in 1..Len(wire[d]) :
               wire[d][i].who = q.who /\ wire[d][i].step \in {"swap", "place"}
        BY <3>1 DEF Moving
      <4>2. PICK i \in 1..Len(wire[d]) :
               wire[d][i].who = q.who /\ wire[d][i].step \in {"swap", "place"}
        BY <4>1
      <4>3. wire[d][i] \in Requests /\ OfSave(wire[d][i], d)
        BY <2>2, <4>2, Fines DEF On
      <4>4. d = c
        BY <2>2, <4>2, <4>3 DEF OfSave
      <4>5. PICK j \in 1..Len(wire[c]) : wire[c][j] = q
        BY DEF On
      <4>6. Apart(wire[c][i], q)
        BY <2>2, <4>2, <4>4, <4>5 DEF IInv, Wires
      <4> QED BY <2>2, <4>2, <4>4, <4>6 DEF Apart
    <3>2. CASE ~Moving(q.who)
      BY <2>2, <2>3, <3>2 DEF Filled, OfSave, Timely, Later
    <3> QED BY <3>1, <3>2
  <2>4. \A n \in Names : n # Temp[q.who] => fs'[n] = fs[n]
    BY <1>1, <2>1
  <2>5. fs'[Temp[q.who]] = x
    BY <1>1, <2>1, <2>2
  <2> QED BY <1>1, <2>1, <2>2, <2>3, <2>4, <2>5, NamesApart DEF Full
<1>3. CASE \E n \in Artifacts : Removes(q, n)
  BY <1>1, <1>3, NamesApart DEF Removes, Full
<1>4. CASE Puts(q)
  <2>1. q.who \in Savers /\ q.step \in {"swap", "place"} /\ Moving(q.who)
    BY <1>4 DEF Puts, Moved, On, Moving
  <2>2. fs[Temp[q.who]].whole
    BY <1>1, <1>4, <2>1 DEF Filled, Full, Puts, Moved
  <2> QED BY <1>1, <1>4, <2>1, <2>2, NamesApart DEF Puts, Moved, Full
<1>5. CASE SetsAside(q)
  BY <1>1, <1>5, NamesApart DEF SetsAside, Moved, Full
<1>6. CASE PutsBack(q)
  BY <1>1, <1>6, NamesApart DEF PutsBack, Moved, Full
<1> QED BY <1>2, <1>3, <1>4, <1>5, <1>6 DEF Executes

\* A step never leaves half a file, and where rename is atomic never takes one away.
LEMMA StepFiles ==
  IInv /\ [Next]_vars => Files' /\ (caps.posix /\ fs[Target].whole => fs[Target]'.whole)
<1> SUFFICES ASSUME IInv, [Next]_vars
    PROVE  Files' /\ (caps.posix /\ fs[Target].whole => fs[Target]'.whole)
  OBVIOUS
<1>0. Files /\ Typed
  BY DEF IInv
<1>1. ASSUME NEW c \in Sessions, Serve(c)
      PROVE  Files' /\ (caps.posix /\ fs[Target].whole => fs[Target]'.whole)
  <2> DEFINE q == wire[c][1]
  <2>1. /\ q \in Requests /\ On(q, c) /\ (fs' = fs \/ Executes(q))
    BY <1>1, Served DEF On
  <2>2. /\ Full(Target)' /\ \A s \in Savers : Full(Back[s])'
        /\ caps.posix /\ fs[Target].whole => fs[Target]'.whole
        /\ \A s \in Savers : Filled(s) => Full(Temp[s])'
    <3>1. CASE fs' = fs
      BY <1>0, <3>1 DEF Files, Full
    <3>2. CASE Executes(q)
      <4> HIDE DEF q
      <4> QED BY <2>1, <3>2, Executed DEF Full
    <3> QED BY <2>1, <3>1, <3>2
  <2>3. UNCHANGED pc /\ \A a \in Actors : outcome[a] \in {"none", "waiting"}
    BY <1>1 DEF Serve, Quiet
  <2>4. \/ outcome' = outcome
        \/ /\ pc[q.who] = q.step
           /\ \E out \in {"ok", "missing", "refused"} :
                /\ outcome' = [outcome EXCEPT ![q.who] = out]
                /\ out = "ok" /\ q.step \in {"swap", "place"} /\ OfSave(q, c) => Puts(q)
                /\ out = "ok" /\ q.step = "write" /\ OfSave(q, c) =>
                     \/ fs' = [fs EXCEPT ![Temp[q.who]] = Whole(q.who)]
                     \/ fs' = fs /\ fs[Temp[q.who]] = Missing
    BY <1>1, Served
  <2>5. \A s \in Savers : Moving(s)' => Moving(s)
    <3>1. /\ wire \in [Sessions -> Seq(Requests)] /\ wire[c] # <<>>
          /\ wire' = [wire EXCEPT ![c] = Tail(wire[c])]
      BY <1>0, <1>1 DEF Typed, Serve
    <3> SUFFICES ASSUME NEW s \in Savers, NEW d \in Sessions, NEW i \in 1..Len(wire'[d]),
                        wire'[d][i].who = s /\ wire'[d][i].step \in {"swap", "place"}
        PROVE  Moving(s)
      BY DEF Moving
    <3>2. CASE d = c
      <4>1. wire'[c][i] = wire[c][i + 1] /\ i + 1 \in 1..Len(wire[c])
        BY <3>1, <3>2
      <4> QED BY <3>2, <4>1 DEF Moving
    <3>3. CASE d # c
      BY <3>1, <3>3 DEF Moving
    <3> QED BY <3>2, <3>3
  <2>6. ASSUME NEW s \in Savers, outcome'[s] = "ok"
        PROVE  /\ q.who = s /\ pc[s] = q.step /\ OfSave(q, c)
               /\ q.step \in {"swap", "place"} => Puts(q)
               /\ q.step = "write" => \/ fs' = [fs EXCEPT ![Temp[q.who]] = Whole(q.who)]
                                      \/ fs' = fs /\ fs[Temp[q.who]] = Missing
    <3> HIDE DEF q
    <3>1. outcome \in [Actors -> Outcomes] /\ outcome[s] # "ok" /\ s \in Actors
      BY <1>0, <2>3 DEF Typed, Actors
    <3>2. q.who = s /\ pc[s] = q.step
      BY <2>4, <2>6, <3>1
    <3>3. OfSave(q, c)
      BY <2>1, <3>2, Fines
    <3>4. outcome'[s] = "ok" /\ q.who \in DOMAIN outcome
      BY <2>6, <3>1, <3>2
    <3> QED BY <2>4, <3>1, <3>2, <3>3, <3>4
  <2> HIDE DEF q
  <2>7. ASSUME NEW s \in Savers PROVE InPlace(s)'
    <3> SUFFICES ASSUME pc'[s] \in {"swap", "place"}, outcome'[s] = "ok" PROVE fs'[Target].whole
      BY DEF InPlace
    <3>1. Puts(q) /\ Moving(q.who) /\ q.who = s
      BY <2>1, <2>3, <2>6 DEF On, Moving
    <3>2. /\ Full(Temp[s]) /\ fs[Temp[s]] # Missing /\ Temp[s] # Target /\ Target \in Names
          /\ fs \in [Names -> Contents] /\ fs' = [fs EXCEPT ![Target] = fs[Temp[s]], ![Temp[s]] = Missing]
      BY <1>0, <3>1, NamesApart DEF Puts, Moved, Filled, Files, Typed
    <3> QED BY <3>2 DEF Full
  <2>8. ASSUME NEW s \in Savers, Filled(s)' PROVE Full(Temp[s])'
    <3>1. CASE Filled(s)
      BY <2>2, <3>1
    <3>2. CASE ~Filled(s)
      <4>1. pc[s] = "write" /\ outcome'[s] = "ok"
        BY <2>3, <2>5, <2>8, <3>2 DEF Filled
      <4>2. \/ fs' = [fs EXCEPT ![Temp[s]] = Whole(s)]
            \/ fs' = fs /\ fs[Temp[s]] = Missing
        BY <2>6, <4>1
      <4>3. fs \in [Names -> Contents] /\ Temp[s] \in Names
        BY <1>0, NamesApart DEF Typed
      <4> QED BY <4>2, <4>3 DEF Full, Whole
    <3> QED BY <3>1, <3>2
  <2> QED BY <2>2, <2>7, <2>8 DEF Files
<1>2. CASE ~(\E c \in Sessions : Serve(c))
  <2>1. fs' = fs /\ \A s \in Savers : Calm(s)
    BY <1>2, CalmSteps
  <2>2. /\ Full(Target)' /\ \A s \in Savers : Full(Back[s])'
        /\ \A s \in Savers : Filled(s) => Full(Temp[s])'
    BY <1>0, <2>1 DEF Files, Full
  <2> QED BY <2>1, <2>2 DEF Files, Calm
<1> QED BY <1>1, <1>2

-----------------------------------------------------------------------------
\* The file and some of the backups.
Versions(R) == {Target} \cup {Back[s] : s \in R}

\* The server takes away no last complete version, neither among the file and all backups nor
\* among the file and the backups that are still needed.
LEMMA ExecutedKeeps ==
  ASSUME IInv, NEW c \in Sessions, NEW q \in Requests, On(q, c), Executes(q), ~swept,
         NEW R \in SUBSET Savers, \A s \in Savers : ~Released(s) => s \in R,
         \E n \in Versions(R) : fs[n].whole
  PROVE  \E n \in Versions(R) : fs'[n].whole
<1>1. /\ fs \in [Names -> Contents] /\ Full(Target)
      /\ \A s \in Savers : Full(Back[s]) /\ (Filled(s) => Full(Temp[s]))
      /\ \A s \in Savers : Temp[s] \in Names /\ Back[s] \in Names /\ Temp[s] # Target /\ Back[s] # Target
      /\ \A s, t \in Savers : Temp[s] # Back[t]
      /\ Target \in Names /\ Versions(R) \subseteq Names
  BY NamesApart DEF IInv, Typed, Files, Versions
<1>2. CASE Fills(q)
  BY <1>1, <1>2 DEF Fills, Versions
<1>3. ASSUME NEW n \in Artifacts, Removes(q, n) PROVE \E m \in Versions(R) : fs'[m].whole
  <2>1. CASE q.who \in Savers /\ n = Temp[q.who]
    BY <1>1, <1>3, <2>1 DEF Removes, Versions
  <2>2. CASE q.who \in Savers /\ n = Back[q.who] /\ q.step = "unback"
    <3>1. OfSave(q, c)
      BY <2>2, Fines
    <3>2. Released(q.who)
      BY <2>2, <3>1 DEF OfSave, Timely, Later, Released
    <3>3. PICK m \in {Target} \cup {Back[s] : s \in {t \in Savers : ~Released(t)}} : fs[m].whole
      BY <2>2, <3>2 DEF IInv, Spared, Another
    <3>4. m \in Versions(R) /\ m # n
      BY <1>1, <2>2, <3>2, <3>3, NamesApart DEF Versions
    <3> QED BY <1>1, <1>3, <3>3, <3>4 DEF Removes
  <2> QED BY <1>3, <2>1, <2>2 DEF Removes
<1>4. CASE Puts(q)
  <2>1. q.who \in Savers /\ Moving(q.who) /\ fs[Temp[q.who]] # Missing
    BY <1>4 DEF Puts, Moved, On, Moving
  <2>2. fs[Temp[q.who]].whole
    BY <1>1, <2>1 DEF Filled, Full
  <2>3. fs'[Target] = fs[Temp[q.who]]
    BY <1>1, <1>4, <2>1 DEF Puts, Moved
  <2> QED BY <2>2, <2>3 DEF Versions
<1>5. CASE SetsAside(q)
  <2>1. q.who \in Savers /\ q.step = "aside" /\ fs[Target] # Missing /\ OfSave(q, c)
    BY <1>5, Fines DEF SetsAside, Moved
  <2>2. fs'[Back[q.who]] = fs[Target] /\ fs[Target].whole
    BY <1>1, <1>5, <2>1 DEF SetsAside, Moved, Full
  <2>3. q.who \in R
    BY <2>1 DEF OfSave, Timely, Later, Released
  <2> QED BY <2>2, <2>3 DEF Versions
<1>6. CASE PutsBack(q)
  <2>1. q.who \in Savers /\ fs[Back[q.who]] # Missing
    BY <1>6 DEF PutsBack, Moved
  <2>2. fs'[Target] = fs[Back[q.who]] /\ fs[Back[q.who]].whole
    BY <1>1, <1>6, <2>1 DEF PutsBack, Moved, Full
  <2> QED BY <2>2 DEF Versions
<1> QED BY <1>2, <1>3, <1>4, <1>5, <1>6 DEF Executes

\* Every step leaves a complete version, and another than those of the saves that have ended well.
LEMMA StepSpared == IInv /\ [Next]_vars => Spared' /\ (~swept /\ Kept => Kept')
<1> SUFFICES ASSUME IInv, [Next]_vars PROVE Spared' /\ (~swept /\ Kept => Kept')
  OBVIOUS
<1> DEFINE Unreleased == {t \in Savers : ~Released(t)}
<1>0. Spared /\ (Kept <=> \E n \in Versions(Savers) : fs[n].whole)
      /\ (Another <=> \E n \in Versions(Unreleased) : fs[n].whole)
  BY DEF IInv, Kept, Versions, Another
<1>1. ASSUME NEW c \in Sessions, Serve(c) PROVE Spared' /\ (~swept /\ Kept => Kept')
  <2> DEFINE q == wire[c][1]
  <2>1. /\ q \in Requests /\ On(q, c) /\ (fs' = fs \/ Executes(q))
    BY <1>1, Served DEF On
  <2>2. UNCHANGED <<swept, pc, verdict>>
    BY <1>1 DEF Serve
  <2>3. CASE fs' = fs
    BY <1>0, <2>2, <2>3 DEF Spared, Another, Released, Kept
  <2>4. CASE Executes(q)
    <3> HIDE DEF q
    <3>1. ASSUME ~swept, Kept PROVE \E n \in Versions(Savers) : fs'[n].whole
      BY <1>0, <2>1, <2>4, <3>1, ExecutedKeeps
    <3>2. ASSUME ~swept, Another PROVE \E n \in Versions(Unreleased) : fs'[n].whole
      BY <1>0, <2>1, <2>4, <3>2, ExecutedKeeps
    <3>3. ~swept /\ Kept => Kept'
      BY <3>1 DEF Kept, Versions
    <3>4. ~swept /\ Another => Another'
      BY <2>2, <3>2 DEF Another, Versions, Released
    <3>5. Spared'
      BY <1>0, <2>2, <3>4 DEF Spared, Released
    <3> QED BY <3>3, <3>5
  <2> QED BY <2>1, <2>3, <2>4
<1>2. CASE ~(\E c \in Sessions : Serve(c))
  <2>1. UNCHANGED <<fs, swept>> /\ \A s \in Savers : Released(s)' => Released(s) \/ fs[Target].whole
    BY <1>2, CalmSteps DEF Calm
  <2>2. fs[Target].whole => Another'
    BY <2>1 DEF Another
  <2>3. CASE \A s \in Savers : Released(s)' => Released(s)
    BY <1>0, <2>1, <2>3 DEF Spared, Another, Kept
  <2>4. CASE \E s \in Savers : Released(s)' /\ ~Released(s)
    BY <2>1, <2>2, <2>4 DEF Spared, Kept
  <2> QED BY <2>3, <2>4
<1> QED BY <1>1, <1>2

\* The four parts hold together from the start and after every step.
LEMMA Invariance == Spec => []IInv
<1>1. IInv /\ [Next]_vars => IInv'
  BY StepTyped, StepWires, StepFiles, StepSpared DEF IInv
<1> QED BY InitIInv, <1>1, PTL DEF Spec

\* "Never a half-written file" under the name of the file (safeReplace.ts), and never none where
\* the server renames atomically: for any number of saves through any number of sessions, two
\* windows at once included, whichever requests are refused, given up on or lost.
THEOREM NeverHalfHolds == Spec => NeverHalf
<1>1. IInv /\ IInv' /\ [Next]_vars =>
        [/\ fs'[Target] = Missing \/ fs'[Target].whole
         /\ caps.posix /\ fs[Target].whole => fs'[Target].whole]_vars
  <2> SUFFICES ASSUME IInv, [Next]_vars, vars' # vars
      PROVE  /\ fs'[Target] = Missing \/ fs'[Target].whole
             /\ caps.posix /\ fs[Target].whole => fs'[Target].whole
    OBVIOUS
  <2> QED BY StepFiles DEF Files, Full
<1> QED BY <1>1, Invariance, PTL DEF Spec, NeverHalf

\* Outside the directory that sessions sweep, saves never take away the last complete version of
\* the file, wherever they are interrupted.
THEOREM NothingLostHolds == Spec => NothingLost
<1>1. IInv /\ [Next]_vars => [~swept /\ Kept => Kept']_vars
  BY StepSpared
<1> QED BY <1>1, Invariance, PTL DEF Spec, NothingLost
-----------------------------------------------------------------------------
\* The rest is about one window at a time: one session after another. Then one save runs at a
\* time, and with its session its requests end.
Alone ==
  /\ session \in [Sessions -> {"new", "up", "down"}] /\ existed \in [Savers -> BOOLEAN]
  /\ \A c \in Sessions : session[c] # "up" => wire[c] = <<>>
  /\ \A c, d \in Sessions : session[c] = "up" /\ session[d] = "up" => c = d
  /\ \A s \in Savers : /\ Saving(s) <=> outcome[s] # "none"
                       /\ outcome[s] = "waiting" => session[home[s]] = "up"
                       /\ pc[s] # "done" => verdict[s] = "none"
  /\ \A s, t \in Savers : Saving(s) /\ Saving(t) => s = t

\* The request that a save waits for is the last of all saves' on the wire.
Newest == \A c \in Sessions : \A i, j \in 1..Len(wire[c]) :
            i < j /\ wire[c][i].who \in Savers /\ wire[c][j].who \in Savers =>
              pc[wire[c][i].who] # wire[c][i].step

\* A temporary file is its save's.
Own == \A s \in Savers : fs[Temp[s]] \in {Missing, Part(s), Whole(s)}

\* The requests that the server has yet to perform.
Pending == UNION {{wire[c][i] : i \in 1..Len(wire[c])} : c \in Sessions}

\* A save whose file is in place: nothing that could still be performed touches that.
Landed(s) == pc[s] = "unback" \/ (pc[s] \in {"swap", "place"} /\ outcome[s] = "ok")
There == \A s \in Savers : Landed(s) =>
           /\ fs[Target] = Whole(s)
           /\ \A r \in Pending : r.who \in Savers => r.step = "unback"

\* A save that may have moved the original away without putting anything in its place, and that
\* will say so.
Asking(s, step) == \E r \in Pending : r.who = s /\ r.step = step
Astray(s) == \/ pc[s] \in {"undo", "restore", "tidy"}
             \/ pc[s] = "place" /\ existed[s] /\ outcome[s] # "ok"
             \/ pc[s] = "aside" /\ outcome[s] # "missing" /\ ~Asking(s, "aside")
Told(s) == verdict[s] \in {"stranded", "unchanged"}
Admitted == /\ Kept => fs[Target].whole \/ \E s \in Savers : Told(s) \/ Astray(s)
            /\ \A s \in Savers : Asking(s, "aside") /\ pc[s] = "done" => Told(s)

OneWindowInv == IInv /\ Alone /\ Newest /\ Own /\ There /\ Admitted

LEMMA InitOneWindow == Init => OneWindowInv
<1> SUFFICES ASSUME Init PROVE OneWindowInv
  OBVIOUS
<1>1. \A s \in Savers : s \in Actors /\ pc[s] = "idle" /\ outcome[s] = "none" /\ verdict[s] = "none"
  BY DEF Init, Actors
<1>2. Alone
  BY <1>1 DEF Init, Alone, Saving
<1>3. Newest /\ Pending = {}
  BY DEF Init, Newest, Pending
<1>4. Own
  BY NamesApart DEF Init, Own
<1>5. There
  BY <1>1 DEF There, Landed
<1>6. Admitted
  <2>1. fs[Target].whole \/ ~Kept
    BY NamesApart DEF Init, Kept, Missing, Whole
  <2> QED BY <1>3, <2>1 DEF Admitted, Asking
<1> QED BY InitIInv, <1>2, <1>3, <1>4, <1>5, <1>6 DEF OneWindowInv

-----------------------------------------------------------------------------
\* What sending does, in a session or in none.
LEMMA SentOrLost ==
  ASSUME Typed, NEW a \in Actors, NEW c \in Sessions, NEW q \in Requests, q.who = a,
         Send(a, c, q.step, q.op, q.from, q.to)
  PROVE  /\ pc' = [pc EXCEPT ![a] = q.step] /\ verdict' = verdict
         /\ \/ /\ session[c] = "up" /\ outcome' = [outcome EXCEPT ![a] = "waiting"]
               /\ wire' = [wire EXCEPT ![c] = Append(wire[c], q)]
            \/ outcome' = [outcome EXCEPT ![a] = "lost"] /\ wire' = wire
<1>1. q = [who |-> a, step |-> q.step, op |-> q.op, from |-> q.from, to |-> q.to]
  BY DEF Requests
<1> QED BY <1>1 DEF Send

\* One window: one session at a time, and one save at a time in it.
LEMMA StepAlone == ASSUME ~Overlap PROVE IInv /\ Alone /\ [Next]_vars => Alone'
<1> SUFFICES ASSUME IInv, Alone, [Next]_vars PROVE Alone'
  OBVIOUS
<1>0. /\ Typed /\ Savers \cap Sessions = {} /\ Savers \subseteq Actors /\ Sessions \subseteq Actors
      /\ pc \in [Actors -> Steps] /\ outcome \in [Actors -> Outcomes]
      /\ verdict \in [Savers -> Verdicts] /\ wire \in [Sessions -> Seq(Requests)]
      /\ home \in [Savers -> Sessions \cup {None}]
  BY ReplaceAssumption DEF IInv, Typed, Actors
<1>a. /\ session \in [Sessions -> {"new", "up", "down"}] /\ existed \in [Savers -> BOOLEAN]
      /\ \A c \in Sessions : session[c] # "up" => wire[c] = <<>>
      /\ \A c, d \in Sessions : session[c] = "up" /\ session[d] = "up" => c = d
      /\ \A s \in Savers : /\ Saving(s) <=> outcome[s] # "none"
                           /\ outcome[s] = "waiting" => session[home[s]] = "up"
                           /\ pc[s] # "done" => verdict[s] = "none"
      /\ \A s, t \in Savers : Saving(s) /\ Saving(t) => s = t
  BY DEF Alone
<1>1. ASSUME NEW c \in Sessions, Serve(c) PROVE Alone'
  <2> DEFINE q == wire[c][1]
  <2>1. /\ q \in Requests
        /\ \/ outcome' = outcome
           \/ /\ pc[q.who] = q.step /\ outcome[q.who] = "waiting"
              /\ \E out \in {"ok", "missing", "refused"} : outcome' = [outcome EXCEPT ![q.who] = out]
    BY <1>1, Served
  <2> HIDE DEF q
  <2>2. /\ UNCHANGED <<session, home, pc, existed, verdict>> /\ session[c] = "up"
        /\ wire' = [wire EXCEPT ![c] = Tail(wire[c])]
    BY <1>1 DEF Serve
  <2>3. \A s \in Savers : /\ outcome'[s] = "none" <=> outcome[s] = "none"
                          /\ outcome'[s] = "waiting" => outcome[s] = "waiting"
    BY <1>0, <2>1
  <2>4. \A d \in Sessions : session[d] # "up" => wire'[d] = <<>>
    BY <1>0, <1>a, <2>2
  <2> QED BY <1>a, <2>2, <2>3, <2>4 DEF Alone, Saving
<1>2. ASSUME NEW a \in Actors, GiveUp(a) PROVE Alone'
  <2>1. UNCHANGED <<session, home, pc, existed, verdict, wire>>
    BY <1>2 DEF GiveUp
  <2>2. \A s \in Savers : /\ outcome'[s] = "none" <=> outcome[s] = "none"
                          /\ outcome'[s] = "waiting" => outcome[s] = "waiting"
    BY <1>0, <1>2 DEF GiveUp
  <2> QED BY <1>a, <2>1, <2>2 DEF Alone, Saving
<1>3. ASSUME NEW c \in Sessions, Drop(c) PROVE Alone'
  <2>1. /\ UNCHANGED <<home, pc, existed, verdict>> /\ session' = [session EXCEPT ![c] = "down"]
        /\ wire' = [wire EXCEPT ![c] = <<>>]
    BY <1>3 DEF Drop
  <2>2. \A s \in Savers : /\ outcome'[s] = "none" <=> outcome[s] = "none"
                          /\ outcome'[s] = "waiting" => outcome[s] = "waiting" /\ home[s] # c
    BY <1>0, <1>3 DEF Drop
  <2>3. /\ session' \in [Sessions -> {"new", "up", "down"}]
        /\ \A d \in Sessions : session'[d] = "up" <=> session[d] = "up" /\ d # c
        /\ \A d \in Sessions : session'[d] # "up" => wire'[d] = <<>>
    BY <1>0, <1>a, <2>1
  <2>4. \A s \in Savers : outcome'[s] = "waiting" => session'[home[s]] = "up"
    BY <1>a, <2>1, <2>2
  <2> QED BY <1>a, <2>1, <2>2, <2>3, <2>4 DEF Alone, Saving
<1>4. ASSUME NEW c \in Sessions, Connect(c) PROVE Alone'
  <2>1. /\ UNCHANGED <<home, existed, verdict>> /\ session' = [session EXCEPT ![c] = "up"]
        /\ \A d \in Sessions : session[d] # "up"
        /\ \A s \in Savers : pc'[s] = pc[s] /\ outcome'[s] = outcome[s]
        /\ \A d \in Sessions : d # c => wire'[d] = wire[d]
    BY <1>0, <1>4 DEF Connect
  <2>2. /\ session' \in [Sessions -> {"new", "up", "down"}]
        /\ \A d \in Sessions : session'[d] = "up" <=> d = c
    BY <1>a, <2>1
  <2>3. \A s \in Savers : outcome[s] # "waiting"
    <3>1. \A s \in Savers : outcome[s] = "waiting" => home[s] \in Sessions
      BY <1>0, <1>a DEF Typed, Saving
    <3> QED BY <1>a, <2>1, <3>1
  <2> QED BY <1>a, <2>1, <2>2, <2>3 DEF Alone, Saving
<1>5. ASSUME NEW c \in Sessions, SweepListed(c) \/ SweepNext(c) PROVE Alone'
  <2>1. /\ UNCHANGED <<session, home, existed, verdict>> /\ c \in Actors /\ c \notin Savers
        /\ \/ \E q \in Requests : q.who = c /\ Send(c, c, q.step, q.op, q.from, q.to)
           \/ /\ UNCHANGED wire
              /\ \E step \in Steps, o \in {"none", "ok"} :
                   pc' = [pc EXCEPT ![c] = step] /\ outcome' = [outcome EXCEPT ![c] = o]
    BY <1>0, <1>5, Sweeps DEF SweepListed, SweepNext
  <2>2. /\ \A s \in Savers : pc'[s] = pc[s] /\ outcome'[s] = outcome[s]
        /\ \A d \in Sessions : wire'[d] = wire[d] \/ session[d] = "up"
    <3>1. ASSUME NEW q \in Requests, q.who = c, Send(c, c, q.step, q.op, q.from, q.to)
          PROVE  /\ \A s \in Savers : pc'[s] = pc[s] /\ outcome'[s] = outcome[s]
                 /\ \A d \in Sessions : wire'[d] = wire[d] \/ session[d] = "up"
      BY <1>0, <2>1, <3>1, SentOrLost
    <3> QED BY <1>0, <2>1, <3>1
  <2> QED BY <1>a, <2>1, <2>2 DEF Alone, Saving
<1>6. ASSUME NEW s \in Savers, Save(s) PROVE Alone'
  <2>1. /\ UNCHANGED <<session, existed, verdict>> /\ pc[s] = "idle" /\ Quiet
    BY <1>6 DEF Save, Send
  <2>2. PICK c \in Sessions :
          /\ session[c] = "up" /\ (\A t \in Savers : Saving(t) => home[t] # c)
          /\ home' = [home EXCEPT ![s] = c] /\ Send(s, c, "open", "open", None, Temp[s])
    BY <1>6 DEF Save
  <2>3. /\ pc' = [pc EXCEPT ![s] = "open"] /\ outcome' = [outcome EXCEPT ![s] = "waiting"]
        /\ \A d \in Sessions : d # c => wire'[d] = wire[d]
    BY <1>0, <2>2 DEF Send
  <2>4. \A t \in Savers : ~Saving(t)
    <3> SUFFICES ASSUME NEW t \in Savers, Saving(t) PROVE FALSE
      OBVIOUS
    <3>1. outcome[t] = "waiting"
      BY <1>0, <1>a, <2>1 DEF Quiet
    <3>2. home[t] \in Sessions
      BY <1>0 DEF Typed, Saving
    <3> QED BY <1>a, <2>2, <3>1, <3>2
  <2>5. \A t \in Savers : /\ t # s => pc'[t] = pc[t] /\ outcome'[t] = outcome[t] /\ home'[t] = home[t]
                          /\ pc'[s] = "open" /\ outcome'[s] = "waiting" /\ home'[s] = c
    BY <1>0, <2>2, <2>3
  <2>6. \A t \in Savers : /\ Saving(t)' <=> outcome'[t] # "none"
                          /\ outcome'[t] = "waiting" => session'[home'[t]] = "up"
                          /\ pc'[t] # "done" => verdict'[t] = "none"
    BY <1>a, <2>1, <2>2, <2>5 DEF Saving
  <2>7. \A t \in Savers : Saving(t)' => t = s
    BY <2>4, <2>5 DEF Saving
  <2>8. \A d \in Sessions : session'[d] # "up" => wire'[d] = <<>>
    BY <1>a, <2>1, <2>2, <2>3
  <2> QED BY <1>a, <2>1, <2>6, <2>7, <2>8 DEF Alone
<1>7. ASSUME NEW s \in Savers, Advance(s) PROVE Alone'
  <2>1. UNCHANGED <<session, home>> /\ Going(s) /\ Saving(s) /\ Knows(s)
    BY <1>7, Advances DEF Going, Saving
  <2>2. home[s] \in Sessions /\ s \in Actors
    BY <1>0, <2>1, AtHome
  <2>3. existed' \in [Savers -> BOOLEAN]
    BY <1>a, <2>1 DEF Knows
  <2>4. CASE \E v \in Verdicts : End(s, v)
    <3>1. PICK v \in Verdicts : End(s, v)
      BY <2>4
    <3>2. /\ UNCHANGED wire /\ pc'[s] = "done" /\ outcome'[s] = "none"
          /\ \A t \in Savers : t # s => /\ pc'[t] = pc[t] /\ outcome'[t] = outcome[t]
                                        /\ verdict'[t] = verdict[t]
      BY <1>0, <3>1 DEF End
    <3> QED BY <1>a, <2>1, <2>3, <3>2 DEF Alone, Saving
  <2>5. CASE \E q \in Requests : /\ q.who = s /\ Shape(q) /\ Follows(s, q.step)
                                 /\ Send(s, home[s], q.step, q.op, q.from, q.to)
    <3>1. PICK q \in Requests : /\ q.who = s /\ Shape(q) /\ Follows(s, q.step)
                                /\ Send(s, home[s], q.step, q.op, q.from, q.to)
      BY <2>5
    <3>2. /\ pc' = [pc EXCEPT ![s] = q.step] /\ verdict' = verdict
          /\ \/ /\ session[home[s]] = "up" /\ outcome' = [outcome EXCEPT ![s] = "waiting"]
                /\ wire' = [wire EXCEPT ![home[s]] = Append(wire[home[s]], q)]
             \/ outcome' = [outcome EXCEPT ![s] = "lost"] /\ wire' = wire
      BY <1>0, <2>2, <3>1, SentOrLost
    <3>3. /\ pc'[s] = q.step /\ q.step \notin {"idle", "done"} /\ outcome'[s] # "none"
          /\ outcome'[s] = "waiting" => session[home[s]] = "up"
          /\ \A t \in Savers : t # s => pc'[t] = pc[t] /\ outcome'[t] = outcome[t]
          /\ \A d \in Sessions : wire'[d] = wire[d] \/ session[d] = "up"
      BY <1>0, <2>2, <3>1, <3>2 DEF Shape
    <3>4. \A t \in Savers : Saving(t)' <=> Saving(t)
      BY <2>1, <3>3 DEF Saving
    <3>5. verdict[s] = "none"
      BY <1>a, <2>1 DEF Saving
    <3> QED BY <1>a, <2>1, <2>3, <3>2, <3>3, <3>4, <3>5 DEF Alone
  <2> QED BY <1>7, <2>4, <2>5, Advances
<1>8. CASE UNCHANGED vars
  BY <1>8 DEF vars, Alone, Saving
<1> QED BY <1>1, <1>2, <1>3, <1>4, <1>5, <1>6, <1>7, <1>8 DEF Next
-----------------------------------------------------------------------------
\* What a step that is not the server's is to the saves: one sends its next request or ends, or
\* requests and outcomes get lost, or it is a sweep's.
Same(t) == /\ pc'[t] = pc[t] /\ outcome'[t] = outcome[t] /\ verdict'[t] = verdict[t]
           /\ existed'[t] = existed[t]
Others(s) == \A t \in Savers : t # s => Same(t)
Adds(q) == wire' = wire \/ \E c \in Sessions : wire' = [wire EXCEPT ![c] = Append(wire[c], q)]
Shrinks == \A c \in Sessions : \/ wire'[c] = wire[c] \/ wire'[c] = <<>>
                               \/ wire[c] # <<>> /\ wire'[c] = Tail(wire[c])

Sends(s, q) == /\ q.who = s /\ Shape(q) /\ Adds(q) /\ Others(s)
               /\ pc'[s] = q.step /\ outcome'[s] \in {"waiting", "lost"} /\ verdict'[s] = verdict[s]
               /\ \/ pc[s] = "idle" /\ q.step = "open"
                  \/ Going(s) /\ Follows(s, q.step) /\ Knows(s)
Stops(s, v) == /\ Going(s) /\ Ends(s, v) /\ UNCHANGED wire /\ Others(s)
               /\ pc'[s] = "done" /\ outcome'[s] = "none" /\ verdict'[s] = v
Fades == /\ Shrinks /\ UNCHANGED <<pc, verdict, existed>>
         /\ \A t \in Savers : \/ outcome'[t] = outcome[t]
                              \/ outcome[t] = "waiting" /\ outcome'[t] = "lost"
SweepsOn == /\ \A t \in Savers : Same(t)
            /\ wire' = wire \/ \E q \in Requests : q.who \notin Savers /\ Adds(q)

LEMMA Kinds ==
  ASSUME IInv, Alone, [Next]_vars, ~(\E c \in Sessions : Serve(c))
  PROVE  /\ fs' = fs
         /\ \/ Fades \/ SweepsOn
            \/ \E s \in Savers, q \in Requests : Sends(s, q)
            \/ \E s \in Savers, v \in Verdicts : Stops(s, v)
<1>0. /\ Typed /\ Savers \cap Sessions = {} /\ Savers \subseteq Actors /\ Sessions \subseteq Actors
      /\ pc \in [Actors -> Steps] /\ outcome \in [Actors -> Outcomes]
      /\ verdict \in [Savers -> Verdicts] /\ wire \in [Sessions -> Seq(Requests)]
      /\ existed \in [Savers -> BOOLEAN]
  BY ReplaceAssumption DEF IInv, Typed, Actors, Alone
<1> DEFINE Kind == \/ Fades \/ SweepsOn
                   \/ \E s \in Savers, q \in Requests : Sends(s, q)
                   \/ \E s \in Savers, v \in Verdicts : Stops(s, v)
<1>00. fs' = fs
  BY CalmSteps
<1> SUFFICES Kind
  BY <1>00
<1>2. ASSUME NEW a \in Actors, GiveUp(a) PROVE Kind
  <2>1. Fades
    BY <1>0, <1>2 DEF GiveUp, Fades, Shrinks
  <2> QED BY <2>1
<1>3. ASSUME NEW c \in Sessions, Drop(c) PROVE Kind
  <2>1. Fades
    BY <1>0, <1>3 DEF Drop, Fades, Shrinks
  <2> QED BY <2>1
<1>4. ASSUME NEW c \in Sessions, Connect(c) PROVE Kind
  <2> DEFINE q == [who |-> c, step |-> "opendir", op |-> "sync", from |-> None, to |-> None]
  <2>1. q \in Requests /\ q.who \notin Savers
    BY <1>0 DEF Requests, Steps, Ops
  <2>2. wire[c] = <<>> /\ Append(<<>>, q) = <<q>>
    BY <1>4 DEF Connect, Alone
  <2>3. wire' = wire \/ wire' = [wire EXCEPT ![c] = Append(wire[c], q)]
    BY <1>4, <2>2 DEF Connect
  <2>4. \A t \in Savers : Same(t)
    BY <1>0, <1>4 DEF Connect, Same
  <2> HIDE DEF q
  <2>5. SweepsOn
    BY <2>1, <2>3, <2>4 DEF SweepsOn, Adds
  <2> QED BY <2>5
<1>5. ASSUME NEW c \in Sessions, SweepListed(c) \/ SweepNext(c) PROVE Kind
  <2>1. /\ UNCHANGED <<existed, verdict>> /\ c \in Actors /\ c \notin Savers
        /\ \/ \E q \in Requests : q.who = c /\ Send(c, c, q.step, q.op, q.from, q.to)
           \/ /\ UNCHANGED wire
              /\ \E step \in Steps, o \in {"none", "ok"} :
                   pc' = [pc EXCEPT ![c] = step] /\ outcome' = [outcome EXCEPT ![c] = o]
    BY <1>0, <1>5, Sweeps DEF SweepListed, SweepNext
  <2>2. ASSUME NEW q \in Requests, q.who = c, Send(c, c, q.step, q.op, q.from, q.to)
        PROVE  SweepsOn
    <3>1. /\ wire' = wire \/ wire' = [wire EXCEPT ![c] = Append(wire[c], q)]
          /\ pc' = [pc EXCEPT ![c] = q.step]
          /\ \E o \in {"waiting", "lost"} : outcome' = [outcome EXCEPT ![c] = o]
      BY <1>0, <2>1, <2>2, Sending
    <3>2. \A t \in Savers : Same(t)
      BY <1>0, <2>1, <3>1 DEF Same
    <3> QED BY <2>1, <2>2, <3>1, <3>2 DEF SweepsOn, Adds
  <2>3. SweepsOn
    BY <1>0, <2>1, <2>2 DEF SweepsOn, Same
  <2> QED BY <2>3
<1>6. ASSUME NEW s \in Savers, Save(s) PROVE Kind
  <2>1. /\ UNCHANGED <<verdict, existed>> /\ pc[s] = "idle" /\ s \in Actors
        /\ \E c \in Sessions, q \in Requests : /\ q.who = s /\ q.step = "open" /\ Shape(q)
                                               /\ Send(s, c, q.step, q.op, q.from, q.to)
    BY <1>0, <1>6, Saves DEF Save
  <2>2. PICK c \in Sessions, q \in Requests : /\ q.who = s /\ q.step = "open" /\ Shape(q)
                                              /\ Send(s, c, q.step, q.op, q.from, q.to)
    BY <2>1
  <2>3. /\ wire' = wire \/ wire' = [wire EXCEPT ![c] = Append(wire[c], q)]
        /\ pc' = [pc EXCEPT ![s] = q.step]
        /\ \E o \in {"waiting", "lost"} : outcome' = [outcome EXCEPT ![s] = o]
    BY <1>0, <2>1, <2>2, Sending
  <2>4. pc'[s] = q.step /\ outcome'[s] \in {"waiting", "lost"} /\ Others(s)
    BY <1>0, <2>1, <2>3 DEF Others, Same
  <2>5. Sends(s, q)
    BY <2>1, <2>2, <2>3, <2>4 DEF Sends, Adds
  <2> QED BY <2>5
<1>7. ASSUME NEW s \in Savers, Advance(s) PROVE Kind
  <2>1. Going(s) /\ Knows(s) /\ home[s] \in Sessions /\ s \in Actors
    BY <1>0, <1>7, Advances, AtHome
  <2>2. \A t \in Savers : t # s => existed'[t] = existed[t]
    BY <1>0, <2>1 DEF Knows
  <2>3. ASSUME NEW v \in Verdicts, End(s, v), Ends(s, v) PROVE Stops(s, v)
    <3>1. /\ UNCHANGED wire /\ pc'[s] = "done" /\ outcome'[s] = "none" /\ verdict'[s] = v
          /\ \A t \in Savers : t # s => /\ pc'[t] = pc[t] /\ outcome'[t] = outcome[t]
                                        /\ verdict'[t] = verdict[t]
      BY <1>0, <2>1, <2>3 DEF End
    <3> QED BY <2>1, <2>2, <2>3, <3>1 DEF Stops, Others, Same
  <2>4. ASSUME NEW q \in Requests, q.who = s, Shape(q), Follows(s, q.step),
               Send(s, home[s], q.step, q.op, q.from, q.to)
        PROVE  Sends(s, q)
    <3>1. PICK c \in Sessions : c = home[s]
      BY <2>1
    <3>2. /\ wire' = wire \/ wire' = [wire EXCEPT ![c] = Append(wire[c], q)]
          /\ pc' = [pc EXCEPT ![s] = q.step] /\ verdict' = verdict
          /\ \E o \in {"waiting", "lost"} : outcome' = [outcome EXCEPT ![s] = o]
      BY <1>0, <2>1, <2>4, <3>1, Sending
    <3>3. pc'[s] = q.step /\ outcome'[s] \in {"waiting", "lost"} /\ Others(s)
      BY <1>0, <2>1, <2>2, <3>2 DEF Others, Same
    <3> QED BY <2>1, <2>4, <3>2, <3>3 DEF Sends, Adds
  <2> QED BY <1>7, <2>3, <2>4, Advances
<1>8. CASE UNCHANGED vars
  <2>1. Fades
    BY <1>8 DEF vars, Fades, Shrinks
  <2> QED BY <2>1
<1> QED BY <1>2, <1>3, <1>4, <1>5, <1>6, <1>7, <1>8 DEF Next

\* What is pending is on the wire of a session, and after a step nothing is but what was sent.
LEMMA PendingIsOn == \A r : r \in Pending <=> \E c \in Sessions : On(r, c)
BY DEF Pending, On

LEMMA PendingSent ==
  ASSUME Typed, NEW q \in Requests, Adds(q)
  PROVE  Pending \subseteq Pending' /\ Pending' \subseteq Pending \cup {q}
<1>1. CASE wire' = wire
  BY <1>1 DEF Pending
<1>2. ASSUME NEW c \in Sessions, wire' = [wire EXCEPT ![c] = Append(wire[c], q)]
      PROVE  Pending \subseteq Pending' /\ Pending' \subseteq Pending \cup {q}
  <2>0. wire \in [Sessions -> Seq(Requests)]
    BY DEF Typed
  <2>1. /\ wire'[c] = Append(wire[c], q) /\ wire[c] \in Seq(Requests)
        /\ \A d \in Sessions : d # c => wire'[d] = wire[d]
    BY <1>2, <2>0
  <2>2. /\ \A i \in 1..Len(wire'[c]) : (i \in 1..Len(wire[c]) /\ wire'[c][i] = wire[c][i]) \/ wire'[c][i] = q
        /\ \A i \in 1..Len(wire[c]) : i \in 1..Len(wire'[c]) /\ wire'[c][i] = wire[c][i]
    BY <2>1
  <2>3. ASSUME NEW r \in Pending PROVE r \in Pending'
    <3>1. PICK d \in Sessions : \E i \in 1..Len(wire[d]) : wire[d][i] = r
      BY DEF Pending
    <3>2. PICK i \in 1..Len(wire[d]) : wire[d][i] = r
      BY <3>1
    <3>3. i \in 1..Len(wire'[d]) /\ wire'[d][i] = r
      BY <2>1, <2>2, <3>2
    <3> QED BY <3>3 DEF Pending
  <2>4. ASSUME NEW r \in Pending' PROVE r \in Pending \cup {q}
    <3>1. PICK d \in Sessions : \E i \in 1..Len(wire'[d]) : wire'[d][i] = r
      BY DEF Pending
    <3>2. PICK i \in 1..Len(wire'[d]) : wire'[d][i] = r
      BY <3>1
    <3>3. r = q \/ (i \in 1..Len(wire[d]) /\ wire[d][i] = r)
      BY <2>1, <2>2, <3>2
    <3> QED BY <3>3 DEF Pending
  <2> QED BY <2>3, <2>4
<1> QED BY <1>1, <1>2 DEF Adds

LEMMA PendingShrinks == Typed /\ Shrinks => Pending' \subseteq Pending
<1> SUFFICES ASSUME Typed, Shrinks, NEW r \in Pending' PROVE r \in Pending
  OBVIOUS
<1>1. PICK d \in Sessions : \E i \in 1..Len(wire'[d]) : wire'[d][i] = r
  BY DEF Pending
<1>2. PICK i \in 1..Len(wire'[d]) : wire'[d][i] = r
  BY <1>1
<1>3. wire[d] \in Seq(Requests)
  BY DEF Typed
<1>4. wire'[d] # <<>>
  BY <1>2
<1>5. CASE wire'[d] = wire[d]
  BY <1>2, <1>5 DEF Pending
<1>6. CASE wire[d] # <<>> /\ wire'[d] = Tail(wire[d])
  <2>1. i + 1 \in 1..Len(wire[d]) /\ wire[d][i + 1] = r
    BY <1>2, <1>3, <1>6
  <2> QED BY <2>1 DEF Pending
<1> QED BY <1>4, <1>5, <1>6 DEF Shrinks
-----------------------------------------------------------------------------
\* What is pending of a save.
LEMMA PendingFine ==
  ASSUME IInv, NEW r \in Pending, r.who \in Savers
  PROVE  \E c \in Sessions : On(r, c) /\ OfSave(r, c) /\ r \in Requests
BY PendingIsOn, Fines

\* What a save sends next is none of the requests it has pending.
LEMMA NextIsNew ==
  ASSUME IInv, NEW s \in Savers, NEW q \in Requests, Sends(s, q),
         NEW r \in Pending, r.who = s
  PROVE  r.step # q.step
<1>1. PICK c \in Sessions : OfSave(r, c) /\ r \in Requests
  BY PendingFine
<1>2. r.step \notin {"idle", "done"} /\ r.step \in Steps /\ q.step \in Steps
  BY <1>1 DEF OfSave, Shape, Requests
<1>3. CASE pc[s] = "idle"
  BY <1>1, <1>2, <1>3 DEF OfSave, Timely, Later
<1>4. CASE Going(s) /\ Follows(s, q.step)
  <2>1. pc[s] \in Later(r.step) /\ (pc[s] = r.step => outcome[s] \in {"waiting", "lost"})
    BY <1>1, <1>4 DEF OfSave, Timely, Going
  <2> QED BY <1>2, <1>4, <2>1, Overtaking
<1> QED BY <1>3, <1>4 DEF Sends

\* While a save runs, the requests of the others are those of saves that have ended.
LEMMA OneSaves ==
  ASSUME IInv, Alone', NEW s \in Savers, NEW q \in Requests, Sends(s, q)
  PROVE  \A r \in Pending : r.who \in Savers => pc'[r.who] # r.step
<1> SUFFICES ASSUME NEW r \in Pending, r.who \in Savers PROVE pc'[r.who] # r.step
  OBVIOUS
<1>1. r.step \notin {"idle", "done"}
  BY PendingFine DEF OfSave, Shape
<1>2. CASE r.who = s
  BY <1>2, NextIsNew DEF Sends
<1>3. CASE r.who # s
  <2>1. Saving(s)'
    BY DEF Sends, Saving, Shape
  <2>2. ~Saving(r.who)'
    BY <1>3, <2>1 DEF Alone
  <2> QED BY <1>1, <2>2 DEF Saving
<1> QED BY <1>2, <1>3

\* The request that a save waits for stays the newest.
LEMMA NewestSent ==
  ASSUME IInv, Newest, NEW q \in Requests, Adds(q),
         \A r \in Pending : r.who \in Savers => pc'[r.who] = pc[r.who] \/ pc'[r.who] # r.step,
         q.who \in Savers => \A r \in Pending : r.who \in Savers => pc'[r.who] # r.step
  PROVE  Newest'
<1>1. wire \in [Sessions -> Seq(Requests)]
  BY DEF IInv, Typed
<1>2. \A d \in Sessions : \A k \in 1..Len(wire[d]) : wire[d][k] \in Pending
  BY DEF Pending
<1> SUFFICES ASSUME NEW d \in Sessions, NEW i \in 1..Len(wire'[d]), NEW j \in 1..Len(wire'[d]),
                    i < j, wire'[d][i].who \in Savers, wire'[d][j].who \in Savers
    PROVE  pc'[wire'[d][i].who] # wire'[d][i].step
  BY DEF Newest
<1>3. CASE wire'[d] = wire[d]
  BY <1>2, <1>3 DEF Newest
<1>4. CASE wire'[d] # wire[d]
  <2>1. wire'[d] = Append(wire[d], q) /\ wire[d] \in Seq(Requests)
    BY <1>1, <1>4 DEF Adds
  <2>2. /\ i \in 1..Len(wire[d]) /\ wire'[d][i] = wire[d][i]
        /\ (j \in 1..Len(wire[d]) /\ wire'[d][j] = wire[d][j]) \/ wire'[d][j] = q
    BY <2>1
  <2>3. CASE j \in 1..Len(wire[d]) /\ wire'[d][j] = wire[d][j]
    BY <1>2, <2>2, <2>3 DEF Newest
  <2>4. CASE wire'[d][j] = q
    BY <1>2, <2>2, <2>4
  <2> QED BY <2>2, <2>3, <2>4
<1> QED BY <1>3, <1>4

LEMMA NewestShrinks ==
  ASSUME IInv, Newest, Shrinks,
         \A r \in Pending : r.who \in Savers => pc'[r.who] = pc[r.who] \/ pc'[r.who] # r.step
  PROVE  Newest'
<1>1. wire \in [Sessions -> Seq(Requests)]
  BY DEF IInv, Typed
<1> SUFFICES ASSUME NEW d \in Sessions, NEW i \in 1..Len(wire'[d]), NEW j \in 1..Len(wire'[d]),
                    i < j, wire'[d][i].who \in Savers, wire'[d][j].who \in Savers
    PROVE  pc'[wire'[d][i].who] # wire'[d][i].step
  BY DEF Newest
<1>2. wire'[d] # <<>> /\ wire[d] \in Seq(Requests)
  BY <1>1
<1>3. \E k, l \in 1..Len(wire[d]) : k < l /\ wire[d][k] = wire'[d][i] /\ wire[d][l] = wire'[d][j]
  <2>1. CASE wire'[d] = wire[d]
    BY <2>1
  <2>2. CASE wire[d] # <<>> /\ wire'[d] = Tail(wire[d])
    <3>1. /\ i + 1 \in 1..Len(wire[d]) /\ j + 1 \in 1..Len(wire[d]) /\ i + 1 < j + 1
          /\ wire[d][i + 1] = wire'[d][i] /\ wire[d][j + 1] = wire'[d][j]
      BY <1>2, <2>2
    <3> QED BY <3>1
  <2> QED BY <1>2, <2>1, <2>2 DEF Shrinks
<1>4. wire'[d][i] \in Pending /\ pc[wire'[d][i].who] # wire'[d][i].step
  BY <1>3 DEF Newest, Pending
<1> QED BY <1>4

\* The server takes the first request from a wire.
LEMMA ServedShrinks ==
  ASSUME Typed, NEW c \in Sessions, Serve(c)
  PROVE  Shrinks /\ UNCHANGED <<session, home, pc, existed, verdict>> /\ wire[c][1] \in Pending
<1>1. /\ wire \in [Sessions -> Seq(Requests)] /\ wire[c] # <<>>
      /\ wire' = [wire EXCEPT ![c] = Tail(wire[c])]
  BY DEF Typed, Serve
<1>2. 1 \in 1..Len(wire[c])
  BY <1>1
<1> QED BY <1>1, <1>2 DEF Shrinks, Serve, Pending

LEMMA StepNewest == IInv /\ Alone /\ Alone' /\ Newest /\ [Next]_vars => Newest'
<1> SUFFICES ASSUME IInv, Alone, Alone', Newest, [Next]_vars PROVE Newest'
  OBVIOUS
<1>0. Typed
  BY DEF IInv
<1>a. \A r \in Pending : r.who \in Savers => r.step # "done"
  BY PendingFine DEF OfSave, Shape
<1>1. ASSUME NEW c \in Sessions, Serve(c) PROVE Newest'
  BY <1>0, <1>1, ServedShrinks, NewestShrinks
<1>2. CASE Fades
  BY <1>2, NewestShrinks DEF Fades
<1>3. CASE SweepsOn
  <2>1. CASE wire' = wire
    BY <1>3, <2>1, NewestShrinks DEF SweepsOn, Same, Shrinks
  <2>2. ASSUME NEW q \in Requests, q.who \notin Savers, Adds(q) PROVE Newest'
    BY <1>3, <2>2, NewestSent DEF SweepsOn, Same
  <2> QED BY <1>3, <2>1, <2>2 DEF SweepsOn
<1>4. ASSUME NEW s \in Savers, NEW q \in Requests, Sends(s, q) PROVE Newest'
  <2>1. \A r \in Pending : r.who \in Savers => pc'[r.who] # r.step
    BY <1>4, OneSaves
  <2> QED BY <1>4, <2>1, NewestSent DEF Sends
<1>5. ASSUME NEW s \in Savers, NEW v \in Verdicts, Stops(s, v) PROVE Newest'
  <2>1. \A t \in Savers : pc'[t] = pc[t] \/ pc'[t] = "done"
    BY <1>5 DEF Stops, Others, Same
  <2> QED BY <1>5, <1>a, <2>1, NewestShrinks DEF Stops, Shrinks
<1> QED BY <1>1, <1>2, <1>3, <1>4, <1>5, Kinds

\* Only its save writes to a temporary file.
LEMMA StepOwn == IInv /\ Alone /\ Own /\ [Next]_vars => Own'
<1> SUFFICES ASSUME IInv, Alone, Own, [Next]_vars PROVE Own'
  OBVIOUS
<1>0. fs \in [Names -> Contents]
  BY DEF IInv, Typed
<1>1. ASSUME NEW c \in Sessions, Serve(c) PROVE Own'
  <2> DEFINE q == wire[c][1]
  <2>1. fs' = fs \/ Executes(q)
    BY <1>1, Served
  <2> HIDE DEF q
  <2> SUFFICES ASSUME NEW s \in Savers PROVE fs'[Temp[s]] \in {Missing, Part(s), Whole(s)}
    BY DEF Own
  <2>2. /\ fs[Temp[s]] \in {Missing, Part(s), Whole(s)} /\ Temp[s] \in Names /\ Temp[s] # Target
        /\ \A t \in Savers : Temp[s] # Back[t] /\ (s # t => Temp[s] # Temp[t])
    BY NamesApart DEF Own
  <2>3. CASE Fills(q)
    <3>1. PICK x : x \in {Part(q.who), Whole(q.who)} /\ fs' = [fs EXCEPT ![Temp[q.who]] = x]
      BY <2>3 DEF Fills
    <3>2. CASE q.who = s
      <4>1. fs'[Temp[s]] = x
        BY <1>0, <2>2, <3>1, <3>2
      <4> QED BY <3>1, <3>2, <4>1
    <3>3. CASE q.who # s
      <4>1. Temp[q.who] # Temp[s]
        BY <2>2, <2>3, <3>3 DEF Fills
      <4>2. fs'[Temp[s]] = fs[Temp[s]]
        BY <1>0, <2>2, <3>1, <4>1
      <4> QED BY <2>2, <4>2
    <3> QED BY <3>2, <3>3
  <2>4. CASE Puts(q) \/ SetsAside(q) \/ PutsBack(q) \/ \E n \in Artifacts : Removes(q, n)
    <3>1. fs'[Temp[s]] = fs[Temp[s]] \/ fs'[Temp[s]] = Missing
      BY <1>0, <2>2, <2>4 DEF Puts, SetsAside, PutsBack, Moved, Removes
    <3> QED BY <2>2, <3>1
  <2> QED BY <2>1, <2>2, <2>3, <2>4 DEF Executes
<1>2. CASE ~(\E c \in Sessions : Serve(c))
  BY <1>2, Kinds DEF Own
<1> QED BY <1>1, <1>2

\* Once the server has answered the request a save waits for, no save has any pending.
LEMMA AnsweredIsLast ==
  ASSUME IInv, Alone, Newest, NEW c \in Sessions, Serve(c),
         wire[c][1].who \in Savers, pc[wire[c][1].who] = wire[c][1].step
  PROVE  \A r \in Pending' : r.who \notin Savers
<1> SUFFICES ASSUME NEW r \in Pending', r.who \in Savers PROVE FALSE
  OBVIOUS
<1>1. /\ wire \in [Sessions -> Seq(Requests)] /\ wire[c] # <<>> /\ session[c] = "up"
      /\ wire' = [wire EXCEPT ![c] = Tail(wire[c])]
  BY DEF IInv, Typed, Serve
<1>2. PICK d \in Sessions : \E i \in 1..Len(wire'[d]) : wire'[d][i] = r
  BY DEF Pending
<1>3. PICK i \in 1..Len(wire'[d]) : wire'[d][i] = r
  BY <1>2
<1>4. d = c
  <2>1. CASE d # c
    <3>1. wire'[d] = wire[d] /\ session[d] # "up"
      BY <1>1, <2>1 DEF Alone
    <3> QED BY <1>3, <3>1 DEF Alone
  <2> QED BY <2>1
<1>5. /\ i + 1 \in 1..Len(wire[c]) /\ 1 \in 1..Len(wire[c]) /\ 1 < i + 1
      /\ wire[c][i + 1] = r
  BY <1>1, <1>3, <1>4
<1> QED BY <1>5 DEF Newest

\* What a save has put in place stays until it has ended.
LEMMA StepThere ==
  IInv /\ Alone /\ Alone' /\ Newest /\ Own /\ There /\ [Next]_vars => There'
<1> SUFFICES ASSUME IInv, Alone, Alone', Newest, Own, There, [Next]_vars, NEW s \in Savers, Landed(s)'
    PROVE  /\ fs'[Target] = Whole(s)
           /\ \A r \in Pending' : r.who \in Savers => r.step = "unback"
  BY DEF There
<1>0. /\ Typed /\ fs \in [Names -> Contents] /\ Target \in Names /\ Target \notin Artifacts
      /\ outcome \in [Actors -> Outcomes] /\ s \in Actors
  BY NamesApart DEF IInv, Typed, Actors
<1>a. Landed(s) => /\ fs[Target] = Whole(s)
                   /\ \A r \in Pending : r.who \in Savers => r.step = "unback"
  BY DEF There
<1>1. ASSUME NEW c \in Sessions, Serve(c)
      PROVE  /\ fs'[Target] = Whole(s)
             /\ \A r \in Pending' : r.who \in Savers => r.step = "unback"
  <2> DEFINE q == wire[c][1]
  <2>1. /\ q \in Requests /\ (fs' = fs \/ Executes(q)) /\ q \in Pending
        /\ UNCHANGED pc /\ Quiet /\ Pending' \subseteq Pending
    BY <1>0, <1>1, Served, ServedShrinks, PendingShrinks DEF Serve
  <2>2. CASE pc[s] = "unback"
    <3> HIDE DEF q
    <3>1. Landed(s) /\ (q.who \in Savers => q.step = "unback")
      BY <1>a, <2>1, <2>2 DEF Landed
    <3>2. fs' = fs \/ \E n \in Artifacts : Removes(q, n)
      BY <2>1, <3>1 DEF Executes, Fills, Puts, SetsAside, PutsBack, Moved
    <3>3. fs'[Target] = fs[Target]
      BY <1>0, <3>2 DEF Removes
    <3> QED BY <1>a, <2>1, <3>1, <3>3
  <2>3. CASE pc[s] # "unback"
    <3>1. pc[s] \in {"swap", "place"} /\ outcome'[s] = "ok" /\ outcome[s] # "ok"
      BY <1>0, <2>1, <2>3 DEF Landed, Quiet
    <3>2. /\ q.who = s /\ pc[s] = q.step
          /\ q.step \in {"swap", "place"} /\ OfSave(q, c) => Puts(q)
      <4>1. \/ outcome' = outcome
            \/ /\ pc[q.who] = q.step
               /\ \E out \in {"ok", "missing", "refused"} :
                    /\ outcome' = [outcome EXCEPT ![q.who] = out]
                    /\ out = "ok" /\ q.step \in {"swap", "place"} /\ OfSave(q, c) => Puts(q)
        BY <1>1, Served
      <4> HIDE DEF q
      <4>2. q.who = s
        BY <1>0, <3>1, <4>1
      <4>3. q.who \in DOMAIN outcome
        BY <1>0, <4>2
      <4> QED BY <3>1, <4>1, <4>2, <4>3
    <3>3. \A r \in Pending' : r.who \notin Savers
      BY <1>1, <3>2, AnsweredIsLast
    <3>4. On(q, c)
      BY <1>1, Served DEF On
    <3> HIDE DEF q
    <3>5. Puts(q)
      BY <2>1, <3>1, <3>2, <3>4, Fines
    <3>6. Moving(s)
      BY <3>1, <3>2, <3>4 DEF On, Moving
    <3>7. /\ fs[Temp[s]] # Missing /\ Full(Temp[s]) /\ Temp[s] # Target /\ Temp[s] \in Names
          /\ fs[Temp[s]] \in {Missing, Part(s), Whole(s)}
      BY <3>2, <3>5, <3>6, NamesApart DEF Puts, Moved, IInv, Files, Filled, Own
    <3>8. fs[Temp[s]] = Whole(s)
      BY <3>7 DEF Full, Part
    <3>9. fs'[Target] = fs[Temp[s]]
      BY <1>0, <3>2, <3>5, <3>7 DEF Puts, Moved
    <3> QED BY <3>3, <3>8, <3>9
  <2> QED BY <2>2, <2>3
<1>2. ASSUME fs' = fs, Landed(s), Pending' \subseteq Pending
      PROVE  /\ fs'[Target] = Whole(s)
             /\ \A r \in Pending' : r.who \in Savers => r.step = "unback"
  BY <1>a, <1>2
<1>3. CASE fs' = fs /\ Fades
  <2>1. Landed(s)
    BY <1>3 DEF Fades, Landed
  <2> QED BY <1>0, <1>2, <1>3, <2>1, PendingShrinks DEF Fades
<1>4. CASE fs' = fs /\ SweepsOn
  <2>1. Landed(s)
    BY <1>4 DEF SweepsOn, Same, Landed
  <2>2. CASE wire' = wire
    BY <1>2, <1>4, <2>1, <2>2 DEF Pending
  <2>3. ASSUME NEW q \in Requests, q.who \notin Savers, Adds(q)
        PROVE  /\ fs'[Target] = Whole(s)
               /\ \A r \in Pending' : r.who \in Savers => r.step = "unback"
    BY <1>0, <1>a, <1>4, <2>1, <2>3, PendingSent
  <2> QED BY <1>4, <2>2, <2>3 DEF SweepsOn
<1>5. ASSUME fs' = fs, NEW t \in Savers, NEW q \in Requests, Sends(t, q)
      PROVE  /\ fs'[Target] = Whole(s)
             /\ \A r \in Pending' : r.who \in Savers => r.step = "unback"
  <2>1. Saving(t)' /\ Saving(s)'
    BY <1>5 DEF Sends, Saving, Shape, Landed
  <2>2. s = t
    BY <2>1 DEF Alone
  <2>3. q.step = "unback"
    BY <1>5, <2>2 DEF Sends, Landed
  <2>4. Landed(s)
    BY <1>5, <2>2, <2>3 DEF Sends, Follows, Landed
  <2>5. Pending' \subseteq Pending \cup {q}
    BY <1>0, <1>5, PendingSent DEF Sends
  <2> QED BY <1>a, <1>5, <2>3, <2>4, <2>5
<1>6. ASSUME fs' = fs, NEW t \in Savers, NEW v \in Verdicts, Stops(t, v)
      PROVE  /\ fs'[Target] = Whole(s)
             /\ \A r \in Pending' : r.who \in Savers => r.step = "unback"
  <2>1. Landed(s) /\ Pending' = Pending
    BY <1>6 DEF Stops, Others, Same, Landed, Pending
  <2> QED BY <1>2, <1>6, <2>1
<1> QED BY <1>1, <1>3, <1>4, <1>5, <1>6, Kinds
-----------------------------------------------------------------------------
\* A save has no request twice on the wire: what the server has just taken from it is not pending.
LEMMA TakenOnce ==
  ASSUME IInv, NEW c \in Sessions, Serve(c), wire[c][1].who \in Savers
  PROVE  \A r \in Pending' : r.who = wire[c][1].who => r.step # wire[c][1].step
<1> DEFINE q == wire[c][1]
<1> SUFFICES ASSUME NEW r \in Pending', r.who = q.who PROVE r.step # q.step
  OBVIOUS
<1>1. /\ wire \in [Sessions -> Seq(Requests)] /\ wire[c] # <<>>
      /\ wire' = [wire EXCEPT ![c] = Tail(wire[c])] /\ 1 \in 1..Len(wire[c]) /\ On(q, c)
  BY Served DEF IInv, Typed, Serve, On
<1>2. PICK d \in Sessions : \E i \in 1..Len(wire'[d]) : wire'[d][i] = r
  BY DEF Pending
<1>3. PICK i \in 1..Len(wire'[d]) : wire'[d][i] = r
  BY <1>2
<1>4. CASE d = c
  <2>1. i + 1 \in 1..Len(wire[c]) /\ 1 # i + 1 /\ wire[c][i + 1] = r
    BY <1>1, <1>3, <1>4
  <2>2. Apart(wire[c][1], wire[c][i + 1])
    BY <1>1, <2>1 DEF IInv, Wires
  <2> QED BY <2>1, <2>2 DEF Apart
<1>5. CASE d # c
  <2>1. On(r, d)
    BY <1>1, <1>3, <1>5 DEF On
  <2> HIDE DEF q
  <2>2. OfSave(r, d) /\ OfSave(q, c)
    BY <1>1, <2>1, Fines DEF q
  <2> QED BY <1>5, <2>2 DEF OfSave
<1> QED BY <1>4, <1>5

\* What the server does to a file that is absent afterwards: it was absent before, or has just
\* been moved aside.
LEMMA Absent ==
  ASSUME IInv, NEW q, fs' = fs \/ Executes(q), Full(Target)', ~fs'[Target].whole, Kept'
  PROVE  (Kept /\ ~fs[Target].whole) \/ (SetsAside(q) /\ fs' # fs)
<1>1. /\ fs \in [Names -> Contents] /\ Target \in Names /\ Target \notin Artifacts
      /\ \A s \in Savers : /\ Temp[s] \in Names /\ Back[s] \in Names
                           /\ Temp[s] # Target /\ Back[s] # Target
      /\ \A s, t \in Savers : Temp[s] # Back[t]
      /\ fs'[Target] = Missing
  BY NamesApart DEF IInv, Typed, Full
<1>2. PICK n \in {Target} \cup {Back[s] : s \in Savers} : fs'[n].whole
  BY DEF Kept
<1>3. n \in Names /\ n # Target /\ fs'[n] # Missing
  BY <1>1, <1>2 DEF Missing
<1>4. CASE fs' = fs
  BY <1>2, <1>4 DEF Kept
<1>5. CASE Fills(q)
  <2>1. PICK x : fs' = [fs EXCEPT ![Temp[q.who]] = x] /\ q.who \in Savers
    BY <1>5 DEF Fills
  <2>2. fs'[n] = fs[n] /\ fs'[Target] = fs[Target]
    BY <1>1, <1>2, <2>1
  <2> QED BY <1>2, <2>2 DEF Kept
<1>6. ASSUME NEW m \in Artifacts, Removes(q, m)
      PROVE  Kept /\ ~fs[Target].whole
  <2>1. fs'[n] = fs[n] /\ fs'[Target] = fs[Target]
    BY <1>1, <1>3, <1>6 DEF Removes
  <2> QED BY <1>2, <2>1 DEF Kept
<1>7. ~Puts(q) /\ ~PutsBack(q)
  BY <1>1 DEF Puts, PutsBack, Moved
<1>8. CASE SetsAside(q)
  BY <1>1, <1>8 DEF SetsAside, Moved
<1> QED BY <1>4, <1>5, <1>6, <1>7, <1>8 DEF Executes

\* If the file is missing, a save has said so or is going to.
LEMMA StepAdmitted ==
  IInv /\ Alone /\ Admitted /\ Files' /\ There' /\ [Next]_vars => Admitted'
<1> SUFFICES ASSUME IInv, Alone, Admitted, Files', There', [Next]_vars PROVE Admitted'
  OBVIOUS
<1>0. /\ Typed /\ outcome \in [Actors -> Outcomes] /\ Savers \subseteq Actors
      /\ existed \in [Savers -> BOOLEAN]
  BY DEF IInv, Typed, Actors, Alone
<1>1. ASSUME NEW c \in Sessions, Serve(c) PROVE Admitted'
  <2> DEFINE q == wire[c][1]
  <2>1. /\ q \in Requests /\ (fs' = fs \/ Executes(q)) /\ q \in Pending /\ On(q, c)
        /\ UNCHANGED <<pc, existed, verdict>> /\ Quiet /\ Pending' \subseteq Pending
        /\ \/ outcome' = outcome
           \/ /\ pc[q.who] = q.step
              /\ \E out \in {"ok", "missing", "refused"} :
                   /\ outcome' = [outcome EXCEPT ![q.who] = out]
                   /\ out # "ok" => fs' = fs
    BY <1>0, <1>1, Served, ServedShrinks, PendingShrinks DEF Serve, On
  <2>2. q.who \in Savers => \A r \in Pending' : r.who = q.who => r.step # q.step
    BY <1>1, TakenOnce
  <2> HIDE DEF q
  <2>3. \A s \in Savers : Asking(s, "aside")' /\ pc'[s] = "done" => Told(s)'
    BY <2>1 DEF Admitted, Asking, Told
  <2>4. ASSUME Kept', ~fs'[Target].whole PROVE \E s \in Savers : Told(s)' \/ Astray(s)'
    <3>1. CASE SetsAside(q) /\ fs' # fs
      <4>0. PICK s \in Savers : s = q.who
        BY <3>1 DEF SetsAside, Moved
      <4>1. q.step = "aside" /\ OfSave(q, c) /\ Asking(s, "aside")
        BY <2>1, <3>1, <4>0, Fines DEF SetsAside, Moved, Asking
      <4>2. pc[s] \in {"aside", "undo", "done"}
        BY <4>0, <4>1 DEF OfSave, Timely, Later
      <4>3. CASE pc[s] = "done"
        BY <2>1, <4>1, <4>3 DEF Admitted, Told
      <4>4. CASE pc[s] = "undo"
        BY <2>1, <4>4 DEF Astray
      <4>5. CASE pc[s] = "aside"
        <5>1. outcome'[s] # "missing"
          <6>1. outcome[s] # "missing" /\ s \in DOMAIN outcome
            BY <1>0, <2>1 DEF Quiet
          <6> QED BY <2>1, <3>1, <4>0, <6>1
        <5>2. ~Asking(s, "aside")'
          BY <2>2, <4>0, <4>1 DEF Asking
        <5>3. Astray(s)'
          BY <2>1, <4>5, <5>1, <5>2 DEF Astray
        <5> QED BY <5>3
      <4> QED BY <4>2, <4>3, <4>4, <4>5
    <3>2. CASE Kept /\ ~fs[Target].whole
      <4>1. PICK t \in Savers : Told(t) \/ Astray(t)
        BY <3>2 DEF Admitted
      <4>2. CASE Told(t)
        BY <2>1, <4>2 DEF Told
      <4>3. CASE pc[t] \in {"undo", "restore", "tidy"}
        BY <2>1, <4>3 DEF Astray
      <4>4. CASE pc[t] = "place" /\ existed[t]
        <5>1. Landed(t)' => fs'[Target] = Whole(t)
          BY DEF There
        <5>2. Whole(t).whole
          BY DEF Whole
        <5> QED BY <2>1, <2>4, <4>4, <5>1, <5>2 DEF Landed, Astray
      <4>5. CASE pc[t] = "aside" /\ outcome[t] # "missing" /\ ~Asking(t, "aside")
        <5>1. q.who # t \/ q.step # "aside"
          BY <2>1, <4>5 DEF Asking
        <5>2. outcome'[t] = outcome[t]
          BY <1>0, <2>1, <4>5, <5>1
        <5> QED BY <2>1, <4>5, <5>2 DEF Astray, Asking
      <4> QED BY <4>1, <4>2, <4>3, <4>4, <4>5 DEF Astray
    <3>3. Full(Target)'
      BY DEF Files
    <3> QED BY <2>1, <2>4, <3>1, <3>2, <3>3, Absent
  <2> QED BY <2>3, <2>4 DEF Admitted
<1>2. CASE ~(\E c \in Sessions : Serve(c))
  <2>0. fs' = fs /\ (Kept' <=> Kept)
    BY <1>2, Kinds DEF Kept
  <2>a. SUFFICES ASSUME NEW t \in Savers
                 PROVE  /\ Told(t) \/ Astray(t) => Told(t)' \/ Astray(t)'
                        /\ Asking(t, "aside")' /\ pc'[t] = "done" => Told(t)'
    BY <2>0 DEF Admitted
  <2>b. Asking(t, "aside") /\ pc[t] = "done" => Told(t)
    BY DEF Admitted
  <2> DEFINE Goal == /\ Told(t) \/ Astray(t) => Told(t)' \/ Astray(t)'
                     /\ Asking(t, "aside")' /\ pc'[t] = "done" => Told(t)'
  <2>1. ASSUME Same(t), Asking(t, "aside")' => Asking(t, "aside") PROVE Goal
    BY <2>1, <2>b DEF Same, Told, Astray
  <2>2. CASE Fades
    <3>1. Asking(t, "aside")' => Asking(t, "aside")
      BY <1>0, <2>2, PendingShrinks DEF Fades, Asking
    <3> QED BY <2>2, <2>b, <3>1 DEF Fades, Told, Astray
  <2>3. CASE SweepsOn
    <3>1. CASE wire' = wire
      BY <2>1, <2>3, <3>1 DEF SweepsOn, Asking, Pending
    <3>2. ASSUME NEW q \in Requests, q.who \notin Savers, Adds(q) PROVE Goal
      <4>1. Asking(t, "aside")' => Asking(t, "aside")
        BY <1>0, <3>2, PendingSent DEF Asking
      <4> QED BY <2>1, <2>3, <4>1 DEF SweepsOn
    <3> QED BY <2>3, <3>1, <3>2 DEF SweepsOn
  <2>4. ASSUME NEW s \in Savers, NEW q \in Requests, Sends(s, q) PROVE Goal
    <3>1. CASE t # s
      <4>1. Asking(t, "aside")' => Asking(t, "aside")
        BY <1>0, <2>4, <3>1, PendingSent DEF Sends, Asking
      <4> QED BY <2>1, <2>4, <3>1, <4>1 DEF Sends, Others
    <3>2. CASE t = s
      <4>1. pc'[t] # "done" /\ pc'[t] = q.step /\ pc[t] # "done" /\ outcome'[t] \in {"waiting", "lost"}
        BY <2>4, <3>2 DEF Sends, Shape, Going
      <4>2. ~Told(t)
        BY <4>1 DEF Alone, Told
      <4>3. ASSUME Astray(t) PROVE Astray(t)'
        <5>1. Going(t) /\ Follows(t, q.step) /\ Knows(t)
          BY <2>4, <3>2, <4>3 DEF Sends, Astray
        <5>2. CASE pc[t] \in {"undo", "restore", "tidy"}
          BY <4>1, <5>1, <5>2 DEF Follows, Astray
        <5>3. CASE pc[t] = "place" /\ existed[t] /\ outcome[t] # "ok"
          BY <4>1, <5>1, <5>3 DEF Follows, Astray
        <5>4. CASE pc[t] = "aside" /\ outcome[t] # "missing"
          <6>1. existed'[t]
            BY <1>0, <5>1, <5>4 DEF Knows
          <6>2. q.step \in {"place", "undo"}
            BY <5>1, <5>4 DEF Follows
          <6> QED BY <4>1, <6>1, <6>2 DEF Astray
        <5> QED BY <4>3, <5>2, <5>3, <5>4 DEF Astray
      <4> QED BY <4>1, <4>2, <4>3
    <3> QED BY <3>1, <3>2
  <2>5. ASSUME NEW s \in Savers, NEW v \in Verdicts, Stops(s, v) PROVE Goal
    <3>0. Pending' = Pending
      BY <2>5 DEF Stops, Pending
    <3>1. CASE t # s
      BY <2>1, <2>5, <3>0, <3>1 DEF Stops, Others, Asking
    <3>2. CASE t = s
      <4>1. pc[t] \notin {"idle", "done"} /\ Ends(t, v) /\ verdict'[t] = v
        BY <2>5, <3>2 DEF Stops, Going
      <4>2. ~Told(t)
        BY <4>1 DEF Alone, Told
      <4>3. Astray(t) => v \in {"unchanged", "stranded"}
        BY <4>1 DEF Astray, Ends
      <4>4. ASSUME Asking(t, "aside") PROVE v = "unchanged"
        <5>1. PICK r \in Pending : r.who = t /\ r.step = "aside"
          BY <4>4 DEF Asking
        <5>2. pc[t] \in {"aside", "undo"}
          BY <4>1, <5>1, PendingFine DEF OfSave, Timely, Later
        <5> QED BY <4>1, <5>2 DEF Ends
      <4> QED BY <3>0, <4>1, <4>2, <4>3, <4>4 DEF Told, Asking
    <3> QED BY <3>1, <3>2
  <2>6. \/ Fades \/ SweepsOn
        \/ \E s \in Savers, q \in Requests : Sends(s, q)
        \/ \E s \in Savers, v \in Verdicts : Stops(s, v)
    BY <1>2, Kinds
  <2> QED BY <2>2, <2>3, <2>4, <2>5, <2>6
<1> QED BY <1>1, <1>2

\* In one window all of it holds from the start and after every step.
LEMMA OneWindow == ASSUME ~Overlap PROVE Spec => []OneWindowInv
<1>1. OneWindowInv /\ [Next]_vars => OneWindowInv'
  <2> SUFFICES ASSUME OneWindowInv, [Next]_vars PROVE OneWindowInv'
    OBVIOUS
  <2>1. IInv' /\ Files'
    BY StepTyped, StepWires, StepFiles, StepSpared DEF OneWindowInv, IInv
  <2>2. Alone' /\ Own'
    BY StepAlone, StepOwn DEF OneWindowInv
  <2>3. Newest' /\ There'
    BY <2>2, StepNewest, StepThere DEF OneWindowInv
  <2>4. Admitted'
    BY <2>1, <2>3, StepAdmitted DEF OneWindowInv
  <2> QED BY <2>1, <2>2, <2>3, <2>4 DEF OneWindowInv
<1> QED BY InitOneWindow, <1>1, PTL DEF Spec

\* A save of safeReplace that resolves is the one whose content has the name of the file: no late
\* request of an earlier save can take its place. In one window, whatever fails or is given up on.
THEOREM SavedIsThereHolds == ASSUME ~Overlap PROVE Spec => SavedIsThere
<1> DEFINE Step == \A s \in Savers : verdict'[s] = "saved" /\ verdict[s] # "saved" =>
                                       fs[Target] = Whole(s)
<1>1. OneWindowInv /\ [Next]_vars => [Step]_vars
  <2> SUFFICES ASSUME OneWindowInv, [Next]_vars, NEW s \in Savers, verdict'[s] = "saved", verdict[s] # "saved"
      PROVE  fs[Target] = Whole(s)
    OBVIOUS
  <2>1. ~(\E c \in Sessions : Serve(c))
    BY DEF Serve
  <2>2. PICK t \in Savers, v \in Verdicts : Stops(t, v)
    BY <2>1, Kinds DEF OneWindowInv, Fades, SweepsOn, Same, Sends, Others
  <2>3. Landed(s)
    BY <2>2 DEF Stops, Others, Same, Ends, Landed
  <2> QED BY <2>3 DEF OneWindowInv, There
<1> QED BY <1>1, OneWindow, PTL DEF Spec, SavedIsThere

\* "Every failure leaves either the original or the new content in place, never nothing": a save
\* that resolves or fails with an ordinary error leaves a complete file, unless a save has said
\* that it could not move the original or put it back. In one window.
THEOREM NothingMissingSilentlyHolds == ASSUME ~Overlap PROVE Spec => NothingMissingSilently
<1> DEFINE Step == \A s \in Savers :
                     /\ verdict'[s] # verdict[s] /\ Kept
                     /\ \A t \in Savers : verdict'[t] \notin {"stranded", "unchanged"}
                     => fs'[Target].whole
<1>1. OneWindowInv /\ [Next]_vars => [Step]_vars
  <2> SUFFICES ASSUME OneWindowInv, [Next]_vars, NEW s \in Savers, verdict'[s] # verdict[s], Kept,
                      \A t \in Savers : verdict'[t] \notin {"stranded", "unchanged"}
      PROVE  fs'[Target].whole
    OBVIOUS
  <2>1. ~(\E c \in Sessions : Serve(c))
    BY DEF Serve
  <2>2. PICK u \in Savers, v \in Verdicts : Stops(u, v)
    BY <2>1, Kinds DEF OneWindowInv, Fades, SweepsOn, Same, Sends, Others
  <2>3. u = s /\ Stops(s, v) /\ v \in {"saved", "failed"} /\ fs' = fs
    BY <2>1, <2>2, Kinds DEF OneWindowInv, Stops, Others, Same, Ends
  <2>4. CASE v = "saved"
    <3>1. Landed(s)
      BY <2>3, <2>4 DEF Stops, Ends, Landed
    <3>2. fs[Target] = Whole(s)
      BY <3>1 DEF OneWindowInv, There
    <3>3. Whole(s).whole
      BY DEF Whole
    <3> QED BY <2>3, <3>2, <3>3
  <2>5. CASE v = "failed"
    <3>1. pc[s] \in {"open", "discard"} /\ Saving(s)
      BY <2>3, <2>5 DEF Stops, Ends, Saving
    <3>2. ASSUME NEW t \in Savers, Told(t) \/ Astray(t) PROVE FALSE
      <4>1. CASE t = s
        BY <3>1, <3>2, <4>1 DEF OneWindowInv, Alone, Told, Astray, Saving
      <4>2. CASE t # s
        <5>1. ~Saving(t) /\ verdict'[t] = verdict[t]
          BY <2>3, <3>1, <4>2 DEF OneWindowInv, Alone, Stops, Others, Same
        <5> QED BY <3>2, <5>1 DEF Told, Astray, Saving
      <4> QED BY <4>1, <4>2
    <3> QED BY <2>3, <3>2 DEF OneWindowInv, Admitted
  <2> QED BY <2>3, <2>4, <2>5
<1> QED BY <1>1, OneWindow, PTL DEF Spec, NothingMissingSilently
-----------------------------------------------------------------------------
\* A save swaps, or goes through a backup, as the server's capabilities have it.
Suits(step) == /\ step = "swap" => caps.posix
               /\ step \in {"aside", "undo", "place", "restore", "tidy", "unback"} => ~caps.posix
Strategy == /\ \A s \in Savers : Suits(pc[s])
            /\ \A r \in Pending : r.who \in Savers => Suits(r.step)

LEMMA CapsStay == [Next]_vars => caps' = caps
BY DEF Next, vars, Connect, Serve, Drop, SweepListed, SweepNext, GiveUp, Save, Advance

LEMMA StepStrategy == IInv /\ Alone /\ Strategy /\ [Next]_vars => Strategy'
<1> SUFFICES ASSUME IInv, Alone, Strategy, [Next]_vars PROVE Strategy'
  OBVIOUS
<1>0. Typed /\ caps' = caps
  BY CapsStay DEF IInv
<1>a. \A step : Suits(step)' <=> Suits(step)
  BY <1>0 DEF Suits
<1>1. ASSUME \A s \in Savers : pc'[s] = pc[s], Pending' \subseteq Pending PROVE Strategy'
  BY <1>0, <1>1 DEF Strategy, Suits
<1>2. ASSUME NEW c \in Sessions, Serve(c) PROVE Strategy'
  BY <1>0, <1>1, <1>2, ServedShrinks, PendingShrinks
<1>3. CASE Fades
  BY <1>0, <1>1, <1>3, PendingShrinks DEF Fades
<1>4. CASE SweepsOn
  <2>1. CASE wire' = wire
    BY <1>1, <1>4, <2>1 DEF SweepsOn, Same, Pending
  <2>2. ASSUME NEW q \in Requests, q.who \notin Savers, Adds(q) PROVE Strategy'
    <3>1. Pending' \subseteq Pending \cup {q}
      BY <1>0, <2>2, PendingSent
    <3> QED BY <1>0, <1>4, <2>2, <3>1 DEF SweepsOn, Same, Strategy, Suits
  <2> QED BY <1>4, <2>1, <2>2 DEF SweepsOn
<1>5. ASSUME NEW s \in Savers, NEW q \in Requests, Sends(s, q) PROVE Strategy'
  <2>1. Pending' \subseteq Pending \cup {q} /\ pc'[s] = q.step
        /\ \A t \in Savers : t # s => pc'[t] = pc[t]
    BY <1>0, <1>5, PendingSent DEF Sends, Others, Same
  <2>2. Suits(q.step)
    <3>1. CASE pc[s] = "idle" /\ q.step = "open"
      BY <3>1 DEF Suits
    <3>2. CASE Going(s) /\ Follows(s, q.step)
      BY <3>2 DEF Strategy, Suits, Follows
    <3> QED BY <1>5, <3>1, <3>2 DEF Sends
  <2> QED BY <1>0, <2>1, <2>2 DEF Strategy, Suits
<1>6. ASSUME NEW s \in Savers, NEW v \in Verdicts, Stops(s, v) PROVE Strategy'
  BY <1>0, <1>6 DEF Stops, Others, Same, Strategy, Suits, Pending
<1> QED BY <1>2, <1>3, <1>4, <1>5, <1>6, Kinds

-----------------------------------------------------------------------------
\* Touching in terms of what is pending.
Moves == {"swap", "aside", "place", "restore"}
LEMMA TouchingIs ==
  \A s : Touching(s) <=> \/ pc[s] \in {"open", "write", "fsync", "close", "aside"}
                         \/ pc[s] = "place" /\ outcome[s] # "ok"
                         \/ \E r \in Pending : r.who = s /\ r.step \in Moves
BY DEF Touching, Pending, Moves

\* A name of the directory holds nothing exactly if nobody wrote it.
LEMMA ByNobody ==
  ASSUME Typed, NEW n \in Names
  PROVE  fs[n].by = None <=> fs[n] = Missing
BY ReplaceAssumption DEF Typed, Contents, Missing, Whole, Part

\* Nothing but a new save comes to touch the file.
LEMMA LiveShrinks ==
  ASSUME \A r \in Pending' : r.who \in Savers => r \in Pending,
         \A s \in Savers : /\ pc'[s] \in {pc[s], "done"}
                           /\ \/ outcome'[s] = outcome[s] \/ outcome[s] = "waiting"
                              \/ pc'[s] = "done"
  PROVE  Live' \subseteq Live
<1> SUFFICES ASSUME NEW s \in Live' PROVE s \in Live
  OBVIOUS
<1>1. s \in Savers
  BY DEF Live
<1>2. \/ pc'[s] \in {"open", "write", "fsync", "close", "aside"}
      \/ pc'[s] = "place" /\ outcome'[s] # "ok"
      \/ \E r \in Pending' : r.who = s /\ r.step \in Moves
  BY DEF Live, Touching, Pending, Moves
<1>3. Touching(s)
  BY <1>1, <1>2, TouchingIs
<1> QED BY <1>1, <1>3 DEF Live

LEMMA InitFile == Init => File!Init
<1> SUFFICES ASSUME Init PROVE File!Init
  OBVIOUS
<1>1. Target \in Names /\ \A s \in Savers : Back[s] \in Names /\ Back[s] # Target
  BY NamesApart
<1>2. fs[Target].by \notin Savers /\ \A s \in Savers : fs[Back[s]].by = None
  BY <1>1, ReplaceAssumption DEF Init, Missing, Whole
<1>3. SetAside = {}
  BY <1>2 DEF SetAside
<1>4. \A s \in Savers : pc[s] = "idle"
  BY DEF Init, Actors
<1>5. Live = {} /\ Heard = [s \in Savers |-> "new"]
  BY <1>4 DEF Live, Touching, Heard, Init
<1>6. caps.posix \in BOOLEAN
  BY ReplaceAssumption DEF Init
<1> QED BY <1>2, <1>3, <1>5, <1>6 DEF File!Init

\* A name that no save keeps the original under is nothing to put back.
LEMMA AsideShrinks ==
  ASSUME \A s \in Savers : fs'[Back[s]].by \in {fs[Back[s]].by, None}
  PROVE  SetAside' \subseteq SetAside
BY DEF SetAside

\* A request that the server executes is a step of the file, or leaves it alone.
LEMMA ServeFile ==
  ASSUME OneWindowInv, Strategy, NEW c \in Sessions, Serve(c)
  PROVE  File!Next
<1> DEFINE q == wire[c][1]
<1>0. /\ IInv /\ Typed /\ Own /\ fs \in [Names -> Contents] /\ Target \in Names /\ None \notin Savers
      /\ \A s \in Savers : /\ Temp[s] \in Names /\ Back[s] \in Names
                           /\ Temp[s] # Target /\ Back[s] # Target
      /\ \A s, t \in Savers : Temp[s] # Back[t] /\ (s # t => Back[s] # Back[t])
      /\ Missing.by = None /\ Target \notin Artifacts
      /\ outcome \in [Actors -> Outcomes]
  BY NamesApart, ReplaceAssumption DEF OneWindowInv, IInv, Typed, Missing
<1>1. /\ q \in Requests /\ (fs' = fs \/ Executes(q)) /\ q \in Pending /\ On(q, c)
      /\ UNCHANGED <<pc, verdict, caps>> /\ Pending' \subseteq Pending
      /\ q.who \in Savers => /\ OfSave(q, c) /\ Suits(q.step)
                             /\ \A r \in Pending' : r.who = q.who => r.step # q.step
  <2>1. /\ q \in Requests /\ (fs' = fs \/ Executes(q)) /\ q \in Pending /\ On(q, c)
        /\ UNCHANGED <<pc, verdict, caps>> /\ Pending' \subseteq Pending
    BY <1>0, Served, ServedShrinks, PendingShrinks DEF Serve, On
  <2>2. q.who \in Savers => OfSave(q, c)
    BY <1>0, <2>1, Fines
  <2>3. q.who \in Savers => \A r \in Pending' : r.who = q.who => r.step # q.step
    BY <1>0, TakenOnce
  <2> QED BY <2>1, <2>2, <2>3 DEF Strategy
<1>2. Live' \subseteq Live /\ Heard' = Heard
  <2>1. \A s \in Savers : outcome'[s] = outcome[s] \/ outcome[s] = "waiting"
    <3>1. \/ outcome' = outcome
          \/ /\ outcome[q.who] = "waiting"
             /\ \E out \in {"ok", "missing", "refused"} : outcome' = [outcome EXCEPT ![q.who] = out]
      BY <1>0, Served
    <3>2. CASE outcome' = outcome
      BY <3>2
    <3>3. ASSUME NEW w, NEW out, outcome[w] = "waiting", outcome' = [outcome EXCEPT ![w] = out]
          PROVE  \A s \in Savers : outcome'[s] = outcome[s] \/ outcome[s] = "waiting"
      BY <1>0, <3>3
    <3> QED BY <3>1, <3>2, <3>3
  <2>2. Live' \subseteq Live
    BY <1>1, <2>1, LiveShrinks
  <2> QED BY <1>1, <2>2 DEF Heard
<1>3. q.who \in Savers /\ q.step \in Moves => q.who \in Live
  BY <1>1, TouchingIs DEF Live
<1> HIDE DEF q
<1>4. ASSUME fs'[Target] = fs[Target], \A s \in Savers : fs'[Back[s]] \in {fs[Back[s]], Missing}
      PROVE  File!Next
  <2>1. SetAside' \subseteq SetAside
    BY <1>0, <1>4, AsideShrinks
  <2> QED BY <1>1, <1>2, <1>4, <2>1 DEF File!Next, File!Fade, File!Remaining
<1>5. CASE Fills(q)
  BY <1>0, <1>4, <1>5 DEF Fills
<1>6. ASSUME NEW n \in Artifacts, Removes(q, n) PROVE File!Next
  BY <1>0, <1>4, <1>6 DEF Removes
<1>7. CASE Puts(q)
  <2>1. /\ q.who \in Savers /\ fs'[Target] = fs[Temp[q.who]] /\ fs[Temp[q.who]] # Missing
        /\ \A s \in Savers : fs'[Back[s]] = fs[Back[s]]
        /\ q.step = "swap" \/ (q.step = "place" /\ fs[Target] = Missing)
    BY <1>0, <1>7 DEF Puts, Moved
  <2>2. fs'[Target].by = q.who
    <3>1. fs[Temp[q.who]] \in {Part(q.who), Whole(q.who)}
      BY <1>0, <2>1 DEF Own
    <3> QED BY <2>1, <3>1 DEF Part, Whole
  <2>3. SetAside' \subseteq SetAside
    BY <2>1, AsideShrinks
  <2>4. IF caps.posix THEN q.who \notin Live' ELSE fs[Target].by = None
    <3>1. CASE caps.posix
      <4>1. q.step = "swap"
        BY <1>1, <2>1, <3>1 DEF Suits
      <4>2. PICK s \in Savers : s = q.who
        BY <2>1
      <4>3. pc'[s] \in {"swap", "discard", "done"}
        BY <1>1, <2>1, <4>1, <4>2 DEF OfSave, Timely, Later
      <4>4. ~(\E r \in Pending' : r.who = s /\ r.step \in Moves)
        BY <1>1, <2>1, <3>1, <4>1, <4>2 DEF Strategy, Suits, Moves
      <4>5. ~Touching(s)'
        BY <4>3, <4>4 DEF Touching, Pending, Moves
      <4> QED BY <3>1, <4>2, <4>5 DEF Live
    <3>2. CASE ~caps.posix
      BY <1>0, <1>1, <2>1, <3>2 DEF Suits
    <3> QED BY <3>1, <3>2
  <2>5. q.who \in Live
    BY <1>3, <2>1 DEF Moves
  <2>6. File!Take(q.who)
    BY <1>1, <1>2, <2>2, <2>3, <2>4, <2>5 DEF File!Take, File!Remaining
  <2> QED BY <2>1, <2>6 DEF File!Next
<1>8. CASE SetsAside(q)
  <2>1. /\ q.who \in Savers /\ ~caps.posix /\ q.step = "aside" /\ fs[Target] # Missing
        /\ fs'[Target] = Missing /\ fs'[Back[q.who]] = fs[Target]
        /\ \A s \in Savers : s # q.who => fs'[Back[s]] = fs[Back[s]]
    BY <1>0, <1>8 DEF SetsAside, Moved
  <2>2. SetAside' \subseteq SetAside \cup {fs[Target].by}
    BY <2>1 DEF SetAside
  <2>3. fs[Target].by # None /\ fs'[Target].by = None
    BY <1>0, <2>1, ByNobody
  <2>4. q.who \in Live
    BY <1>3, <2>1 DEF Moves
  <2>5. File!MoveAway(q.who)
    BY <1>1, <1>2, <2>1, <2>2, <2>3, <2>4 DEF File!MoveAway
  <2> QED BY <2>1, <2>5 DEF File!Next
<1>9. CASE PutsBack(q)
  <2>1. /\ q.who \in Savers /\ q.step = "restore" /\ fs[Target] = Missing
        /\ fs[Back[q.who]] # Missing /\ fs'[Target] = fs[Back[q.who]]
        /\ \A s \in Savers : fs'[Back[s]] \in {fs[Back[s]], Missing}
    BY <1>0, <1>9 DEF PutsBack, Moved
  <2>2. SetAside' \subseteq SetAside
    BY <1>0, <2>1, AsideShrinks
  <2>3. fs'[Target].by \in SetAside
    BY <1>0, <2>1, ByNobody DEF SetAside
  <2>4. ~caps.posix /\ q.who \in Live /\ fs[Target].by = None
    BY <1>0, <1>1, <1>3, <2>1 DEF Suits, Moves
  <2>5. File!PutBack(q.who)
    BY <1>1, <1>2, <2>2, <2>3, <2>4 DEF File!PutBack, File!Remaining
  <2> QED BY <2>1, <2>5 DEF File!Next
<1> QED BY <1>0, <1>1, <1>4, <1>5, <1>6, <1>7, <1>8, <1>9 DEF Executes

\* Every step of the saves of one window is a step of the file, or leaves it alone.
LEMMA StepFile == OneWindowInv /\ Strategy /\ [Next]_vars => [File!Next]_(File!vars)
<1> SUFFICES ASSUME OneWindowInv, Strategy, [Next]_vars PROVE File!Next
  BY DEF File!vars
<1>0. IInv /\ Typed /\ Alone /\ There /\ caps' = caps
  BY CapsStay DEF OneWindowInv, IInv
<1>1. ASSUME NEW c \in Sessions, Serve(c) PROVE File!Next
  BY <1>1, ServeFile
<1>2. CASE ~(\E c \in Sessions : Serve(c))
  <2>0. fs' = fs /\ SetAside' = SetAside
    BY <1>0, <1>2, Kinds DEF SetAside
  <2>1. ASSUME Live' \subseteq Live, Heard' = Heard PROVE File!Next
    BY <1>0, <2>0, <2>1 DEF File!Next, File!Fade, File!Remaining
  <2>2. CASE Fades
    <3>1. Pending' \subseteq Pending
      BY <1>0, <2>2, PendingShrinks DEF Fades
    <3>2. Live' \subseteq Live
      BY <2>2, <3>1, LiveShrinks DEF Fades
    <3> QED BY <2>1, <2>2, <3>2 DEF Fades, Heard
  <2>3. CASE SweepsOn
    <3>1. \A r \in Pending' : r.who \in Savers => r \in Pending
      <4>1. CASE wire' = wire
        BY <4>1 DEF Pending
      <4>2. ASSUME NEW q \in Requests, q.who \notin Savers, Adds(q)
            PROVE  \A r \in Pending' : r.who \in Savers => r \in Pending
        BY <1>0, <4>2, PendingSent
      <4> QED BY <2>3, <4>1, <4>2 DEF SweepsOn
    <3>2. Live' \subseteq Live
      BY <2>3, <3>1, LiveShrinks DEF SweepsOn, Same
    <3> QED BY <2>1, <2>3, <3>2 DEF SweepsOn, Same, Heard
  <2>4. ASSUME NEW s \in Savers, NEW q \in Requests, Sends(s, q) PROVE File!Next
    <3>1. /\ Pending \subseteq Pending' /\ Pending' \subseteq Pending \cup {q} /\ q.who = s
          /\ pc'[s] = q.step /\ q.step # "idle" /\ q.step # "done"
          /\ \A t \in Savers : t # s => /\ pc'[t] = pc[t] /\ outcome'[t] = outcome[t]
                                        /\ verdict'[t] = verdict[t]
      BY <1>0, <2>4, PendingSent DEF Sends, Others, Same, Shape
    <3>2. \A t \in Savers : t # s => (Touching(t)' <=> Touching(t))
      <4> SUFFICES ASSUME NEW t \in Savers, t # s PROVE Touching(t)' <=> Touching(t)
        OBVIOUS
      <4>1. Touching(t)' <=> \/ pc'[t] \in {"open", "write", "fsync", "close", "aside"}
                             \/ pc'[t] = "place" /\ outcome'[t] # "ok"
                             \/ \E r \in Pending' : r.who = t /\ r.step \in Moves
        BY DEF Touching, Pending, Moves
      <4> QED BY <3>1, <4>1, TouchingIs
    <3>3. CASE pc[s] = "idle" /\ q.step = "open"
      <4>1. Touching(s)'
        BY <3>1, <3>3 DEF Touching
      <4>2. Live' = Live \cup {s}
        BY <3>2, <4>1 DEF Live
      <4>3. Heard[s] = "new" /\ Heard' = [Heard EXCEPT ![s] = "busy"]
        BY <3>1, <3>3 DEF Heard
      <4>4. File!Begin(s)
        BY <1>0, <2>0, <4>2, <4>3 DEF File!Begin, File!Becomes
      <4> QED BY <4>4 DEF File!Next
    <3>4. CASE Going(s) /\ Follows(s, q.step)
      <4>1. Heard' = Heard
        BY <3>1, <3>4 DEF Heard, Going
      <4>2. ASSUME Touching(s)' PROVE Touching(s)
        <5>1. \/ pc'[s] \in {"open", "write", "fsync", "close", "aside"}
              \/ pc'[s] = "place" /\ outcome'[s] # "ok"
              \/ \E r \in Pending' : r.who = s /\ r.step \in Moves
          BY <4>2 DEF Touching, Pending, Moves
        <5>2. CASE \E r \in Pending : r.who = s /\ r.step \in Moves
          BY <5>2, TouchingIs
        <5>3. CASE q.step \in {"open", "write", "fsync", "close", "aside", "place", "swap", "restore"}
          <6>1. \/ pc[s] \in {"open", "write", "fsync", "close", "aside"}
                \/ pc[s] = "place" /\ outcome[s] # "ok"
            BY <3>4, <5>3 DEF Follows
          <6> QED BY <6>1, TouchingIs
        <5> QED BY <3>1, <5>1, <5>2, <5>3 DEF Moves
      <4>3. Live' \subseteq Live
        BY <3>2, <4>2 DEF Live
      <4> QED BY <2>1, <4>1, <4>3
    <3> QED BY <2>4, <3>3, <3>4 DEF Sends
  <2>5. ASSUME NEW s \in Savers, NEW v \in Verdicts, Stops(s, v) PROVE File!Next
    <3>1. /\ pc'[s] = "done" /\ verdict'[s] = v /\ pc[s] \notin {"idle", "done"} /\ Ends(s, v)
          /\ \A t \in Savers : t # s => Same(t)
      BY <2>5 DEF Stops, Others, Going
    <3>2. Pending' = Pending
      BY <2>5 DEF Stops, Pending
    <3>3. Live' \subseteq Live
      BY <3>1, <3>2, LiveShrinks DEF Same
    <3>4. Heard[s] = "busy" /\ Heard' = [Heard EXCEPT ![s] = v]
      BY <3>1 DEF Heard, Same
    <3>5. CASE v = "saved"
      <4>1. Landed(s)
        BY <3>1, <3>5 DEF Ends, Landed
      <4>2. fs[Target] = Whole(s) /\ \A r \in Pending : r.who \in Savers => r.step = "unback"
        BY <1>0, <4>1 DEF There
      <4>3. \A t \in Savers : t # s => pc[t] \in {"idle", "done"}
        BY <1>0, <3>1 DEF Alone, Saving
      <4>4. Live = {}
        <5>1. ASSUME NEW t \in Savers PROVE ~Touching(t)
          <6>1. ~(\E r \in Pending : r.who = t /\ r.step \in Moves)
            BY <4>2 DEF Moves
          <6>2. CASE t = s
            BY <4>1, <6>1, <6>2, TouchingIs DEF Landed
          <6>3. CASE t # s
            BY <4>3, <6>1, <6>3, TouchingIs
          <6> QED BY <6>2, <6>3
        <5> QED BY <5>1 DEF Live
      <4>5. fs[Target].by = s
        BY <4>2 DEF Whole
      <4>6. File!Succeed(s)
        BY <1>0, <2>0, <3>3, <3>4, <3>5, <4>4, <4>5 DEF File!Succeed, File!Becomes
      <4> QED BY <4>6 DEF File!Next
    <3>6. CASE v # "saved"
      <4>1. v \in {"failed", "unchanged", "stranded"}
        BY <3>1, <3>6 DEF Ends
      <4>2. File!Fail(s)
        BY <1>0, <2>0, <3>3, <3>4, <4>1 DEF File!Fail, File!Becomes, File!Remaining
      <4> QED BY <4>2 DEF File!Next
    <3> QED BY <3>5, <3>6
  <2> QED BY <1>0, <1>2, <2>2, <2>3, <2>4, <2>5, Kinds
<1> QED BY <1>1, <1>2

\* The saves of one window replace the file as ReplacedFile has it: its content is one save's at a
\* time, it changes in one step where the server can do that, and a save that has reported success
\* has left no earlier one, however it ended, able to touch the file.
THEOREM ImplementsFileHolds == ASSUME ~Overlap PROVE Spec => ImplementsFile
<1>1. Init => Strategy
  <2> SUFFICES ASSUME Init PROVE Strategy
    OBVIOUS
  <2>1. \A s \in Savers : pc[s] = "idle"
    BY DEF Init, Actors
  <2>2. Pending = {}
    BY DEF Init, Pending
  <2> QED BY <2>1, <2>2 DEF Strategy, Suits
<1>2. OneWindowInv /\ Strategy /\ [Next]_vars => Strategy'
  BY StepStrategy DEF OneWindowInv
<1> QED BY <1>1, <1>2, OneWindow, InitFile, StepFile, PTL DEF Spec, ImplementsFile, File!Spec
=============================================================================
