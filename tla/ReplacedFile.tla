---------------------------- MODULE ReplacedFile ----------------------------
(***************************************************************************)
(* What safeReplace promises to the one session that saves a file, without  *)
(* temporary files, requests or outcomes: the content is that of one save   *)
(* at a time, it changes at once where the server can do that, and a save   *)
(* that has succeeded is final: nothing begun before it can change the file *)
(* any more.                                                               *)
(***************************************************************************)
CONSTANTS Savers,  \* saves of the file
          None     \* the content of a file that is not there

VARIABLES atomic,   \* whether the server replaces a file in one step
          content,  \* whose content the file has
          aside,    \* whose content is under another name, to be put back
          live,     \* the saves that may yet touch the file
          told      \* what is known of each save

vars == <<atomic, content, aside, live, told>>

Init == /\ atomic \in BOOLEAN /\ content \notin Savers /\ aside = {} /\ live = {}
        /\ told = [s \in Savers |-> "new"]

Becomes(s, v) == told' = [told EXCEPT ![s] = v]
Remaining == live' \subseteq live /\ aside' \subseteq aside

Begin(s) == /\ told[s] = "new" /\ Becomes(s, "busy")
            /\ live' = live \cup {s}
            /\ UNCHANGED <<atomic, content, aside>>

\* The content of s takes the file's place, at once or once the name is free.
Take(s) == /\ s \in live /\ content' = s /\ Remaining
           /\ IF atomic THEN s \notin live' ELSE content = None
           /\ UNCHANGED <<atomic, told>>

\* Only where the file cannot be replaced in one step is it ever taken away, and put back.
MoveAway(s) == /\ ~atomic /\ s \in live
               /\ content # None /\ content' = None /\ aside' \subseteq aside \cup {content}
               /\ live' \subseteq live
               /\ UNCHANGED <<atomic, told>>

PutBack(s) == /\ ~atomic /\ s \in live
              /\ content = None /\ content' \in aside /\ Remaining
              /\ UNCHANGED <<atomic, told>>

\* A save, or what it kept aside, is past doing anything.
Fade == Remaining /\ UNCHANGED <<atomic, content, told>>

\* Success is final; a save that failed may yet touch the file, until the next success.
Succeed(s) == /\ told[s] = "busy" /\ Becomes(s, "saved")
              /\ content = s /\ live = {}
              /\ UNCHANGED <<atomic, content, aside, live>>

Fail(s) == /\ told[s] = "busy" /\ \E v \in {"failed", "unchanged", "stranded"} : Becomes(s, v)
           /\ Remaining /\ UNCHANGED <<atomic, content>>

Next == \/ Fade
        \/ \E s \in Savers : \/ Begin(s) \/ Take(s) \/ MoveAway(s) \/ PutBack(s)
                             \/ Succeed(s) \/ Fail(s)

Spec == Init /\ [][Next]_vars
=============================================================================
