------------------------------ MODULE Transfers ------------------------------
(***************************************************************************)
(* The transfer loops of SftpClient: readFile and writeAll, which move a    *)
(* whole file in chunks with a window of requests in flight, and the chunk  *)
(* sizes of ServerCapabilities.                                            *)
(*                                                                         *)
(* A request is one step from its issue to its outcome here; SftpClient has *)
(* what happens to it in between. Offsets count units of data.             *)
(***************************************************************************)
EXTENDS Integers, FiniteSets, FiniteSetsExt

CONSTANTS Totals,      \* the sizes a transfer may have
          Lengths,     \* the sizes the file on the server may have when it is read
          Window,      \* #maxInFlight
          Fallback,    \* the chunk size without limits@openssh.com
          ServerMax,   \* the most a server moves in one request
          Unlimited    \* limits@openssh.com: not answered, or no limit given

ASSUME TransfersAssumption ==
  /\ Totals \subseteq Nat /\ Lengths \subseteq Nat
  /\ Window \in Nat \ {0} /\ Fallback \in Nat \ {0} /\ ServerMax \in Nat \ {0}
  /\ Unlimited = 0

VARIABLES kind,     \* readFile or writeAll
          total,    \* how much it moves
          length,   \* how much the file on the server has
          limit,    \* maxReadLength or maxWriteLength, as far as the client knows
          next,     \* nextOffset
          active,   \* the offsets of the requests in flight
          failure,  \* whether one has failed
          woken,    \* whether one has settled since the loop last ran
          moved,    \* the offsets filled in the buffer, or written to the file
          aborted,  \* whether the caller's AbortSignal has fired
          result    \* what the caller gets

job == <<kind, total, length, limit>>
vars == <<job, next, active, failure, woken, moved, aborted, result>>

Least(a, b) == Min({a, b})

\* Slip: no limit given is taken for a limit.
Chunk_Zero == Least(Fallback, limit + 1)

\* readChunkSize and writeChunkSize
Chunk == IF limit = Unlimited THEN Fallback ELSE Least(Fallback, limit)

\* What the request at offset o asks for.
Slot(o) == o..(Least(o + Chunk, total) - 1)

\* The offsets pump() would issue next: as many as the window has room for.
Room == Window - Cardinality(active)
Fresh == {o \in next..(total - 1) : (o - next) % Chunk = 0 /\ o < next + Room * Chunk}

-----------------------------------------------------------------------------
Init == /\ kind \in {"read", "write"}
        /\ total \in Totals
        /\ length \in IF kind = "read" THEN Lengths ELSE {0}
        /\ limit \in {Unlimited, ServerMax}
        /\ next = 0 /\ active = {} /\ moved = {}
        /\ failure = FALSE /\ aborted = FALSE
        /\ woken = TRUE
        /\ result = "running"

\* pump(): nothing after a failure.
Pump == LET issued == IF failure THEN {} ELSE Fresh IN
        /\ active' = active \cup issued
        /\ next' = IF issued = {} THEN next ELSE Least(Max(issued) + Chunk, total)

\* Slip: a failure ends the loop at once, with requests still in flight.
Loop_Hasty ==
  /\ result = "running" /\ woken
  /\ woken' = FALSE
  /\ Pump
  /\ result' = CASE failure \/ (active' = {} /\ aborted) -> "threw"
                 [] ~failure /\ ~aborted /\ active' = {} -> "returned"
                 [] OTHER -> result
  /\ UNCHANGED <<job, failure, moved, aborted>>

\* The loop runs at first, and whenever its Promise.race has settled: it pumps, and when
\* nothing is in flight it ends.
Loop ==
  /\ result = "running" /\ woken
  /\ woken' = FALSE
  /\ Pump
  /\ result' = CASE active' # {} -> result
                 [] active' = {} /\ (failure \/ aborted) -> "threw"
                 [] OTHER -> "returned"
  /\ UNCHANGED <<job, failure, moved, aborted>>

Settles(o) == /\ o \in active
              /\ active' = active \ {o}
              /\ woken' = TRUE
              /\ UNCHANGED <<job, next, aborted, result>>

\* A READ is answered with data, at most what the server moves at once, or with EOF; a
\* WRITE with its success.
Answered(o) ==
  /\ ~aborted
  /\ Settles(o)
  /\ \/ /\ kind = "read"
        /\ moved' = moved \cup {i \in Slot(o) : i < length /\ i < o + ServerMax}
     \/ kind = "write" /\ moved' = moved \cup Slot(o)
  /\ UNCHANGED failure

\* Slip: a request that fails does not settle what the loop waits for.
Failed_Silent(o) == /\ o \in active
                    /\ active' = active \ {o}
                    /\ failure' = TRUE
                    /\ UNCHANGED <<job, next, woken, moved, aborted, result>>

\* It is refused, or times out, or the channel dies; a WRITE may have been performed.
Failed(o) ==
  /\ Settles(o)
  /\ failure' = TRUE
  /\ \/ UNCHANGED moved
     \/ kind = "write" /\ moved' = moved \cup Slot(o)

\* The signal fires: every request in flight is rejected, and later ones are.
Abort ==
  /\ result = "running" /\ ~aborted
  /\ aborted' = TRUE
  /\ failure' = (failure \/ active # {})
  /\ active' = {}
  /\ woken' = (woken \/ active # {})
  /\ UNCHANGED <<job, next, moved, result>>

Next == \/ Loop \/ Abort
        \/ \E o \in active : Answered(o) \/ Failed(o)

Spec == Init /\ [][Next]_vars

\* Promises settle: the loop goes on, and every request has an outcome, by its timeout if
\* by nothing else (SftpClient: InFlightSettles).
Fairness == /\ WF_vars(Loop)
            /\ WF_vars(\E o \in active : Answered(o) \/ Failed(o))
FairSpec == Spec /\ Fairness

-----------------------------------------------------------------------------
Ended == result # "running"

\* Every variable has its type, and the window is kept. (An aid when the model is changed:
\* no run lists it.)
TypeOK ==
  /\ next \in 0..total
  /\ active \subseteq 0..(next - 1) /\ Cardinality(active) <= Window
  /\ moved \subseteq 0..(total - 1)
  /\ failure \in BOOLEAN /\ woken \in BOOLEAN /\ aborted \in BOOLEAN
  /\ result \in {"running", "returned", "threw"}

\* When writeAll returns, the whole content is on the server (safeReplace renames it into
\* place next), and when it returns or throws nothing of it is in flight any more
\* (writeTemporary closes the handle next).
WrittenIsComplete ==
  kind = "write" => /\ result = "returned" => moved = 0..(total - 1)
                    /\ Ended => active = {}

\* When readFile returns, the buffer has all that the file has, up to the size asked for:
\* from a server that told its limits. "EOF on a high-offset slot does not mean lower
\* offsets are done".
Present == 0..(Least(total, length) - 1)
ReadIsComplete ==
  kind = "read" /\ result = "returned" /\ limit # Unlimited => Present \subseteq moved

\* What a transfer returns is the whole of it, in either direction.
TransferIsWhole == WrittenIsComplete /\ ReadIsComplete

\* No run checks this, and it is false: a reply shorter than its slot leaves zeros behind it.
\* "a short read is normal and does NOT signal EOF": from any server.
ShortReadsAreNormal == kind = "read" /\ result = "returned" => Present \subseteq moved

\* A transfer ends, whatever comes of its requests.
TransferEnds == <>Ended
=============================================================================
