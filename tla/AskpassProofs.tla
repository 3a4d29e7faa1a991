---------------------------- MODULE AskpassProofs ----------------------------
(* The safety of the prompts, for any number of helpers, ports and attempts. *)
EXTENDS Askpass, TLAPS

Answered == {"none", "dismissed", "cut", "refused"}

\* What is known of one helper. What it has been told is what the user said; nothing is told
\* before its handler has ended, and nothing is written before it has ended itself.
Order(h) ==
  /\ stage[h] \in {"none", "connect"} => handler[h] = "none" /\ h \notin linked
  /\ handler[h] \in {"reading"} \cup Asking => of[h] = peer[h]
  /\ handler[h] # "ended" => reply[h] = "none"
  /\ reply[h] \notin Answered => said[h] = reply[h]
  /\ stage[h] # "ended" => stdout[h] = "none" /\ code[h] = -1

Wrote(h) == /\ stdout[h] # "none" => /\ handler[h] = "ended"
                                     /\ stdout[h] = said[h] /\ said[h] # "dismissed"
            /\ code[h] = 0 <=> stdout[h] # "none"

\* Its connection is to a server that is up, or has been; and its body is small enough.
Reached(h) == /\ h \in linked => peer[h] \in Attempts /\ server[peer[h]] = "up"
              /\ stage[h] = "wait" => /\ peer[h] \in Attempts
                                      /\ server[peer[h]] \in {"up", "stopped"}
              /\ stage[h] \in {"connect", "wait"} => asks[h].size <= MaxRequest
              /\ handler[h] # "none" => stage[h] \in {"wait", "ended"}
              /\ got[h] <= asks[h].size
              /\ peer[h] # 0 /\ of[h] = peer[h] /\ stage[h] = "wait" /\ server[peer[h]] = "up"
                   => h \in linked /\ reply[h] # "refused"

\* A server that starts or is up is the one of the attempt in progress.
OneServer == \A a \in Attempts : server[a] \in {"starting", "up"} => attempt = a

IInv == TypeOK /\ OneServer /\ \A h \in Helpers : Order(h) /\ Wrote(h) /\ Reached(h)

-----------------------------------------------------------------------------
\* The invariant holds of the state the extension starts in.
LEMMA InitIInv == Init => IInv
<1> SUFFICES ASSUME Init PROVE IInv
  OBVIOUS
<1> USE AskpassAssumption DEF Init
<1>1. TypeOK
  <2>1. asks \in [Helpers -> [prompt : Prompts, hint : Hints, size : Nat]]
    <3>1. [prompt : Prompts, hint : Hints, size : Sizes]
            \subseteq [prompt : Prompts, hint : Hints, size : Nat]
      OBVIOUS
    <3> QED BY <3>1
  <2> QED BY <2>1 DEF TypeOK, Replies
<1>2. OneServer
  BY DEF OneServer
<1>3. \A h \in Helpers : Order(h) /\ Wrote(h) /\ Reached(h)
  BY <1>1 DEF Order, Wrote, Reached, TypeOK, Asking, Answered
<1> QED BY <1>1, <1>2, <1>3 DEF IInv

\* Every step keeps the types.
LEMMA StepTypeOK == IInv /\ [Next]_vars => TypeOK'
<1> SUFFICES ASSUME IInv, [Next]_vars PROVE TypeOK'
  OBVIOUS
<1> USE AskpassAssumption DEF IInv
<1>r. ASSUME NEW h \in Helpers, NEW text \in Replies, Respond(h, text)
      PROVE  reply' \in [Helpers -> Replies]
  BY <1>r DEF TypeOK, Respond
<1>1. ASSUME NEW a \in Attempts,
             Establish(a) \/ Start(a) \/ StartFails(a) \/ Finish(a) \/ SshExits(a)
      PROVE  TypeOK'
  <2>1. CASE Establish(a)  BY <2>1 DEF TypeOK, Establish, Attempts, served, ran
  <2>2. CASE Start(a)      BY <2>2 DEF TypeOK, Start, served, ran
  <2>3. CASE StartFails(a) BY <2>3 DEF TypeOK, StartFails, served, ran
  <2>4. CASE Finish(a)     BY <2>4 DEF TypeOK, Finish, Closing, Asking, Replies, ran
  <2>5. CASE SshExits(a)   BY <2>5 DEF TypeOK, SshExits, served, ran
  <2> QED BY <1>1, <2>1, <2>2, <2>3, <2>4, <2>5
<1>2. ASSUME NEW a \in Attempts, NEW h \in Helpers, Run(h, a) PROVE TypeOK'
  <2>1. stage' \in [Helpers -> {"none", "connect", "wait", "ended"}]
    BY <1>2 DEF TypeOK, Run, Exit
  <2>2. of' \in [Helpers -> 0..MaxAttempts]
    BY <1>2 DEF TypeOK, Run, Attempts
  <2>3. stdout' \in [Helpers -> Replies] /\ code' \in [Helpers -> -1..1]
    <3>1. Exit(h, "none") \/ UNCHANGED ran
      BY <1>2 DEF Run
    <3>2. CASE Exit(h, "none") BY <3>2 DEF TypeOK, Exit, Replies
    <3>3. CASE UNCHANGED ran   BY <3>3 DEF TypeOK, ran
    <3> QED BY <3>1, <3>2, <3>3
  <2> QED BY <1>2, <2>1, <2>2, <2>3 DEF TypeOK, Run, served
<1>3. ASSUME NEW h \in Helpers, Helper(h) PROVE TypeOK'
  <2>1. CASE Connect(h)      BY <2>1 DEF TypeOK, Connect, Listeners, Attempts, ran
  <2>2. CASE ConnectFails(h) BY <2>2 DEF TypeOK, ConnectFails, Exit, served, Replies
  <2>3. CASE Read(h)         BY <2>3 DEF TypeOK, Read, Exit, Parsed, served, Replies
  <2>4. CASE TimesOut(h)     BY <2>4 DEF TypeOK, TimesOut, Exit, Replies
  <2> QED BY <1>3, <2>1, <2>2, <2>3, <2>4 DEF Helper
<1>4. ASSUME NEW h \in Helpers, Serve(h) PROVE TypeOK'
  <2>1. CASE Request(h)
    <3>1. reply' \in [Helpers -> Replies]
      <4>1. Respond(h, "refused") \/ UNCHANGED reply
        BY <2>1 DEF Request
      <4>2. "refused" \in Replies
        BY DEF Replies
      <4> QED BY <4>1, <4>2, <1>r DEF TypeOK
    <3>2. handler' \in [Helpers -> {"none", "request", "reading", "ended"} \cup Asking]
      BY <2>1 DEF TypeOK, Request
    <3> QED BY <2>1, <3>1, <3>2 DEF TypeOK, Request, ran
  <2>2. CASE Data(h)    BY <2>2 DEF TypeOK, Data, ran
  <2>3. CASE Ask(h)     BY <2>3 DEF TypeOK, Ask, Classified, Asking, ran
  <2> QED BY <1>4, <2>1, <2>2, <2>3 DEF Serve
<1>5. ASSUME NEW h \in Helpers, NEW text \in Says(handler[h]), Answer(h, text) PROVE TypeOK'
  <2>1. text \in Replies
    BY DEF Says, Replies
  <2>2. reply' \in [Helpers -> Replies]
    BY <1>5, <2>1, <1>r DEF Answer
  <2>3. said' \in [Helpers -> Replies]
    BY <1>5, <2>1 DEF TypeOK, Answer
  <2> QED BY <1>5, <2>2, <2>3 DEF TypeOK, Answer, ran
<1>6. CASE UNCHANGED vars
  BY <1>6 DEF TypeOK, vars, served, ran
<1> QED BY <1>1, <1>2, <1>3, <1>4, <1>5, <1>6 DEF Next

\* Every step keeps the server that is up the one of the attempt in progress.
LEMMA StepOneServer == IInv /\ [Next]_vars => OneServer'
<1> SUFFICES ASSUME IInv, [Next]_vars PROVE OneServer'
  OBVIOUS
<1> USE DEF IInv, TypeOK, OneServer
<1>1. ASSUME NEW a \in Attempts,
             Establish(a) \/ Start(a) \/ StartFails(a) \/ Finish(a) \/ SshExits(a)
      PROVE  OneServer'
  <2>1. CASE Establish(a)  BY <2>1 DEF Establish, Attempts
  <2>2. CASE Start(a)      BY <2>2 DEF Start
  <2>3. CASE StartFails(a) BY <2>3 DEF StartFails
  <2>4. CASE Finish(a)     BY <2>4 DEF Finish
  <2>5. CASE SshExits(a)   BY <2>5 DEF SshExits
  <2> QED BY <1>1, <2>1, <2>2, <2>3, <2>4, <2>5
<1>2. ASSUME UNCHANGED <<attempt, server>> PROVE OneServer'
  BY <1>2
<1> QED
  BY <1>1, <1>2 DEF Next, Run, Helper, Connect, ConnectFails, Read, TimesOut, Serve, Request,
                    Data, Ask, Answer, vars

\* What another helper does leaves this one's part of the state as it was.
Same(g) == UNCHANGED <<stage[g], of[g], asks[g], peer[g], g \in linked, handler[g], got[g], reply[g],
                       stdout[g], code[g], said[g]>>

\* Every step keeps what is known of a helper.
LEMMA StepHelper == IInv /\ [Next]_vars => (\A g \in Helpers : Order(g) /\ Wrote(g) /\ Reached(g))'
<1> SUFFICES ASSUME IInv, [Next]_vars, NEW g \in Helpers
             PROVE  (Order(g) /\ Wrote(g) /\ Reached(g))'
  OBVIOUS
<1> USE AskpassAssumption DEF IInv
<1> DEFINE Known == Order(g) /\ Wrote(g) /\ Reached(g)
<1>0. Known
  OBVIOUS
<1>s. ASSUME Same(g), \/ UNCHANGED server
                      \/ \E a \in Attempts : /\ server[a] \in {"none", "starting"}
                                             /\ \E x : server' = [server EXCEPT ![a] = x]
      PROVE  Known'
  BY <1>0, <1>s DEF Same, Order, Wrote, Reached, TypeOK, Attempts
<1>1. ASSUME NEW a \in Attempts, Finish(a) PROVE Known'
  <2>1. CASE peer[g] = a
    <3>1. g \in Closing(a)
      BY <2>1 DEF Closing
    <3>2. /\ g \notin linked' /\ UNCHANGED <<stage[g], of[g], asks[g], peer[g], got[g], stdout[g], code[g],
                                        said[g]>>
          /\ reply'[g] = reply[g] \/ (reply'[g] = "cut" /\ reply[g] # "none")
          /\ handler'[g] = IF handler[g] \in {"request", "reading"} THEN "ended" ELSE handler[g]
          /\ server'[a] = "stopped"
      BY <1>1, <3>1 DEF Finish, TypeOK, ran
    <3> QED BY <1>0, <2>1, <3>2 DEF Order, Wrote, Reached, TypeOK, Answered, Asking, Attempts
  <2>2. CASE peer[g] # a
    <3>1. g \notin Closing(a)
      BY <2>2 DEF Closing
    <3>2. Same(g)
      BY <1>1, <3>1 DEF Finish, TypeOK, Same, ran
    <3>3. \A b \in Attempts : b # a => server'[b] = server[b]
      BY <1>1 DEF Finish, TypeOK
    <3> QED BY <1>0, <2>2, <3>2, <3>3 DEF Same, Order, Wrote, Reached, TypeOK, Attempts
  <2> QED BY <2>1, <2>2
<1>2. ASSUME NEW a \in Attempts, Establish(a) \/ Start(a) \/ StartFails(a) \/ SshExits(a)
      PROVE  Known'
  <2>1. Same(g)
    BY <1>2 DEF Establish, Start, StartFails, SshExits, Same, served, ran
  <2>2. \/ UNCHANGED server
        \/ /\ server[a] \in {"none", "starting"}
           /\ \E x : server' = [server EXCEPT ![a] = x]
    BY <1>2 DEF Establish, Start, StartFails, SshExits
  <2> QED BY <1>s, <2>1, <2>2
<1>3. ASSUME NEW h \in Helpers, h # g,
             \/ Helper(h) \/ Serve(h) \/ \E a \in Attempts : Run(h, a)
             \/ \E text \in Says(handler[h]) : Answer(h, text)
      PROVE  Known'
  <2>1. Same(g)
    BY <1>3 DEF Run, Helper, Connect, ConnectFails, Read, TimesOut, Exit, Serve, Request, Respond,
                Data, Ask, Answer, Same, served, ran, TypeOK
  <2>2. UNCHANGED server
    BY <1>3 DEF Run, Helper, Connect, ConnectFails, Read, TimesOut, Serve, Request, Data, Ask, Answer
  <2> QED BY <1>s, <2>1, <2>2
<1>4. ASSUME NEW a \in Attempts, Run(g, a) PROVE Known'
  BY <1>0, <1>4 DEF Run, Exit, served, ran, Order, Wrote, Reached, TypeOK, Asking, Answered
<1>5. CASE Helper(g)
  <2>1. CASE Connect(g)
    BY <1>0, <2>1 DEF Connect, Listeners, ran, Order, Wrote, Reached, TypeOK, Asking, Answered
  <2>2. CASE ConnectFails(g)
    BY <1>0, <2>2 DEF ConnectFails, Exit, served, Order, Wrote, Reached, TypeOK
  <2>3. CASE Read(g)
    BY <1>0, <2>3 DEF Read, Exit, Parsed, served, Order, Wrote, Reached, TypeOK, Answered
  <2>4. CASE TimesOut(g)
    BY <1>0, <2>4 DEF TimesOut, Patience, Exit, Order, Wrote, Reached, TypeOK, Asking
  <2> QED BY <1>5, <2>1, <2>2, <2>3, <2>4 DEF Helper
<1>6. CASE Serve(g)
  <2>1. CASE Request(g)
    BY <1>0, <2>1 DEF Request, Rejects, Respond, ran, Order, Wrote, Reached, TypeOK, Asking, Answered
  <2>2. CASE Data(g)
    BY <1>0, <2>2 DEF Data, TooLarge, ran, Order, Wrote, Reached, TypeOK, Asking, Answered
  <2>3. CASE Ask(g)
    BY <1>0, <2>3 DEF Ask, Classified, ran, Order, Wrote, Reached, TypeOK, Asking, Answered
  <2> QED BY <1>6, <2>1, <2>2, <2>3 DEF Serve
<1>7. ASSUME NEW text \in Says(handler[g]), Answer(g, text) PROVE Known'
  BY <1>0, <1>7 DEF Answer, Says, Respond, ran, Order, Wrote, Reached, TypeOK, Asking, Answered
<1>8. CASE UNCHANGED vars
  BY <1>s, <1>8 DEF vars, served, ran, Same
<1> QED BY <1>1, <1>2, <1>3, <1>4, <1>5, <1>6, <1>7, <1>8 DEF Next

\* The invariant, of every behaviour.
LEMMA Invariance == Spec => []IInv
<1>1. Init => IInv
  BY InitIInv
<1>2. IInv /\ [Next]_vars => IInv'
  BY StepTypeOK, StepOneServer, StepHelper DEF IInv
<1> QED BY <1>1, <1>2, PTL DEF Spec

-----------------------------------------------------------------------------
\* The types of the state are those the code gives it.
THEOREM Typing == Spec => []TypeOK
<1>1. IInv => TypeOK
  BY DEF IInv
<1> QED BY Invariance, <1>1, PTL

\* #reject: a dialog is opened on behalf of the ssh of the server's own attempt only, whatever
\* ports the operating system gives out again.
THEOREM OwnDialogs == Spec => []OnlyItsOwnAsk
<1>1. IInv => OnlyItsOwnAsk
  BY DEF IInv, Order, OnlyItsOwnAsk
<1> QED BY Invariance, <1>1, PTL

\* "Only the answer is ever written to stdout": what any helper writes is what the user said to
\* its own prompt.
THEOREM OwnAnswers == Spec => []OnlyTheAnswer
<1>1. IInv => OnlyTheAnswer
  BY DEF IInv, Wrote, OnlyTheAnswer
<1> QED BY Invariance, <1>1, PTL

\* The limits of the helper and of the server agree, whatever they are.
THEOREM Limits == Spec => []TakenIfSent
<1>1. IInv => TakenIfSent
  BY DEF IInv, Reached, TakenIfSent
<1> QED BY Invariance, <1>1, PTL

\* stop: the endpoint does not outlive its attempt.
THEOREM Endpoint == Spec => []EndpointIsTheAttempts
<1>1. IInv => EndpointIsTheAttempts
  BY DEF IInv, TypeOK, OneServer, Reached, EndpointIsTheAttempts, Listeners
<1> QED BY Invariance, <1>1, PTL
=============================================================================
