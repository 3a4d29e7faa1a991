------------------------------- MODULE Askpass -------------------------------
(***************************************************************************)
(* Prompts of OpenSSH on their way to the user: the helper that ssh runs,   *)
(* and the loopback server of one connection attempt that answers it.      *)
(* Helpers are processes of their own: several ask at once (ProxyJump), and *)
(* one outlives the ssh that ran it, when the port of its server may be the *)
(* next server's.                                                          *)
(*                                                                         *)
(* A token is as good as the number of its attempt: 32 random bytes.       *)
(***************************************************************************)
EXTENDS Integers, FiniteSets

CONSTANTS Helpers,     \* processes
          Ports,       \* that the operating system may choose from
          Prompts,     \* texts OpenSSH passes, by what classifyPrompt matches in them
          Hints,       \* values of SSH_ASKPASS_PROMPT
          Answers,     \* what the user may type
          Sizes,       \* of a request's body
          Long,        \* answers that make the response exceed MAX_RESPONSE_BYTES
          MaxRequest,  \* MAX_REQUEST_BYTES, of the server and of the helper
          MaxAttempts  \* bound on the connection attempts

ASSUME AskpassAssumption ==
  /\ Prompts \subseteq {"confirm", "secret", "plain"} /\ Hints \subseteq {"confirm", "text", "none"}
  /\ Long \subseteq Answers /\ Sizes \subseteq Nat \ {0} /\ MaxRequest \in Nat
  /\ MaxAttempts \in Nat /\ 0 \notin Ports
  /\ Answers \cap {"none", "dismissed", "cut", "refused", "yes", "no"} = {}

Attempts == 1..MaxAttempts
Replies == Answers \cup {"none", "dismissed", "cut", "refused", "yes", "no"}

VARIABLES attempt,   \* the one in progress, or 0
          server,    \* of each attempt: "none", "starting", "up", "stopped", "failed"
          port,      \* and where it listens
          ssh,       \* of each attempt: "none", "alive", "gone"
          stage,     \* of each helper: "none", "connect", "wait", "ended"
          of,        \* the attempt in its environment, by URL and token
          asks,      \* its prompt, hint and the size of its body
          peer,      \* the attempt whose server its connection is to, or 0
          linked,    \* the helpers whose connection is open at both ends
          handler,   \* #handle: "none", "request", "reading", "confirm", "secret", "text", "ended"
          got,       \* bytes of the body it has counted
          reply,     \* what is on the wire to the helper
          stdout,    \* what it wrote, or "none"
          code,      \* its exit code, or -1
          said       \* no code: what the user said to its prompt

served == <<handler, got, reply>>
ran == <<stdout, code>>
vars == <<attempt, server, port, ssh, stage, of, asks, peer, linked, served, ran, said>>

Asking == {"confirm", "secret", "text"}

TypeOK ==
  /\ attempt \in 0..MaxAttempts
  /\ server \in [Attempts -> {"none", "starting", "up", "stopped", "failed"}]
  /\ port \in [Attempts -> Ports \cup {0}]
  /\ ssh \in [Attempts -> {"none", "alive", "gone"}]
  /\ stage \in [Helpers -> {"none", "connect", "wait", "ended"}]
  /\ of \in [Helpers -> 0..MaxAttempts] /\ peer \in [Helpers -> 0..MaxAttempts]
  /\ asks \in [Helpers -> [prompt : Prompts, hint : Hints, size : Nat]]
  /\ linked \subseteq Helpers
  /\ handler \in [Helpers -> {"none", "request", "reading", "ended"} \cup Asking]
  /\ got \in [Helpers -> Nat]
  /\ reply \in [Helpers -> Replies] /\ said \in [Helpers -> Replies]
  /\ stdout \in [Helpers -> Replies] /\ code \in [Helpers -> -1..1]

Init ==
  /\ attempt = 0
  /\ server = [a \in Attempts |-> "none"] /\ port = [a \in Attempts |-> 0]
  /\ ssh = [a \in Attempts |-> "none"]
  /\ stage = [h \in Helpers |-> "none"] /\ of = [h \in Helpers |-> 0]
  /\ asks \in [Helpers -> [prompt : Prompts, hint : Hints, size : Sizes]]
  /\ peer = [h \in Helpers |-> 0] /\ linked = {}
  /\ handler = [h \in Helpers |-> "none"] /\ got = [h \in Helpers |-> 0]
  /\ reply = [h \in Helpers |-> "none"] /\ said = [h \in Helpers |-> "none"]
  /\ stdout = [h \in Helpers |-> "none"] /\ code = [h \in Helpers |-> -1]

-----------------------------------------------------------------------------
\* classifyPrompt: by default a secret; the hint "text" counts for nothing else.
Classified(prompt, hint) ==
  IF "confirm" \in {hint, prompt} THEN "confirm"
  ELSE IF hint = "text" /\ prompt = "plain" THEN "text" ELSE "secret"

\* VsCodePromptUi.ask: two buttons, or an input box; each can be dismissed.
Says(kind) == {"dismissed"} \cup IF kind = "confirm" THEN {"yes", "no"} ELSE Answers

-----------------------------------------------------------------------------
\* #establish: one attempt after another, each with a server of its own. The port is one
\* that nobody listens on.
Listeners == {a \in Attempts : server[a] = "up"}

Establish(a) == /\ attempt = 0 /\ server[a] = "none"
                /\ \A b \in Attempts : b < a => server[b] # "none"
                /\ attempt' = a /\ server' = [server EXCEPT ![a] = "starting"]
                /\ UNCHANGED <<port, ssh, stage, of, asks, peer, linked, served, ran, said>>

\* start, and the ssh that is given the endpoint.
Start(a) == /\ server[a] = "starting"
            /\ \E p \in Ports \ {port[b] : b \in Listeners} : port' = [port EXCEPT ![a] = p]
            /\ server' = [server EXCEPT ![a] = "up"] /\ ssh' = [ssh EXCEPT ![a] = "alive"]
            /\ UNCHANGED <<attempt, stage, of, asks, peer, linked, served, ran, said>>

\* There is no port. The caller's try begins after it, and nothing is stopped.
StartFails(a) == /\ server[a] = "starting" /\ attempt = a
                 /\ server' = [server EXCEPT ![a] = "failed"] /\ attempt' = 0
                 /\ UNCHANGED <<port, ssh, stage, of, asks, peer, linked, served, ran, said>>

\* Slip: the listener is closed, and its connections are not.
Closing_Listener(a) == {}

\* closeAllConnections
Closing(a) == {h \in Helpers : peer[h] = a}

\* The attempt is over, however it ended: stop. A response may be cut; a body that has not
\* ended fails, and nothing that #handle says is heard any more.
Finish(a) ==
  /\ attempt = a /\ server[a] = "up"
  /\ attempt' = 0 /\ server' = [server EXCEPT ![a] = "stopped"]
  /\ ssh' \in {ssh, [ssh EXCEPT ![a] = "gone"]}
  /\ linked' = linked \ Closing(a)
  /\ handler' = [h \in Helpers |-> IF h \in Closing(a) /\ handler[h] \in {"request", "reading"}
                                   THEN "ended" ELSE handler[h]]
  /\ \E cut \in SUBSET {h \in Closing(a) \cap linked : reply[h] # "none"} :
       reply' = [h \in Helpers |-> IF h \in cut THEN "cut" ELSE reply[h]]
  /\ UNCHANGED <<port, stage, of, asks, peer, got, ran, said>>

\* ssh exits, or is killed; its helpers are not.
SshExits(a) == /\ ssh[a] = "alive" /\ ssh' = [ssh EXCEPT ![a] = "gone"]
               /\ UNCHANGED <<attempt, server, port, stage, of, asks, peer, linked, served, ran, said>>

-----------------------------------------------------------------------------
\* The helper ends: with the answer on stdout, or with nothing and a failure.
Exit(h, text) ==
  /\ stage' = [stage EXCEPT ![h] = "ended"]
  /\ stdout' = [stdout EXCEPT ![h] = text]
  /\ code' = [code EXCEPT ![h] = IF text = "none" THEN 1 ELSE 0]

\* Its checks, in run and send_prompt, before it connects. The ssh of an attempt that has
\* timed out may still run it.
Run(h, a) ==
  /\ stage[h] = "none" /\ ssh[a] = "alive"
  /\ of' = [of EXCEPT ![h] = a]
  /\ IF asks[h].size > MaxRequest THEN Exit(h, "none")
     ELSE stage' = [stage EXCEPT ![h] = "connect"] /\ UNCHANGED ran
  /\ UNCHANGED <<attempt, server, port, ssh, asks, peer, linked, served, said>>

\* connect_timeout, and the request is written.
Connect(h) ==
  /\ stage[h] = "connect"
  /\ \E a \in Listeners :
       /\ port[a] = port[of[h]]
       /\ peer' = [peer EXCEPT ![h] = a]
  /\ stage' = [stage EXCEPT ![h] = "wait"]
  /\ linked' = linked \cup {h} /\ handler' = [handler EXCEPT ![h] = "request"]
  /\ UNCHANGED <<attempt, server, port, ssh, of, asks, got, reply, ran, said>>

ConnectFails(h) ==
  /\ stage[h] = "connect" /\ \A a \in Listeners : port[a] # port[of[h]]
  /\ Exit(h, "none")
  /\ UNCHANGED <<attempt, server, port, ssh, of, asks, peer, linked, served, said>>

\* Slip: whatever has come is taken for an answer.
Parsed_Default(h) == reply[h]

\* parse_http_response, and run: nothing but a whole answer is one.
Parsed(h) ==
  IF reply[h] \in {"none", "dismissed", "cut", "refused"} \cup Long THEN "none" ELSE reply[h]

\* The response is there, or the connection has ended without one.
Read(h) ==
  /\ stage[h] = "wait" /\ (reply[h] # "none" \/ h \notin linked)
  /\ Exit(h, Parsed(h))
  /\ linked' = linked \ {h}
  /\ UNCHANGED <<attempt, server, port, ssh, of, asks, peer, served, said>>

\* Slip: the stream is read without a timeout.
Patience_None(h) == stage[h] = "connect"

Patience(h) == stage[h] \in {"connect", "wait"}

\* IO_TIMEOUT, to connect, write or read. A body it has not written ends in an error at the
\* server; one that it has is read, and the user is asked.
TimesOut(h) ==
  /\ Patience(h) /\ Exit(h, "none")
  /\ linked' = linked \ {h}
  /\ \/ UNCHANGED handler
     \/ /\ handler[h] \in {"request", "reading"}
        /\ handler' = [handler EXCEPT ![h] = "ended"]
  /\ UNCHANGED <<attempt, server, port, ssh, of, asks, peer, got, reply, said>>

-----------------------------------------------------------------------------
\* respond: it is on the wire if there is a connection.
Respond(h, text) == reply' = [reply EXCEPT ![h] = IF h \in linked THEN text ELSE @]

\* Slip: whoever finds the port is heard.
Rejects_None(h) == FALSE

\* #reject: the token of the request is this server's.
Rejects(h) == of[h] # peer[h]

\* #handle up to its first await.
Request(h) ==
  /\ handler[h] = "request"
  /\ IF Rejects(h) THEN handler' = [handler EXCEPT ![h] = "ended"] /\ Respond(h, "refused")
     ELSE handler' = [handler EXCEPT ![h] = "reading"] /\ UNCHANGED reply
  /\ UNCHANGED <<attempt, server, port, ssh, stage, of, asks, peer, linked, got, ran, said>>

\* Slip: a body of exactly the allowed size is too large.
TooLarge_AtLimit(n) == n >= MaxRequest

TooLarge(n) == n > MaxRequest

\* readBody: a chunk; over the limit, the connection is destroyed.
Data(h) ==
  /\ handler[h] = "reading" /\ got[h] < asks[h].size
  /\ got' = [got EXCEPT ![h] = @ + 1]
  /\ IF TooLarge(got[h] + 1)
     THEN /\ handler' = [handler EXCEPT ![h] = "ended"]
          /\ linked' = linked \ {h}
     ELSE UNCHANGED <<handler, linked>>
  /\ UNCHANGED <<attempt, server, port, ssh, stage, of, asks, peer, reply, ran, said>>

\* The end of the body: the prompt is classified, and the user is asked.
Ask(h) ==
  /\ handler[h] = "reading" /\ got[h] = asks[h].size
  /\ handler' = [handler EXCEPT ![h] = Classified(asks[h].prompt, asks[h].hint)]
  /\ UNCHANGED <<attempt, server, port, ssh, stage, of, asks, peer, linked, got, reply, ran, said>>

\* The user answers, at a time of their choosing: the dialog stays whatever has become of
\* the helper and the attempt.
Answer(h, text) ==
  /\ handler[h] \in Asking
  /\ said' = [said EXCEPT ![h] = text]
  /\ handler' = [handler EXCEPT ![h] = "ended"] /\ Respond(h, text)
  /\ UNCHANGED <<attempt, server, port, ssh, stage, of, asks, peer, linked, got, ran>>

-----------------------------------------------------------------------------
Helper(h) == Connect(h) \/ ConnectFails(h) \/ Read(h) \/ TimesOut(h)
Serve(h) == Request(h) \/ Data(h) \/ Ask(h)

Next == \/ \E a \in Attempts :
             \/ Establish(a) \/ Start(a) \/ StartFails(a) \/ Finish(a) \/ SshExits(a)
             \/ \E h \in Helpers : Run(h, a)
        \/ \E h \in Helpers : \/ Helper(h) \/ Serve(h)
                              \/ \E text \in Says(handler[h]) : Answer(h, text)

Spec == Init /\ [][Next]_vars

\* The helper's timeouts run out. Neither the user nor ssh need ever do anything.
FairSpec == Spec /\ \A h \in Helpers : WF_vars(Helper(h)) /\ WF_vars(Serve(h))

-----------------------------------------------------------------------------
\* Nobody but the ssh of the attempt opens a dialog: a helper left over from an earlier one,
\* whose port the server may have got, does not.
OnlyItsOwnAsk == \A h \in Helpers : handler[h] \in Asking => of[h] = peer[h]

\* "Only the answer is ever written to stdout. Every failure path exits non-zero and prints
\* nothing there": what the helper wrote is what the user said to its own prompt, and it
\* succeeds exactly then.
OnlyTheAnswer ==
  \A h \in Helpers : /\ stdout[h] # "none" => stdout[h] = said[h] /\ said[h] # "dismissed"
                     /\ code[h] = 0 <=> stdout[h] # "none"

\* The two limits agree: what a helper sends, its server takes.
TakenIfSent == \A h \in Helpers :
  peer[h] # 0 /\ of[h] = peer[h] /\ stage[h] = "wait" /\ server[peer[h]] = "up"
    => h \in linked /\ reply[h] # "refused"

\* "The endpoint does not outlive the authentication it exists for": no server listens, and
\* no connection is open, once the attempt is over.
EndpointIsTheAttempts ==
  /\ Listeners \subseteq {attempt}
  /\ \A h \in linked : peer[h] = attempt

\* ssh does not wait for ever, whatever the user and the extension do.
EveryHelperEnds == \A h \in Helpers : stage[h] \in {"connect", "wait"} ~> stage[h] = "ended"
=============================================================================
