----------------------------- MODULE FileBrowser -----------------------------
(***************************************************************************)
(* The file browser: FilesWebviewProvider in the extension host, its page,  *)
(* the messages between them, and the commands and the session that drive   *)
(* it. Handlers await the session, a listing and the history, and several   *)
(* are in progress at once.                                                *)
(*                                                                         *)
(* Of the SessionManager there is as much as the browser can tell: one      *)
(* attempt at a time, shared by those who want that host (SessionManager). *)
(***************************************************************************)
EXTENDS FilesPage, Stores

CONSTANTS Root,      \* of each host: the directory a session starts in
          Up,        \* parentRemotePath
          Tasks,     \* handlers there may be in progress
          Typed,     \* what the user may type into the path field
          MaxInputs, \* bound on what the user does, in the page and by commands
          MaxFaults, \* bound on failures and lost connections
          Disposes   \* whether the view may be closed

ASSUME BrowserAssumption ==
  /\ Root \in [Hosts -> Paths] /\ Up \in [Paths -> Paths]
  /\ \A p \in Paths : IsFiniteSet({q \in Paths : Up[q] = p})
  /\ Typed \subseteq Texts /\ MaxInputs \in Nat /\ MaxFaults \in Nat /\ Disposes \in BOOLEAN

VARIABLES page, open,        \* the page, and whether there is one (#view)
          toHost, toPage,    \* messages on their way, in order
          view,              \* the fields of FilesWebviewProvider
          cache,             \* #cache, per host and path
          recents,           \* the history, per host
          favorites,         \* what onAddFavorite was given, with the host it chose
          session,           \* the host of sessions.session
          connecting, auto, lost, \* #connecting, #autoReconnect, the host to retry
          pc, want, path,    \* of each handler: where it awaits, the host and the path
          inputs, faults     \* so far

sessions == <<session, connecting, auto, lost>>
tasks == <<pc, want, path>>
stored == <<recents, favorites>>
counts == <<inputs, faults>>
vars == <<page, open, toHost, toPage, view, cache, stored, sessions, tasks, counts>>

Init == /\ page = NewPage([key |-> "name", up |-> TRUE])
        /\ open = FALSE
        /\ toHost = <<>> /\ toPage = <<>>
        /\ view = [rows |-> NoRows, current |-> Blank, offline |-> FALSE, error |-> "none",
                   lastAlias |-> NoHost, lastRoot |-> Blank]
        /\ cache = [h \in Hosts |-> [p \in Paths |-> NoRows]]
        /\ recents = [h \in Hosts |-> <<>>] /\ favorites = {}
        /\ session = NoHost /\ connecting = NoHost /\ auto = FALSE /\ lost = NoHost
        /\ pc = [t \in Tasks |-> "idle"]
        /\ want = [t \in Tasks |-> NoHost] /\ path = [t \in Tasks |-> Blank]
        /\ inputs = 0 /\ faults = 0

Input == inputs < MaxInputs /\ inputs' = inputs + 1 /\ UNCHANGED faults
Fault == faults < MaxFaults /\ faults' = faults + 1 /\ UNCHANGED inputs

\* The continuations of a settled promise run before the next event.
Granted == {"connected", "granted"}
Quiet == \A t \in Tasks : pc[t] \notin Granted

-----------------------------------------------------------------------------
\* The first that is there.
Either(a, b) == IF a # Blank THEN a ELSE b
SessionRoot == IF session = NoHost THEN Blank ELSE Root[session]
Alias(v) == IF session # NoHost THEN session ELSE v.lastAlias

\* Slip: the root of the last session is forgotten with it.
DisplayPath_NoLast(v) == Either(v.current, SessionRoot)

\* resolveDisplayPath
DisplayPath(v) == Either(v.current, Either(SessionRoot, v.lastRoot))

\* The state message for the fields v and the history r.
State(v, r) == [rows |-> v.rows, path |-> DisplayPath(v), offline |-> v.offline, error |-> v.error,
                recent |-> IF Alias(v) = NoHost THEN <<>> ELSE r[Alias(v)]]

\* #post, after the fields have become v: the root is remembered, if there is a page.
Post(v, r) ==
  LET w == [v EXCEPT !.lastRoot = Either(SessionRoot, @)]
  IN IF open THEN view' = w /\ toPage' = Append(toPage, State(w, r))
     ELSE view' = v /\ UNCHANGED toPage

Goto(t, step) == pc' = [pc EXCEPT ![t] = step] /\ UNCHANGED <<want, path>>

\* A handler returns.
Done(t) == /\ pc' = [pc EXCEPT ![t] = "idle"]
           /\ want' = [want EXCEPT ![t] = NoHost] /\ path' = [path EXCEPT ![t] = Blank]

\* navigate up to its first await: the host is chosen here.
Navigate(t, p) ==
  IF Alias(view) = NoHost
  THEN Post([view EXCEPT !.error = "unconnected"], recents) /\ Done(t)
  ELSE /\ view' = [view EXCEPT !.lastAlias = Alias(view), !.error = "none"]
       /\ pc' = [pc EXCEPT ![t] = "require"]
       /\ want' = [want EXCEPT ![t] = Alias(view)] /\ path' = [path EXCEPT ![t] = p]
       /\ UNCHANGED toPage

\* Slip: nothing to refresh, and nothing said.
Refresh_Silent(t) ==
  LET p == Either(view.current, Either(SessionRoot, view.lastRoot))
  IN IF p = Blank THEN Done(t) /\ UNCHANGED <<view, toPage>> ELSE Navigate(t, p)

\* refresh: "always posts, even when there is nowhere to go".
Refresh(t) ==
  LET p == Either(view.current, Either(SessionRoot, view.lastRoot))
  IN IF p = Blank THEN Post(view, recents) /\ Done(t) ELSE Navigate(t, p)

-----------------------------------------------------------------------------
\* #handle, one kind of message after another. vscode.open is outside of src.
OpenEntry(t, p) ==
  IF session # NoHost /\ p \in Range(view.rows.list) /\ Kind[view.rows.host][p] = "directory"
  THEN Navigate(t, p) ELSE Done(t) /\ UNCHANGED <<view, toPage>>

\* onAddFavorite saves the entry for the host that is connected now.
AddFavorite(p) ==
  LET h == view.rows.host IN
  IF /\ p \in Range(view.rows.list) /\ Kind[h][p] \in {"file", "directory"}
     /\ session # NoHost
  THEN favorites' = favorites \cup {[host |-> session, path |-> p, type |-> Kind[h][p]]}
  ELSE UNCHANGED favorites

\* A message with a path that cannot be normalised is discarded (parseBrowserMessage).
Handle(t, m) ==
  \/ /\ m.type = "refresh" /\ Refresh(t)
     /\ UNCHANGED stored
  \/ /\ m.type = "navigate" /\ m.path \in Paths /\ Navigate(t, m.path)
     /\ UNCHANGED stored
  \/ /\ m.type = "navigateParent" /\ view.current # Blank /\ Navigate(t, Up[view.current])
     /\ UNCHANGED stored
  \/ /\ m.type = "openEntry" /\ OpenEntry(t, m.path)
     /\ UNCHANGED stored
  \/ /\ m.type = "addFavorite" /\ AddFavorite(m.path)
     /\ UNCHANGED <<view, toPage, tasks, recents>>
  \/ /\ \/ m.type = "navigate" /\ m.path \notin Paths
        \/ m.type = "navigateParent" /\ view.current = Blank
     /\ UNCHANGED <<view, toPage, tasks, stored>>

\* onDidReceiveMessage
Receive(t) ==
  /\ Quiet /\ toHost # <<>> /\ pc[t] = "idle"
  /\ toHost' = Tail(toHost)
  /\ Handle(t, Head(toHost))
  /\ UNCHANGED <<page, open, cache, sessions, counts>>

-----------------------------------------------------------------------------
\* sessions.require(alias): the session, or connect if a connection is wanted.
Require(t) ==
  /\ pc[t] = "require"
  /\ Goto(t, CASE session = want[t] -> "list"
               [] session # want[t] /\ auto -> "waiting"
               [] OTHER -> "failed")
  /\ lost' = IF session # want[t] /\ auto THEN NoHost ELSE lost
  /\ UNCHANGED <<page, open, toHost, toPage, view, cache, stored, session, connecting, auto, counts>>

\* #establish begins: away with the session there is.
Establish(h) == /\ Quiet /\ connecting = NoHost
                /\ connecting' = h /\ session' = NoHost
                /\ UNCHANGED <<page, open, toHost, toPage, view, cache, stored, tasks, auto>>

Attempt(t) == /\ pc[t] \in {"connect", "waiting"} /\ Establish(want[t])
              /\ UNCHANGED <<lost, counts>>

Reconnect == /\ lost # NoHost /\ Establish(lost)
             /\ UNCHANGED <<lost, counts>>

\* It ends, for all who share it. openFavorite and connect navigate then.
Settle(granted, refused) ==
  /\ connecting' = NoHost
  /\ pc' = [t \in Tasks |-> IF want[t] # connecting THEN pc[t]
                            ELSE CASE pc[t] = "waiting" -> granted
                                   [] pc[t] = "connect" -> refused
                                   [] OTHER -> pc[t]]
  /\ UNCHANGED <<page, open, toHost, toPage, view, cache, stored, auto, want, path>>

Connects == /\ Quiet /\ connecting # NoHost
            /\ session' = connecting /\ lost' = NoHost
            /\ Settle("granted", "connected")
            /\ UNCHANGED counts

Refused == /\ Quiet /\ connecting # NoHost /\ Fault
           /\ Settle("failed", "rejected")
           /\ UNCHANGED <<session, lost>>

\* An attempt for the host has succeeded; the session may be the next one's by now.
Grant(t) == /\ pc[t] = "granted" /\ Goto(t, "list")
            /\ UNCHANGED <<page, open, toHost, toPage, view, cache, stored, sessions, counts>>

\* A command's connect has succeeded, and it navigates; or failed, and says so.
Connected(t) ==
  /\ pc[t] = "connected" /\ Navigate(t, path[t])
  /\ UNCHANGED <<page, open, toHost, cache, stored, sessions, counts>>

Rejected(t) ==
  /\ pc[t] = "rejected" /\ Done(t)
  /\ UNCHANGED <<page, open, toHost, toPage, view, cache, stored, sessions, counts>>

-----------------------------------------------------------------------------
\* RemoteSession.list: the names in the order of the server, sorted. The rows carry the
\* host of the session that answered.
Children(h, p) == {q \in Paths : Up[q] = p /\ q # p /\ Kind[h][q] # "nothing"}
Orders(S) == {s \in [1..Cardinality(S) -> S] : Range(s) = S}

\* Slip: the entries stay in the order of the server.
Listings_AsServed(h, p) ==
  {[host |-> h, dir |-> p, list |-> s] : s \in Orders(Children(h, p))}

Listings(h, p) ==
  LET compare(a, b) == IF Group(h, a) # Group(h, b) THEN Group(h, a) - Group(h, b)
                       ELSE Fine[a] - Fine[b]
  IN {[host |-> h, dir |-> p, list |-> Sorted(s, compare)] : s \in Orders(Children(h, p))}

\* Slip: the session is looked up again after the await, whatever its host.
Answers_Now(t) == session

\* `active`, which the handler has held on to: it answers as long as it is the session.
Answers(t) == IF session = want[t] THEN session ELSE NoHost

\* A listing fails if its session is gone, or if there is no such directory.
Hopeless(t) == IF Answers(t) = NoHost THEN TRUE ELSE Kind[Answers(t)][path[t]] # "directory"

\* The listing arrives: cache, fields and history change at once, and the history's
\* memento is awaited.
Listed(t) ==
  /\ Quiet /\ pc[t] = "list" /\ ~Hopeless(t)
  /\ \E rows \in Listings(Answers(t), path[t]) :
       /\ cache' = [cache EXCEPT ![want[t]][path[t]] = rows]
       /\ view' = [view EXCEPT !.rows = rows, !.current = path[t], !.offline = FALSE]
  /\ recents' = [recents EXCEPT ![want[t]] = Recorded(@, path[t])]
  /\ Goto(t, "record")
  /\ UNCHANGED <<page, open, toHost, toPage, favorites, sessions, counts>>

\* Slip: the panel claims to be where it could not go.
Caught_Claims(t) ==
  LET cached == cache[want[t]][path[t]] IN
  IF cached = NoRows THEN Post([view EXCEPT !.error = "failed", !.current = path[t]], recents)
  ELSE Post([view EXCEPT !.rows = cached, !.current = path[t], !.offline = TRUE, !.error = "none"], recents)

\* The catch of navigate: what is in the cache, or an error over the rows there are.
Caught(t) ==
  LET cached == cache[want[t]][path[t]] IN
  IF cached = NoRows THEN Post([view EXCEPT !.error = "failed"], recents)
  ELSE Post([view EXCEPT !.rows = cached, !.current = path[t], !.offline = TRUE, !.error = "none"], recents)

Fails(t) == /\ Caught(t) /\ Done(t)
            /\ UNCHANGED <<page, open, toHost, cache, stored, sessions>>

\* The connection, or the listing, or the write to the history fails.
Failed(t) ==
  /\ Quiet /\ pc[t] \in {"failed", "list", "record"}
  /\ Fails(t)
  /\ \/ pc[t] = "failed" /\ UNCHANGED counts
     \/ pc[t] = "list" /\ Hopeless(t) /\ UNCHANGED counts
     \/ pc[t] \in {"list", "record"} /\ Fault

\* The write to the history is done.
RecordedIt(t) ==
  /\ Quiet /\ pc[t] = "record" /\ Post(view, recents) /\ Done(t)
  /\ UNCHANGED <<page, open, toHost, cache, stored, sessions, counts>>

-----------------------------------------------------------------------------
\* The connection is lost, and retried.
Drop == /\ Quiet /\ session # NoHost /\ Fault
        /\ session' = NoHost /\ lost' = IF auto THEN session ELSE NoHost
        /\ UNCHANGED <<page, open, toHost, toPage, view, cache, stored, connecting, auto, tasks>>

\* The command `connect` for a host, `openFavorite` for a directory of one, and
\* `refreshFiles`. A host that is being connected to, or is connected, is only revealed.
Call(t, step, h, p) == /\ pc' = [pc EXCEPT ![t] = step]
                       /\ want' = [want EXCEPT ![t] = h] /\ path' = [path EXCEPT ![t] = p]
                       /\ auto' = TRUE /\ lost' = NoHost
                       /\ UNCHANGED <<page, open, toHost, toPage, view, cache, stored, session,
                                      connecting>>

ConnectTo(t, h) == /\ Quiet /\ Input /\ pc[t] = "idle" /\ h \notin {connecting, session}
                   /\ Call(t, "connect", h, Root[h])

OpenFavorite(t, f) == /\ Quiet /\ Input /\ pc[t] = "idle" /\ f.type = "directory"
                      /\ Call(t, IF session = f.host THEN "connected" ELSE "connect", f.host, f.path)

RefreshFiles(t) == /\ Quiet /\ Input /\ pc[t] = "idle" /\ Refresh(t)
                   /\ UNCHANGED <<page, open, toHost, cache, stored, sessions>>

Disconnect == /\ Quiet /\ Input
              /\ session' = NoHost /\ auto' = FALSE /\ lost' = NoHost
              /\ UNCHANGED <<page, open, toHost, toPage, view, cache, stored, connecting, tasks>>

\* `clearHistory`: the history of the host, or of all, and a refresh.
ClearHistory(t) ==
  /\ Quiet /\ Input /\ pc[t] = "idle"
  /\ recents' = [h \in Hosts |-> IF session \in {h, NoHost} THEN <<>> ELSE recents[h]]
  /\ pc' = [pc EXCEPT ![t] = "cleared"]
  /\ UNCHANGED <<page, open, toHost, toPage, view, cache, favorites, sessions, want, path>>

Cleared(t) == /\ Quiet /\ pc[t] = "cleared" /\ Refresh(t)
              /\ UNCHANGED <<page, open, toHost, cache, stored, sessions, counts>>

-----------------------------------------------------------------------------
\* The page receives a state.
Draw == /\ toPage # <<>> /\ Quiet
        /\ page' = Render(page, Head(toPage)) /\ toPage' = Tail(toPage)
        /\ UNCHANGED <<open, toHost, view, cache, stored, sessions, tasks, counts>>

\* What the user does in it: the page changes, and it may post a message.
Does(new, posts) ==
  /\ open /\ Quiet /\ Input
  /\ page' = new /\ toHost' = toHost \o posts
  /\ UNCHANGED <<open, toPage, view, cache, stored, sessions, tasks>>

Message(type, p) == <<[type |-> type, path |-> p]>>
RefreshMessage == Message("refresh", Blank)

\* In the path field: typing, Enter, Escape, a choice from the recent directories.
InField ==
  \/ ~page.inField /\ Does(EnterField(page), <<>>)
  \/ \E text \in Typed : Does(Blur(Type(page, text)), Message("navigate", text))
  \/ /\ page.inField
     /\ \/ \E text \in Typed : text # page.field /\ Does(Type(page, text), <<>>)
        \/ Does(Blur(page), <<>>)
        \/ Does(Blur(page), Message("navigate", page.field))
        \/ Does(Blur(page), RefreshMessage)
        \/ \E p \in Range(page.recent) : Does(Blur(Type(page, p)), Message("navigate", p))

\* In the rows: clicks, keys, double clicks, the context menu; and the buttons above.
InRows ==
  \/ \E i \in DOMAIN page.shown :
       LET e == page.shown[i] IN
       \/ Does(FocusRow(page, i), <<>>)
       \/ Does(FocusRow(page, i), Message("openEntry", e))
       \/ Does(Focus(page, i), IF Kind[page.rows.host][e] \in {"file", "directory"}
                               THEN Message("addFavorite", e) ELSE <<>>)
  \/ /\ page.inRow # 0
     /\ \/ \E i \in Moves(page) : Does(FocusRow(page, i), <<>>)
        \/ Does(page, Message("openEntry", page.shown[page.focused]))
        \/ Does(page, Message("navigateParent", Blank))
  \/ page.inRow = 0 /\ page.shown # <<>> /\ Does(Focus(page, page.tabbable), <<>>)

Buttons ==
  \/ Does([page EXCEPT !.inField = FALSE, !.inRow = 0], Message("navigateParent", Blank))
  \/ \E key \in {"name", "size"} : Does(ClickSort(page, key), <<>>)

\* resolveWebviewView: the page loads, and says that it is ready. It may be closed.
Resolve == /\ ~open /\ Quiet
           /\ open' = TRUE /\ page' = NewPage(page.by) /\ toHost' = RefreshMessage
           /\ UNCHANGED <<toPage, view, cache, stored, sessions, tasks, counts>>

Close == /\ open /\ Disposes /\ Quiet /\ Input
         /\ open' = FALSE /\ toHost' = <<>> /\ toPage' = <<>>
         /\ UNCHANGED <<page, view, cache, stored, sessions, tasks>>

-----------------------------------------------------------------------------
Advance(t) == \/ Receive(t) \/ Require(t) \/ Attempt(t) \/ Grant(t) \/ Connected(t) \/ Rejected(t)
              \/ Listed(t) \/ Failed(t) \/ RecordedIt(t) \/ Cleared(t)

Next == \/ \E t \in Tasks :
             \/ Advance(t) \/ RefreshFiles(t) \/ ClearHistory(t)
             \/ \E h \in Hosts : ConnectTo(t, h)
             \/ \E f \in favorites : OpenFavorite(t, f)
        \/ Connects \/ Refused \/ Reconnect \/ Drop \/ Disconnect
        \/ Draw \/ InField \/ InRows \/ Buttons \/ Resolve \/ Close

Spec == Init /\ [][Next]_vars

-----------------------------------------------------------------------------
Settled == /\ open /\ toHost = <<>> /\ toPage = <<>>
           /\ \A t \in Tasks : pc[t] \in {"idle", "connect"}

\* "The panel's state is driven entirely by these messages": when nothing is on its way,
\* the page shows what the extension holds, the path field too unless it is the user's or
\* there is no directory yet. (Nobody tells the panel of a session that was reconnected.)
PanelInStep ==
  Settled => /\ page.rows = view.rows
             /\ page.offline = view.offline /\ page.error = view.error
             /\ page.held \/ view.current \in {Blank, page.field}

\* "The path bar must agree with the rows beneath it".
BarAgreesWithRows ==
  open /\ ~page.held /\ page.rows # NoRows => page.field = page.rows.dir

\* Rows shown or cached for a host and a path are a listing of that path, by that host,
\* whatever happened to the session while it was listing.
CacheIsOfItsPlace ==
  \A h \in Hosts, p \in Paths :
    cache[h][p] # NoRows => cache[h][p].host = h /\ cache[h][p].dir = p

\* "Most recent first, capped": no directory twice, and none that was never listed.
HistoryIsRecent ==
  \A h \in Hosts : /\ Len(recents[h]) <= HistoryLimit
                   /\ \A i, j \in DOMAIN recents[h] : i # j => recents[h][i] # recents[h][j]
                   /\ \A i \in DOMAIN recents[h] : cache[h][recents[h][i]] # NoRows

\* What the extension remembers of places is true of them: the rows it keeps for a path are
\* the rows of that path, and a directory in the history is one that was listed.
PlacesAreTrue == CacheIsOfItsPlace /\ HistoryIsRecent

\* "Remembering them keeps the panel showing where the user actually is": a page that has
\* shown a path does not go blank.
NeverBlank == [][page.title # Blank /\ open /\ open' => page'.title # Blank]_vars

\* "The order is total": what is shown depends on the entries and the chosen order only.
\* Directories first, then the key, then the name.
Rank(e) == <<Group(page.rows.host, e),
             IF page.by.key = "name" THEN Coarse[e] * Sign(page.by) ELSE Size[e] * Sign(page.by),
             Coarse[e], Fine[e]>>
Before(a, b) == \E i \in 1..4 : a[i] < b[i] /\ \A j \in 1..(i - 1) : a[j] = b[j]
RowsInOrder == \A i, j \in DOMAIN page.shown : i < j => Before(Rank(page.shown[i]), Rank(page.shown[j]))
=============================================================================
