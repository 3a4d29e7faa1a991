# Verification of Remote SFTP Explorer

TLA+ models of the VS Code extension *Remote SFTP Explorer*, model-checked with TLC, with
proofs checked by TLAPS. Source paths below are relative to `src/src/packages/` and use
these abbreviations:

| short | file |
| --- | --- |
| LOCK | `core/src/locks/pathLockRegistry.ts` |
| CLI, REG, CAPS | `sftp-protocol/src/client/{sftpClient,requestRegistry,capabilities}.ts` |
| FRAME | `sftp-protocol/src/wire/frameDecoder.ts` |
| SAFE | `core/src/fs/safeReplace.ts` |
| SES, SCHED, STATE | `core/src/session/{remoteSession,reconnectScheduler,connectionState}.ts` |
| ASK, RS | `core/src/askpass/askpassServer.ts`, `native/askpass/src/main.rs` (relative to `src/src/`) |
| CONF, SSHG | `core/src/hosts/{sshConfig,sshGValidator}.ts` |
| STORE | `core/src/storage/persistedState.ts` |
| MGR, EXT | `extension/src/{sessionManager,extension}.ts` |
| PROV | `extension/src/fs/remoteFileSystemProvider.ts` |
| VIEW, TREE | `extension/src/views/{filesWebview,hostsTree}.ts` |
| MAIN, PROTO | `extension/webview/src/main.ts`, `extension/src/views/webviewProtocol.ts` |

## 1. The system

The extension spawns the system's `ssh -s sftp`, speaks SFTP version 3 over its pipes, and
offers the remote files as a VS Code file system and as a file browser. Everything runs on
the single thread of an extension host: an interleaving happens where code awaits, where a
callback fires, and between windows, since every VS Code window has an extension host with
a session of its own on the same remote files.

### Components

| component | state it keeps | operations | correct when |
| --- | --- | --- | --- |
| **PathLockRegistry** (LOCK) | `#held`, `#waiters` | `withLock`, `withWriteLock` | a key has one holder; releases wake exactly the longest waiter; nobody waits for ever |
| **SftpClient**, **RequestRegistry** (CLI, REG) | pending and abandoned ids, next id, queue, closed, handshake | `handshake`, one method per request, `readFile`, `writeAll` | a reply reaches the request it answers; the window is kept and used; every promise settles; late handles are closed; a transfer returns only what is complete |
| **ServerCapabilities** (CAPS) | extensions, limits | `readChunkSize`, `writeChunkSize` | chunks are within the server's limits |
| **Wire format** (FRAME, packet codecs) | the bytes not yet decoded | `push` | packets come out whole, in order, however the bytes are cut |
| **Safe replace and sweep** (SAFE) | none in memory; temporary and backup files on the server | `safeReplace`, `sweepArtifacts` | the remote file is the old or the new version, whole, and never gone without the user being told where it is |
| **RemoteSession**, **SshTransport** (SES, `sshTransport.ts`) | client, child process, `#closed`, lock registry | `connect`, `readFile`, `writeFile`, `rename`, `remove`, `dispose`, ... | mutations of one path are serialised; a save is checked for conflicts under the lock |
| **SessionManager** (MGR) | `#session`, `#connecting`, `#autoReconnect`, `#disposed` | `connect`, `require`, `disconnect`, `dispose`, the handler of a lost connection | one attempt at a time; a caller gets the host it asked for; no child is forgotten; a cancelled connection stays cancelled |
| **ReconnectScheduler**, **ConnectionStateModel** (SCHED, STATE) | `#running`, `#generation`, the timer; the snapshot | `start`, `stop`, `#schedule`, `#runAttempt`; `transition` | one retry cycle at a time, cancelled by `stop`; the status tells the truth |
| **AskpassServer** (ASK) and the prompt helper (RS) | of an attempt: listener, token, open connections; of a helper: nothing but its request | `start`, `stop`, `#handle` for each connection; `run`, `send_prompt`, `parse_http_response` | an answer goes to the prompt it was typed for, and nowhere else; no endpoint outlives its attempt; ssh never waits for ever |
| **RemoteFileSystemProvider** (PROV) | `#documents`: the baseline of every open document | `readFile`, `writeFile`, `delete`, `rename`, `release`, the conflict dialog | what is opened is one version; nothing is overwritten that the user has not seen or agreed to |
| **FilesWebviewProvider** (VIEW) and its page (MAIN) | path, rows, error and offline flag, last host and root, the cache; in the page the path field, the rows in their order, the focus | `navigate`, `refresh`, `#handle`, `#post`; `render`, `sortEntries` and the listeners | the page ends up showing what the extension holds, and its path bar agrees with its rows |
| **Host discovery** (CONF, SSHG, TREE) | the cached list `#items`; during a load the files visited and the hosts found | `refresh`, `getChildren`, `#load`, `discoverHosts`, `validateHost` | every host in reach is listed once, and every load ends |
| **Persisted state** (STORE) | an envelope of favorites and one of the history | `record`, `clear`, `list`, `add`, `remove` | the history is of places that were listed, newest first, none twice |
| **Activation** (EXT) | none | the commands and the wiring of callbacks | the commands drive the components above in the right order |

### How they interact

`SessionManager.connect` starts the askpass server, then `RemoteSession.connect`, which
spawns ssh and runs `SftpClient.handshake`. A provider call awaits `SessionManager.require`,
then a method of the session, which takes path locks around one or more client requests.
Exits of the child travel back as callbacks: transport -> client (`#onClose`) -> session
(`#closed`) -> manager (status, `ReconnectScheduler.start`). A new session sweeps the
directory the user starts in for temporary and backup files of interrupted saves.

During an attempt ssh runs the prompt helper, a process of its own, which connects to the
askpass server of the attempt at the port and with the token in its environment, and writes
the user's answer to ssh. The file browser is two programs: the extension host, with
handlers that await the session, a listing and the store of the history, and the page, which
draws the last state it received; they exchange messages that are queued in both directions.
Commands navigate the browser when their connection is up.

### What is hard

Replies that arrive after their request was given up on; ids that come round; a queue in
front of a window; a channel that dies at any await; a save of several requests that is
interrupted between any two, or whose timed-out request is performed all the same; two
saves of one file; a conflict check that must not be separated from the replacement it
guards; a disconnect in the middle of a connection attempt; retries that settle in a later
generation; the exit of an old child reported after a new session is up; helpers that outlive
the ssh that ran them, when their port may be another server's; several navigations in flight
while sessions come and go, and states that arrive while the user types; configuration files
that include each other, and change while they are read. `PROJECT.json`
lists the hazards at their lines, each with the properties that look for it.

## 2. The modules

| module | models | composed with |
| --- | --- | --- |
| `ExclusiveLocks` | the abstract promise of the registry: keys with one owner, passed directly | |
| `PathLocks` | `PathLockRegistry` and the nests of `withWriteLock` that `RemoteSession` runs | refines `ExclusiveLocks` |
| `SftpClient` | handshake, window, queue, ids, timeouts, aborts, late replies, death of the channel | |
| `Transfers` | the loops of `readFile` and `writeAll`, with the chunk sizes | a request is one step that always has an outcome: `WaitsEnd` of `SftpClient` |
| `ReplacedFile` | the abstract promise of `safeReplace`: a file with one save's content at a time, in which a success is final | |
| `SafeReplace` | `safeReplace`, `sweepArtifacts`, the server's directory, sessions that die | in one window refines `ReplacedFile`; a save's writes are one request: `TransferIsWhole` of `Transfers` |
| `Documents` | provider `readFile`, `writeFile`, `delete`, `release`; `RemoteSession.readFile` and the conflict check of its `writeFile` | the swap is one step: `NeverHalf` of `SafeReplace`; the lock is a set of owners, and implements `ExclusiveLocks` as `PathLocks` does |
| `SharedConnection` | the abstract promise of `connect`: one session or one attempt at a time, which answers all who want its host, together, and nobody else | |
| `SessionManager` | manager, retry scheduler, connection status, the life of session and child | refines `SharedConnection` |
| `Stores` | what the history store makes of its envelope | used by `FileBrowser` |
| `Ordering` | what `sort` and `filter` make of a finite order | used by `FilesPage` and `Stores` |
| `FilesPage` | the page: a record, and each listener a function from page to page | used by `FileBrowser` |
| `FileBrowser` | VIEW, the messages to and from the page, the commands of EXT that drive it | EXTENDS `FilesPage` and `Stores`; of the manager it has what a caller can tell: one attempt at a time, shared by all who want its host (`SharedConnection`, with a session's arrival and the answers in one step) |
| `Askpass` | the server of an attempt, its handlers, and the helper processes | an attempt of `SessionManager` is `Establish`, `Start`, `Finish` |
| `HostList` | the list's cache, the walk through included files, the checks by `ssh -G` | |

Each has a module `MC...` with the instances TLC runs. Modules named `...Proofs` hold the
theorems; those about `Transfers` and about `HostList` share `LoopsProofs`. Definitions whose name ends in a suffix after `_` (`HasRoom_OneMore`) are *slips*:
plausible mistakes in the definition they are named after, used to make sure that every
property notices one. A property that is a conjunction of named parts has a slip for each part.

### How state and actions correspond to the code

* **PathLocks.** `held` and `waiters` are `#held` and `#waiters`. An operation has a plan:
  `<<p>>` is one `withWriteLock(p)`, `<<p, q>>` the nest in `rename` (SES:234). `NextKey` is
  one iteration of the loop in `withLock`, up to an `await`; `Settle` and `Unwind` are the
  release of the inner and of the outer call in their `finally`. A key goes from the
  releaser to the first waiter without becoming free, as in the code. Paths are abstract
  values with a parent and a rank in the sort order.
* **SftpClient.** `pending`, `abandoned`, `nextId`, `queue`, `closed` are the fields of the
  same names. A synchronous stretch that loops (`#drainQueue`) or calls on
  (`#closeHandleQuietly` inside `#onData`) is several actions, and `now` keeps any other
  action from interleaving. The channel delivers bytes until it closes; the server may answer
  in any order, or never. `id` keeps the id captured by the closures of timer and abort
  listener, which is what they use in the code, even if the id has been given to another
  request since. Replies that carry an id nobody knows and undecodable frames are one
  action, `BadFrame`.
* **Transfers.** `next`, `active`, `failure` are the locals of the loops. `moved` is the set
  of offsets filled in the buffer or written at the server. `Loop` is what runs when a
  request has settled: `pump` and the test that ends the transfer.
* **SafeReplace.** `pc` is the request whose outcome a save or a sweep awaits; there is one
  action per outcome handler, with its early returns. The wire of a session is FIFO; the
  server executes one request at a time. `Serve` decides whether the outcome is seen. A
  caller whose request timed out goes on while the request may still be performed later.
* **Documents.** `base` is `#documents`. A version stands for a content with the size and
  mtime a `stat` returns. `seen` is no variable of the code; it records which versions the
  text in an editor has been, so that properties can speak of what the user saw.
* **SessionManager.** An attempt is one run of `#establish`; `phase` says at which await it
  is, `child`, `closed`, `broken` what has become of its process, session and client.
  `sched` is the scheduler with its generation; `status` is the snapshot shown to the user.
* **FileBrowser.** `view` holds the fields of `FilesWebviewProvider`, `cache` its `#cache`. A
  handler is a task: `pc` says what it awaits (`require`, the connection, the listing, the
  write of the history), `want` and `path` are its captured host and path. `Receive` is
  `#handle` up to the first await, `Navigate` the synchronous head of `navigate`, `Caught` its
  `catch`, and `Post` is `#post`, which remembers the root only if there is a page. `Quiet`
  keeps events out between a settled promise and its continuations. A page is one record;
  `Draw` applies `Render` to it, and `InField`, `InRows` and `Buttons` are the user at work.
  Listings come in any order of the server and are sorted twice, as in the code: by
  `RemoteSession.list` and by the page. `page.held` is no variable of the code; it says
  whose text is in the path field.
* **Askpass.** Every helper is a process with a `stage` and, at the server it reached, a
  `handler`. `linked` is the connection, which either end may close; `reply` is what is on
  the wire. `Run` and `Connect` are the helper's checks and its connection, `TimesOut` every
  one of its timeouts, `Read` the parsing of the response and the exit. `Request`, `Data` and
  `Ask` are `#handle` up to its awaits, `Answer` the rest. `Finish` is `stop`, for whatever
  reason the attempt ended. Port numbers can be reused once free; a token is the
  number of its attempt.
* **HostList.** A load is a task with a stack of files being parsed: `Resolve` is the head of
  `parseFile` (depth, `realpath`, visited), `Read` its `readFile`, and `Parse` one line or
  one match of an `Include`. `Checked` is one run of `ssh -G`. `Settle` stores the items.
  A configuration is data: a file is a sequence of lines, one for each word of a `Host` and each
  pattern of an `Include`, since the loops of `parseFile` run over both alike, and a pattern is the
  set of files it stands for, taken in sorted order. Patterns are absolute, or the files that have
  them are in one directory. `Reach`, what there is to be found, is the least set of files
  that has the roots and is closed under `Include`; it is not how the code walks.

## 3. What is checked

Twelve runs; `PROJECT.json` names their properties and for each property a slip that
violates it.

| run | instance | what it shows |
| --- | --- | --- |
| `locks_move` | 3 operations on a tree of 5 paths; saves at four depths, and a rename across directories whose keys ascend; weak fairness | exclusion, no lost wake-up, no wait cycle, first come first served, every waiter served, refinement of `ExclusiveLocks` |
| `locks_rename` | 2 operations, a rename within a directory | **violated** `NoWaitCycle`: finding 1 |
| `client_window` | 3 user requests (one OPEN with a signal, with its CLOSE), window 2, 4 ids; weak fairness | a reply reaches its request and every reply is known; the window is kept and used; handles are accounted for; who gives up touches no one else; all waits end |
| `client_drop` | the same, window 1 | **violated** `EveryRequestSettles`: finding 2 |
| `replace_save` | 2 saves of one file, 2 sessions one after the other, any server, file inside or outside the swept directory, refusals, timeouts, lost sessions | the file is never half written, and with `posix-rename` always there; no save destroys the last version; nothing goes missing unreported; success means success; the saves of one window implement `ReplacedFile` |
| `replace_sweep` | 1 save, 2 sessions, no `posix-rename`, swept directory | **violated** `SweepSparesTheLast`: finding 3 |
| `manager_connect` | 2 hosts, 2 user calls, 2 retry runs, 3 attempts, disconnect, deactivation, protocol errors, a failing askpass server; weak fairness | refinement of `SharedConnection` (callers share an attempt, get the host they asked for and are answered together); attempts do not overlap, children are accounted for, the status is true, one retry cycle, a late exit touches no newer session, every call settles |
| `documents_save` | 2 windows, 2 calls at once, 1 file, 3 versions, other programs, failed refreshes, discards | a read is one version with its own baseline; a save replaces its baseline or an agreed version |
| `transfers_whole` | transfers of 0 to 9 units from files of 0 to 9, window 3, chunks of 3 and of 2; failures, aborts; weak fairness | what returns is complete, what fails is thrown, nothing stays in flight, every transfer ends |
| `browser_panel` | 2 hosts, 3 paths, 2 handlers, 3 inputs, 1 fault, a view that is closed and opened | at rest the page shows what the extension holds; path bar and rows agree; rows and history are of the places they are kept for; the rows are in order; a path once shown never goes blank |
| `askpass_prompts` | 2 attempts, 1 port, 2 helpers; weak fairness of the helpers and handlers | only an attempt's own helpers open dialogs, only the answer to its own prompt reaches stdout, what the helper may send the server takes, no endpoint outlives its attempt, every helper ends |
| `hosts_walk` | 6 configurations of up to 4 files and a link, 2 loads, 1 edit, depth limit 2; weak fairness | the list is complete, without duplicates, the user's configuration first; every load ends |

### Bounds, and why they are enough

* *Locks.* Exclusion and wake-ups are about a holder, a waiter and one more to overtake;
  three operations have all of these, and the tree has a path, its parent, its grandparent
  and an unrelated path. The theorems of section 4 remove the bound.
* *Client.* With window 2 and three user requests there is always one that can queue. There
  are five requests and four ids, so ids come round, past ones in flight and abandoned. Each
  request is issued once.
  The action `Abort` is bounded by `SignalInTime`: a signal fires before its id has been
  reused. In the code that takes 2^32 requests, and the extension passes no signal at all.
  The branch of CLI:646-652 for a `write` that throws is left out: the only channel there
  is (`sshTransport.ts:93-97`) does not throw. `#openHandles` is only written, and left out.
* *Safe replace.* Two saves are enough for one to be interrupted and another to meet what
  it left; two sessions for the reconnection. A plain rename refuses an existing target
  (what SFTP 3 servers do, and what the code relies on). The chunks of a write are one
  request. Requests not executed when a session dies are lost. `Overlap` admits a second
  window (FALSE in the runs). The theorems of section 4 remove the bounds on saves and sessions for
  all the properties of `replace_save`, and `Overlap` for two of them.
* *Manager.* `MaxMade` bounds the attempts, `MaxGen` the generations, at which no disconnect
  happens any more; the guard `Room` keeps a caller from queueing without an attempt left
  for it, so that the bound cannot look like a hang. The order in which callers of one
  settled attempt go on is left open. The theorems of section 4 remove these bounds for every
  property but `EveryCallSettles`.
* *Documents.* Two calls, in one window or in two, cover every pair that can interleave.
  Versions of the same size written in the same second are the same to the program and are
  not distinguished. There is one host. The theorems of section 4 remove the bounds.
* *Transfers.* Nine units are three windows of chunks with all remainders. The file does not
  change its length during a transfer. The theorem of section 4 removes the bounds for
  `TransferIsWhole`.
* *Browser.* Two handlers are enough for every pair of navigations to interleave, two hosts for
  a session to be replaced under a listing. `MaxInputs` bounds what the user does, in the page
  and by commands, at three, `MaxFaults` lost connections and failures at one, and
  `HistoryLimit` is 2, so that with three directories the history drops one. What can be typed is
  a directory (on one of the hosts it is a file) and a text that is no path. Messages are
  bounded by the inputs. There is one page at a time. The theorems of section 4 remove these bounds
  for every property of the run.
* *Askpass.* Two helpers of one attempt are ProxyJump; two of different attempts with one port
  are the stale helper that finds the next server. `MaxRequest` is 2 bytes, and bodies are of 2 and
  3, which is the limit and one above it; one answer is too long for the response. The theorems of
  section 4 remove these bounds.
* *Hosts.* The six configurations have a pattern that matches a file by two names, a cycle
  through both roots, a host in both roots, a missing root, and a chain longer than the limit
  of 2; `MaxEdits` is one change, at any moment of a load. A load that begins while another one
  is in progress has the second task. The theorem of section 4 removes these bounds for
  `ListIsComplete`.

Deadlock is checked in the lock runs, where an operation can always start again; the other
systems may really come to rest, and their configurations say so.

### Fairness

Weak fairness everywhere, and only of what the runtime guarantees.

* *Locks:* continuations run and a guarded operation ends. Each request under a lock has a
  timeout, so this is so unless a conflict dialog is open: the fairness assumes that the
  user answers it.
* *Client:* the handshake's timer, the timers of the requests, and continuations. Nothing is
  assumed of the server or of the channel.
* *Manager:* continuations, the grace period of a `dispose`, the askpass server's start and
  stop, and an end to every handshake, which has a timeout. Nothing is assumed of users,
  children or timers of retries.
* *Transfers:* every request has an outcome (shown for the client by the run
  `client_window`) and the loop goes on.
* *Askpass:* the helper's own steps, which all have timeouts, and the handlers of the server.
  Nothing is assumed of the user, of ssh, or of the attempt.
* *Hosts:* the file system answers, and a run of `ssh -G` is ended by its timeout.

`FileBrowser` has no liveness property: what a handler waits for is what `manager_connect` and
`client_window` show to end, and its state space leaves no room for a check of cycles.

### Findings

1. **A rename within a directory waits for itself** (SES:234, LOCK:19-20). The inner
   `withWriteLock` asks for the parent that the outer one holds.
2. **A queued request never settles when the channel dies** (CLI:721). `#onClose` empties
   the queue and rejects only what is in the registry.
3. **The sweep can destroy the last version of a file** (SAFE:205). After a connection lost
   between the two renames of `replaceViaBackup` the file exists as backup and as temporary
   file only, and both are what the next session sweeps.

### Further disagreements the models show

These have no run of their own. Where a property is named, adding it to the configuration shows the
behaviour; where a constant is named, changing its value does.

Sessions and requests:

* `HandshakeSeesClose` as an invariant in `SftpClient_window.cfg`: a channel that closes during the handshake
  is noticed only by the handshake's timeout (CLI:716).
* `CancelledStaysCancelled` as a property in `SessionManager_connect.cfg`: `#establish` does not look after its await whether
  a `disconnect` came meanwhile, and the cancelled connection comes up (MGR:168).
* `LiveIsShown` has an exception for `<<"disconnected", None>>`: a `disconnect` that ends
  after a newer connection came up shows "disconnected" (MGR:118).
* `EarlyDrops = TRUE` in `SessionManager_connect.cfg` breaks `StatusIsTrue`: a
  session lost while the retry that made it still stops the askpass server is not retried,
  and "reconnecting" stays (MGR:194).
* `ConnectedIsUsable` does not ask for `~broken`: after a protocol error the client is dead, but
  the session, the child and the status stay (CLI:687).
* `NoStrayChild` as an invariant in `SessionManager_connect.cfg`: the child of a failed handshake is not
  killed (SES:69).
* An askpass server that cannot start leaves the status at "connecting" or "reconnecting"
  (MGR:143), and its field `#server` set; between two retries the status is "failed" (MGR:176).
* Three clicks for hosts A, B, A in a row end at B (MGR:72).
* A timed-out request leaves its abort listener registered (CLI:628), which is harmless only as
  long as nobody passes a signal. A `dispose` during `#establish` lets the attempt go on (MGR:124).

Files:

* `ShortReadsAreNormal` as an invariant in `Transfers_whole.cfg`: a short read leaves zeros (CLI:453), unless
  the server has told its limits.
* `StrandedIsTrue` as an invariant in `SafeReplace_sweep.cfg`, even with `Drops = FALSE`: the error "The
  original has been restored" is thrown inside the `try` whose `catch` takes it for a failed
  rollback (SAFE:155), so a rollback that succeeded is reported as one that failed, with the
  names of two files that no longer exist.
* `UnchangedIsTrue` as an invariant in `SafeReplace_sweep.cfg` with `Timeouts = TRUE`: "It is unchanged" is
  also reported of a rename that only timed out and may have been, or may yet be, performed
  (SAFE:140).
* `NoSilentOverwrite` as a property in `Documents_save.cfg`: the baseline after a save may be somebody
  else's version (PROV:143), which the next save then overwrites without asking.
* Discarding one document forgets the baselines of all (PROV:240), and a failed refresh
  forgets one (PROV:146): their next saves are not checked.

The file browser:

* Of two navigations the one that ends last decides what is shown, not the one asked for last
  (VIEW:107); the error of one that failed stays over the rows of a later one that succeeded.
* After an automatic reconnection nobody posts: the panel stays blank, or "offline".
  "Showing cached contents; the connection is down." is also shown after a listing that failed while
  the connection is up.
* A state that arrives while the path field has the focus changes the rows and not the field;
  leaving the field does not bring the path of the rows (`held` in `BarAgreesWithRows`). Enter with
  a text that is no path is discarded without an answer, and the text stays.
* A right click focuses a row without making it the one the tab key finds (MAIN:265).
* Favorites, double clicks and "Up" take the host of the current session and the path of rows
  that may be another host's.

Prompts and hosts:

* A dialog outlives the helper's timeout of 120 s and its attempt, and what the user then types is
  dropped: "closed as soon as the child exits" (ASK:32) is true of the endpoint only.
* The depth of includes is checked before the files visited, so a cycle at the limit is reported as
  too deep; and the error of one file empties the whole list of hosts (`threw` in `HostList`).
* A refresh during a load is undone by the end of that load, which stores the list it read before
  (TREE:70); the icon of a host stays what it was when the list was loaded (TREE:60).

## 4. What is proved

For every value of the constants that satisfies the modules' assumptions.

**`PathLocksProofs`**, from `PathAssumption` (a parent sorts before its children, ranks are
unique) and `PlanAssumption`. `MutualExclusion` alone is not inductive: a release passes
a key on, so one has to know that the head of the queue is really suspended for that key and
in no other queue. The invariant is

    IInv == TypeOK /\ (\A o \in Ops : Progress(o) /\ Distinct(o))
            /\ MutualExclusion /\ HeldIsOwned /\ NoLostWakeup

where `Progress` and `Distinct` fix how far an operation is in the keys of its plan.
`AcquireStep` and `ReleaseStep` prove it for the two kinds of step, from lemmas on what a
taken, a kept and a given key do to ownership; `StepInv` has one step per action.
From it follow `TypeOKHolds`, `MutualExclusionHolds`, `HeldIsOwnedHolds`,
`NoLostWakeupHolds`, the action property `NoOvertakingHolds`, the refinement
`ImplementsExclusionHolds`, and `NoWaitCycleHolds`. The last assumes that every nest asks for its
keys in ascending order: among the operations that wait for one another, the one that waits
for the greatest key could not wait for a lower one. A rename within a directory does not
satisfy this, which is finding 1.

**`SftpClientProofs`**, from `ClientAssumption`. The invariant is `TypeOK /\ RInv /\ NoIdle`.
`RInv` says that the registry's maps are typed, that an id is pending or abandoned but not
both (`OneMap`), that no two requests on the wire share an id (`UniqueIds`), that while the
client is open the id of a request on the wire is registered for that request (`Held`), that
a closed client has nothing pending (`ClosedEmpty`), and that the window is respected;
`NoIdle` is the other half of `WindowKept`: outside a drain nothing waits while there is room.
The parts of a step that several actions share (`Start`, `Request`, `Abandon`,
`OnClose`, a reply) are lemmas. From it follow `TypeOKHolds`, `CorrelatedHolds`,
`EveryReplyKnownHolds` and `WindowKeptHolds`, for any window, any number of ids and any set
of requests. Two more invariants follow the life of a caller's request: `Waiting` (it is in the
queue at most once, and then only waits to start) and `Underway` (the id its closures captured
is in use by it, and it is in flight). From them follow `GivingUpIsPrivateHolds` (a timeout or an
abort settles no other request) and `HandlesAccountedHolds` (a handle the server grants is
closed, about to be, or its caller's).

**`SafeReplaceProofs`**, from `ReplaceAssumption` (temporary names, backup names and the file's
own are all different). That the file is never half written hangs on what may still
be on its way to the server: a save gives up on a request and goes on, and the request is
performed later all the same. The invariant is

    IInv == Typed /\ Wires /\ Files /\ Spared

`Wires` says of every request on a wire what it may ask for (`Shape`), how far its save may have
gone since it was sent (`Timely`, by the table `Later`), and of every two requests of one save
that they are `Apart`: never the same step, and never one that fills the temporary file
together with one that moves it into place. `Files` says that the file and the backups are absent or
complete, and so is the temporary file of a save that has passed its writes (`Filled`);
`Spared` that once a save has given up its backup there is another complete version. `Advances`
reduces the handlers of a save to which request follows which outcome (`Follows`, `Ends`), and
`Overtaking` shows that what follows is apart from whatever is still on the wire. `Served` says what the
server can do with a request; `Executed` and `ExecutedKeeps` what that does to the files. From
it follow `NeverHalfHolds` and `NothingLostHolds`, for any number of saves, sessions and servers, and for
two windows at once (`Overlap`), which the run does not cover.

What a save reports is true in one window only: a second one's save may replace the file between the last
request of the first and its report. `SavedIsThereHolds`, `NothingMissingSilentlyHolds` and `ImplementsFileHolds`
assume `~Overlap`, and rest on

    OneWindowInv == IInv /\ Alone /\ Newest /\ Own /\ There /\ Admitted

`Alone`: one session is up, a session that is not has an empty wire, and one save runs. `Newest`: on a wire
nothing of a save comes after the request a save awaits, so that once that request is answered, everything
earlier has been performed (`AnsweredIsLast`); this is why no late rename of an earlier save can come
after a success. `Own`: a temporary file is its save's work. `There`: once the swap or step 2 has been
answered with success, the file is that save's, and nothing pending can touch it. `Admitted`: if there is
a complete version and not under the file's name, some save is on its way to the rollback or the report of it
(`Astray`), or has reported (`Told`). `Kinds` reduces every step but the server's to four
kinds (a request sent, a report, requests fading away, a step of the sweep), so that each part has five
cases. For the refinement `Strategy` adds that a save only ever asks for what suits the server, and
`StepFile` maps each kind of step: a request that takes the file's place is `Take`, a backup `MoveAway`,
a rollback `PutBack`, a report `Succeed` or `Fail`, and all the rest leave the file alone. Its heart is the
guard of `Succeed`: no save may yet touch the file.

**`LoopsProofs`**: the two components that loop over data, the transfers and the list of hosts.

*Transfers*, from `TransfersAssumption`. The invariant is

    IInv == Typed /\ NoGap /\ AtEnd

`NoGap` says that as long as nothing has failed, every offset below `nextOffset` is done or in the slot
of a request in flight. `Pumped` shows that `pump()` keeps it, and that when nothing is in flight
after it `nextOffset` is the end: the offsets it issues are the multiples of the chunk size from
`nextOffset` on, as many as there is room for (`FreshOnes`, `FreshForm`), the last of them is where it
goes on from (`LastFresh`), and an offset it has passed is in the slot at the last multiple before it.
From it follows `TransferIsWholeHolds`, for any size of the file and of the transfer, any window and any
chunk size.

*The list of hosts*, from `HostListAssumption` (there are finitely many files, and what is in them is
lines). The invariant is

    ListInv == ListTypeOK /\ \A l \in Loads : OfLoad(l)

where `OfLoad` says of a load that its configuration has not changed under (`steady`) that it is `Walked`, or has
given up and the files in reach were too many (`TooDeep`). `Walked` is the argument that a walk which marks
what it has visited misses nothing, for a stack of loops that are suspended in one another:

* `NothingLeftOut`: every root, and every line of every file visited, is handled, or in a frame of the stack
  with what it still has to do (`Pending`), or it names the file that is just being resolved. An Include
  whose file is skipped because it has been visited by another name is handled by that other visit.
* `Inside`: whatever is found, read or queued is in reach. With `NothingLeftOut`, a load with nothing pending has
  visited a closed set of files within reach, and `Reach` is the least of them (`ReachIsLeast`, `AllFound`).
* `NoCycle`: the files on the stack are visited and canonically different, so that a stack deeper than the
  limit means that many files (`DeepStack`): a cycle never makes a load give up.
* `Once` and `UserFirst`: no alias twice; and when the system's configuration is begun, the user's is finished
  and its hosts have sources of its own.

`NextList` has one lemma per action (`ResolveStep`, `ReadStep`, `MatchStep`, `HostStep`, `IncludeStep`, `EndStep`,
`RootStep`, `BeginStep`), and `Still` for whatever leaves a load alone. From it follows `ListComplete`, for any
files that include each other in any way, by any names, any number of loads and of changes. No induction over the
configuration is needed: the invariant is about the pending work, and `Reach` enters only as a least
closed set.

**`SessionManagerProofs`**, from `ManagerAssumption`. The invariant is

    IInv == TypeOK /\ Roomy /\ Owning /\ Serving /\ Cycle

`Roomy` is about the bound on attempts: a caller joins the chain only when an attempt is left for it and for
everybody queued before. `Owning` says that the attempt in progress is the one in `#connecting` (`Single`), that
there is no session until that attempt has one of its own (`Vacant`), and that a running child nobody disposes of is
the current session's or the attempt's (`Owned`). `Serving` says that what a caller awaits or has got is of the host it
asked for, and `Cycle` that one run or timer of the scheduler has its present generation. From it follow
`TypeOKHolds`, `GotWhatAskedHolds`, `OneAttemptHolds`, `ChildAccountedHolds`, `OneRetryCycleHolds` and
`CloseIsPrivateHolds`, for any number of hosts, callers, retries and attempts.

`ImplementsSharingHolds` is the refinement of `SharedConnection`, in which nothing is left of processes and promises
but hosts: that of the session, that of the attempt, and what each caller wants and has been given. A step of
the manager is a step of it or cannot be seen (`StepShared`, from one lemma for each kind of step). Its heart is
the end of an attempt (`SharedSettle`): the callers that await it are exactly those who want its
host. That needs `Sharing`: besides parts of the invariants above, whoever is queued waits for an attempt for
*another* host (`Elsewhere`), which is true at every event because continuations run first (`Quiet`), and a client breaks only
once its session is the manager's (`Unbroken`), so that a session that comes can be used. `EarlyDrops` does
not matter here.

`StatusIsTrueHolds` assumes `~EarlyDrops`, without which it is false (section 3), and needs
more: `SInv` adds what the stages of an attempt say of its child and its session (`Sound`), that calls wait for
attempts made (`Calling`), that a running scheduler has a timer or a live run (`Trying`), and what has to be the case
for each status to be shown (`Shown`). The step that matters is the loss of a session while the scheduler is
already running: nothing starts it then, and `TimerIsSet` shows that its timer is set all the same, so that
"reconnecting" is true.

**`DocumentsProofs`**, from `DocumentsAssumption`. The invariant is

    IInv == TypeOK /\ Exclusive /\ Unwritten /\ \A t \in Tasks : Reads(t) /\ Checked(t)

A read is one version because versions never come back: `Reads` says that as long as the file is
the version of the first `stat`, the handle is open on it and all data came from it, so that a
second `stat` with the same result proves the whole. For a save, `Exclusive` is the lock (one call of
a window is past the check), `Checked` says that since its check only somebody else's
version can have come, and `Unwritten` that a new version has no other author than its writer. From it follow
`Typing`, `OneVersionIsRead` and `OverwritingIsAgreed`, for any number of windows, documents, calls and
versions. `LockIsExclusive` ties the module to `PathLocks`: its lock implements `ExclusiveLocks`, the promise
that the registry is proved to keep, with a window's directory for the key.

**`AskpassProofs`**, from `AskpassAssumption` (no answer a user can type is one of the outcomes by
which the models tell a failed prompt). The invariant is

    IInv == TypeOK /\ OneServer /\ \A h \in Helpers : Order(h) /\ Wrote(h) /\ Reached(h)

`OneServer` says that only the server of the current attempt is starting or up; `Order` which
stages of a helper and of its handler go together, and that a handler past the token check is at
the server of the helper's own attempt, whichever server the port led to; `Wrote` where a helper's output and
exit code come from; `Reached` that its connection is to a server that is or was up, and that what
it sends is small enough. From it follow `Typing`, `OwnDialogs`, `OwnAnswers`, `Limits` and
`Endpoint`, for any number of helpers, ports and attempts.

**`FileBrowserProofs`**, from `BrowserAssumption` (of which a proof needs that a directory is finite),
`PageAssumption` and `StoresAssumption`. The invariant is

    IInv == Typing /\ Agreeing /\ PlacesAreTrue /\ InStep /\ Seeing /\ Drawn

`PanelInStep` speaks of a panel at rest, so `InStep` has to say why one in motion comes to rest in step: a refresh
or a handler is on its way that ends by posting (`Telling`), or the last message, if there is one, is the state
of the extension, and if there is none the page shows it (`Told`). `Agreeing` says of the extension, of every message
and of the page that the rows are those of the path beside them; `Seeing` that a path, once shown, leaves the
extension something to show (`Sighted`) and is followed by no message without one; `Drawn` that
the page's rows are in the order the user chose. `StepIInv` has one lemma per action; `Posting`, `Moving`,
`Going`, `Returning` and `Steering` are about the helpers they share.

What `sort` and `filter` return is proved without induction. Both are given by `Nth` of `Ordering`, the element with
k - 1 others below it. `Numbered` shows by counting that in a finite strict total order (`Total`) every number up
to the size is one element's; `InOrder` and `Arrangement` that the sequence so numbered is a permutation, in order. `Drawing`
(the page's sort), `Listing` (the session's), `Filtering` and `Recording` (the history) follow. `RowsInOrderHolds`
assumes `NamesDiffer`: no two names of one directory are the same to `localeCompare`. Where two are, the order is
the server's, which may change between two listings. From the invariant follow `TypesHold`, `PlacesAreTrueHolds`,
`PanelInStepHolds`, `BarAgreesWithRowsHolds`, `RowsInOrderHolds` and the action property `NeverBlankHolds`, for any
hosts, directories, handlers, inputs and failures.

**Only model-checked.** The liveness properties (`EveryWaiterServed`, `WaitsEnd`,
`EveryCallSettles`, `TransferEnds`, `EveryHelperEnds`, `LoadEnds`): liveness under fairness, and `ENABLED`,
are beyond TLAPS here.

## 5. What is not modelled

* The wire format: the frame decoder and the packet codecs (FRAME, `packets.ts`). In the models the channel
  delivers whole packets, and a stream that cannot be decoded is the action `BadFrame`.
* Functions of text: path normalisation, the splitting of `ssh_config` lines and the matching of
  their patterns, the output of `ssh -G`, the validation of stored state that was edited by hand.
  What they return is data of the models.
* Rendering, column widths, labels, the status bar and the registration of commands: no state that
  anything else depends on.
* `mkdir`, `createFile` and `rmdir` of the session are one request under a write lock, which is
  `PathLocks`; `rename` and the recursive delete of the provider (PROV:217) are sequences of requests without
  a state of their own.
* Two windows that write one stored envelope (STORE:114), and the host in a document's URI, which
  the provider ignores (PROV:104): `Stores` has one window, `Documents` has one host.
* Permissions: `Documents` and `SafeReplace` leave `fsetstat` out, except as a step that may
  fail. (A save without a baseline creates its file without the permissions of the original.)
* File contents, beyond which version they are and whether they are complete.

## 6. Plan

Done, in this order, what guards the user's files and what everything else waits for first:
`PathLocks`, `SftpClient`, `SafeReplace`, `SessionManager`, `Documents`, `Transfers`,
`FileBrowser` with `FilesPage` and `Stores`, `Askpass`, `HostList`; the proofs about
`PathLocks`, `SftpClient`, `SessionManager`, `Transfers`, `Askpass`, `Documents`, `SafeReplace`,
`FileBrowser` and `HostList`.

To extend the models:

1. `FrameDecoder`: `push` over bytes cut anywhere, against the reference that splits the whole
   stream; size limits and the state after an error.
2. `Stores` with two windows that read, change and write one envelope. Property: no update lost.
3. `Documents` with two hosts, `rename` and the recursive delete.

To prove: every safety property that a passing run checks is proved. Worth stating and
proving next are what `SafeReplace` promises with two windows about what they report, and that what
`FileBrowser` says of the manager is no more than `SharedConnection` allows.

## 7. Running it

    tlc -workers 2 -config PathLocks_move.cfg MCPathLocks
    tlapm PathLocksProofs.tla

and likewise for the other configurations, each with the `MC...` module of the same
component. The largest runs are `replace_save`, with 7.5 million states, and `browser_panel`, with
2.4 million.
