# A TLA+ model of WinInspect

WinInspect is a daemon, `wininspectd`, that answers questions about the windows
of a Windows or Wine desktop, and clients that ask them. This directory holds
models of the daemon, of the desktop it acts on and of its clients, the TLC runs
that check them and the TLAPS proofs about them. `PROJECT.json` maps every
definition to the lines it models.

## The system

| Part | Source | Modelled by |
|---|---|---|
| Shared state: snapshots, LRU list, pins, sessions, cleanup | `daemon/src/server_state.hpp`, `server.cpp` | `ServerState`, abstractly `SnapshotLeases` |
| Request loop, the steps both transports share | `server.cpp`, `tcp_server.cpp` | `RequestHandler` |
| Named-pipe server, TCP server | `server.cpp`, `tcp_server.cpp` | `PipeHandler`, `TcpHandler` |
| The daemon serving requests | `server.cpp`, `tcp_server.cpp` | `Daemon` |
| Event subscription as a client sees it | `server.cpp`, `win32_backend.cpp` | `EventFeed` |
| Framing, handshake, encryption switch | `pipe_win32.cpp`, `tcp_server.cpp` | `Connection` |
| Core dispatch: methods and their parameters | `core/src/core.cpp` | `CoreDispatch` |
| Desktop operations of the backends | `win32_backend.cpp`, `fake_backend.cpp` | `Desktop` |
| Window and element trees | same | `UiTree` |
| Process start, tray, shutdown, discovery | `server.cpp`, `tray.cpp` | `Lifecycle` |
| CLI and portable client | `clients/cli`, `clients/portable` | `ClientCommands`, `ClientProcess` |
| GUI and its view model | `clients/gui` | `Gui` |
| Clients, GUI and daemon process together | all of the above | `Clients` |
| base64, JSON, logger, update client | `core/` | `Base64`, `JsonString`, `TinyJson`, `LogBuffer`, `UpdateClient`, `VersionTags` |

The daemon runs one thread per connection. All threads work on one
`ServerState` behind one mutex `mu`, and each request passes through several
critical sections with unlocked work between them: capturing the windows,
running the core under a watchdog, sending the answer. A snapshot is stored
under a number; requests name snapshots by number and pin the one they use, and
`snapshot.capture` evicts the oldest ones that are not pinned. A persistent
session remembers a subscriber's baseline between requests and connections.

The system is looked at from three sides that share definitions only where they
meet. `Daemon` has the threads and the shared state, with requests as records.
`Clients` has the byte streams, the processes on both ends and their lives, with
the inside of a request reduced to the answers `CoreDispatch` allows. `Desktop`
has what the requests do to the one desktop they share, call by call.

## How the model corresponds to the code

A step of a thread is either thread-local work or one whole critical section,
so it needs `mu = Nobody`. The exception is `snapshot.capture`, whose eviction
loop takes one step per iteration while it holds `mu`, because whether the loop
ends is one of the questions. `pc[c]` says where the thread of connection `c`
is, and `req`, `session`, `pinned_sid`, `snap`, `old` and `resp` are its locals
under the names the code uses. Locals that go out of scope are reset.

`handle_client` and `handle_socket_client` are near copies. What they share is in
`RequestHandler`; the two transport modules hold the differences. The pipe has
the connection limit, the authentication gate, an LRU touch on lookup, locals
that live as long as the connection and an unpin on disconnect. TCP has the
session limit, and locals that live for one request.

Abstractions:

- A snapshot is the set of top-level windows in it, all that `poll_events`
  compares. An id `s-<n>` is `n`. A missing pin entry counts 0, as `operator[]`
  makes it.
- `window.query` stands for the methods the handlers only pass to the core and
  `reg.write` for those read-only mode refuses. The core may succeed, fail or
  time out. A timed-out call is waited for before the answer is sent
  (`drain`): the future's destructor blocks.
- Time is not modelled: cleanup may find any session idle for its TTL (the TTL
  is a command-line option), and any core call may time out.
- Windows come and go at any moment (`ChangeWorld`).
- `config.require_auth` stands for `--require-auth` or configured keys.
- Write errors are ignored by the code, so a vanished client is noticed at the
  next read. Empty strings as `session_id` or `snapshot_id` are left out.

**Connection, ClientProcess, ClientCommands, CoreDispatch.** A frame is a unit
that holds the length and `BodyParts` more; a read takes any prefix of what is
in the stream, so every way of cutting a message up occurs. `spc` is where the
daemon's thread is (hello, auth, reading), `cpc` where the client process is.
A message holds what its receiver's code tells apart: whether a hello has a
nonce, whether a response is valid and brings a usable key, whether a request is
sealed. `CliCommands` gives every command its method and the parameters it takes
from its arguments; `dispatch` gives every method the parameters it insists
on. A parameter is its name and kind, so `handle` can tell at which stage
(method, parameters, backend) a request ends. One client process runs at a
time; `peer` is any other program that speaks the protocol over TCP and is
external.

**Lifecycle.** `main`, the thread in `run_server` and the two threads that may
run `TcpServer::start`. The process ends by `exit(0)` from the tray or by
returning from `main`, which waits for the client threads.

**Gui.** `refresh` and `select_hwnd` are two requests each, and each may fail
in the ways the code tells apart: an error answer, or an exception that ends the
process. Items of the tree control refer to `hwnd_storage` by index.

**Desktop.** A request is a task of the core that makes one system call per
step; the watchdog may turn its answer into `E_TIMEOUT` but the answer waits for
the task, as the future's destructor does. Other programs close windows, take
the foreground and use the clipboard; the service manager moves services on.
`settled[t]` records the goal a client's last ensure reached, until any step
undoes it. A workload holds the requests that touch one part of the desktop.
`reg_delete` with a value name changes no key and is left out.

**Helpers.** `Base64` and `JsonString` are loops, one action per turn: `encode`
and then `decode` of what it returned, `dump_string` and then `parse_string` of
what it wrote. `val`, `valb` and the parser's `i_` (`cursor`) are the code's
variables; `starts` keeps where the text of each byte begins. `TinyJson` (whole
JSON values, on top of the turns of `JsonString`) and `VersionTags` (release
tags) are functions translated from the code; `MCHelpers` calls them on every
input of a bounded set and compares with a reference definition.
`UpdateClient` has the order of versions and the download, `LogBuffer` the
logger; the last two have state that threads share. A JSON number is the decimal
digits of the double `stod` returns, which is exact up to 15 digits; printing
rounds it to six decimals, so `0.0000001` and `1e-7` become `0`. Half of the
sixth decimal may go either way, as the nearest double lies. Left out: the
leading blanks, plus signs and overflow `stoi` accepts or throws on.

**UiTree.** The recursions over windows and elements (`get_window_tree` of both
backends, `walk_uia_tree` of the Win32 one, `find_and_invoke` of the fake one),
one action per recursive
call (`Descend`), return (`Ascend`, `Return`), element that cannot be got
(`Skip`) and element found (`Match`). `stack` has the nodes whose children some
call goes through and `todo` what is left of its loop; `visited` only records
which calls have returned. What a tree nests is kept as a count per node
(`times`), since a node is put into the list of the call for its parent. The
fake backend holds its mutex during a walk; for the Win32 backend it is assumed
that the windows stay while they are listed.

## Runs

| Run | Instance | Shows |
|---|---|---|
| `server` | 1 pipe and 1 TCP with the store (3 numbers, 1 window, limit 1) or with 2 sessions (open and strict configuration), or 2 pipes | `LruEnumeratesStore`, `SnapshotIdsNeverReused`, `PinsNeverLeak`, `NamedSnapshotServed`, `CapturedEvictedLast`, `ActiveConnectionsExact`, `SubscribedHasBaseline`, `BaselinesAdvance`, `TypeOK`; every refusal path |
| `leases` | 2 TCP, 1 window, 2 sessions, 3 numbers, limit 1, every kind of request, fair | `HeldSnapshotsStay`, `PinsExact`, `RequestsAnswered`, `ImplementsLeases` |
| `store_limit` | 1 pipe, 1 TCP, limit 1 | `StoreWithinLimit` fails |
| `connection_limit` | 2 pipes, limit 1 | `ConnectionLimitEnforced` fails |
| `double_unpin` | 1 pipe, 1 TCP | `HeldSnapshotsStay` fails |
| `stall` | 3 TCP, fair | `RequestsAnswered` fails |
| `session_limit` | 2 TCP, 2 sessions, limit 1 | `SessionLimitEnforced` fails |
| `missed_events` | see `MCEventFeed_missed.cfg` | `NoEventsMissed` fails |
| `clients` | every CLI command with too few, the fewest and the most arguments, an unknown one and one with more than it takes, the portable client, 24 peers; bodies in 2 parts; 2 windows; fair | `FramesInSync`, `OnlyStatusUnknown`, `TcpStartedOnce`, `PropsOfSelection`, `InvocationsEnd`, `ClientsTypeOK` |
| `keyless_tcp` | the CLI over TCP | `KeylessClientsServed` fails |
| `desktop` | 2 clients, 2 windows, 5 workloads, both backends, fair | `RepeatedEnsureUnchanged`, `ClipboardExclusive`, `ProbesLeaveNothing`, `NoEffectAfterAnswer`, `RequestsCompleted`, `DesktopTypeOK` |
| `helpers` | about 24,000 calls; 825 byte strings, 1,067 strings; every forest of 4 nodes, any elements failing or matching; 2 downloads; 2 logging threads | `Base64RoundTrip`, `JsonStringRoundTrip`, `JsonRoundTrip`, `UpdateOffered`, `WindowTreeComplete`, `UiElementsToDepth`, `FakeFindExact`, `DownloadsDoNotMix`, `LogsAreNewest` |

The seven failing runs each state what the repository's documentation or
comments say; `PROJECT.json` quotes the line and describes the behaviour:

- A pipe client that queries and disconnects gives its pin back twice.
- Baselines are stored without eviction. When more snapshots than the limit are
  pinned, a capture rotates the list for ever with the mutex held.
- Two subscriptions are enough for a store above its limit: only a capture
  evicts.
- The accept loop tests the number of connections before the thread it started
  has counted itself, so one more is let in.
- A session erased during a request of it is created again unchecked.
- A poll answers from one capture and keeps a later one as the baseline.
- The CLI over TCP expects a nonce from a daemon that needs no authentication.

Bounds. `SnapIds` caps the snapshot counter: `Room` admits a storing request
only if every request in progress can still get a number. With the limit at 1,
three numbers suffice for storing, evicting, and storing over a pinned entry.
`PinFloor` stops the double unpin from taking a count down without end. Two
clients are enough for every race between two critical sections; `stall` needs
a third to capture while two hold pins. `PipeAccept` and `PipeStart` are
separate, as the limit test and the increment are in the code, and two pipe
clients race through them in `server` and `connection_limit`. `MCServer` chooses
one use of the daemon at the start (`Uses`) and restricts the connections and
requests to it: captures with two of the three other requests on the store, a
shared session, or racing pipe clients. All of them at once is out of reach of
a run; the proofs below have no such restriction.

`BodyParts = 2` lets a body be cut in the middle and joined with the next
frame's length. `Backlog` stops `watch` from polling while that many units are
unread, since nothing else bounds what it leaves in the streams. `AccSize = 2^16`
is the range of base64's accumulator, less than the code's 2^32, so that it
overflows within the inputs tried (up to 7 bytes). `MaxLogs = 2` stands for the
buffer's 100 and `MaxHistory = 4` ends the logging, twice what fits. Forests
have 4 nodes and depths go up to 3, so the limit falls above, at and below the
deepest node.

Fairness. `FairSpec` assumes weak fairness for what a thread does on its own
from taking a request in until it reads again: the scheduler runs runnable
threads, and the core returns. Clients, windows and the cleanup thread owe
nothing. Only a capture keeps the mutex for more than one step, and `SnapIds`
bounds the captures of a behaviour, so weak fairness is enough in `leases`. That
run has two clients: while one captures, the other pins at most one snapshot, no
more than the limit; with three, `stall` shows the opposite. It has only TCP
connections; a pipe thread serves a request in the same steps but for moving the
snapshot it pins to the end of the list. The
run shows that the eviction loop ends and that no request waits for another in
a circle; it does not show that a thread waiting for the mutex is safe from an
endless stream of captures, which is up to `std::mutex`. It does assume a core
call that does not hang; the watchdog of the code does not change that, since it
waits for the call.

`ClientsSpec` assumes weak fairness for the daemon's thread and for the client
process, a due receive timeout included; the user, the tray, failing system
calls and the GUI owe nothing. `DesktopSpec` assumes it for the tasks of the
core and the connection threads; other programs and services owe nothing, so
`RequestsCompleted` rests on the code's own timeouts.

## Proofs

For every number of connections, windows, sessions, snapshot numbers and every
value of the limits, from the named assumptions in `ServerState` and
`RequestHandler` (disjoint finite sets of connections, natural limits, distinct
sentinels, well-formed requests):

- `DaemonProofs`: `TypeCorrect`, one lemma per group of actions. `StoreEffect`
  reduces every action to one of a few effects on the store. `StoreInv` adds to
  `LruEnumeratesStore` that all stored numbers are below the counter; without it
  a new number might already be in the list. From it follow `LruAgreesWithStore`
  and `IdsNeverReused`. `SessionInv` says that every baseline on record,
  subscribed or not, is below the counter and that a subscribed session has one;
  with `CounterGrows` it gives `SubscribedSessionsHaveBaseline` and
  `BaselinesOnlyAdvance`.
- `DaemonProofs` also has `CapturedEvictedLastHolds`: `LoopInv` says that only
  the thread with the mutex is in the eviction loop and that what stands behind
  the captured snapshot in the list is pinned; the property alone says nothing
  about the order of the list.
- `ServeProofs`: `NamedSnapshotServedHolds`, from `ServedInv`, which adds that a
  pinned number was given out, so that nothing is stored under it later; and
  `ActiveConnectionsExactHolds`, by counting the pipe threads step by step.
- `PinProofs`: `LocalInv` says at which steps a thread may have a pin;
  `LeaseEffect` reduces every action to its effect on leases. `NoPinLeaks` holds
  for both transports. `TcpPinsExact`, `TcpHeldSnapshotsStay` and
  `TcpImplementsLeases` assume `PipeConns = {}`: with pipe connections they are
  false, as `double_unpin` shows.

For every set of client threads, windows and workloads, `HelperProofs` proves
`ClipboardExclusiveHolds`, `ProbesLeaveNothingHolds`, `RepeatedEnsureHolds` and
`NoEffectAfterAnswerHolds` from one inductive invariant, `DesktopInv`: the
clipboard belongs to the thread between opening and closing it, a settled goal
holds, a request past its test for a settled goal found it so, and a thread at
work has an open request. `DesktopTypeCorrect` assumes (`WorkloadsAssumption`)
that an ensure request names a window and a flag, which is what the core parses
out of it before it calls the backend.

For every set of command lines, windows and message sizes:

- `ConnectionProofs` has no theorem of its own but the two arguments the next
  module rests on. Frames: `WholeFrames(s)` says that every unit of a stream
  belongs to a frame that is there from its length to its last piece; writing a
  frame behind (`FramesAppend`), moving units from the stream to the frame being
  read (`ReadMoves`) and taking the first frame off (`FramesDropFirst`) preserve
  it. Requests: `Fits(c)` says that the places of a command's arguments fill the
  parameters its method insists on with the right kinds; `CommandsFit` proves it
  for every command but `status`, by comparing the two tables, and
  `AnswerUnderstood` draws the conclusion for the core's answer. `StatusUnknown`
  is the exception: `daemon.status` is in no part of the table.
- `ClientsProofs`: `TcpStartedOnceHolds` (`StartInv`: which thread runs the TCP
  server says where `main` is), `PropsOfSelectionHolds` (`GuiInv`: every item's
  index leads to its own handle) and `ClientsTypeCorrect`. `FramesInSyncHolds`
  follows from `StreamInv`: what the daemon's thread has read of a frame and what
  it has not read yet are, together, whole frames; about what was read alone this
  is not inductive, since a read takes units from the rest.
  `OnlyStatusUnknownHolds` (every command but `status` is understood, and
  `status` is answered as an unknown method unless it is refused before) follows
  from `DialogueInv`: over the pipe, everything on
  its way to the CLI is a piece of an answer to this command line's request, and
  over TCP the CLI ends before it can ask. It assumes (`InvocationsAssumption`)
  that a command line has a number of arguments, which are well formed or not.
  A command line with an unknown command or with too many arguments is included.
- `HelperProofs` also has `DownloadsDoNotMixHolds`; `LogsAreNewestHolds`
  (`LogInv`: the buffer holds the newest of all messages ever logged, for any
  capacity above 0); and `VersionsOrdered`: on sequences of integers,
  `compare_versions` finds the one that is greater in the first part in which
  they differ, a missing part being zero (`Before`, the reference `UpdateOffered`
  uses), it is antisymmetric and transitive, and it yields 0 exactly when all
  parts are equal. So no chain of updates that `update_available` offers leads
  back to a version it started from.

For byte strings of every length, `CodecProofs` proves what the two pairs of
loops compute, from an invariant that says after each turn what was done so far:

- `Base64RoundTripHolds`: `encode` writes the standard text of RFC 4648
  (`Standard`) and `decode` returns the bytes. In the group after `q` whole ones,
  `EncodeState(q)` and `DecodeState(q)` list what `valb`, the number of elements
  taken and the length of the output can be, with the low bits of the accumulator
  that are still to be used, at most 14. `KeepLowBits` says that these survive
  the overflow at the top, so it is assumed of the accumulator only that its
  range is a multiple of 2^14 (`Base64Assumption`). The bits that the last step
  of `encode` fills up with zeros are the case where the group is incomplete.
- `JsonStringRoundTripHolds`: `parse_string` reads what `dump_string` wrote as the
  same bytes, without an error and up to the closing quote. `DumpedInv` says that
  the texts of the bytes (`Spells`) stand one behind the other, each from the
  place `starts` gives; `ParseInv` that the parser stands at one of these places.
  `TurnReadsByte` is the argument about one byte: a turn at the text of a byte, be
  it an escape, a `\u` code or the byte itself, yields that byte and goes on
  behind its text. A quote within a string is therefore never taken for its end.

For every forest, every depth and every order of the children, `UiTreeProofs`
proves `WindowTreesComplete`, `ElementsToDepth` and `FakeFindIsExact` from
`WalkInv`: the calls in progress are a path down from the node asked for, one on
each level; a child of a node on the path is still to come, on the path, visited
or could not be got; and a node whose call has returned has no child left out,
unless it is at the last level (`CoverInv`). When the outermost call returns,
`VisitedAtReturn` compares the visited nodes with the least set that is closed
under children (`Below`): one inclusion follows from that set being the least,
the other (`ChainsAreBelow`) by looking at a node of the smallest level outside
it. It is assumed (`UiTreeAssumption`) that levels can be given to the nodes so
that a child is one below its parent, that is, that parent links have no cycle.

The bounds `SnapIds` and `PinFloor` are part of the specification the theorems
are about. `SnapIds` may be all positive naturals, and then `Room` restricts
nothing. `PinFloor` is an integer, so the theorems cover every floor.

Only model-checked: liveness (`RequestsAnswered`, `InvocationsEnd`,
`RequestsCompleted`), which is outside the prover; `JsonRoundTrip` for whole
values, whose parser and printer are recursive operators, which the prover
cannot reason about; and `UpdateOffered`, because `parse_version` folds over a
tag's characters, and no fact about what a fold returns can be cited. What
`compare_versions` makes of the parsed parts and what becomes of a JSON value's
strings is proved.

## Other observations

Things the models follow and no property is about:

- `watch` polls without subscribing (`cli.cpp:680` calls the first poll the
  baseline); a poll without a baseline fails and stores none.
- `cli.cpp:510` is a second `capture` command behind an earlier one of the same
  name and is never reached.
- The portable client encrypts every request with a key of its own and sends no
  key in its handshake, so the daemon's connection is not encrypted and its
  requests are answered as frames that are not JSON. It is a scaffold, by its own
  comments.
- For the desktop itself the Win32 backend's tree lists the top-level windows,
  the fake backend's all windows.
- A named mutex made by `sync.createMutex` is closed when the call returns.
- A `reg.write` whose value is refused leaves the key it created.

## Not modelled

- Processes, memory, environment, screen pixels, input injection and window
  highlighting in the Win32 backend: each is one call into Windows whose effect
  the daemon never reads back. They appear as methods of `CoreDispatch`.
- `ui.invoke` of the Win32 backend (`win32_backend.cpp:1147-1190`): the search is
  UI Automation's `FindFirst`, over the window itself and everything below it,
  and the element must have an `InvokePattern`. `FakeFindExact` is about the fake
  backend, which the tests use.
- HTTP, the release page, cryptographic primitives: libraries, by outcome only.
- The texts of options, messages and logs; the CLI's `--snapshot`,
  `--session-id`, `--wait-ms`, `--pipe` and port, which add a value to a request
  or name an endpoint; the portable client's `config` command.
- Drawing and layout of the GUI, and the desktop's own programs beyond what
  `Desktop` lets them do.
- Calls on the backend after `main` destroyed it while client threads are still
  being joined: undefined, and only the fact that they go on is modelled.
- Composition of `Daemon` with `Desktop` and `Clients` in one state space: each
  already has several hundred thousand states, and they meet only in the request,
  its answer and the watchdog, which both sides model.
