# lanxfer: TLA+ models and proofs

lanxfer sends files, folders and short texts between machines of one LAN. A
receiver (`cmd/lanxfer recv`, or the GUI) listens on one port for HTTP and for
UDP discovery, keeps a list of the peers it has seen, a receive directory and a
history file; the GUI adds a queue of outgoing sends and chats built from the
history. This directory holds models of the parts of that program where the
order of events matters, TLC runs that check them on small instances, and
TLAPS proofs of their safety properties for every instance.

All paths below are relative to `src/`.

## 1. The system

| part | code | state it keeps | operations |
|---|---|---|---|
| transfer manager | `internal/transfer` | `closed`, `ctx`, `items`, wait group; per item the cancel function, base update, bytes sent, done flag; per batch the remembered lookup | `SendPaths` and its worker, `SendText`, `Cancel`, `Close`, the transport's progress callback |
| receive directory | `internal/server/storage.go`, `extract.go` | the directory: final names, `.part` entries, placeholders | `Save`, `SaveDir`, `commit`, `RemoveStaleParts` |
| upload handlers | `internal/server/server.go`, `inflight.go` | the count of uploads in flight and its `idle` channel | `handlePut`, `handlePutDir`, `add`, `done`, `WaitUploads` |
| presence registry | `internal/presence` | peers by ID or name, `peers.json` | `Observe`, `Tick`, `Load`, `Save`, `Peers`, `Choose` |
| node | `internal/node` | the running receiver: goroutines, `dirty` channel, emitter | `Start`, `Record`, `Wait`; saver, periodic loop, supervisor |
| chat store | `internal/chat` | chats, unread counts, aliases, open chat, peer list | `Load`, `Add`, `SetPeers`, `Open`, `Resolve`; `Messages`, `Summaries`, `Peer` |
| GUI application and service | `gui/app.go`, `service.go`, `queue.go` | current node, settings lock, event queue, throttle, current manager | `Start`, `Stop`, `Restart`, `Record`; `startup`, `quit`, `drop`, `SaveSettings` |
| notifications | `gui/notify*.go` | wanted toast, its generation, timers | `Show`, `clicked`, `pageReady`, `expire`, `Close` |
| history file | `internal/history` | `history.jsonl` | `Append`, `ReadAll` |
| identity | `internal/identity` | the device ID file | `LoadOrCreate` |
| client | `internal/client` | none between calls; during `SendDir` a pipe and the goroutine that writes to it | `Send`, `SendDir`, `Say`, `LocalPeers`, `LocalRecord` |
| target lookup, discovery | `internal/target`, `internal/discovery` | a UDP socket per search, the responder's socket | `Locate`, `Pick`; `QueryAddr`, `Discover`, `Serve`, `Broadcast`, `Probe` |
| inbox, local API | `internal/server/inbox.go`, `messages.go`, `local.go` | print lock | `Deliver`, `/local/peers`, `/local/history` |
| web page | `gui/frontend/src` | cards of running sends, the open chat and its pages | event handlers, `open`, `loadOlder`, `syncNewest` |
| command line | `cmd/lanxfer` | none | `send`, `say`, `recv`, `peers`; `resolveTarget`, `recordSent` |

How they interact:

* Each HTTP request runs in a goroutine of its own. An upload handler counts
  itself in the inflight counter, writes a `.part`, has it committed to a free
  final name, records a receipt in the history, and reports it through the
  node's emitter. Every request is also a sighting for the registry.
* The discovery read loop observes announcements; the periodic loop ages the
  list and probes. Whoever changes the list puts a signal into the one-place
  channel `dirty`; the saver goroutine takes it, saves `peers.json` and
  reports the list as an event. The supervisor ends all of them: it closes the
  server, waits for the uploads, waits for the goroutines, saves once more and
  closes the emitter.
* The GUI's service puts node events and transfer updates into one queue; one
  goroutine applies them to the chat store and emits them to the page. The
  transfer manager records an outcome through the running node, or directly
  into the file when no node runs.
* The chat store regroups old entries (without a device ID) each time the
  node reports a peer list.

What makes it hard: cancels and closes that race workers; callbacks of the HTTP
transport after a send has returned; two uploads between two file system
calls; processes killed between two calls; signals that are dropped because
one is pending; a shutdown that waits for some goroutines and gives up on
others; lists, keys and unread counts that are kept beside each other while
chats are split, moved and merged.

What makes each part correct, in one line each:

* transfer manager: a send is recorded once, with the right outcome, before it
  is reported done, and Close leaves nothing behind;
* receive directory: what was received stays, what was not received leaves no
  trace, a sweep spares live transfers;
* inflight counter: the wait covers every upload it was called for, and ends;
* registry and node: no change of the peer list is lost on its way to the
  caller and to the file, and after `Wait` nothing calls back;
* GUI service: an entry reaches the chats once, the page ends up with the state
  App has, and after quit nothing runs;
* chat store: no regrouping loses an entry, miscounts, or loses the way from an
  old key to its entries;
* client: a folder is reported as sent only if all of it went out, and no error
  or answer makes the send hang;
* target lookup: a send never goes to another machine than the chosen one;
* history file: what was reported as saved can be read, once, and messages are
  printed in the order of their lines;
* identity: concurrent callers get the one ID that the file holds;
* notifications and throttle: no late timer hides or skips anything, and what
  happened last is what is shown;
* web page: messages are shown in order and once, none is missing, and a card
  goes when its send does.

## 2. Modules

| module | models | extends |
|---|---|---|
| `Outbox` | abstract promise of the transfer manager | |
| `Transfer` | `internal/transfer` | refines `Outbox` (`Promise == INSTANCE Outbox WITH ...`) |
| `FolderSend` | `client/senddir.go` with the transport it talks to | |
| `Lookup` | `internal/target`, the searches and answers of `internal/discovery`, the search by name of `cmd/lanxfer/send.go` | |
| `Storage` | receive directory, upload handlers, inflight, and the node's start and shutdown as far as they touch them | |
| `Registry` | `Observe`, `Tick`, `Load` as operators on lists of peers | |
| `PeerList` | the node's goroutines around the registry, the emitter, the supervisor | `Registry` |
| `History` | `internal/history`, `server/inbox.go`, `client/local.go`, `cmd/lanxfer/record.go` | |
| `Identity` | `internal/identity` | |
| `ChatStore` | `internal/chat` | |
| `Service` | `gui/app.go`, `service.go`, `queue.go`; a node as `PeerList` shows it, a manager as `Outbox` promises it | |
| `Throttle` | the throttle of `gui/queue.go` | |
| `Toaster` | `gui/notify.go` with the window it drives | |
| `ChatView` | `frontend/src/chat.ts` against the store's `Messages` | |
| `LiveTransfers` | `frontend/src/transfers.ts` and the cards in `chat.ts` | |
| `TransferProofs`, `StorageProofs`, `ServiceProofs` | theorems about the module named | that module, TLAPS |
| `SendProofs` | theorems about `FolderSend` and `Lookup` | `MCSend`, TLAPS |
| `FilesProofs` | theorems about `History`, `Identity` and `PeerList` | `MCFiles`, TLAPS |
| `GuiProofs` | theorems about `ChatStore`, `Throttle` and `Toaster` | `MCGui`, `Induction`, TLAPS |
| `PageProofs` | theorems about `ChatView` and `LiveTransfers` | `MCPage`, `Induction`, TLAPS |
| `Selection` | the page's list filters, as one recursive function | |
| `Induction` | lemmas: induction and recursion over numbers and over subsets of a finite set | TLAPS |
| `MCTransfer`, `MCStorage`, `MCChatStore`, `MCService`, `MCChatView` | instances for TLC | the module named |
| `MCChatEntries` | entries and peer lists for the instances of `ChatStore` | |
| `MCSend` | `Transfer`, `FolderSend` and `Lookup` in one run | `MCTransfer` |
| `MCNode` | `Storage` and `PeerList` in one run | `MCStorage` |
| `MCFiles` | `PeerList`, `History` and `Identity` in one run | `PeerList` |
| `MCGui` | `ChatStore`, `Throttle` and `Toaster` in one run | `ChatStore` |
| `MCPage` | `ChatView` and `LiveTransfers` in one run | `ChatView` |

`MCSend`, `MCNode`, `MCFiles`, `MCGui` and `MCPage` put parts that share no
state side by side: a variable says which part a behaviour is one of, and the
others stay in an initial state. The reachable states are the sum of those of
the parts, not their product, and a property of the run speaks of one part or of
several (`NodeEnds` is `ShutdownDrains` of `Storage` and `NodeProgresses` of
`PeerList`).

A definition called `Bad...` stands before the definition it is a mutation of:
the bug some property is there to catch. No specification uses one.

### Transfer

A step is what the code does under one lock, or between two points where
another goroutine can look. A batch goes through `SendPaths` (under `m.mu`),
one `Announce` per queued update, `Launch` (`go m.work`), and `WorkerExit`
(the deferred `wg.Done`). An item goes through the phases of `process` and
`send`: `Start`, `Examine` (stat and `begin`), `Scan`, `Lookup` (`locate`),
`SendReturns`, then `Deregister`, `RecordItem`, `Finish` (`settle`).
`Progress` is the transport's callback and may fire in any phase once the
request was made, also after `Finish`. `cancel` merges `item.cancel` and
`cancelQueued`. `SendText` has one step per point where it can be seen; its
limit is `Expire`. `Close` is split at the three places where others can run.

Abstracted: paths and names; file and folder contents (`Size` bytes of
content, `Wire` bytes of body); whether a lookup finds the peer is fixed per
batch (`present`), except that a cancelled lookup may fail. `log` lists what
left the manager through `Record` or `OnUnrecorded`.

`Outbox` says only: a send is accepted while the gate is open, recorded once
with an outcome, reported afterwards; the gate is drained only when every
accepted send was reported. `ImplementsOutbox` maps a `Transfer` state to it.

### FolderSend

`SendDir` is three actors: the goroutine that writes the tar stream (`Open`,
`Write`, `ReadShort`, `WriteFails`, `WriterEnds`), the transport that takes it
out of the pipe and writes it to the connection (`Take`, `Sent`, `BodyFails`,
`Aborts`, `Breaks`, `DoEnds`) and the caller (`MakeRequest`, `DoReturns`,
`ClosePipe`, `Return`, `TextRead`). The receiver answers at any point
(`Answer`), saves only after a whole stream (`Saves`, as `extract.go` does),
and may answer and be lost. A write waits until the transport has taken it or
the reading end is closed, and the transport takes nothing more while it is in
`conn.Write` (`sending`), which a receiver that reads nothing can hold up for
any time: then it does not see the error of a writer that has ended either. An
entry is two units, header and content, and a file may shrink or change between
any two steps. `os.Open`, `Stat` and a read may fail for a file that is as it
was; the writer then ends with `"unread"`, and `"changed"` is only for files
that differ from the plan. The model takes for granted that local calls end;
`senddir.go:223` opens a file before it checks that it is still a regular one,
so a file that was replaced by a named pipe after the scan would make the
writer, and `SendDir`, wait.

### Lookup

`Locate` uses an online peer as listed and otherwise asks its last address
(`Ask`, `QueryEnds`), then all addresses (`Search`, `SearchEnds`, which is also
`Pick`); `ByName` is the search of the command line without a list. Machines
come, go and take over each other's addresses (`Move`). A datagram that was sent
stays in `net` and reaches a listening socket whenever, as often as, or if at
all the network likes; so the second query after `resendAfter` needs no step of
its own. Each search has a socket of its own (`Mine`). `held` records who
listened where since the lookup began, because an answer may be as old as that.

### Storage

A step is one file system call. A handler runs `Accept` (`uploads.add`),
`CreateTemp`, `Copy`, `Reserve` (one turn of `commit`'s loop), `Clear`
(`os.Remove` of the placeholder), `Rename`, `Record`, `Return` (the deferred
`uploads.done`), or from any failure `CleanUp`. Every call may fail, those that
clean up as well: the `Close` of a placeholder that was made (`Reserve`), and
the two `os.Remove` whose errors nobody looks at (`Clear`, `CleanUp`);
`litter` and `leftover` note for which upload it did. Names are a stem and an
extension with the numbers put after each, so "a (1)" asked for by one sender
and given to another are the same name. `AfterRemove` and `MayReplace` say
what Remove and Rename of a Unix file system do to files and folders. `Start`,
`CloseServer`, `WaitUploads`, `WaitIdle` and `WaitTimeout` are the node;
`Kill` ends the process anywhere and leaves the directory. A sweep looks at the
age of an entry (`Judge`) and removes it (`Remove`) in two calls, between which
its handler may go on; a folder may go in part only (`torn`). There are two
sweepers, the node's own, which runs before its server is up, and the start of
a second receiver on the same directory. The `idle` channel is
named after the `add` that made it, since channels are compared by identity.

Abstracted: contents, header checks, and the entries of a tar stream: a copy
ends valid or not. Time is the mark `"old"` on a `.part` that was not written
to for `staleAfter`, and `stalled` remembers who ever had it.

### Registry and PeerList

`Registry` translates `Observe` with its three cases (a request, an
announcement with an ID, one without), what each reports as a change, `Tick`
and `Load`. `PeerList` splits each observer at the clock, the lock and
`markDirty`, and the saver at each point where another goroutine can run. The
supervisor's steps are `Stop` (up to `stopBackground`), `FinalCopy` and
`FinalWrite` (`Save`), `LockEvents` and `CloseEvents` (`emitter.close`).
`Kill` ends the process; `peers.json` stays. The OS field behaves like the
name and is left out.

### History

Handlers of a running receiver share a `Store`; the command line asks the
receiver (`Ask`) and appends by itself when that fails or takes too long
(`GiveUp`). `Append` is `Lock`, `Look` (the last byte), `Write`, `Settle`; a
write may be cut short, in the middle of the entry or before its newline, and
`Kill` ends the receiver anywhere. A message holds the Inbox's lock from before
its `Append` to after it is printed (`LockInbox`, `Tell`). The file is the
sequence of writes, and `Readable` is what `ReadAll` makes of it. A handler that
was given up may still write. Left out: the content and validation of entries,
and the `Store` the GUI's App appends through when no node runs.

### Identity

`LoadOrCreate` as its calls: `Read`, `WriteTemp`, `Link`, `Rename`, `CleanUp`,
each of which may fail, by any number of processes, one of which may be killed
anywhere. The file is missing or corrupt at first, the file system has hard
links or not.

### ChatStore

Every method holds the store's mutex, so a call is a step, and the content is
in the operators: `Classify`, `Resolved`, `MergeByTime`, and `SetPeers` in its
two phases, `Shrink` over all sources in key order, then `Merge` over their
batches. Names and addresses are numbers and entries carry the time at which
they arrived. `Load` may load any first part of the history, and happens
first, as in `Service.startup`.

### Service

`startup`, `SaveSettings` and `Retry` are calls that go through `Lock` (`lifeMu`
and the check of `closed` and `quitting`), for a settings change `Replace`,
`CloseOld` and `Restart`/`StopOld` (`stopLocked`, split at its wait), then
`Start`/`Publish` (`startLocked`, split where the node runs and App does not
know it yet), `Check` and `Install` (`afterStartLocked`). A node is named after
the call that started it and a manager after the call that installed it.
`Signal` and `Forget` are the goroutine that waits for a node. `quit` is a
sequence of four waits; `SetClosed`, `StopBegins` and `StopEnds` are the
goroutines of `bounded`, which go on when quit gives up. A send is held,
accepted or refused, picks the node (`cur.Load`), stores, shows and finishes; an
arrival is stored and then reported. `Handle` is one turn of `drain`.

A node is what `PeerList` shows: its first event is the saved peer list, it
reports while it is up or ending, and nothing once it is down (`DownIsFinal`). A
manager is what `Outbox` promises: a closed one accepts nothing, and its Close
returns when every accepted send was reported. Abstracted: contents of entries
and peer lists; how a transfer goes. The throttle of the chats event and the
notifications are modules of their own.

### Throttle and Toaster

`Throttle` splits a trigger at the mutex and at `fireMu`: `Change` (the caller
changes the chats), `Step` (decide, then fire, or arm the trailing timer),
`Fire` (read the chats and emit). A timer's callback is a thread of its own.
Time is counted up to `Interval`. `hurried` records whether a call was let
through early. What happens before the history is loaded is left out.

`Toaster` has `Show`, `PageReady`, `Clicked` and `Close`, which change fields
under the mutex; the worker, which copies them, unlocks, and presents, arms the
timer or dismisses (`WorkerStep`); and `Expire`, a timer's callback. A signal in
the one-place channel `wake` is one with the change of the fields. A click
(`Click`) is reported by the native monitor, or by it and by the page
(`toastclick_darwin.go`), so `Clicked` may come twice for one click, and late.
`aim` is the toast a click was made on, and `acted` are the clicks of which a
report has hidden a toast. Left out: texts, the place
of the window, and the notification services of other systems, which keep no
state.

### ChatView and LiveTransfers

`ChatView` is the page's view of the open chat against the chats of the Go side.
Go adds an entry and emits its event afterwards (`Add`, `GoStep`) and answers
calls (`Read`, `Answer`, `Fail`) in any order with the events; the page takes
events (`PageStep`), opens a chat (`Open`) and asks for older pages (`Scroll`).
A new peer list can give a chat another key (`Regroup`), or put some or all of
its entries into another chat (`Join`), each where `mergeByTime` puts it: also
in the middle of a list the page has open. Each chat gets a new key or gives up
its last entry once; it may give some entries away several times. An entry is
the chat it was first added to and its number there; the list of a chat is made
of these numbers until a merge changes it (`mix`), and a chat that keeps nothing
leads to the one that has its entries (`into`). `excused` lists entries that the
code knows it does not show, and names when. `spoilt` says that something has
met the open chat for which the code promises no order: a merge while it is
open, entries that were on their way when it was opened after a merge, more
entries on their way than `appendNew` looks back for repeats (`Window`), or a
call that more than a page has overtaken (`Swamps`). Opening the chat again ends
it.

`LiveTransfers` is the cards: Go starts, reports and records a send and reports
it done (`Start`, `Progress`, `Record`, `Finish`), the page takes these events
(`Take`) and expires finished cards (`Tick`). An update has the key of the chat
its item was dropped on (`chatOf`), the entry the key that `store.Add` returns
(`filed`), which is another one when a peer list has regrouped the chat
meanwhile. The entry has no transfer ID, so the page looks for the card by path
and key, and takes the oldest card of the path when no key agrees. `finished`
keeps `Remember` removed IDs, and `forgotten` notes those that were dropped.

## 3. Runs

Each run finishes within about three minutes on two workers.

| run | instance | checks |
|---|---|---|
| `transfer_batch` | one batch of two items, one Close, content 2, body 3 | one record before Done, a cancel stays with its item, nothing after Done, bars never shrink, cancelled items and Close end |
| `sender` | one item beside one text, two Close calls; two files and a folder in one stream; two machines of one name, one without an ID, two addresses, one move, two searches | no phantom cancel, the refinement of `Outbox`; honest results of `SendDir`; no other machine is taken; `SendDir` returns and lookups end |
| `node_ends` | a file and a folder that meet at "a (1)", with "a" in use, numbers up to 1, one mishap of cleaning up or pausing, one sweep at a time; one peer that is seen and falls silent, clock up to 1 | stored files stay, loss only in the window, handlers clean up but where that very call failed, the wait covers the uploads, sweeps spare who never paused; shutdown and the node end, a silent peer is reported offline |
| `storage_overwrite` | two uploads of one name | violation: a finished upload is overwritten |
| `config_files` | one machine that starts to send an ID, one that falls silent and comes back; two messages, or a message and a file, and a command; three processes that make an ID | no missed change, the file keeps up, a node that is down is done; saved entries are there once, printed in order; callers share the ID |
| `chat_open` | two loaded entries, two peer lists | violation: the open chat leaves the alias |
| `gui_events` | two entries to load, three to arrive, five peer lists; three changes, two callers, interval 2; three arrivals, two pages, one click that is reported twice | entries kept and in order, badges, grouping and aliases; the last trigger is told; the window shows what is wanted; late timers are harmless; changes are told and toasts hide |
| `web_page` | chats of two and one entries, pages of two, a look-back of one, two arrivals, one chat that gets a new key or gives an entry to the other, two openings, one failed call; two sends of any of two paths in any of two chats, entries for either chat, one removed ID remembered | order, nothing missing, cards agree with sends, the page comes to rest |
| `chat_gap` | one chat of five entries, two arrivals | violation: an older message is skipped |
| `service_life` | startup, one settings change, one retry, quit, one send, one wait given up, two items queued | types, entries shown once unless the node had ended, the page keeps up, a clean quit |
| `service_ends` | startup, one settings change, one retry, quit, one arrival, no wait given up | every call and quit end |
| `service_shown` | one retry, one send, no quit | violation: a recorded entry is not shown |

Why these bounds are enough for what they ask:

* Two items in a batch are the first and a later one: all that items share is
  the remembered lookup, the worker and the wait group. `Wire` greater than
  `Size` makes the scaled and the clipped progress differ from the raw one.
  Two Close calls let one return while the other is between its steps.
* A stream of two files and a folder has a first, a later, and an empty entry,
  and an end that is neither; each can be the one that fails or is answered.
* A lookup needs a second machine of the wanted name and one address that passes
  from one to the other; two searches are the query and the broadcast, and also
  the broadcast and the query of the next lookup, whose answers must not mix.
* Two uploads are enough for the window, for one count that begins while
  another ends, and for one channel that replaces another. Different requested
  names that meet at one numbered name are the case one name cannot show. The
  folder makes Remove and Rename differ by kind, and can be removed in part.
  `OneMishap` lets one cleanup call fail, or one transfer pause, and one
  receiver sweep at a time: each of them excuses an upload of its own, so a
  second one excuses more and shows nothing that the first does not.
* The saver's hazard needs one observer between two of the saver's steps; there
  are three (handler, discovery, ticker). A machine seen without an ID, with
  one, and from another address has both kinds of key, the legacy entry and a
  move. A clock up to 1 with `OfflineAfter` 0 makes a peer overdue in one step.
  In `node_ends` the handlers are left out, because a handler only adds
  sightings, which discovery has too; this keeps the liveness check small.
* An append can be overtaken by one of the other process between its look and
  its write; two appends of the receiver and one of a command have every such
  order, and one cut write has every place. Three processes make the ID because
  a third one may come when the first two have both decided.
* Five entries cover every way to classify (ID, address, name, neither
  matches), and the five lists make an ID-less peer move, get an ID, lose its
  address to another peer, and disappear, in any order and any number of times.
* A throttle has a caller in its interval, one behind it and a pending call at
  once; three changes fill all of them. A toast has an older and a newer one
  besides it, the page may be loaded before and after, and the two reports of a
  click can come on either side of an arrival.
* Pages of two make a first page that is full and one after it once an entry
  arrives, and two entries arrive during one call. An entry can be merged in
  front of, between and behind those of the open chat, before it is opened and
  after. A look-back of one makes two entries on their way too many. Two sends
  are of one path or two and in one chat or two, and with one ID remembered the
  first of two removed sends is forgotten.
* In `Service`, each of the four calls that meet at `lifeMu` is there once, so
  every pair of them meets, and each of the three that can start a node has one
  node of its own. `MaxQueue` bounds how far the drain goroutine lags: a push
  waits in the model when it is reached, which the unbounded queue of the code
  never does, so longer lags are left out; two items show a wrong order.
  `MaxGiveUps` bounds how many waits end by the clock, so that the states after
  a clean quit are told from those after one that gave up.

Deadlock checking is off where the system may really stop: every call was made
and every goroutine has ended, every entry was appended, no toast is left. It is
on in `node_ends`, `storage_overwrite` and `chat_open`, where a restart, or an
`Open`, is always possible.

Fairness is what each module's `Fairness` lists, and no more. The composed runs
state it once more for the steps of each part.

* Goroutines are scheduled, and local calls (stat, scan, append, rename) end.
* A file send has no time limit, so `SendReturns` of `Transfer` is fair only
  once the item's context is done, and `Lookup` is fair; a text send is fair
  once its limit has passed or the manager was closed. Nobody is obliged to call
  `Cancel` or `Close`. The module `FolderSend` shows for folders that the first
  is true of the code (`SendDirReturns`), and `Lookup` the second
  (`LocateEnds`).
* In `FolderSend`, the transport notices a cancelled context always, and an
  error of the body when it reads the body (`BodyFails`): not while it is in a
  `conn.Write` that the receiver does not take, since `client.go` sets no limit
  for that. Nobody has to take what was written (`Sent`), to answer, or to send
  the whole answer, and a connection need not break. So a receiver that stalls
  is left only by cancelling, and `SendDirReturns` says no more than that. In
  `Lookup` only the deadlines are fair.
* A sender may stall while the server is open. `Copy` is fair only when the
  server was closed, because `srv.Close` closes the connection. The timeout of
  `WaitUploads` is not relied on.
* The ticker fires, and the caller's `OnEvent` callback returns. Goroutines
  that choose between their work and a done context get strong fairness for
  ending: Go's `select` picks among ready cases at random. `Kill`, `Stop`, the
  sightings' contents and failures of a write are never fair.
* In `Service`, calls, quit, the drain goroutine and the goroutine that waits
  for a node go on, and a free lock is taken; a node that was cancelled or
  failed ends (`ShutdownEnds` of `PeerList`); a transfer ends only once its
  manager is closed (`CloseReturns` of `Transfer`). No wait is assumed to end by
  the clock: `CallsEnd` holds without the bounds of `bounded`.
* In `Throttle` and `Toaster` time passes and due timers fire; a thread that
  waits for `fireMu` gets it when it is free again and again. In the page, Go
  answers and emits, and the page takes what comes; a send that runs ends, which
  is strong fairness because its events wait for room in a bounded queue
  (`MaxQueue` of `LiveTransfers`, which the code does not have).

`History` and `Identity` have no liveness property: each call is a sequence of
local calls, and nothing waits but for the two locks, which are taken in one
order.

### Findings

* `storage_overwrite` (`storage.go:187`): `commit` removes its placeholder and
  renames afterwards. A second handler of the same process can reserve the
  name in between, and then removes or replaces the finished file. The comment
  at `storage.go:164-167` assumes that this process is the only writer, but
  its handlers are several. `FilesStay` is the strongest statement that holds:
  nothing else loses a received file, and what was there before stays.
* `chat_open` (`chat.go:315`): while sources are emptied in key order, the open
  chat follows every one of them, also the next one it has just moved into.
  The entries of the open chat go one hop only, so the store then treats
  another chat as open than the one that its alias, and the page, lead to.
* `service_shown` (`app.go:168`): a node that ended by itself stays in `cur`
  until the goroutine that waits for it has the mutex (`app.go:229`). A send
  that records through it in between is stored and reported as done, `viaNode`
  is true, the closed emitter drops the event, and nobody adds the entry to the
  chats. `stopLocked` hides the node first to avoid this, but a `Record` that
  read `cur` before can still lose its event there. `EntriesShown` is what
  holds: nothing else loses an entry.
* `chat_gap` (`chat.ts:224`): a page of older messages that Go read after it
  added an entry, and that reaches the page before the event of that entry, has
  counted the entry in its `next`; the event then counts it once more, and the
  page after that starts one message too far back. `ArrivalsShown` and
  `InOrderOnce` hold all the same: nothing that arrives is missing, and nothing
  is shown twice.

### Observations without a run

* A process killed between the reservation and the removal of a placeholder
  (`storage.go:177-187`) leaves an empty file that looks received, although
  `storage.go:107-108` says that every entry without the `.part` pattern is
  complete. So does a placeholder whose `Close` fails (`storage.go:206`), or
  whose removal fails when the rename does too (`storage.go:187-190`); and a
  failed `os.Remove` at `storage.go:139` leaves the `.part` to the next sweep.
  `NothingLeftBehind` excepts exactly these.
* A sweep that has judged a paused `.part` as stale may remove it, or a piece of
  a folder, after its sender has gone on (`storage.go:264-267`). The upload then
  fails at its rename, or, if only a piece is gone, is saved without it
  (`stalled`, `torn`); `FreshPartsStay` is about transfers that never paused.
* `history.go:128-130` calls an extra empty line the worst case when another
  process appends between the look at the last byte and the write. If the write
  of that process is cut short just then, the next line is glued to its
  fragment and lost; `EntriesSavedOnce` excepts it (`glued`), and an append that
  cannot look at the file at all.
* `LoadOrCreate` promises one ID to concurrent callers. Over a corrupt file, or
  without hard links, each renames its own into place, and an early caller
  returns an ID that the file does not keep; `CallersShareOneId` excepts these
  (`spoiled`, `links`).
* A `peers.json` that cannot be parsed gives an empty list, which the next Save
  writes over it (`registry.go:191`); this is documented. `Load` may do so in
  `PeerList`, and `FileKeepsUp` speaks of states after a Save that succeeded.
* The time of a sighting is read before the registry's lock (`node.go:200`), so
  `LastSeen` may go back by the time a goroutine waits; no promise is broken.
* `SendDir` may report a failure although the receiver saved the folder: the
  reply was lost, or the cancel came late. Only the other direction is promised
  (`FolderHonest`).
* Messages are stamped before the Inbox's lock, so the lines of the history, and
  `ReadAll`, are in the order of the lock and not always in that of their times.
* When quit gives up `lifeMu` while `SaveSettings` is past its check
  (`service.go:601-623`), for example closing transfers, `Restart` can start a
  receiver after quit has stopped the old one; `CleanQuit` therefore speaks of a
  quit that gave nothing up.
* A page of the notification window that reloads gets the full time again
  (`notify.go:30`); `OnlyTimeOrAClickHides` says when a toast may stop being
  wanted, and not when it must.
* `toastclick_darwin.go:23-24` says that of the two reports of a click "the
  second finds no toast". It finds one when another entry arrives between the
  reports, and hides that one, and opens its chat: `clicked` does not know which
  toast a report is for (`notify.go:238-252`). `OnlyTimeOrAClick` excepts this,
  and holds the second report to toasts that are newer than the one the click
  was made on.
* The reports of two entries may swap on their way out of the Inbox
  (`inbox.go:52`), and `chat.Add` appends in the order they come, so a chat need
  not be in the order of the times. `EntriesKept` is proved and checked for
  entries that come in order (`EntriesInOrder`).
* A refresh that `syncNewest` puts off because one of the chat shown before is
  under way is not made when that one ends (`chat.ts:410-413`). It takes two
  chats that are regrouped while each is open; the message shows with the next
  refresh. `ArrivalsShown` excuses it (`Lost`).
* A merge into the middle of the open chat shifts what an older page is counted
  from, so `loadOlder` may put entries in front that belong behind:
  `chat.ts:343-344` drops what is already shown and does not look at the order.
  The view is right again when the chat is opened anew. The same holds for a
  burst of more than `DUPLICATE_WINDOW` (50) entries that were read with a page
  before their events came (`chat.ts:233`), and for a call that more than a page
  (200) of entries overtakes; `appendNew` may then show an entry twice.
  `InOrderOnce` and `ArrivalsShown` except these (`spoilt`), and speak of merged
  chats that are opened afterwards.
* Two sends of one file to one chat may swap their cards, since the entry names
  the path only. So may two sends of one file to two chats when one of the chats
  is regrouped before its entry: the entry's key fits no card, and the oldest
  card of the path goes, which may be the other send's (`transfers.ts:101-103`).
  `CardsAgree` excepts both (`Apart`), and every card still goes. A card whose
  ID was forgotten before its last update (`REMEMBER_FINISHED`, 500) comes back
  for that update, and expires.

## 4. Proofs

Each `...Proofs` module shows type correctness, an inductive invariant, and
the safety properties from it, for every value of the constants that the
named assumptions of the module allow (finite or not, any number of threads,
uploads, items and texts). The assumptions say that sets meant to be apart are
apart, that values have their types (numbers are naturals, peer lists are
finite and have a key for one peer only), and twice more than that:

* `EntriesInOrder` of `ChatStore`: entries come in the order of their times, and
  none comes twice. Nothing enforces it, since the reports of the Inbox may swap
  (`inbox.go:52`); what a chat's order is worth without it is not stated.
* `Sizes` of `ChatView`: `Window <= PageSize`, which are the constants 50 and
  200 in the code (`DUPLICATE_WINDOW`, `chat.PageSize`).

In the modules that a composed run takes with INSTANCE (`Identity`, `History`,
`Throttle`, `Toaster`, `FolderSend`, `Lookup`, `LiveTransfers`) they are the
definition `ConstantsOK`, which the module of the run assumes of its values. A
proof module extends the module of the run whose properties it proves, so that
the run and the theorem speak of the same definition.

| theorem | property of a run | argument |
|---|---|---|
| `TransferProofs!RecordedOnce` | `RecordedOnceBeforeDone` | the phase of an item fixes its log and its last update |
| `TransferProofs!DoneIsLast` | `NothingAfterDone` | only `Emit` and the phases before `over` change an update |
| `TransferProofs!CloseWaits` | none; `CloseDrains`, which `ImplementsOutbox` says of the outbox in `Drain` | the wait group counts exactly the batches and texts under way, and none starts once `closed` |
| `TransferProofs!CancelIsLocal` | `CancelStaysWithItem` | from `QueuedCancelIsFinal` (a marked item takes no phase in which a request can be made) and `LookupStaysHonest` (a failure is remembered only when the context is not done) |
| `TransferProofs!CancelIsReal` | `NoPhantomCancel` | a "cancelled" entry exists only when the context is done, and contexts stay done |
| `TransferProofs!Implements` | `ImplementsOutbox` | by `IInv` the stage of a send in the outbox is a function of the item's phase, or of where the text is; each step moves one of them by one stage, or the gate, or nothing |
| `TransferProofs!BarsGrow` | `BarNeverShrinks` | what was shown never exceeds the last reading, which grows with the bytes read since the scaling is monotone, and stays within the content |
| `SendProofs!SentIsWhole` | `FolderHonest` | the stage of the writer fixes how far the stream is (`StreamFollowsWriter`), a writer that stopped at a file has not written all of it, and one that says "changed" has seen a change (`ErrorsAreTrue`) |
| `SendProofs!RightOneFound` | `RightMachine` | a reply on the socket in use tells of a machine that listened at its address while the lookup ran (`AllGenuine`), because all who listened were noted (`Witnessed`) and sockets are not used twice |
| `StorageProofs!FilesAreSafe` | `FilesStay` | from `StoredIsSafe` (a name in use before is never reserved) and `LossNeedsTheWindow` (outside `raced`, a name belongs to one handler from its reservation on) |
| `StorageProofs!HandlersCleanUp` | `NothingLeftBehind` | a placeholder exists only in the stage "reserved" of a handler, or of a dead one, or is in `litter`; a `.part` outlives its handler only if that was killed, or it is in `leftover` |
| `StorageProofs!WaitIsSound` | `WaitCoversUploads` | while the channel that was taken is open, or while an awaited upload runs, the count it belongs to has not ended |
| `StorageProofs!SweepSparesFresh` | `FreshPartsStay` | what a sweeper is about to remove was old once (`doomed` is within `stalled`), and a `.part` that was made is given up only by its own handler otherwise |
| `FilesProofs!ChangesReachTheCaller` | `NoMissedChange` | below |
| `FilesProofs!FileIsCurrent` | `FileKeepsUp` | below |
| `FilesProofs!DownMeansDone` | `DownIsFinal` | from `LastSaveIsComplete` (the background goroutines have ended before the copy, so only a late handler changes the list) and `WaitMeansSilence` (the emitter is closed with no reader inside, and then admits none) |
| `FilesProofs!SavedOnce`, `PrintOrder` | `EntriesSavedOnce`, `PrintedAsSaved` | the locks say who may write; what a look at the last byte found still holds, or the job is `glued`; a line that is readable and was followed by one stays so |
| `FilesProofs!OneIdForAll` | `CallersShareOneId` | on a sound file system nobody renames, and a link does not replace |
| `GuiProofs!NoEntryLost` | `EntriesKept` | below |
| `GuiProofs!BadgesRight` | `BadgesAgree` | the number kept for a chat follows each item that is appended, split off or merged (`ChatsHold`), and the open chat's stays 0 (`OpenHolds`) |
| `GuiProofs!GroupsRight` | `GroupsAgree` | below |
| `GuiProofs!NoTriggerLost` | `LastTriggerTold` | a change that was not told is in somebody's hands or waits for the trailing call |
| `GuiProofs!RestingAgrees` | `ScreenAgrees` | the toast that is shown and its timer have the same generation, and who holds the mutex settles the window before letting go |
| `GuiProofs!LateIsHarmless` | `LateTimersHarmless` | a timer of an earlier generation finds its number stale; a click was made on a toast no newer than the newest, and hides it only while that is wanted, so what the second report finds is newer |
| `ServiceProofs!EntriesReachChats`, `PageIsToldLast`, `QuitIsClean` | `EntriesShown`, `PageKeepsUp`, `CleanQuit` | below |
| `PageProofs!ViewsShowCards`, `CardsRight` | `CardsAgree` (the first: none, `ViewsAreCards` of `LiveTransfers`) | below |
| `PageProofs!OrderRight` | `InOrderOnce`, for a chat without merges | below |
| `PageProofs!ArrivalsRight` | `ArrivalsShown`, for a chat without merges | below |
| `PageProofs!TypesHold` | `TypesOK` of `web_page` | the flags of the view say which calls are under way (`CallsHold`) |
| every module's `Inductive` and `TypeCorrect` | `TypeOK` of `transfer_batch` and `service_life` | the invariants themselves |

The invariant of `PeerList` in `FilesProofs` shows how the inductive invariants
are made. `NoMissedChange` speaks about an idle saver and is not inductive: it
must hold what the saver has in its hand. `IInv` states, for each stage of the
saver and under `Settled` (no signal pending, no observer about to send one),
that the list it copied, wrote or is about to report shows what the registry
shows. It is preserved because an observer that changes what is shown leaves
`Settled` until it has sent its signal, and the saver copies the list only after
it took the signal. The lemmas `QuietSighting` and `QuietTick` are the other
half: when `Observe` or `Tick` report no change, what is shown did not change.

The invariant of `ServiceProofs` is a conjunction of parts that were proved in
turn, each from the ones before it: who holds `lifeMu` and App's mutex at each
place of each call; which nodes App, the waiting goroutine and a call that is
starting one know of; that the manager in use is the only open one and which
manager a send is with; that the last state and the last peer list in the queue,
or else those on the page, are App's and the running node's; that an entry is in
at most one of the queue's, a sender's and a node's hands and in the chats once;
and, for quit, what each wait that was not given up has seen to (no call behind
`closed`, no manager open, no node up). `CleanQuit` is the last of them at the
end of quit.

The invariant of `ChatStore`, `StoreInv` in `GuiProofs`, says that every chat
holds its entries once and in the order of their times and counts its unread
ones (`ChatsHold`), that no entry is in two chats, that entries filed under a
name or an address belong there under the current list (`GroupsHold`), that
the first n arrivals are filed for some n (`ArrivedTo`), and that following
aliases from an emptied chat ends at a chat (`AliasesHold`). The last one is
stated without the hops: an alias leads to a chat or to a key with an alias,
and every set of emptied keys has a member whose alias leads out of it, so
there is no circle. The hard step is `SetPeers`. Its two loops are recursive
functions over the sets of sources, and what they compute is characterised
first (`ShrunkTo`, `MergedTo`), by `SetInduction`; then `PeersEntries` says
where each entry is afterwards (`GoesTo`), and each part of the invariant
follows from that. `mergeByTime`, the selection of a chat's items and
`resolve` are loops too, and `Recursion` and `UpTo` of `Induction` give their
values: these lemmas take a set where the library's take an operator, which the
provers can use.

The cards, in `PageProofs`. `CardsInv` says that the events of a send are on
their way in the order updates, entry, last update (`EventsHold`, `MayFollow`),
what the stage of a send in Go says of its events and its card (`StagesHold`),
and that cards and remembered IDs are lists without doubles and apart
(`ListsHold`). It holds for any value of `REMEMBER_FINISHED`, and gives
`ViewsShowCards`. `CardsRight` adds, for each send whose file runs nowhere else
or in other chats that were not regrouped (`Apart`), that it has its card as
long as its entry is to come, and afterwards is among the remembered IDs or
forgotten (`Held`). The key step is the entry: if the file runs once, its card
is the only one of the path whichever key the entry has; if it runs in several
chats, the entry's key is the card's. Nothing is assumed of the number of IDs
remembered; which sends are forgotten is part of the property.

The view, in `PageProofs`. The invariant has three layers.

* `ViewInv`, in every state: the entries that are coming are the last ones of
  their chat, in order (`FlightHolds`); at most one call of a kind is under way
  for the open chat, one refresh at all, and the flags say which (`CallsHold`).
  An answer is current only if its token is.
* `OrderHolds`, while the view is `Sound` (not `spoilt`, and no merge has met
  the list of the open chat): the view has all that is coming or nothing behind
  it, its entries and the pending ones are in order, and as long as there are
  older pages, its first `PageSize` positions have no gap. This makes an older
  page overlap the view or end before it, so that what is put in front is in
  order. It needs that no current call is overtaken by more than a page
  (`Calm`, which `Swamps` says the contrary of), and that what is coming is
  among the newest `Window` entries (`NearHolds`), so that a repeat is found.
* `SyncHolds` and `ThereHolds`, again while `Sound`: every entry from the first
  page on is shown, excused, pending, coming, or covered by a call of the open
  chat (`Due`), and those before the last one shown are shown or excused. The
  refresh is the hard part: one for the open chat is under way only for a view
  with an outdated key (`Outdated`), and then every entry that comes has the new
  key, so none of them is taken in the meantime and left behind by the answer.

`OrderRight` and `ArrivalsRight` are `[](Unmixed => ...)`: they speak of every
state whose open chat no merge has touched, whatever happened to other chats,
and assume nothing of the number of arrivals, openings, failures and
regroupings. A list that was merged is no longer made of numbers in order, and
for a chat that is opened after its merge the two properties are checked by TLC
only.

`MaxEntries`, `MaxMerged`, `MaxOpens` and `MaxFails` are bounds of the model,
any naturals in the theorems, and compared with nothing.

Only model-checked:

* liveness (`CancelsAndClosesEnd`, `SendsAndLookupsEnd`, `NodeEnds`, `CallsEnd`,
  `ChangesToldAndToastsHide`, `PageSettles`), since the prover has neither
  fairness nor ENABLED;
* `InOrderOnce` and `ArrivalsShown` for a chat that was merged and then opened.

Every other property of a passing run is the property of a theorem.

## 5. Not modelled, and the plan

Left out for good: parsing and validation of single values (names, headers,
tar entries, settings), formatting, the window toolkit, the tray, styling,
build files. They keep no state that others see change.

Left out so far, in the order planned:

1. The announcements between several nodes (`Broadcast`, `Probe` and what
   `Serve` observes), which enter `PeerList` as sightings of any order.
2. The read-only operations of the registry and the store (`Choose`,
   `Summaries`, `Peer`, `LocalPeers`) against reference definitions, and the
   walk of `ScanDir`.
3. The open chat across Go and the page (`OpenChat`, the notifications that
   `notifyArrival` holds back for it), and what `AppState` asks for once.
4. Theorems: `InOrderOnce` and `ArrivalsShown` for chats that were merged before
   they are opened, with positions of a list in place of numbers.
5. Arrivals while `startup` loads the history in `Service` (the run of
   `service_life` has none); that loading and an arrival give an entry once is
   part of `EntriesReachChats`, for any arrivals.

The constants are kept symbolic and the actions single operations, so that the
later modules can be proved about in the same way.
