# TLA+ models of WindowsAddon

WindowsAddon is a C++/wxWidgets desktop program that bundles tools of an
embedded developer: directory backups, a CAN analyser with ISO-TP and UDS on
top, a Modbus master, a TCP server for sensors, macros, alarms, and more. Most
tools are a handler with a worker thread of its own, driven by the GUI thread.
The models here are about those threads: what is lost, duplicated, reordered or
stuck when they interleave, when a device goes away, when a file system call
fails, and when the object that owns a thread is destroyed.

Contents: [inventory](#inventory), [modules](#modules-and-the-code-they-model),
[runs](#runs), [bounds](#bounds), [fairness](#fairness), [proofs](#proofs),
[what the runs refute](#where-the-code-disagrees-with-what-it-says),
[abstractions](#what-is-abstracted), [not modelled](#not-modelled),
[plan](#plan).

## Inventory

All paths are under `src/src/`. `PROJECT.json` has the same list with a status
and, under `hazards`, the lines at which things can go wrong.

| Component | State | Operations and threads | What is hard | What makes it correct |
|---|---|---|---|---|
| **Directory backup** (`DirectoryBackup*.cpp`) | queue of entries, "worker runs", cancellation flag, future of the worker; the destination directories | `BackupFile`, `RequestCancel`, destructor on callers' threads; one worker rotates, copies to a staging directory, renames, compresses | cancellation against start, the last look at the queue against a new entry, disk errors and exceptions at any call, a kill at any step, local time that jumps | a finished name is a complete backup; rotation never takes the last good one; success is only reported for what is there; no entry is forgotten; the destructor returns |
| **Serial port worker** (`SerialPortBase`, `utils/AsyncSerial`) | stop token, notification flag, open and error flags, IO thread | a worker opens the port, waits for notifications, calls the derived class's callback, reconstructs a failed port; an IO thread reads and writes | a notification between test and sleep; a failure between two looks at the port; join of the threads | a failed port is reopened, the join returns, no notification is lost for good |
| **CAN transport** (`CanSerialPort`, `CanDevice*`) | transmit queue, receive buffer, handshake step | any thread adds frames, the IO thread adds bytes, the serial worker's callback drains both through the device's protocol | `front`/`pop` unlocked around the write while producers overflow the queue; destruction under the callback | frames go out once and in order, overflows lose one frame each, the queue drains |
| **Modbus polling** (`ModbusHandler`, `ModbusWriteQueue`) | paused, enabled, worker, register model, edit queue, timeout counter | the main thread starts, pauses, enables, changes the device, shuts down, queues edits; the worker polls and then applies the edits | the model is replaced while edits wait and the worker polls; joins with a worker that is paused or in a request; links that come and go | edits are applied once, in order and to the model they were made for; polling recovers; joins return |
| **Modbus serial master** (`ModbusMasterSerialPort`, `ModbusProtocol`) | request to be sent, receive buffer, last answer, transaction id, frame log | one requesting thread at a time hands a request to the serial worker and waits; the IO thread puts the answer together from chunks; the parsers match it | a late answer to an earlier request, answers in pieces, a request given up before it was written, `m_SentData` shared without a lock | an answer is only taken for its own request; a silent line is a fresh start; each request is written at most once |
| **Modbus frame log** (`ModbusFrameLog`, its panel) | list of frames, generation, the panel's cursor and grid | two threads append; emptied as a whole when full or by the user; the panel's timer copies what is new | a reader's cursor across emptying, an outcome recorded after recording has been stopped | the grid shows what the log holds up to the cursor; no answer stands before its request |
| **CAN entry handler** (`CanEntryHandler`, the sender panel) | list of entries to transmit, the grid's row pointers into it; received frames, recordings | worker collects what is due and sends it; the panel edits the list and its entries; transport delivers | row pointers against reloads and deletions, entries found by an identifier that may repeat, flags set without the lock | rows point to entries of the list; identifiers differ; a single shot is not forgotten |
| **ISO-TP** (`CanIsoTpEndpoint`, `isotp-c`) | the link's send and receive state, the response id | frames from the transport, polling from a worker, sends from DID reading and the raw UDS dialog | lost frames, timeouts on both sides, waits, the sequence number that wraps, an ECU that is not the link's | only whole messages are delivered, once and in order; every transfer ends |
| **UDS DID reading** (`DidHandler`) | queues of reads and writes, pending response, abort flag | GUI queues, worker asks with retries, ISO-TP answers | late answers, response pending (NRC 0x78), abort while idle, writes queued while others are written | each request gets its own answer or is given up |
| **TCP server and sessions** (`Server`, `Session`) | session set, per-session write queue, transfer timer | acceptor and sessions on IO threads, the GUI stops them | accept errors, writes from several threads, stop during accept | messages in order, sessions end |
| **Idle power saver** (`IdlePowerSaver`) | idle state, saved CPU limits | ticked by the GUI timer | unsigned arithmetic, failures to restore | limits are restored on activity |
| **Time tracker** (`TimeTracker`) | current session, monthly sums in SQLite | GUI and idle events | restart in a session | no time lost or counted twice |
| **CAN scripts, codecs; Modbus protocol, values, configuration; TCP messages** | none beyond a parse or an interpreter's position | pure functions, mostly | boundaries of lengths and ranges | decode is the inverse of encode |
| **Commands** (`CmdExecutor`, its panel) | pages of commands, their names in a vector beside them, the tabs, `Cmds.xml` | the panel adds, copies, deletes, renames pages by a tab's index, every such edit is saved to a temporary file and loaded again; macros run a command by its page's name | `Load` replaces the pages but appends to the names; loads that fail or end early | no page without a name; no page under another's name |
| **Macros, alarms, sensors, database, logger, hotkey, screenshots, other serial devices, settings, working days, prices, application** | small tables, files, platform handles | GUI thread, platform calls | little concurrency | - |

How they interact:

- `SerialPortBase` is the base of `CanSerialPort`, `SerialPort` and
  `ModbusMasterSerialPort`: its worker calls the derived class back
  (`OnDataSent`), its IO thread delivers bytes (`OnDataReceived`), both into
  members of the derived class.
- `CanEntryHandler`, `CanIsoTpEndpoint` and the CAN scripts add frames to the
  transport's queue; received and sent frames come back through
  `ICanTransport` callbacks on the serial worker's thread.
- `DidHandler` runs on top of `CanIsoTpEndpoint`.
- The raw UDS dialog sends through `CanIsoTpEndpoint` to ids of its own and
  changes the response id meanwhile.
- `ModbusEntryHandler` owns the polling worker and the serial master, and
  opens, closes and uses the master's connection from its own worker.
- The settings are loaded on the main thread before the handlers' `Init`, and
  handlers may already start threads then (`ModbusEntryHandler` does).
- The polling worker and the panels request through the serial master; it and its
  serial worker append to the frame log, which the log panel's timer reads.
- A macro calls `CmdExecutor::ExecuteByName`; the tray icon reloads the commands
  and the CAN lists past their panels.
- Backups report to the GUI through an observer on the worker's thread.

## Modules and the code they model

    SerialWorker <---EXTENDS--- CanTransport ------implements--> FrameChannel
                                ModbusPolling -----implements--> FrameChannel
    ModbusFrameLog <-EXTENDS--- ModbusTransaction -implements--> FrameChannel
                                IsoTpLink ---------implements--> FrameChannel
    DirectoryBackup    DidReading    CommandPages    CanTxList

### DirectoryBackup

`DirectoryBackup.cpp` over `DirectoryBackupCore.cpp`.

- `pending`, `running`, `cancelled` are `m_PendingBackups`, `m_WorkerRunning`,
  `m_IsCancelled`; `object` is how far the destructor is. `pc` is the worker's
  position in `RunQueuedBackups`/`DoBackup`; `job`, `at`, `doomed`,
  `name`, `copied`, `failed`, `report` are its locals. `kept` is a
  history variable: the names that an error has kept from rotation in this run,
  those whose removal failed and, in a directory that could not be listed, all that
  were due. The code does not keep it: of the first kind it logs that there was
  one, of the second nothing.
  `m_WorkerMutex` is held for whole actions (`BackupFile`, `TakeNext`).
- `disk[d][i]` is what a destination holds under each finished name (absent, partial,
  complete), `staging[d]` the `.incomplete` directories. They alone
  survive `Restart`, which may happen at any moment.
- A name is the second of its run. With the default format names sort by time;
  `NameBackup` takes any second, because local time may be set back. The copy
  and the archive of a second are two neighbouring names, so that rotation
  counts and sorts both, as the code does.
- `RotateDestination` sweeps the `.incomplete` directories, any of which may stay
  when file system calls fail, and lists the candidates. A directory that cannot be
  listed has none, and `RotateOwnedBackups` then reports a success.
- `remove_all` is not atomic: `RemoveCandidate` and `StripCopy` go from
  complete to partial to absent. With `DiskErrors` any call may report an
  error, and the calls without an error code may throw (`DoBackupThrows`).
- `Compressions` says what the external compressor does: `archived`, `refused`
  (fails, leaves no archive), `spoilt` (fails and leaves an archive that lacks
  files).

### SerialWorker, CanTransport

`SerialWorker` is `SerialPortBase::WorkerThread` over `AsyncSerial`: the
positions of the worker (`pc`), its notification flag, and the port's open and
error flags, which the IO thread changes at any time (`IoFails`). The derived
class's module takes the steps at `pc = "send"`. Waiting on the condition
variable is three steps (test, sleep, wake), so that a notification between
the first two reaches nobody, as in the code, where `NotifiyMainThread` does
not take the mutex. The producers that hold `m_mutex` (`AddToTxQueue`) cannot
run in between; `OnDataReceived`, which does not hold it, can.

`CanTransport` adds `CanSerialPort`: `AddToTxQueue` with its overflow, the
receive buffer, and the callback in the pieces between which `m_mutex` is
free: `DrainRx`, `TakeFront`, `Encode` or `Handshake`, `Remove`. `selected` is
the adapter's protocol. A frame is its number and whether its identifier has
at most 29 bits, which decides what `PrepareSendDataFormat` does. `owner`
becomes `gone` when the members of `CanSerialPort` are destroyed, which is
before the base class joins the worker.

### ModbusPolling

`ModbusEntryHandler`: `main` is the main thread's position (startup, idle, in
the join of `ChangeDevice` or of `Shutdown`), `worker` that of `ModbusWorker`.
`model` counts the register models loaded, `queue` and `batch` are
`m_WriteQueue` and what one drain returned, `timeouts` is `timeout_packets`. A poll
of the four tables makes as many requests as their groups of registers and the
chunks of these take: `PollRequest` is one of them, answered or timed out, and
`HandlePolling` ends the poll after any number of them (`reads`). The panel's
`CustomCommand` runs on the main thread, between two requests of the worker, and
counts in the same counter (`commands`). The counter is compared with its limit
only at the end of a pass, and may be well above it by then.
The connection is `pump` (the serial worker exists), `building`, `inited`,
`open`. An operation of the main thread that joins the worker is two
actions, before and after the join, and the worker runs in between.

### DidReading

`DidHandler` and the timer of its panel. `gui` is the GUI thread's position: it
is inside `AbortDidUpdate` (`flag`, `cancel`: after the queues and after the
flag) or in the destructor, or has queued something and not yet notified. `pc`
is the worker's: each request is one position in which it waits (`session`,
`answer`, `pending`, and the same for writes), and an answer is copied
(`ReadAnswered`) some time before it is looked at, because the worker sleeps in
between. `aborted` and `cancelled` are `m_IsAborted` and `m_ResponseAborted`;
`sem` is `m_Semaphore`, whose second `release` may be lost or counted.
`snapshot` and `todo` are the copy that `HandleDidWriting` works from; a write
is the number of its call. `unseen` are the entries written since the panel
last copied them, `updated` is `m_UpdatedDids`.

`Replies` is the ECU: to any request it may stay silent or give one answer, to
a read or a write also a "response pending" first, with or without an answer
after it. `air` holds the answers on their way. `Prompt` says that the ECU
answers in time or not at all; without it a timeout may come first and the
answer meet a later request.

### ModbusFrameLog, ModbusTransaction

`ModbusFrameLog` is the log and the panel that follows it: `frames`,
`generation`, the panel's `cursor`, and `view`, the rows of its grid.
`CheckMaxEntries` empties the log as a whole when it is full. It has no next-state
relation for the appending side: `ModbusTransaction` extends it and appends.

`ModbusTransaction` is one exchange after another. A request is its number, with
its transaction id and its *shape*: whatever an answer repeats of it. `waiting`
is `WaitForResponse`; `toRecord` is the step between a caller's look at
`IsRecording` and its `Append`, in which the user may stop or clear. `sent`,
`lastSent` are `m_SentData` and `m_LastSentData`; `writer` is the position of the
serial worker in `OnDataSent` (trim, record, write, move), which takes no lock, so
that a new request may be erased unsent or one that was given up be written
later. `device` and `line` are requests and answers under way; an answer is two
chunks, and the IO thread may get any number of them at once (`Receive`). What
begins in the middle of a frame is `Junk`. `Matches` is what the parsers compare.

### IsoTpLink

`send` and `receive[e]` are the fields of the sending half of the endpoint's
link and of the receiving half at each ECU, which is the same code (`isotp.c`) the
endpoint itself receives with. A message is its number and length, cut into
segments. The first frame goes to the id given to `Send`, consecutive frames and
flow control to and from the link's own ids: that is how `isotp_send_with_id` is
written, and why `responseId` matters, which the raw UDS dialog changes. `bus`
and `back` are the CAN queues; either may lose its front.

### CommandPages

`pages` and `names` are `m_Commands` and `m_CommandPageNames`, `tabs` the
notebook's tabs, `file` what `Cmds.xml` amounts to for `Load`. A page is
represented by the name the user knows it by, so that `names[i] = pages[i]` says
that the name beside a page is its own. `SaveToTempAndReload` may fail to write
the file and then loads nothing; otherwise it adds the saved names to the end
once more.

### CanTxList

`entries` is the list of entries to transmit, as objects whose members are in
`heap`; `rows` are the grid's rows, each with the raw pointer it keeps and the
text of its id cell. `scan`, `taken`, `due` are the worker's pass over the list
with the lock held and the frames it hands to the transport afterwards. Buttons
that find an entry by its identifier (`FirstWith`) take the lock; those that use
a row's pointer (`OneShot`, `SetSending`) do not. `owed` are single shots asked
for and not yet sent. `stale` and `copied` remember a failed load and a copy since
the last load: the two events after which the properties below no longer hold.

### FrameChannel

The abstract specification of a queue between threads: items are accepted in
order, and those that are sent are sent once each and in that order. It says
nothing of loss, which all four implementations allow. `CanTransport` implements
it with `sent <- wire`, `ModbusPolling` with `accepted <- edits`,
`sent <- written`, `ModbusTransaction` with the number of requests and what has been
written, `IsoTpLink` with the number of messages and those delivered whole.

`MCDirectoryBackup` and `MCCanTransport` hold only the values of constants that
a configuration file cannot write. The definitions named `Mutant of ...` in
comments are wrong variants of the action that follows them, not part of any
specification; with them in place of the right one, the property they are
listed with in `PROJECT.json` is violated.

## Runs

| Run | Configuration | Shows |
|---|---|---|
| `backup` | `DirectoryBackup.cfg` | `WorkerOwnsQueue`: a queued entry always has a worker that will look again. `RoomForNew`: every destination has room for the new backup but for the names that an error has kept there, and an error does not stop the rotation of the rest. `ReportIsTrue`: a success means a complete backup everywhere. `KeepsAComplete`: a destination with a complete backup keeps one. `AppearsComplete`: whatever appears under a finished name is complete. `DestructorReturns`, `QueuedBackupStarts`: liveness of the destructor and of the queue. |
| `backup_destroyed` | `DirectoryBackupDestroyed.cfg` | refutes `DestructorCancels` |
| `can` | `CanTransport.cfg` | `InOrderOnce`: refinement of `FrameChannel`. `OneLostPerOverflow`: the unlocked pop after a write never loses more than one frame for each overflow. `QueueDrains`, `RxDrains`: frames and bytes are dealt with although notifications may be missed (the timeout of the wait saves them). `LinkReopens`, `WorkerStops`: the worker recovers from failures and can be joined. |
| `modbus` | `ModbusPolling.cfg` | `EditOnItsModel`: a waiting edit belongs to the present model. `EditsInOrder`: refinement of `FrameChannel`. `JoinReturns`: the main thread is not hung by a worker in any position. `PollingContinues`: a worker that is wanted polls again and again. |
| `modbus_deaf` | `ModbusPollingDeaf.cfg` | refutes `EditIsTaken` |
| `master` | `ModbusTransaction.cfg` | `OwnAnswer`: values that are accepted answer the request that asked, over TCP whatever comes late. `SilenceResynchronises`: a request made on a silent line never fails on a wrong answer. `AnswerAfterRequest`: in a recording no answer stands before its request. `ViewMatchesLog`: the grid shows what the log holds up to the panel's cursor. `WrittenInOrder`: refinement of `FrameChannel`, in spite of the unlocked hand-over. |
| `did` | `DidReading.cfg` | `ViewIsTold`: a changed entry is on the list of updates or about to be. `OwnValue`: a value is recorded for the DID it was read from, with a prompt ECU and before the first abort. `WorkerComesToRest`: an ECU that falls silent does not occupy the worker for ever. `DestructorReturns`. |
| `did_erased` | `DidReadingErased.cfg` | refutes `WriteIsTaken` |
| `isotp` | `IsoTpLink.cfg` | `WholeMessages`: what is delivered is one message with all its segments in order, whatever is lost, as long as everything goes to the link's own id and no ECU waits too often. `DeliveredInOrder`: refinement of `FrameChannel`. `SendEnds`: every transfer ends, so that the next message is not refused for ever. |
| `commands` | `CommandPages.cfg` | `SaveHasNames`: Save, copy and delete find a name for every page. `NamesFollowPages`: until `Cmds.xml` is loaded a second time, each page keeps its own name. |
| `commands_named` | `CommandPagesNamed.cfg` | refutes `RunsNamedPage` |
| `entries` | `CanTxList.cfg` | `RowsAreEntries`: except after a load from the menu has failed, each row points to an entry of the list, no two to the same. `IdsDiffer`: identifiers differ until an entry is copied. `ShotIsKept`: a single shot set without the lock is not lost to the worker that clears the flag. |

`TypeOK` is checked in `backup`, `can`, `modbus` and `did`; for `ModbusTransaction`
and `CommandPages` it is proved, which says more. Deadlock is not checked in any: all these
programs may come to rest (destroyed, shut down, or with nothing to do once a
bound is used up).

### Bounds

- `backup`: two destinations; one entry to both with `max` 2, one to the second
  with `max` 3 and compression, so that they compete for names and retention in
  a shared directory. Two seconds (`LastSecond` 1) give names in both orders, equal
  names, and copies beside archives; with fewer names than that rotation has
  nothing to do. One file: a copy is unfinished or finished. One pending
  entry beside the one being worked on; two process starts, so that a run meets
  what a killed run has left. The compressor is `archived` or `refused`. All
  file system errors are on. `backup_destroyed` uses one entry, one destination, two
  files and no disk errors, so that its counterexample is about nothing but the
  destructor.
- `can`: a transmit queue of two that takes four frames, so that overflows fall
  before, during and after the write of the front; a receive buffer of one
  chunk that gets two; a handshake of one command; two failures, so that the
  recovery itself may fail. LAWICEL with any identifiers, STM32 with identifiers of at
  most 29 bits (`MCFitting`): see below for the others.
- `modbus`: a limit of one timeout, two edits and two models (an edit before
  and after a model change, two edits in one drain), two failures of the link,
  polls of up to two requests (enough to pass the limit within one poll and before
  any edit) and one custom frame. `modbus_deaf` has one edit, no failures, one request
  per poll and no custom frame, none of which its counterexample is about.
- `master`: two requests of one shape or custom, so that either may be late for,
  mistaken for or overwrite the other; one loss of the line; a log of two
  entries, which an exchange fills, so that it is emptied between a request and
  its answer; one press of a button. Three transaction ids, more than requests:
  with fewer, an id comes back and a late answer fits, which `OwnAnswer` allows.
  Answers are late over TCP only (`LateOver`): over RTU `OwnAnswer` is false, see below.
- `did`: two DIDs, of which one is also written, one retry, one queued read at a
  time (a late pop meets an empty queue or the other DID), one write, a pending
  response and an answer on their way. Two queued reads or writes add nothing
  but repetition to what the passing run's properties say; `did_erased` has two
  of each, an ECU that may be late and a counting semaphore. `MAX_EXTENDED_SESSION_RETRIES`
  is 5 in the code and a constant of the model.
- `isotp`: two ECUs, three messages (one abandoned, one to mix with it, one
  after), of one segment, of as many as the buffer holds, and of one too many; a block
  of two and three sequence numbers, so that both wrap within a message. What matters
  is that a block is shorter than the numbers' period, as 8 and 16 are in the
  code (`LinkAssumption`): otherwise a whole block could be lost unnoticed.
- `commands`: two pages, three names (those of the default file and the one a new
  page gets), two loads; names pile up to eight, which is four reloads of two
  pages.
- `entries`: two entries with ids up to three, four objects: an old and a new
  list, or freed objects that rows and frames still point to.
- Unbounded in the models: reads over time, aborts, requests to cancel, pauses,
  resumes, enabling, disabling, device changes that fail to load, timeouts, edits
  of pages and entries.

### Fairness

Weak fairness of the threads the operating system schedules: the backup
worker and the destructor once it has begun; the serial worker, the main
thread inside `Init`, and the base destructor; the Modbus worker, the main
thread at startup and after a join, and the serial worker's construction of a
connection; the DID worker, its destructor, and the arrival of answers that are
on their way; the endpoint's poll and the two CAN queues, which deliver or lose
what is in them. Nothing that a user or a device does is fair: nobody has to
submit, cancel, resume or shut down, no answer has to arrive, no failure has to
happen or to stop happening other than by the bound on faults.

`Elapse`, the ten seconds of the ISO-TP sender, is strongly fair: it is a clock,
which goes on while frames come and go, but the model lets it strike only
between frames, because a frame takes no time against ten seconds.

The bound on faults matters to `LinkReopens` and `PollingContinues`: they say that
the worker recovers once a link stays obtainable, not that it does while every
attempt fails. `ModbusTransaction`, `CommandPages` and `CanTxList` state safety
only and have no fairness.

## Proofs

Checked by TLAPS for every value of the constants that satisfies the named
assumptions (`JobsAssumption`, `BoundsAssumption`; `FaultsAssumption`,
`TransportAssumption`; `PollingAssumption`; `ReadingAssumption`;
`TransactionAssumption`, `LogAssumption`; `LinkAssumption`; `PagesAssumption`;
`ListAssumption`), which only say what kind of thing each constant is
(`LinkAssumption` also that a block is shorter than the sequence numbers, as 8 is
than 16). Each strengthening below was checked by TLC on the bounds of its run
before it was proved. A theorem with a hypothesis of its own names it here; the run
of the same property satisfies it.

`DirectoryBackup_proofs`
- `TypeCorrect`, `QueueIsOwned`: from the inductive invariant
  `IInv == TypeOK /\ Placed /\ WorkerOwnsQueue`. `Placed` ties the worker's
  position to its entry and index: without it `Dest` need not be a destination.
- `CompleteIsKept`: if no entry has `max = 1` and a failed compressor leaves no
  archive, `KeepsAComplete` holds. `KeepsAComplete` alone is not inductive: the
  danger is a rotation that sorts partial backups above the good one. The
  strengthening `Retained` says that every partial item has a complete item
  with a larger name (`TopComplete`), that every candidate of a running rotation
  has a complete item above it that is no candidate
  (`DoomedBelowComplete`), and that the copy is only stripped beside a complete
  archive (`ArchiveMade`). Both assumptions are needed: with `max = 1` the
  rotation removes everything before the new copy is made (that is what the
  setting asks for), and a spoilt archive is a partial item above its copy that
  may crowd the complete ones out.
- `OnlyCompleteAppears` (`AppearsComplete`): an action property, from `IInv` and
  the list of steps that write to a destination (`DiskChanges`). It needs
  `"spoilt" \notin Compressions`: the compressor is an external program that writes
  beside the finished copy, under the archive's final name.
- `SuccessIsTrue` (`ReportIsTrue`): `Truthful` carries the claim through the run:
  while nothing has failed, every destination before the index is done
  (`PassedDone`), the one at the index is as far as the position says (`CopyMade`),
  and what is done stays done until the report (`ReportDone`), because what is
  removed is never of this run's name. No hypothesis.
- `RotationRoom` (`RoomForNew`): `Spacious` bounds the names of each destination that
  rotation has passed, and of the one in rotation *without* its doomed names
  (`RoomAfterRemoval`), which is what lets a removal go on one name at a time: each
  doomed name ends up gone or kept by an error. What an error has kept is
  excepted, because there the code makes no room (see below). It
  needs `DistinctDestinations`: an entry that lists one destination twice rotates it
  twice, copies to it, and finds its own new backup there when it comes to it
  again; the code does not exclude such an entry, and keeps one backup too many.

`CanTransport_proofs`
- `TypeCorrect`, `ImplementsChannel` (`Spec => InOrderOnce`): from
  `IInv == TypeOK /\ Counted /\ Order`. The queue is sorted
  (`QueueInOrder`); what is on the wire is smaller than what is queued, except
  between the write and the pop, when the front may be the frame just
  written (`InFlight`). That exception is what makes the
  unlocked pop harmless to the order: whether the pop takes the written frame
  or, after an overflow, the one behind it, nothing written stays queued.
- `OverflowsCostOneFrame` (`OneLostPerOverflow`) bounds how many frames are lost, not
  which, and nobody is told of one: `AddToTxQueue` returns nothing. The count of missing frames is not
  inductive, since the late pop after an overflow drops a second frame. `Sacrificed`
  says that this frame is paid for in advance: if the front is no longer the frame
  being written, an overflow has popped that one, which is written all the same and
  so not missing; `Settled` that it is on the wire, or refused, by the time of the pop.

`ModbusPolling_proofs`
- `TypeCorrect`, `EditsMatchModel`, `ImplementsChannel`: from
  `IInv == TypeOK /\ Line /\ Models /\ Phases /\ Counter`. `Line` orders wire,
  batch and queue; `Models` puts every waiting edit on the present model, which
  is preserved because `Phases` has no drained edits when the model is
  replaced after a join and no edits at all during startup; `Counter`
  bounds the timeout counter by the position of the worker: since the last look at
  the counter, every request of the poll, every edit of the drain and every custom
  frame may have raised it by one.

`DidReading_proofs`
- `TypeCorrect`: from `IInv`, which adds to the types that the worker has a DID
  at hand wherever it uses one.
- `ViewAlwaysTold`: `ViewIsTold` is inductive as it stands.
- `OwnValueKept`: `OwnValue` follows from `Tidy`. With a prompt ECU and no abort,
  everything on its way or in the buffer answers the *last* request (`Fits`),
  only a pending response has anything behind it (`Last`), and outside the
  waits nothing is on its way (`Silent`). The last part is where the timeout
  and the order of resets are needed: it makes the next request start with
  nothing old about.

`ModbusTransaction_proofs`
- `TypeCorrect`, `ViewMatches`, `SilenceHelps`, `AnswersFollow`,
  `ImplementsChannel`: from `IInv == TypeOK /\ Writing /\ Caused /\ Recorded /\
  Cursor /\ ViewMatchesLog /\ Quiet`. `Writing` says that `m_SentData` is empty or the
  last request, and larger than all that is written until it is written itself: that
  is what the race on it cannot break. `Caused` traces every answer, wherever it is,
  to a request on the wire; with `Recorded` it gives `AnswersFollow`. `Cursor` keeps
  the panel's generation behind the log's, without which emptying the log could
  make an old cursor look current. `Quiet` lists the stages of an exchange that began
  on a silent line (to write, at the device, on the line, half way, received): only
  with that list is it inductive that nothing else reaches the parser. `LateOver` is
  arbitrary here: these hold however late the answers are, over either transport.
- `OwnAnswers` (`OwnAnswer`) is about the values that typed requests return as
  accepted; exceptions and answers to custom commands are taken as they come, over
  TCP too. It assumes `"rtu" \notin LateOver`, since RTU frames carry
  nothing that tells an old answer from a new one, and a late one is taken for the
  answer to an equal request. `Punctual` then makes every RTU request start on a
  silent line; over TCP, where answers may be late, `Numbering` relates the
  distance of two requests with the same transaction id to the number of ids.

`IsoTpLink_proofs`
- `TypeCorrect`: with `Bounds`, frames name messages that were sent, and a sender in
  progress has not run out of wait frames.
- `MessagesAreWhole` (`WholeMessages`): from `IInv == TypeOK /\ Bounds /\ (Regular =>
  Agreed)`. `Regular` is the property's own exception turned round: everything was
  sent to the link's id and no message ended with too many waits. `Agreed` is what
  sender and receiver then agree on without knowing of each other: the frames on
  the bus are in order and carry the segment their number says (`Bus`); the
  receiver has a beginning of one message (`Receiver`); every consecutive frame under
  way is of that message, not yet received, and within the block that the receiver
  has permitted (`Window`), so that a sequence number that matches *modulo 16* is
  the next one (`NextSegment`, `ModWindow`); the sender never goes beyond what is
  permitted (`Sender`); and an answer that permits more is the only one, with nothing
  else under way (`Answers`). The last is what timeouts put at risk: a permission
  given for a message that has been given up would let the next one run ahead.
- `WholeInOrder`: the promise of `DeliveredInOrder` as a state invariant, with no
  exception for other ids or wait frames. `Cut` orders the segments on the bus, and
  `Over` says that behind the last segment of a message that has arrived nothing of
  it, or of an older one, follows.

`CommandPages_proofs`
- `TypeCorrect`, `PagesHaveNames`, `NamesKept` (`NamesFollowPages`, which ends with the
  second load): from `IInv`, which strengthens
  `NamesFollowPages` by the length (`SaveHasNames`) and by `Empty`: before the
  first load there is nothing, so that the first load appends its names to
  none. The argument for every edit is that the names beside pages form a
  prefix, which insertions and deletions at one index keep and which reloading
  the temporary file only extends behind it.

`CanTxList_proofs`
- `TypeCorrect`, `RowsPointToEntries` (`RowsAreEntries`), `IdsStayDifferent`
  (`IdsDiffer`), `NoShotForgotten` (`ShotIsKept`): from `IInv`, which joins the three
  and adds that entries are different objects (`Distinct(entries)`), without which
  deleting one by its id could leave a row pointing to nothing; that ids are
  different as long as nothing was copied, for the entries behind as well as in
  front of the one edited (`IdsUnique`); and that a shot whose flag the worker is about to
  clear is already collected (`TakenIsDue`). What is deleted by its id, and what a load
  creates, are given as sets of sequences (`Without`, `Fresh`) rather than by a filter: a
  sequence with exactly the other entries, in their order. That states the effect of
  the code's loops without a recursion, which the prover could not follow.

Only model-checked: every liveness property (fairness and `ENABLED` are beyond
the prover) and the refinement `DeliveredInOrder`, whose mapping picks the whole
messages with `SelectSeq`: what that recursive definition yields for a sequence of
any length needs induction over data (`WholeInOrder` proves what it promises without
it). Every other property of a passing run is a theorem. No module uses a
`RECURSIVE` operator.

## Where the code disagrees with what it says

Each has a run whose counterexample shows it; `PROJECT.json` quotes the lines.

1. `DoBackup` clears the cancellation flag after its entry has been taken, so
   that the destructor's cancellation can be lost and a whole backup is made
   while it waits (`backup_destroyed`).
2. After a device change while polling is paused there is no worker, and
   resuming does not start one (`modbus_deaf`).
3. `HandleDidWriting` works from a copy of the queued writes and then clears the
   queue: a write queued meanwhile is erased without having been sent
   (`did_erased`).
4. `Load` of `Cmds.xml` replaces the pages and appends to their names. After the
   file has been changed and loaded again, a macro that names one page runs the
   commands of another (`commands_named`). In the counterexample a page is deleted
   while the temporary file cannot be written.

The models also show the following. The first group is where a text of the
repository says otherwise; no run of its own refutes these.

- A kill during `remove_all` leaves part of a backup under its finished name,
  which `DirectoryBackupCore.cpp:98` says cannot happen.
- "Rotation runs before creating the new backup, so enough old entries are
  returned to leave room for one" (`DirectoryBackupCore.hpp:29-30`): of a directory
  that cannot be listed, none are returned, and `RotateOwnedBackups` calls that a
  success. The backup is made all the same, beside as many as the limit allows, and
  nothing is reported (the second disjunct of `RotateDestination`).
- `~CanSerialPort` does not join the worker before its members go;
  `~ModbusMasterSerialPort` does, and says why.
- The STM32 protocol leaves a frame it cannot encode at the head of the queue
  and the send loop never ends (hence `MCFitting`).
- A read that fails before the port is declared open leaves a port that says
  it is open and has no IO thread.
- `ModbusEntryHandler::Init` replaces the layout without the lock while the
  worker that `LoadSettings` started may use it.
- The rows of the sender panel keep raw pointers, which `CanEntryHandler.hpp:168-170`
  forbids: a load that fails from the menu leaves them dangling
  (`stale` in `RowsAreEntries`), and `UpdateTxCounter` reads through them.
- "Ids can repeat in a loaded list" (`CanSenderPanel.cpp:199`): the loader skips
  duplicates, but Copy makes them. Delete then removes both, and saving and loading
  drops the second (`copied` in `IdsDiffer`).

Modbus master: over RTU a late answer of the same shape is taken for the answer to
the next request, and exceptions are not matched by transaction id even over TCP.
One late answer makes every following request fail until there is a silent pause. A new
request may be erased by the move of the one before, or one that was given up be
written. Custom commands accept any answer. The log grows past its maximum as
long as only answers are recorded.

ISO-TP: a message to an id other than the link's own has its first frame there and
the rest at the link's: an ECU may complete a message with segments of another.
After too many waits the ECU's permission for the old message starts the next one.
A message sent while another is in progress is refused without a word. Changing the
response id during a transfer makes it time out.

Commands: a load that throws leaves buttons that point to freed commands; a first
load that fails half way leaves more tabs than names, and renaming such a tab
writes past the vector's end (`RenameNothing`). A middle click closes a tab and shifts
all indices after it. "Delete" on a command removes only its button.

CAN entries: the edit dialog for a frame holds a reference across a modal loop
(`CanSenderPanel.cpp:816`), and payloads are assigned without the lock.

DID reading: an abort while the worker is idle makes the next update do
nothing; after an abort during a pending response, or with a late ECU, a value may
be recorded for the DID that was asked for next, because the identifier in the answer is
not looked at; an answer that comes after an abort pops whatever has been queued since; a
DID that is never answered, by an ECU that still answers session requests, is asked
for again and again; writes are not tried again, and an abort does not end the
writes that have been taken up.

Seen while reading, not in a model: `DirectoryBackup.hpp:156` says `m_WorkerMutex` is
never held while waiting on the future, `BackupFile` does hold it (the wait is
short, because of `WorkerOwnsQueue`); `CanIsoTpEndpoint.hpp:37` speaks of
dispatching outside its own locks, the callback of the serial port base runs with
`m_serialMutex` held; `IdlePowerSaver.hpp:76` says milliseconds for what is
compared in seconds, and subtracts 2000 from an unsigned timeout; a failed accept
ends accepting (`Server.cpp:266`); the LAWICEL handshake step survives a reconnect
(`CanDeviceLawicel.cpp:50`); `CanScriptHandler` notifies without the condition's
mutex, an abort with no script running ends the next one at once, and an abort waits
10 ms and then clears the script's data without a lock.

## What is abstracted

- Backup: ignore rules, hashing (a mismatch is one of the errors that abandon
  a copy), names (a second), the contents of files, the settings file, and
  destinations inside the source (a skip). All entries share one source;
  entries with different sources do not share names.
- Serial worker: only the COM port; the TCP transport and `Open`/`Close` from the GUI
  are left out. Use of the object by the IO thread after its destruction
  is not modelled: only the callback's is.
- CAN: `std::queue` operations are atomic, although `front` and `pop` run
  unlocked. `wire` is what has been handed to `AsyncSerial::write`; what the
  port then loses in a failure is not seen. The receive buffer holds chunks,
  and decoding is not modelled. The effects of `OnFrameSent` belong to
  `CanEntryHandler`.
- Modbus polling: register values, the observer and `Export` are left out; a
  poll is a number of requests, each answered or timed out, without the tables
  they belong to. The serial worker is reduced to obtaining and losing the connection; its own
  interleavings are in `SerialWorker`. Unlocked flags are atomic.

- DID reading: values, types, time stamps and NRCs are left out: of an entry only
  that it changed. Answers are classified by service and kind; frames that are
  no answer but happen to have the right bytes (`UdsCodes.hpp`) do not occur.
  `curr` and `response` are reset when they go out of use. The map's order of
  writes, the filter of the panel's list and the cache file are left out, and
  requests reach the ECU (`CanIsoTpEndpoint` may refuse one; here the ECU then
  stays silent).
- Modbus transaction: bytes, CRCs and lengths; a chunked read is a sequence of
  requests; the error counters, the event list (nothing appends to it) and the export
  of a recording are left out. The polling worker above is any requester.
- ISO-TP: malformed frames, ST_MIN and the list of received messages are left
  out; a frame is lost from a queue's front, which differs from its loss elsewhere only
  in when.
- Commands: the commands of a page, their parameters and the processes they
  start. Icons are kept and moved as names are.
- CAN entries: payloads, counters, the favourite level and search that hide rows,
  recordings, received frames and the mapping. An object that is gone may be
  reused; what is written to it before is lost.

## Not modelled

`PROJECT.json` lists each component with its reason. Most of the repository's lines
are of kinds that a state machine says nothing about:

- GUI code (`gui/`, about a third): panels build widgets and copy values in and
  out of handlers. What of it changes state that other threads or components
  depend on is modelled with the handler: the DID panel's timer, the Modbus
  log panel, the page menus of the commands, the CAN sender panel's list.
- Vendored and generated code (`libs/`): only `isotp.c`, on which the
  endpoint's behaviour rests, is modelled.
- Parsing and printing of configuration, messages and wire formats
  (`*XmlLoaders`, `*JsonPersistence`, `TcpMessageParser`, `CanCodecs`, settings):
  pure functions whose correctness is about bytes.
- Macros, alarms, hotkeys, screenshots, HID and air quality sensors, the database:
  platform calls with little state, on one thread.
- TCP server and sessions: nothing calls `BroadcastMessage`, so that the write
  queue and the transfer timer, which would be worth a model, are never used.
- Idle power saver and time tracker: sequential, on the GUI thread.

The models therefore cover a small share of the lines and most of the code that
runs on more than one thread or keeps two pieces of state in step.

## Plan

Done: `DirectoryBackup`, `FrameChannel`, `SerialWorker`, `CanTransport`,
`ModbusPolling`, `DidReading`, `ModbusFrameLog`, `ModbusTransaction`,
`IsoTpLink`, `CommandPages`, `CanTxList` with the runs and proofs above. Next, in this
order:

1. Proofs: which hypotheses of the theorems can be weakened (`WholeMessages` for the
   messages that did go to the link's id; `RoomForNew` with one backup too many for each
   repeated destination).
2. `CanScripts` (`CanScriptHandler.cpp`): waits, the lost wakeup and the abort.
3. Compositions: `DidReading` above `IsoTpLink` (a refused send is now a silent
   ECU), `ModbusPolling`'s timeout limit above `ModbusTransaction`.
4. The receive side and the recording of `CanEntryHandler`.
5. `IdlePowerSaver` with its arithmetic at width 32, `TimeTracker`.
