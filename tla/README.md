# A verification project for the virtual disk, the flash tools and the script engine

This directory holds TLA+ models of the concurrent and stateful core of the
repository, the TLC runs that check them on small instances, and TLAPS proofs of
the most important results for every instance. `PROJECT.json` lists components,
runs, the source lines each definition stands for, hazards, findings and theorems.

## 1. Inventory

### Virtual disk (`src/application/virtual_disk`)

An application mounts a disk whose sectors are served by its own code. The driver
`CoreMntWdm` creates one disk device per mount; requests of other programs to that
device wait in a queue; a thread of the application fetches them one at a time
with an *exchange* control code, performs them on an image and returns each result
with its next exchange.

| Component | State | Operations | Interacts through |
| --- | --- | --- | --- |
| `CIrpQueue` | ring `m_queue`, `m_head`, `m_tail`, `m_size`, event, spin lock, mutex | `push`, `pop`, `empty` | called by any dispatch routine and by the exchange thread |
| `CMountedDisk` | queue, `m_last_irp`, per request status and progress | `DispatchIrp`, `RequestExchange`, `Disconnect`, `Release` | requests in, exchanges with the user thread |
| `CMountManager` | `m_disk_map`, `m_disk_count` | `Mount`, `Unmount`, `DiskId2Ptr`, `Release` | control codes from many applications at once |
| `CoreMnt.cpp` | the driver's own device | entry, routing of requests, PnP, unload | calls `CMountManager` |
| `CDriverControl` | driver handle, disk number, exchange thread, image | constructor (mount), `Connect`, `Run`, `Disconnect`, destructor (unmount) | control codes; 10 s and 60 s waits on its thread |
| `CSyncMountManager`, tool | map from disk number to `CDriverControl`, application status | create, connect, mount, unmount, disconnect, clean up | owns `CDriverControl` |
| images (sparse, file, trace) | file, index table | `Read`, `Write`, `DeviceControl` | called by the exchange thread |
| page-mode driver, file NAND | link table, block pool, flash file | write, read, flush, rebuild | an image |
| vendor command machine | position in a key sequence of reads and writes | each read and write | an image |

What is hard here: the queue is touched by any number of threads and its parts are
guarded by different locks; the two waits share one auto-reset event; results
travel one exchange later than the request; a request may take many exchanges;
the disk can be released at any moment; the manager has no lock at all; an
application can die, and its thread can outlive the wait for it.

What makes each part correct: the queue is a FIFO with no loss and no sleeping
thread left behind; every request is answered once, with the data it reports; the
table of disks never loses a disk, never gives one slot to two mounts, and nobody
works on a deleted device; the translation layer never loses a sector over a restart.
Section 4 says where the code falls short of this.

### Flash tools (`src/application/SmiVenderTest`)

`FerriSimulator` replays traces against simulated controllers. `CSimCacheMode`
models the cache of one: cache blocks, a link table, lists of spare and used blocks,
a clean that may span commands. It is sequential; what is hard is the long
sequences of legal writes in which three structures must stay consistent.

`SmiDevice` recognizes a controller and sends it vendor commands through ordinary
sector accesses; state: the recognized type, the lock on the volume, whether an info
block was found. It talks to real cards or to the simulated controller of the file
driver. What is hard: every access may be lost and its result is ignored, so host
and device can disagree about where in the key sequence they are, on a disk that
somebody else may be using. Right is: no vendor command touches the user's data, the
device runs the command that was sent, once, and a working device is not given up.

`SmiVenderTest` runs scripts over these libraries with the script engine below;
`ata_trace` and the decoders parse files.

### Serial number tool (`src/application/sn_update_tool`)

One dialog and a device library: scan, write the serial number into both firmware
copies, power-cycle, verify, run an external test, log a verdict, count. It is single
threaded, but every status line pumps messages, so runs can nest and the user can set
another number or quit under a run. Right is: a good verdict in the log means the card
really carries that number, the card is off when nobody works on it, and no verdict
is missing from the count.

### Script engine (`src/jcvos/script_engine`)

A recursive-descent parser compiles a line of stages into sequences of operators and
moves each operator as far outside as its sources allow; a small machine then runs
the sequences and passes rows through ports. Right is: the rows a script gathers are
those its text means.

### Libraries and other tools

`jcvos` (`stdext`, `jcparam`, `jcapp`, `jcdb`, `jcgui`), the firmware update
tool, `CrazyCat`, `hardlinkext`, scripts and the vendored `sqlite` and `vld` are
listed in `PROJECT.json` with the reason why they are not modelled.

## 2. Modules

| Module | Models | Source |
| --- | --- | --- |
| `IrpQueue` | `CIrpQueue` statement by statement | `MountedDisk.cpp` 26-137 |
| `RequestFifo` | what the queue promises | interface in `MountedDisk.h` |
| `IrpQueueProofs` | theorems about `IrpQueue` | |
| `MountedDisk` | `CMountedDisk` and the thread `CDriverControl::Run` | `MountedDisk.cpp` 195-827, `mntDriverControl.cpp` 130-371 |
| `DiskService` | what a mounted disk promises its applications | the interface of `CMountedDisk` |
| `MountManager` | `CMountManager` with its clients | `MountManager.cpp`, `mntDriverControl.cpp` |
| `MountedDiskProofs`, `MountManagerProofs` | theorems about `MountedDisk` and `MountManager` | |
| `CacheMode` | `CSimCacheMode`, `CCacheBlock`, `CLinkTable` | `sim_cache_mode.cpp` |
| `MountTool` | `CSyncMountManager`, `CDriverControl`, the mounting tool, the driver's entry points | `main.cpp`, `mntSyncMountManager.cpp`, `mntDriverControl.cpp`, `CoreMnt.cpp` |
| `PageMode` | `CPageModeDriver` with its tables over `CFileNand` | `page_mode_driver.cpp`, `file_nand.cpp` |
| `VendorChannel` | `SmiDevice` and the vendor command machine of `CDriverImageFile` | `smi_device_comm.cpp`, `sm22*.cpp`, `CoreMntDriverFile.cpp` |
| `SnUpdate` | the serial number tool and its device library | `UpdateSnToolDlg.cpp`, `ferri_comm.cpp`, `LogFile.cpp` |
| `ScriptEngine` | parser, operator graph and its execution | `syntax_parser.cpp` and the operators |
| `ScriptMeaning` | what a script means, the abstract specification of the engine | comments of `syntax_parser.cpp` |
| `CacheModeProofs`, `MountToolProofs`, `PageModeProofs`, `VendorChannelProofs`, `SnUpdateProofs` | theorems about the modules they are named after | |
| `MC*` | constants and symmetry for TLC | |

Operators preceded by a comment "Mutant" are deliberately wrong variants of the
definition that follows them; no specification uses them. Replacing the
definition by the variant breaks the property `PROJECT.json` names, which shows that
the property depends on that line of the code.

### IrpQueue

One process per thread inside `push` or `pop`; `pc` says between which two
statements it stands. `try` is the spin-locked test and change of `m_size`, `wait`
and `blocked` are the two sides of entering `KeWaitForSingleObject`, `lock`, `slot`
and `advance` are the section under the fast mutex, `notify` the gap before
`KeSetEvent`. The event is auto-reset: setting it releases one blocked thread, any
one, or stays signalled for the next. Requests are model values, each pushed once,
since a pool block is in the queue once. A consumer is the exchange thread or
`Release`. `stored`, `popped` and `raced` are histories. `empty` has no action: it
reads `m_size`, and its callers are in `MountedDisk`.

`raced` becomes true when a pop reserves a request that is counted but not yet
stored, or a push writes while the ring still holds `Capacity` unread requests.
Until then the queue is a FIFO (`FifoUnlessRaced`), and `ImplementsFifo` says the
same as a refinement: `stored`, `popped`, `raced` implement `RequestFifo`.

### MountedDisk

The queue is the FIFO that `IrpQueue` implements up to a race; the races have their
own runs. Requests have a kind: reads and writes are completed by the
exchange, pass-through requests (`ioctl`) by the dispatch routine that sleeps on
their event, `local` ones are answered at once, `disconnect` is the dummy request.
Sizes are in units of the transfer; `Length[r] > BufSize` makes a request take
several exchanges. `RequestExchange` is two actions, since it blocks in `pop`
between returning a result and fetching the next request. `Serve` is the image,
external to the driver: it transfers what it was asked or fails; `EndThread` is an
exception of the image or the reflected disconnect. `status` is `"garbage"` until
assigned, as `m_status` is uninitialised; whoever reads it before that may see
anything (`StatusRead`). `moved` counts what the image really
transferred.

`DiskService` is the disk as an application sees it: no queue, no thread, no exchange. An
IRP is taken, its data is copied while it waits, and it is answered once; behind the answer
nothing of it is touched; until the disk closes, success of a read or write means that
all of it was copied. `ImplementsService` maps `phase`, `result`, `moved` and the state of
`Release` to it. It promises nothing about success once the disk is closing, because
`Release` reports the status of the last part for the whole (section 4).

### MountManager

Each access to `m_disk_map` or `m_disk_count` is an action. Clients are
applications; a client that dies leaves its disk mounted. Device objects are addresses
that are reused after deletion. `CreateFails` and `LinkFails` are the two error returns of
`Mount`. `EnterDisk` and `LeaveDisk` bracket the time the exchange thread uses the pointer
that `DiskId2Ptr` returned. An application disconnects its disk (`Disconnect`,
`Disconnected`), waits for its exchange thread (`Join`) for at most a minute
(`JoinTimesOut`) and unmounts. The remove option of the tool (`StartRemove`, `Detached`,
`UnmountOther`) does the same with a disk of any number, whoever has it, and waits for nobody.
`UnmountOwn` and `UnmountOther` read the slot whatever goes on in the disk, as `Unmount`
does. `late` are the clients whose exchange thread an unmount did not wait for; such a thread
goes on with whatever it finds in the slot. `clash` becomes true when a remove is given the
number of a disk that an application has or that is being unmounted, or when a call is still inside
`DisconnectDisk` as its disk is unmounted: the properties are about the time before, and the
run does not go on behind it (`NoClashYet`). `UsePlaceholder` is what happens to a
placeholder that is taken for a device object: the machine stops and comes back with an
empty table. The sweep is `CMountManager::Release` at unload.

### CacheMode

A host write is one action per loop iteration, so that the exception "cache full" can
end it in the middle and partial cleans overlap later writes. Host pages are
numbers `block * PageCount + page`, as in the code. `ProgramAndInvalidate` and
`InvalidCachePage` follow the order of the code: program, invalidate the old copy,
recycle its block, link. `m_write_range` is the size of `mapped`. Cache blocks are
interchangeable, so `Prepare` numbers them in any order and TLC uses symmetry.
`rewritten` remembers pages written behind a clean. The exception "cache full" ends the
command and leaves the simulator prepared with its last block full (`full`), so the next write
fails the assertion of `Program` (`ProgramFails`), where the model ends. Left out: the times and the
erase counter, and property changes of the geometry, which only lead to `Prepare`.

### MountTool

One process runs the tool: `tool.pc` walks through `Run` (install, load, create, connect, mount,
wait) and `CleanUp` (unmount, disconnect, join, delete, unload, exit); `tool.status` is
`m_status`, which decides what the clean-up undoes. An exception of any call goes to the
clean-up, as `local_main` does. Beside it run the exchange thread, applications that send
requests, another process with the remove option, and the service manager that stops the driver.
`refs` says who holds the image, `dll` whether its code is loaded, `obj` whether the
`CDriverControl` is alive: what the exchange thread needs at each of its steps. A killed process
loses its threads, but for one that sleeps in the driver, which keeps its handle. The disk is
its queue, with the one event its `push` and `pop` share: `asleep` says whether the tool's push
and the thread's pop sleep on it, and setting it wakes one of them or a push of another
application (`SetEvent`). Once a push has found the queue full (`past.crowded`), the event that
was meant for a pop may go to such a push (`MissEvent`); before that no wake-up is lost, which
`IrpQueueProofs` proves. The table and the exchange are in the modules above.

### PageMode

`ftl` holds the flash file and, while the driver is up, its memory: the chain of
blocks, the zone and group tables, the active block, the positions in the index and
link blocks. A host write is one action for each page. `d.stop` tells how a call
ends early: an exception of the driver ends the exchange thread (which drops the
image), an access outside of the arrays may end the process. It may also be survived: then
the driver goes on (`GoAstray`), for instance with block 65535 behind the last spare one, whose
pages cannot be programmed, acknowledges the write and loses it; `astray` remembers that it
did. Uninitialised members (`m_group_num`, `m_updated`, the words of a new zone table) and
what such an access finds take any value the run chooses (`StartLuck`, `Luck`). `Total` may be
anything: pages that the tables do not cover (those outside of `HPages`) read as never written.
The off-by-one of `ReadLinkTable`, the inverted condition in
`BuildTable` and the missing end mark of the spare chain are as in the code. The
functions of the driver return the memory they leave; their loops are recursive
functions (`Loop`), and each change of the memory that a call makes on its way has a name
(`TakeZoneBlock`, `PutIndex`, ...), so that the proofs can follow it step by step.

### VendorChannel

Host and device alternate over accesses. An access is answered, lost (the device has
not seen it), or late (the device has processed it, the host got a failure): the host
cannot tell the two, since it ignores the status, and goes on with what its buffer held. The
recognizers are tried in the order of the map, each with five key reads and one read meant
to stop; `Call` and `NextTry` are `VendorCommand` with its retries; `Initialize` is
the sequence of commands after recognition. What answers say is abstracted
to which command they answer, so that a sector of the user or an old answer in the buffer
is seen as such (`Junk`). The user's accesses fall anywhere the volume is not locked.

### SnUpdate

A run is one message handler, so it is a record with a `pc`; the user's actions are possible
only where the handler pumps messages (`Pumps`), and a run started there is put on top of the
stack `runs`. The card has its power, two firmware copies and the identity it loaded when it got
power. Every command may fail (`Fault`, bounded), in the ways the library reports it; those
whose result nobody asks, powering a card off and saving the count, may have no effect. `count`
is the number shown and the one in the file. `factory` is freed by Quit; a device used after
that crashes. The build is the one of `NECI` (project file), which leaves the Quit button and
the edit field enabled.

### ScriptEngine and ScriptMeaning

`Compile` is one action: the parser as mutually recursive operators over the tokens, one for
each `Match*` function, that append operators and place them by their dependency (`AddOp`).
Running is one action for each operator of the program or of a combo. `ScriptMeaning` defines
lines, stages and expressions as trees, `Written`, which prints them with the parentheses they
need, and `Meant`, which computes their rows directly. `RowsAsWritten` compares the two on every
script of the run. Values are 64-bit integers; rows have one column. Left out: division by zero,
empty parentheses, `$x | ...`, the brace factor, `-b@var`, file output, predefined variables,
named plugins, Boolean options; a vector stands only at the start of a line. A feature gets the
text of a parameter and turns it back into a number (`Text`): the text of a row with columns is
empty and reads as 0, so the scripts give a feature a row as parameter only over a plain vector.
`not` stands as an operand of `and` only: as the root of a condition it fails an assertion,
which is in the model (`InvokeFilter`), and inside `or` it cuts the operator list (section 4).
After the first syntax error the script is not run, so error recovery does not matter here.

## 3. Runs

| Run | Instance | Shows |
| --- | --- | --- |
| `queue_safety` | 2 producers, 2 consumers, 3 requests, ring of 2, fair | accounting of `m_size`, indices, FIFO until a race, races only in overlaps, refinement of `RequestFifo`; what is stored is fetched while at most 2 requests are outstanding |
| `queue_null_pop` | 1 producer, 1 consumer | violation: `pop` returns an unwritten slot |
| `disk_exchange` | six requests of all kinds, buffer 2, queue 2, fair | conservation, order of partial transfers, honest results, answers; refinement of `DiskService` |
| `mount_manager` | 3 clients, 3 devices, 2 slots, up to the first `clash` | table and count stay consistent, no disk lost, none used after deletion but by threads nobody waited for |
| `mount_tool` | all options, queue of 2, 3 requests, fair | the exchange thread finds what it uses; nothing is left behind; ctrl+c ends the tool unless its disconnect request sleeps for good |
| `cache_mode` | 5 cache blocks of 4 pages, 2 host blocks, 1 page a command | consistency of link table, pages, lists; cleans |
| `cache_full` | 3 cache blocks, 1 host block, 2 pages a command, `LeastSpare` 0 | cleans behind which pages are written again; the cache fills up, and only behind that a block is programmed without room |
| `page_mode` | 8 blocks of 3 pages, 2 groups, 4 sectors, 5 operations, one start | reads return the last write, spare blocks are free, tables are named in the flash |
| `vendor_channel` | 2 recognizers, 3 tries, 6 lost accesses, 1 command, 2 user accesses | user data intact, one run of the command sent, no device given up without cause |
| `sn_update` | 2 runs, depth 2, 2 settings, 2 faults | log, count and power tell the truth about the card, but for what nobody asks after |
| `script_engine` | 444 scripts of up to four stages or three lines | gathered rows are the meant rows |
| `script_relation` | filters with each relation | violation: `<` and `<=` are exchanged |

Deadlock checking is off: every run may stop, because requests are finite, a
disk ends released, a tool exits or crashes, a script ends, a bound is reached. That nothing
stops too early is what the liveness properties say.

**Bounds.** A ring of 2 wraps after two requests and is over-full with three; two producers and
two consumers give every overlap of the three critical sections. The real capacity is 32; the
proofs cover it. In the disk, a read of 3 units with a buffer of 2 is split, a pass-through
request of 3 does not fit, and a queue of 2 is full while four requests wait. Two slots and
three clients let a scan pass an occupied slot, fail, and race a claim and a clear; the third
device lets an address be reused. Four pages are the fewest with a quarter; five cache blocks
with `LeastSpare` 1 are the fewest for which all three ranges of spare blocks occur
(`LeastSpare`, `3 * LeastSpare`, above). `MaxPages` bounds a command. Three pages a block let a
data block hold one page besides a rewritten one and its end mark, and the map block rotate with
the second flush; eight blocks leave four spare ones after the blocks the misread link table
costs, so erased blocks are used again, the last one is taken, and the driver goes on behind it
within five operations. `Total` is whole groups in the run; the proofs cover the others. Three
tries with six losses let a device be given up in every way; one lost access less than a key
sequence (five) separates a command from an earlier one. Two runs of the serial number tool nest
or follow each other; two faults let a retry fail and the way out of a failure fail too. Three
requests with a queue of two fill it in front of the request to disconnect and leave another one
waiting with it. The scripts hold every pair of operator levels, every nesting of two conditions
with `and` and `or`, and every chain of three stages.

**Fairness.** `IrpQueue` assumes that a runnable thread runs: weak fairness of every
producer's steps and of every consumer's, its next `Pop` included, because the
exchange thread keeps exchanging; nobody has to push. Which
blocked thread an event releases is not constrained. `MountedDisk` assumes that the exchange
thread keeps exchanging, that a woken dispatch routine finishes and that a `Release`
that started goes on; nobody has to connect or unmount, and a dead thread stays dead,
which is why `Answered` exempts it and `ReleaseAnswers` covers the rest. `MountTool`
assumes that the tool and the exchange thread go on; nobody has to press ctrl+c, to send a
request or to stop the driver. The other modules have safety properties only.

**Assumptions in passing runs.** `disk_exchange`, `MayOutlive = FALSE`: the exchange thread has
left the disk before it is released, which `CDriverControl::Disconnect` waits for, but only 60
seconds, and the remove option does not wait at all; `MountManager` has both cases. `Reprepare =
FALSE`: the simulator is prepared once. `MaxStarts = 1`: the page-mode driver starts once (the
theorems leave `MaxStarts` open and speak of the states up to the second start). `PageMode` does
not follow what memory outside of its arrays holds after the driver has written to it, and takes
an `m_group_num` beyond the table for the table's size. `MountTool` stores a request before its
slot is read (the race of finding 1 is in `IrpQueue`), and does not kill a tool whose own push
sleeps in the driver. `VendorChannel`: the volume lock is granted when it is asked for; apart
from the shared sectors the user's accesses do not hit key sectors. `SnUpdate`: one card stays
in the tester during a run; the external program ends or is timed out; what Quit freed is really
gone; the tool is not started again, so which file its count is read from then is left out. In
`ScriptEngine` the features of plugins are four small ones that show how a feature is called.

## 4. Findings

1. A `pop` that overlaps a `push` returns NULL or an old pointer
   (`queue_null_pop`), because `m_size` changes before the ring does; the exchange then
   asserts and, in a release build, uses the pointer. Such a race is the only cause
   (`PopUnlessRaced`). In the other direction a push
   into a full ring overwrites a request that has been reserved but not read.
2. A filter with `<` keeps the equal rows and one with `<=` drops them
   (`script_relation`); `>` and `>=` likewise.

Visible in the models without a run of their own; the property that shows each one, and
the instance TLC finds it in:

- the shared auto-reset event loses wake-ups, even with one producer and one
  consumer, once more requests are outstanding than the ring has slots
  (`ChangeIsNotified`, instance of `queue_null_pop` with three requests); with no more
  outstanding than slots it loses none (`NoWakeUpLost`);
- `Release` reports a partly transferred read or write as complete
  (`SuccessMeansCopied`, instance of `disk_exchange`);
- the remove option given the number of a disk that an application has, or two removes of one
  disk, delete it twice or delete the one mounted in its place (the exception `clash` in the
  properties of `MountManager`: without it TLC finds each of them violated), and a
  thread that nobody waited for works on a deleted device (the exception `late`);
- three mounts and an unmount on two slots bring `m_disk_count` to three: the unmount has given
  its slot back and not yet counted down (`CountAccounts` says by how much it may be off);
- preparing the cache simulator a second time leaves stale cache blocks in front of
  the list (`CleanFindsPage` with `Reprepare = TRUE`);
- started again, the translation layer takes written sectors for never written
  (`UnmappedNeverWritten` with `MaxStarts = 2`; until then it holds, `UnmappedUnwritten`);
- the read that should stop a vendor command opens it instead when one of the accesses
  before it was lost (`StopEndsVendorMode`, instance of `vendor_channel`);
- a device forced to be an SM2242 is probed without the volume lock, so that a write of the
  user to sector 0x55AA between the fifth key and the stopping read is taken for a command
  and lost, with no access lost (`UserSectorsIntact` without the exception `LocksFirst`, and
  `Probed` only the SM2242);
- a failed mount keeps its slot and its count for ever (`leaked`), and one whose link
  fails keeps the device too (`lost`); a placeholder left behind stops the machine when it is
  looked up (`UsePlaceholder`);
- with `LeastSpare` spare blocks or fewer the "force clean" of the cache does nothing, and behind
  the exception "cache full" the next write fails the assertion of `Program`
  (`ProgramFails`, the exception in `ProgramHasRoom`);
- behind its last spare block, or on a page that the tables do not cover, the page-mode driver
  reads and writes outside of its arrays; if that does not end the process it acknowledges
  writes and loses them (the exception `astray`: without it TLC finds `ReadsLastWrite` violated in
  the instance of `page_mode`);
- a time-out of `Connect` or of the 60 s wait lets the exchange thread work on deleted objects
  (`ThreadHasItsObjects` holds only until `past.late`), and a driver whose
  symbolic link fails leaves its device, so that it cannot be started again;
- the clean-up waits for ever (the exception `SleepsForGood` in `CtrlCEnds`) when its request to
  disconnect finds the queue full and no exchange thread, or when its push and a live exchange
  thread both sleep on the event that was meant for one of them;
- a serial number set during a run reaches the firmware but not the log line
  (the exception in `GoodMeansWritten`); a failed scan leaves the card powered, and so does a
  power command without effect, whose result is not asked (`past.leftOn`); a count that
  could not be saved is not missed until the next start (`past.unsaved`), and its file is named
  relative to the current folder, while the next start reads the one beside the program; a device that does not come back after the external test ends
  the process (`DiesWithTheWorkDone`), with its verdict logged and never counted if the test ran
  out of time (`Uncounted`);
- a filter whose whole condition is a `not` fails an assertion (`InvokeFilter`), a false `not`
  inside `or` skips the filter, and a row with columns given as a parameter reads as 0 (`Text`).

## 5. Proofs

`IrpQueueProofs` proves, for every capacity, every finite number of threads and any
set of requests (assumption `QueueAssumption`):

- `QueueTypes`, `QueueAccounts`, `QueueIndices`, `QueueFifo`: the invariants `TypeOK`,
  `SizeAccounts`, `RingIndices`, `FifoUnlessRaced`;
- `RaceOnlyInOverlap`: the action property `RaceNeedsOverlap`;
- `QueueImplementsFifo`: the refinement `ImplementsFifo`;
- `PopUnlessRaced`: until a race no pop returns NULL (`PopReturnsRequest`);
- `NoWakeUpLost`: no wake-up is lost (`ChangeIsNotified`) as long as at most `Capacity`
  requests are outstanding at any time.

The inductive invariant (`QueueInvariant`) joins these invariants with mutual exclusion of the
section under the mutex, and the fact that no request is stored twice or pushed by two threads
at once. None of the parts is inductive alone: FIFO needs the ring indices to know that the slot
read is the oldest one, the indices need the mutex, and "no race" needs the accounting to know
that the ring holds at most `Capacity` unread requests. `NoWakeUpLost` is the safety half of the
liveness property `StoredIsPopped`, with no bound on threads or requests. Its invariant
(`Wakeful`) says that a push never has to wait (`PushFindsRoom`: each push ahead of it is itself
outstanding), so the event is only ever meant for a pop, that a set event finds nobody blocked,
and that while `m_size` is positive the event is set, or a thread inside the ring will set it,
or a pop is about to look. TLC shows that the bound is needed: one request more than the ring
has slots and the event wakes the wrong side. The heart of the FIFO step is `SlotsDiffer`: two
numbers less than `Capacity` apart have different remainders, so writing one slot does not
disturb an unread one. That in turn rests on `WrapIsModulo`: the wrapping of the indices counts
modulo the capacity. `AccountStep`, `RingStep`, `FifoStep` and `RaceStep` have one step per
action.

`MountedDiskProofs` treats the exchange protocol for every set of requests, every
length, buffer and queue size (assumption `DiskAssumption`). `DiskTypes` and
`RequestsConserved` need nothing more: even a thread that outlives the disk loses or
duplicates no request. The inductive invariant (`DiskInvariant`) adds `TransferInv`, which
holds as long as the use of the disk is `Orderly`: until `Release` begins, and behind it if
`Release` found the thread gone (`~ MayOutlive`). So `InOrderUntilRelease` gives
`ReplyHasRequest`, `TransferInOrder` and `ServedInFull` up to the `Release`
without any assumption, and `ReplyIsForLast`, `TransfersInOrder` and `ServedCompletely` give
them for good under `~ MayOutlive`; without it `Release` forgets `m_last_irp` under
the thread. `DiskImplementsService` is the refinement `ImplementsService`, for either value of
`MayOutlive`: it needs `Conserved` to know that what the thread completes or copies into is
still waiting (`CompletionAnswers`), and `TransferInv` to know that a success before the
disk closes is complete. `TransferInv` says what the code keeps only
implicitly: a request that waits in the queue has not been touched, the offset
of the request being served is what the image has moved so far, the answer in transit
accounts for the last part, and a served request reports no more than was moved. There is
one lemma for each of these (`UntouchedStep`, `ProgressStep`, `AnswersStep`).

`MountManagerProofs` treats any number of clients, devices and slots (assumption
`ManagerAssumption`), with the remove option used on any disk and with exchange threads that
nobody waited for; the properties say nothing of what follows a `clash`. A machine that
stops and starts again (`UsePlaceholder`) is back at `Init`, so the lemmas are about the
other steps (`Work`). None of the
properties is inductive, because no lock says who may touch a slot. The
invariant (`ManagerInvariant`) says who owns what: a slot in use belongs to one mount or
unmount in progress, or to one mounted application, or is abandoned or leaked
(`OneOwner`), and its content tells which (`SlotTellsOwner`); a device belongs to one slot
or to one client's local variable, or is lost (`OnePlace`). From it follow
`PlaceholdersOwned`, `SlotsHaveTheirDevice`, `MapStaysIntact` and `DeletedOnce`, the part of
`NoUseAfterDelete` about unmounts. None of these asks whether an exchange thread is still
inside a disk that is unmounted: such a thread endangers itself and not the table.
`NothingUsedAfterDelete` adds that a thread inside a disk that is not `late` is in
the disk of its own slot, which no unmount has read (`InsideOwnDisk`), and that a call inside
`DisconnectDisk` has the device of its slot until that is unmounted, which is then a clash.
`DisksCounted` needs cardinalities besides: each change of a slot moves one
thread into the difference between `m_disk_count` and the table. `CalmScanFinds`
uses that count: with no thread in the difference a count below the limit leaves a slot
empty (`RoomLeft`), and until another application overlaps the mount that slot stays empty
and ahead of the scan (`CalmFinds`).

`CacheModeProofs` treats any number of host and cache blocks and any page count that is a
multiple of four (assumption `CacheAssumption`; the code's page count is 256), whether the
simulator is prepared once or again. That the link table and the pages are inverse to each
other is not inductive: a block whose count of valid pages is zero is erased, so the
invariant (`CacheInv`) needs the counts, which need that spare blocks are
erased and listed once (`SparesErased`), and that the block being written has room
(`LastHasRoom`), which needs in turn that only `PopSpare` or the exception "cache full"
follows a full one; `ProgramAlwaysHasRoom` says that the assertion of `Program` can fail in no other
way than behind that exception. A second
invariant (`RangeInv`) rests on the first and says where a clean stands: its address is the
start of a quarter of a host block, and what lies before it is out of the cache unless
written again since. From it follow `CleanAlwaysLeavesNothing` and `RangeAlwaysCovers`.
A third one (`ListInv`), for a simulator prepared once (`~ Reprepare`), is about the order of
the lists: every block is once in one of them, the block being written is the last
cache block, and each cache block before it is full and has a valid page, because the
one that loses its last page is taken out. It gives `ListsAlwaysPartition` and
`CleanAlwaysFindsPage`. What taking a block out of a list leaves (`RemovedOnce`) is an
induction over the list; it is done with a least counterexample (`Least`), which the
library's theorems on well-founded orders give without an operator parameter.

`MountToolProofs` treats any queue capacity and any number of requests (assumption
`ToolAssumption`). Its invariant (`ToolInv`) says for each place of the tool in `Run` and
`CleanUp` where the exchange thread can be (`ThreadStands`) and what is left of the disk
(`DiskStands`), since neither property says anything before the tool reaches its end.
Both rest on `m_status`, which decides what is undone: it leads the place of the
tool until `Disconnect` and stays behind it afterwards.

`VendorChannelProofs` treats any list of recognizers, number of tries, commands and losses,
under the assumption that the sectors whose content is discarded are no key sectors
(`VendorAssumption`). The invariant (`ChannelInv`) knows for certain where the device
stands only while nothing was lost (`NoLoss`, `Alone`). After losses it
keeps accounts (`Paid`): a try that fails has lost an access or began with a
device out of step, which its first key puts back, so every two tries cost a
loss. `AlwaysRunsItsCommandOnce` rests on a second invariant (`Running`). A device left waiting
for the data of an earlier command takes any access of the command's sector for it, and the
fifth key goes there; but every key that arrives takes the device out of waiting,
so it can still wait only if the access that left it so and all keys since were lost, five in
all. The proof attempt corrected the property: the library opens an SM2246 without a
`VendorCommand`, so nothing is run for one.

`SnUpdateProofs` treats any depth of nesting, number of faults, runs and serial numbers, and
assumes nothing. The invariant (`SnInv`) is about the stack of runs: every outer run stands at a
place where messages are pumped; a number set during an inner run was set during the outer ones
too; a run during which no number was set has the user's number, and, once verified, the card
has it; the innermost run, unless another one was nested in it, finds the card powered and as it
left it. `GoodAlwaysMeansWritten` is about steps: it needs that only `Judge` makes the log
longer (`LogGrows`). `LogAlwaysWithinCount` compares the log with the count shown and the saved
one: a line is logged (`Complete`, `Judge`) a step before `Finish` counts it, and the run
between the two is the innermost one and pumps no messages, so neither another run nor the user,
who may clear the count, comes in between (`RunCounts`, `UserCounts`). That the file agrees with
the count shown holds as long as the last save did not fail, so it speaks of the count shown
when it did. `AlwaysOffWhenIdle` allows the two ways in which the card stays powered and nobody
is told.

`PageModeProofs` treats any number of blocks, zones and groups, any page size and number of host
writes and of sectors, those beyond the tables included (assumption `PageModeAssumption`),
whatever the uninitialised members hold and whether an access outside of the arrays kills the
process or not. The theorems allow any number of starts and speak of the states up to the second
one (`starts <= 1`) and, by the properties themselves, until the driver has survived such an
access (`astray`). What it does afterwards depends on memory that is not its own. That limit is
the code's: with `MaxStarts = 2` TLC finds each of the properties violated, since a start
rebuilds its memory neither from the group pages behind the last zone table
(`page_mode_driver.cpp` 822) nor from the whole link table (409). `PageInv` is `~ astray =>
Sound`, and `Sound` says of the memory between two calls:

- the spare blocks are a sequence without repetition, linked in that order, erased and in no
  other role (`Chained`, `Unused`), and the roles do not overlap (`Roles`). The chain is
  where this is delicate: `EraseBlock` does not clear the `next` of the block it
  appends, so the chain ends only because a block of tables still carries the mark that
  `PopupEmptyBlock` gave it (`Marked`). Once the last spare block has been taken, the head of
  the chain is no block, and what is freed later is lost (`Ended`): that is
  safe, and it is why the invariant does not say that every block is somewhere;
- the active block holds the pages its end-of-block list names (`ActiveOK`), no page lies
  behind the last one of a block (`FlashOK`), and a mapped page has been programmed
  (`MappedOK`);
- the index in memory names the block of every zone and the flash holds that index
  (`Named`, `SavedIndex`). Inside a flush this fails: `FlushZone` erases the old map block
  while the index in the flash still names it, so the lemmas about the parts of a
  flush speak of `Core`, the part of the invariant that holds throughout, and
  of a block between two roles (`Limbo`).

One lemma for each function of the driver says what it does to such a memory (`PopupTakes`,
`ZoneFlushed`, `IndexSaved`, `LinksSaved`, `AllFlushed`, `DataWritten`, `HostPageWritten`,
`FlashPrepared`, `DriverStarted`). Each has the way out that the driver has stopped; they are
about calls that do not stray (`LuckKeeps`), and `HostPageRefused` is the write of a page that
the tables do not cover. Loops are counted through by `Counting`, which, like the induction over
a list above, rests on a least counterexample. `PageAlwaysInv` then has one step per action.
`AlwaysReadsLastWrite`, `UnmappedUnwritten`, `SpareAlwaysFree`, `EobAlwaysDescribes` and
`FlashAlwaysNamesTables` follow from it.

Only model-checked: liveness (`StoredIsPopped`, `Answered`, `ReleaseAnswers`, `CtrlCEnds`),
since fairness and ENABLED are beyond the prover (`NoWakeUpLost` and `RequestsConserved` are
the safety that the first three rest on), and `ScriptEngine` (`RowsAsWritten`):
parser and meaning are mutually recursive operators over trees, in whose modules the
prover has no arithmetic, and that they agree on every script is an induction over data.

## 6. Not modelled, and why

- `CSimCacheMode`: the time estimate, and `SetProperty`, whose page count
  check accepts no useful value.
- `CoreMnt.cpp`: the PnP handlers, which are not compiled (`COREMNT_PNP_SUPPORT` is not
  defined).
- Page-mode driver: `IdleProcess` and block collection are empty in the code; dumps
  and `DeviceControl` only report. Page faults of the flash file are not modelled.
- Vendor machine: the solo-tester commands of `ScsiCommand`, which answer from files.
- `SmiDevice`: card-mode arithmetic, SMART and table decoding, which compute on bytes.
- Serial number tool: configuration files and the text encoding of the firmware image;
  `Log2`; the firmware update tool, an older dialog of the same pattern.
- Script engine: characters to tokens, and the constructs listed above.
- Sparse, file and trace images, device configuration, simulator front end, trace parsers,
  table decoder, copy-compare and the other command line tools: sequential input and
  output without lasting state.
- `CrazyCat`, `jcgui`, `jcdb`, `jcparam`, `stdext`, `image_correction`, `hardlinkext` and
  other utilities: user interface, pure functions or interfaces of the operating system.
- Scripts and vendored libraries.

What would come next: what a page-mode driver that is started again may still promise, once
the tables have been flushed before the stop; the composition of `MountTool` with
`MountManager`; the singleton registry of `stdext`.
