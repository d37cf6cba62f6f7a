# Netycat in TLA+

Netycat is a small C++14 library for asynchronous I/O on Windows: an event loop
over an I/O completion port (`IOExecutor`), TCP and UDP sockets with
synchronous, callback and promise variants of every operation, a name resolver
that works on a thread pool, and a file system part (paths, directories, files,
mapped files). This directory models the library, checks the models with TLC on
small instances, and proves the central properties with TLAPS for every
instance.

## 1. Inventory

| Component | State | Operations | Talks to |
|---|---|---|---|
| `IOExecutor` | `completionPort`, atomic `overlappedCount`, `timerQueue`, a thread pool | `run`, `execute`, `wait`, `beginWork`/`endWork`, `attachHandle`, `createOverlapped`/`destroyOverlapped` | calls every callback; called by sockets, the resolver, user code and pool threads |
| `IPResolver` | the executor | `resolve`, synchronous and with a callback | thread pool; `execute` and `endWork` from a pool thread |
| `Impl::Socket` | `handle`, cached `family`/`type`/`protocol`, the executor | `close`, `socket`, `bind`, `connect`, `listen`, `accept`, `read`/`readAll`/`readFrom`, `write`/`writeAll`/`writeTo`, `setHandle` | the operating system, `createOverlapped`/`destroyOverlapped`, `attachHandle` |
| `TCPSocket`, `TCPServer`, `UDPSocket` | one `Impl::Socket` each | the sequences of the above that open and close on errors; datagrams with addresses | `Impl::Socket`, `Address.hpp` |
| `IPAddress`, `Address.hpp` | an address | conversion to and from `sockaddr` | `TCPSocket`, `UDPSocket`, `IPResolver` |
| `WSA` | three function pointers | `init` | constructors of `Impl::Socket` |
| `FilePath` | a string and two cached lengths | parsing, joining, `clear`, `swap` | file system classes |
| `Directory`, `FileInfo` | a shared find handle, a current entry | iteration, recursive iteration | the file system, which changes meanwhile |
| `File`, `MappedFile` | handle, mapping | positioned read and write, size, mapping | the file system |

What is hard in it:

* **Concurrency.** `run()` is single threaded, but pool threads change
  `overlappedCount` and post packets while it decides whether to wait, to sleep
  or to return.
* **Completion.** An asynchronous operation ends in one of three ways (refused
  and reported inline; complete at once, with a packet; complete later, with a
  packet), and must call its callback exactly once in each.
* **Callbacks** run user code in the middle of the library's own functions:
  they push timers, start operations, close and reopen sockets, and throw.
* **Handles** pass from the operating system through a pending accept to a
  socket, and every error path has to close them once.
* **Time** is kept in fine ticks but waited for in milliseconds of 32 bits.
* **Streams** are read and written in pieces by chains of operations.

What makes each component correct:

* `IOExecutor`: every callback is called exactly once; `run()` returns only
  when nothing is left, and does return then; timers fire in order, not early,
  and no later than the loop's own work makes them.
* `IPResolver`: the result is delivered on the loop thread, before `run()` may
  return; the pool thread leaves the executor alone afterwards.
* Sockets: one owner per handle, no handle closed twice, none leaked, every
  completion awaited on the port; streams deliver bytes in order and complete.
* `Address`: an address compares equal to another of the same value and to no
  other, and what is set on one side of a connection is what the other side is.
* `FilePath`: cached lengths agree with the string; joins put names together.
* `Directory`: a walk shows everything that stays, nothing twice, and ends.
* `File`, `MappedFile`: reads and writes are whole and where they should be; a
  view stays inside its file.

PROJECT.json lists the hazards of the code line by line, with the properties
that would catch them.

## 2. Modules

| Module | Models |
|---|---|
| `AsyncCompletion` | abstract: what an executor promises its clients |
| `IOExecutor` | `IOExecutor.cpp/.hpp` and the asynchronous half of `IPResolver.cpp` |
| `IOExecutor_proofs` | theorems about `IOExecutor` |
| `MCIOExecutor` | its TLC instances |
| `HandleOwnership` | abstract: who owns a handle from creation to close |
| `Socket` | the handles of `Impl/Socket.cpp`, and the opening sequences of `TCPSocket`, `TCPServer` and `UDPSocket` |
| `Socket_proofs` | theorems about `Socket` |
| `MCSocket` | its TLC instances |
| `ByteStream` | abstract: what two connected sockets promise clients that take turns |
| `Stream` | `read`, `readAll`, `write`, `writeAll` of `Impl/Socket.cpp`, over a TCP connection |
| `Stream_proofs` | theorems about `Stream`, and that it implements `ByteStream` |
| `MCStream` | its TLC instances |
| `DatagramService` | abstract: what sockets promise clients that exchange datagrams |
| `Datagram` | `readFrom` and `writeTo` of `UDPSocket.cpp` over `Impl/Socket.cpp` |
| `Datagram_proofs` | theorems about `Datagram` |
| `MCDatagram` | its TLC instance |
| `FilePath` | `FilePath.hpp`: parsing, joining, and the cached lengths |
| `FilePath_proofs` | theorems about `FilePath` |
| `MCFilePath` | its TLC instances |
| `Address` | `IPAddress.hpp`, the endpoints, `Impl/Address.hpp`, and the synchronous half of `IPResolver.cpp` |
| `Address_proofs` | theorems about `Address` |
| `MCAddress` | its TLC instance |
| `Directory` | `Directory.cpp/.hpp` and `FileInfo::isDirectory`, over a tree that changes |
| `Directory_proofs` | theorems about `Directory` |
| `MCDirectory` | its TLC instance |
| `File` | `File.cpp/.hpp` and `MappedFile.cpp/.hpp`, by several threads |
| `File_proofs` | theorems about `File` |
| `MCFile` | its TLC instance |

### IOExecutor

Actors and their actions:

* **User code**, wherever it has the loop thread (`main()` outside `run()`, or a
  callback): `StartIO` (any overlapped socket call: it creates its overlapped
  object, and the system either accepts it or refuses it and the callback is
  called inline), `Execute`, `Resolve`, `Wait`, `Run`.
* **The loop thread** inside `run()`: one action for each point at which another
  thread can interfere or user code gets control: `LoopTest` (line 71: reads the
  counter), `FireTimer` and `TimerReturns` (80, 81), `Poll` (85 and 86: reads the
  counter a second time), `Dequeue` and `CallbackReturns` (89-96), `WaitEnds`
  (timeout of 89 or 102), and `CallbackThrows`.
* **A pool thread** per job: `WorkerCreates` and `WorkerPosts` (the two halves of
  `execute`), `WorkerEnds`.
* **The system**: `Complete` posts the packet of a pending operation; `Tick`
  moves the clock.

State: `op` is the life of each overlapped object, `job` the progress of a pool
thread, `completionPort` the FIFO of packets, `timer`/`timePoint`/`top` the
priority queue (what the code can see of it is its top; which of several
earliest timers the heap brings up is a choice), `calls` counts how often each
callback was called. Between two interference points the code is sequential, so
merging it into one action loses no interleaving.

The DWORD of line 85 is modelled with `TicksPerMs` ticks to a millisecond and
`Infinite` for 2^32-1: values up to it convert exactly, and beyond it the
conversion of a `double` is undefined, so any DWORD may come out. `now` keeps
the value it was given before the timer callbacks ran.

What the model makes visible, and no property demands otherwise:

* `wait()` takes a delay of any sign. A callback that pushes a timer with a negative delay may put it
  before the timer being fired: `pop()` then removes the new one, uncalled (`Lost`), and the fired one is
  fired again. `PopsWhatItFired` and `CalledAtMostOnce` say exactly that; the promise of `AsyncCompletion`, and
  the run `work`, are for delays of zero and more (`NonNegative`).
* a timer whose callback throws stays in the queue and is fired again.
* a callback that throws, and a job whose post fails, leave a count behind (`Leaked`), and `run()` waits for
  ever once nothing else is in flight. The third way to wait so is `endWork()`: see the finding.

What the model leaves out: what callbacks are passed (errors and byte counts),
`bad_alloc`, several threads in `run()` (the code has a TODO for it), and user
threads that call `wait` or start I/O from outside the loop thread, which the
library does not support.

### Socket

State: `handle` and `family` of each socket; `open`, `af`, `listening` and
`attached` are the operating system's; `accepting` are the asynchronous accepts,
each with the listening handle, the handle made for it and the socket it is to
go to. Actions are the public operations with all their exits: `Close`,
`ConnectSync`, `ConnectAsync`, `Bind` (of `UDPSocket`), `Listen`, `Adopt`
(`setHandle` by user code), `Accept` (`AcceptSync`, `AcceptAsync`), and from the loop `AcceptCallback`; the system's
action is `AcceptCompletes`. Handle values are reused by the system as soon as
they are closed, as Windows does.

`Careful` says whether user code opens a socket only when it holds no handle and
no accept is to fill it. `WellOwned` (`OwnedOnce` and `NeverDangling`) and `CompletionsArrive` need no
care: their theorems assume none, only that user code gives `setHandle` no handle that is in a socket or was
on the port before (see section 6). `FamilyIsCurrent`, `ImplementsOwnership` and the theorem
`NothingLeaks` show exactly what the library leaves to its clients.

The address conversion in `connect`, `listen` and `bind` is abstracted to its
result: it cannot fail there, because the type of the address has been tested.
`type` and `protocol` change only together with `family`.

### Stream

One direction of a connection: calls of `write` and `writeAll` on one socket, calls of
`read` and `readAll` on the other, each side with a thread of its own. A call has
the locals of the code: `count`, `n` (what is left) and `offset` (where the
pointer is, relative to the caller's buffer). Its life is

    Call -> Ask -> Receive | Send | Fail -> Resume (synchronous)  -> Ask ... or the end
                                         -> Dispatch (by run())

`Call` is the public function up to its first transfer, `Ask` one `::WSARecv`,
`::WSASend`, `::recv` or `::send`, which may be refused, and `TakeResult` with `Continue` is what
the loop, or the callback of `readAllImpl`, does with the bytes it got. `asked`
and `port` keep transfers and packets in the order of each side; a synchronous
call blocks its thread, so that no packet of that side is dispatched meanwhile
(`ThreadFree`). The transport moves any number of bytes from 1 to the length
asked for, may refuse, and may be reset (`Break`); `WriterCloses` is `close()` on
the writing side, after which the bytes in flight still arrive and then reads
get 0 bytes.

Bytes are numbered by the write they belong to and their place in its buffer,
so that a byte lost, doubled or out of place shows. `Once` are `read` and
`write`, `Sync` the synchronous calls, and `Exclusive` says whether user code
starts a call only when no other is going on at that side.

What the model makes visible, and no property demands otherwise:

* at the end of the stream a `readAll` is never called back: a transfer of 0
  bytes is no error, and it asks again (the synchronous one spins). `ReadsFinish`
  therefore excepts a stream that runs dry for ever.
* a count that is a multiple of 2^32 asks for 0 bytes for ever (`Length`), so
  `ReadsFinish` and `WritesFinish` (together `CallsFinish`) speak of shorter calls.
* an asynchronous `readAll` of 0 bytes asks for a transfer of 0 bytes, which waits
  for data; the synchronous one returns at once.

### Datagram

Sockets, which are also addresses, with a thread each. A call of `readFrom` or `writeTo` is on
one of them (`On`) and has a length (`Count`); its life is

    ReadFrom | WriteTo -> Receive | Send | Fail -> Resume (synchronous)
                                                -> Dispatch (by run())

`ReadFrom` and `WriteTo` are the functions up to their transfer, and through the end when that
is refused: then the callback, or the error, comes at once. The sender's address is put
into `place`: a stack frame, named by its call, or a block of the heap, the
`AddressBuffer` of an asynchronous read. `used` are the blocks that were not deleted; a
block that was can be given to the next read, and a pending transfer would still write to it.
`Conclude` is what follows the transfer: the block is read, deleted, and its address
converted (`Take`), which fails for a sender outside `Known`, the addresses that are IPv4 or IPv6.
`Over` is the callback, or the rest of a synchronous call, for reads and writes.

The network is `net`, the number of copies of each datagram on their way: `Lose` and
`Duplicate` change it, `Receive` takes any datagram, so that order means nothing. One
that is larger than the buffer is cut, and its transfer fails (`broken`). `Close` makes
the transfers of a socket fail, in any order.

`DatagramService` is what clients see. A received datagram that is not yet reported
counts as on its way (`Copies`), so that a read that fails after it, because its address
is of another family, has lost it like the network does.

Left out: ports, which `fromSockaddr` copies with the address; `saddrSize`, which lies in the
same place as `saddr` and is written with it.

### FilePath

State: the four members of each object, its string and the lengths of its root,
of the root with the separators behind it, and of its last name. The actions are
the calls that change them: `Construct` (and `getCurrent`), `Assign`, `Join` (`/=`, also
of a path to itself), `clear` and `swap`.

`init()` is the operator `Parsed`, a set of objects: the loops are given by where
they stop (`RootDirectoryEnds`, `FilenameStarts`), and the argument `old` by which
`init()` relies on the former lengths: it sets the root's length only for a drive, and
the name's only for more than a root. When the root's length is beyond the end,
`init()` reads behind the string, and any lengths may come out. Characters are a
letter, a colon, the two separators, the terminating zero and, if wanted, others.

`fresh` is auxiliary: the object was not cleared or swapped since it was assigned.
User code uses paths that are not, up to the length `MaxReused`.

What the model makes visible, and no property demands otherwise:

* after `clear()` or `swap()` the lengths are those of the former string, and a join
  is parsed with them.
* `p /= p` with a rooted `p` cuts `p` before it appends it, and loses its names.
* `rootDirectoryLength` counts the root, so a drive without a separator (`C:x`) has a
  "root directory" and is absolute; the second half of the condition in line
  141 and of the one in line 137 are never needed by a path with right lengths.
* `getCurrent()` keeps the terminating zero as the last character of the path.

### Address

A conversion is modelled by what it does to bytes, in a machine with small numbers: a
byte has `Byte` values, a number (`uint32_t`, and a port) `Len4` of them, an IPv6 address `Len6`. The
machine is little-endian (`Store`, `Load`), `Convert` is
`convertBigToNative`, and an IPv4 address keeps its first byte first (`FromNumber`).

State: `endpoint`, the memory of each endpoint with the bytes of the union that the current
type does not use; `peer`, where a socket is connected to in terms of the system;
`found` and `resolved`, the list of the system and what `IPResolver` made of it.
`meaning` is auxiliary: what was set, and whether the scope came from a `sockaddr`.
Actions are the constructors and setters (`Set`, `SetNumber`, `SetData`, `SetScope`, `Copy`), `Connect`
(`toSockaddr`), `Accepted`, `GetRemoteEndpoint` (`fromSockaddr`), `Resolve` and `Take`.
What a conversion leaves uninitialised is any of `Garbage`.

What the model makes visible: the system keeps `sin6_scope_id` in the order of the
machine; `toSockaddr` and `fromSockaddr` swap it, the resolver does not. A scope that goes
through both comes out as it was, but one that user code, or the resolver, sets is
passed on swapped: it arrives with its bytes reversed (`Arrives`). `ReachesTarget` says so. All this is for a
little-endian machine; on one with the order of the network nothing is swapped.

### Directory

One walk, by a `Directory` (`walk.deep` false) or a `RecursiveDirectory`, over directories
that others change (`Create`, `Remove`). A path is a sequence of names; a name may lead
to a file, a directory, or back to a directory above (a reparse point). `at` is the next
system call, or who has control:

    open (FindFirst) -> skip (FindNext over the dots) -> user -> Increment -> test (IsDirectory)
      -> open, for a directory | next (FindNext; NoMore closes it and goes on above)

so that the tree can change between any two system calls. A find handle keeps its
directory: it lists what was there when it was opened and was not removed, and may or may not list what
came later (`sure`, `listed`), each name once. Any call may fail (`Throw`): what is being
made is dropped, the iterator stays, and its user may increment it again.

What the model makes visible, and no property demands otherwise:

* a `++` of a `RecursiveDirectory` that throws leaves the name where it was, though the stack may have moved on:
  later increments may show paths again. `VisitsOnce` and `StackIsPath` therefore speak of the time before.
* a directory that cannot be opened cannot be passed over: each `++` tries it again. So
  `WalkEnds` says that a walk ends or throws.
* links back are followed until the path is too long, which is an exception.
* a relative empty path lists `\*`, the root of the drive.

### File

Threads with one call each on `File` objects, one system call in a step, and one view. `disk` is the
file, `file` the access and the pointer of each handle, `call` what a thread is doing. `Begin` starts a call;
`GetSize` and `ReadFile` are the two system calls of `read`, `WriteFile` that of `write`,
`SetFilePointer` and `SetEndOfFile` those of `setSize`; `Throw` is a failure of any. `Open` has the
table of modes, `Map` and `Unmap` are a `MappedFile`, `ViewRead` and `ViewWrite` its copies.
`alone` and `shrunk` are auxiliary: nobody has moved the pointer since `SetFilePointer`;
the file has become smaller since `GetSize`. A byte is `Zero` or `Data`.

What the model makes visible, and the properties except:

* counts are cut to a DWORD, and what is left is neither read nor reported; `offset + count` wraps
  in the test for the end of the file.
* a file that becomes smaller between `getSize` and `::ReadFile` gives a short read, which is
  no error.
* the offset 2^64-1 writes at the end of the file. (2^64-2, which writes at the pointer, is not modelled.)
* `setSize` is two calls, and every read, write or `setSize` through the same `File` between
  them moves the pointer: the file is then cut elsewhere. Other `File` objects have their own pointer.
* a `MappedFile` of size 0 maps to the end, but `getSize()` is 0, so that nothing can be
  read; `write` to a view that is not writable faults, as `write` does not test for it; and an `offset +
  count` beyond 2^64 passes the test.

`::CreateFileW` reports a failure by `INVALID_HANDLE_VALUE`; that `Corecat::Handle` takes it for no
handle is assumed, as it is not in this repository.

## 3. Runs

| Run | Question |
|---|---|
| `work` | Is every callback called, once, of operations that complete at once or later, functions, timers and jobs; is the order `execute`, `endWork` safe under every interleaving with the loop; does `run()` return only when all is finished, as `AsyncCompletion` says; and does it end, but for the hang of the finding? |
| `timers` | Does `run()` wake up in time for delays up to the largest DWORD, and end also with longer ones? |
| `failures` | What remains true when callbacks throw, posts fail and delays are negative: is the counter exact, is no callback called twice but for the known reasons, does `run()` return only when nothing is left, and when does it come to wait for nothing? And does `pop()` after the callback remove the right timer, in order? |
| `hang` | Does `run()` end after a resolver job? No: see the finding. |
| `careful` | Has every handle one owner from creation to close, on every path, for user code that opens only closed sockets and accepts into any? |
| `exact` | With one call at a time on each side, do reads return the next bytes, all of them, do counts at and beyond the width of a transfer length stay in their buffers and shorter calls end, and do the sockets implement `ByteStream`? |
| `overlap` | What remains when calls overlap? No byte is lost or doubled, though they may be shared out between the calls. |
| `datagrams` | Does a read report the sender of the datagram it has, whatever is received and reused meanwhile; is each address block deleted once, on every path; do the sockets implement `DatagramService`; and which calls may wait? |
| `paths` | Do assignments and joins keep the cached lengths right, do joins put roots and names together as they should, and are they associative, also when cleared and swapped paths are used? |
| `walk` | Does a walk show what stays, nothing twice, and end, while others create and remove entries between its calls and calls fail? |
| `file` | Do modes open what they promise, are reads whole, does `setSize` set its size, and does a view stay in its file, with two threads, counts beyond a DWORD and offsets that wrap? |
| `address` | Do addresses compare by value whatever their union held, and do connections reach and show what was set, through the system and the resolver, on a little-endian machine? |

**The finding (`hang`).** `run()` dispatches the job's packet, calls the callback
and destroys the overlapped object, and tests the counter while the pool thread
is still before `endWork()`: the counter is 1 because of `beginWork()`. It then
waits on the port without a timeout. `endWork()` makes the counter 0 but posts
nothing. `run()` never returns, although nothing is left to do. A `Tick` or
another packet would hide this; that is why the run has one job and nothing else.

**Bounds.** Two operations and a timer are enough for one to run its callback, one to be
queued behind it and one to be started by the callback. Two jobs let one end
while the other is between its two steps. In `failures`, three timers with delays of -1, 0 and 1 let a callback
push an earlier and an equal one while a third waits. Two clock ticks to the
millisecond make time points that are no whole millisecond. In `timers` `Infinite` is 2, and the delays of 3 and
6 ticks are 1 ms and 3 ms: the first is below the largest DWORD, and the second beyond it, so that its conversion is
undefined; when `run()` looks a tick or two later, 2 ms are left of it, the largest DWORD
itself. One
throw lets a `run()` be repeated. For sockets, one listens, one is
accepted into and one interferes; three handles let a closed one be reused
while two are in use.
For streams, two reads and two writes let one follow, or overlap, the other;
2^32 becomes `ULong` = 4, and the counts 0, 2 and 5 are none, one that can be split,
and one beyond the width, which leaves a remainder of 4, the multiple, after one
byte; `Window` bounds the bytes in flight and makes writers wait. In `overlap`
two calls at once on each side share out the bytes in every way.
For datagrams, two asynchronous reads need two blocks at once, and a third, synchronous one
holds up their callbacks. All reads are on the socket `a`; of the two writes one is synchronous
and sent from `u`, whose address is of another family. With `ULong` = 4 the reads have
room for 1, 2 and 1 (of 5) bytes, the datagrams 2 and 1, so that one is cut. Two copies
of each let one be received twice.
For paths, two objects and the ten literals of `MCFilePath` have every combination of
drive, separator and name on either side of a join, and strings of 5 characters
hold two joins. `MaxReused` is the length up to which a path is used after `clear()` or
`swap()` has left it with stale lengths: 0 lets a cleared path be joined, and makes
`init()` read beyond the end of a string shorter than the stale root.
For addresses, bytes of one bit, numbers of two and IPv6 addresses of three bytes keep what
matters: an IPv6 address is longer than an IPv4 address, so that the union keeps a byte; the scope
1 changes with the byte order and 3 does not. The lists of `MCLists` have another family
before, between and behind.
For directories, three of them, two names and one dot, paths of up to 3 names and two
changes by others: a tree two deep, one with two directories, and a link back, which ends
at the limit of the path.
For files, 2^32 becomes 3 and 2^64 becomes 8: the count 4 is cut to 1, the
offset 7 is the largest and wraps with any count. `MaxBegun` = 4 lets two
Files be opened and two calls interleave, or one File be opened twice beside a view and a call;
files of 4 bytes have one byte beyond the granularity of views.

**Deadlock.** The executor's runs switch the deadlock check off: after `main()` and all
callbacks have used up their operations the program ends. So do those of streams: when
all calls are over nothing is left to happen. A walk is over at its end, and a program
that touches memory it may not (`file`) is ended by the system.

**Fairness.** `FairSpec` lets the loop thread and the pool threads go on (they are
threads of the system scheduler), lets time pass, and lets the system complete
every pending operation (a peer that never answers is the client's concern, and
is what `CancelIo` or `close` are for). `main()` calls `run()` while there is work, as
the examples do. Callbacks return: `CallbackReturns` and `TimerReturns` are part
of the loop's own steps. Nothing is assumed of user code otherwise.
For streams, `FairSpec` lets the transport move bytes while there are some, and
room for them, report failures, and lets the thread of each side run; it does not
make anybody send, read or close. The same holds for datagrams: what has arrived is given
to a read that waits, a write is sent or fails, a closed socket's transfers fail, threads go
on. Nothing makes a datagram arrive, and `CallsFinish` says that a call hangs only behind
a read for which none is left. For directories, system calls return and the user of an
iterator goes on; others need not do anything.

## 4. Proofs

`IOExecutor_proofs` proves, for any sets of operations, jobs and timers, any
delays, any number of throws and failing posts:

* the inductive invariant `IInv` (theorem `Inductive`). It adds to the checked
  invariants what ties the parts of the state together: packets in the port are
  exactly the objects in state `queued`, each once; the running object is
  `current`; the state of a job determines that of its object; `top` is a
  minimum of the queue; `now` is past; `calls` agrees with the state of each
  object and timer, counting one more call of a timer for each exception and each `Lost` timer, of which
  there are none without negative delays (`NothingLost`).
* from it `TypeCorrectness`, `CounterIsExact`, `NoSecondCall`, `PopsFiredTimer`,
  (invariants), `NothingLeftBehind`, `TimersInOrder`,
  `WakesInTime`, `WakerExists` (action properties), and, under `ASSUME NonNegative`, `Refinement`: `IOExecutor` implements
  `AsyncCompletion`.

The counter's proof goes by cardinalities: an action changes `Live` or
`OpenWork` by at most one element, and the lemmas on finite sets turn that into
+1 and -1. It needs the finiteness of the sets of work (`FiniteWork`), as does counting the lost timers. Delays are
any integers, and only `Refinement` needs them not to be negative: a lost timer is one whose callback was
promised and never comes. `WakerExists` rests on the counter: when `run()` decides to wait, the
count is not zero, so that some object or job is there, and each state one can be in is either that of a waker, or
one of the three reasons to hang.

`Socket_proofs` proves, for any sets of sockets, handles and families:

* `AnyInvariant`, for user code that calls in any order but gives `setHandle` no handle that is in a socket: ownership, no dangling handle and attachment, with the
  strengthening that an accept is pending only on a listening handle and its
  new handle does not listen (so that closing the new handle aborts nothing).
* under `ASSUME Careful`: `CarefulInvariant` adds that a socket to be filled by an
  accept is empty and awaits one handle only (`FilledOnce`); `NothingLeaks` and
  `CachedFamilyIsCurrent` follow, and `Refinement`: `Socket` implements
  `HandleOwnership`.

`Stream_proofs` proves, for any sets of calls, any counts and any width:

* `AnyInvariant`, however calls overlap: transfers and packets belong to one call each,
  whose state shows it (`Queues`), and what was moved and what is left make up
  the count (`Budget`). `TypeCorrectness` and `BuffersKept` follow.
* under `ASSUME Exclusive`: `ExclusiveInvariant` adds that one call at a time is active
  on a side (`OneAtATime`), that an active read has got everything that was
  received since it was called (`UpToDate`), and has it in its buffer in order
  (`Content`). The second is what makes the third inductive: the next byte
  received is the next of this read. `ReadsAreExact` follows.
* `OnceInvariant`, again however calls overlap: no byte is sent twice, because a write sends
  what follows the bytes it has sent (`SentOnce`); what a read has not been given yet is unfilled
  (`Unfilled`), so that what is received overwrites nothing; and each byte that was received is in
  one place (`Placed`). `NoByteIsLost` follows.

The proofs first bring every step into one of six forms (lemma `Steps`), so that
the many ways to ask, to be refused and to go on are treated once.

Last comes `Refinement`, under `ASSUME Exclusive`: `Stream` implements `ByteStream`. To the invariants above it adds that the write in progress sent the last byte of the stream
(`LastSent`), which is what keeps its bytes unbroken. Requests, receptions and failures of transfers are stutters; a
call that takes the result of its last transfer is `Written`, `Returned` or `Failed`. What a
finished read returns is the part of the stream that `Content` says is in its buffer, and
`UpToDate` says that the next read starts behind it.

`Datagram_proofs` proves, for any sets of sockets, calls and blocks (finitely many reads),
any counts and any width:

* the invariant `IInv` (theorem `Inductive`), which adds to the properties that a read in
  progress has a place of its kind (`Placed`), that once its transfer is over the place
  holds the sender, and the buffer the datagram, of one and the same write, to this
  socket (`Received`), and that what was not sent is neither on its way nor in a buffer (`Sent`). `TypeCorrectness`, `SendersAreRight` and `BlocksAreOwned` follow.
* `Refinement`: `Datagram` implements `DatagramService`. A step changes the unreported reads
  of one datagram by at most one, which lemmas on cardinality turn into +1 and -1.

`FilePath_proofs` proves, for any sets of characters, any literals and any bound on
lengths:

* `TypeCorrectness`: also for paths that were cleared or swapped, where what is read
  is undefined, lengths stay in range.
* `LengthsAreCurrent`: what `init()` does not set is right already. A join that keeps the
  left path's beginning keeps its root, so that its old length is still right
  (`JoinedDataRight`); where only a root is left, the old length of the name is 0,
  because the left path was a root itself or was cut to it (`ParsedForm`).
* `JoinAssociates`. An object whose lengths are right is determined by its string (`CurrentUnique`), and a
  join of such objects is the one object of the joined string (`JoinedIs`), which `JoinedString` describes by
  what a string begins and ends with. So it is enough that strings associate (`StringsAssociate`).
* `JoinsMeet`: the names of a join. `Names` goes through a string by recursion; `NamesJoin` says that the
  names of `s \o t` are those of `s` and then those of `t` when `s` is empty or ends with a separator, by
  induction over the length of `t`, and `NamesGlue` that a separator at the end adds none.

`Directory_proofs` proves, for any names, directories and trees, paths of any length, and
any number of changes by others:

* `TypeCorrectness` and `StackNeverEmpty`: an increment finds a directory to go on with, also
  after exceptions.
* the invariant `IInv` (theorem `Inductive`), which holds until an exception leaves the walk:
  each directory on the stack is the last one listed by those below (`Chain`), and so is the path
  the walk is at (`Leads`); what was shown inside a directory on the stack has been listed by it
  (`Listed`); nothing was shown inside the path the walk is at (`Fresh`). The last two are what makes
  a new name new: `Listed` where an increment finds it, `Fresh` where a directory is
  opened, which then becomes a case of `Listed`. `StackIsAPath` and `NoPathTwice` follow. No assumption is made about the tree: links
  may lead anywhere.
* the invariant `CInv`, and from it `NothingMissed`: each path that was there all along has been shown, or is
  inside the path the walk may open next, or a directory on the stack has yet to list its next name
  (`Pending`); that directory is the one its path still leads to (`There`), and is sure to list the name (`Sure`).
  What a path leads to is a recursion over the path: the section "What a path leads to" shows
  that a path leads to one thing or nothing, step by step, and that a change by others leads elsewhere only where it takes place.

`File_proofs` proves, for any threads, Files, offsets and counts, any widths, and files
that end before offsets plus a DWORD do (`FileAssumption`):

* the invariant `IInv` (theorem `Inductive`): a call is on an open File, and its file is there;
  the test for the end that a read has made still holds if the file has not become smaller
  since; the pointer of a `setSize` that was alone is where it was left (`CallInv`); a view lies in its
  file, which never shrinks below it (`DiskInv`).
* from it `TypeCorrectness`, `ModesMeet`, `ReadsAreWhole`, `SizesAreAsked`, `ViewsMeet` and
  `ViewsStayMapped`. For a read the proof needs that the wrapped test cannot pass: an
  offset at which the file has a byte, and less than a DWORD, stay below 2^64.

`Address_proofs` proves, for any endpoints, bytes of any number of values, addresses of any sizes (an
IPv4 address not longer than an IPv6 one) and any lists the system may find:

* `OfNumber` and `OfBytes`: the number of the bytes of a number is that number, and back; `Ordered`: bytes
  have the order of their numbers. Both rest on division with remainder (`Digits`, `Quotient`), and go by induction over
  the bytes (`Induct`).
* `Stored` and `Loaded`: two conversions of byte order cancel each other, and one of them turns the order of the machine into that
  of the network.
* the invariant `IInv` (theorem `Inductive`): every endpoint, and every address that was resolved, is the one meant (`Fits`), where
  the bytes of a former type do not count and a scope that came from a socket has its bytes reversed. It holds for
  every way an endpoint is set, so that `TypeCorrectness`, `Comparison`, `TargetsReached` and `TargetsShown` follow. `TargetsReached`
  says of the scope that it arrives as it is from a socket and reversed from elsewhere. All of them are about a little-endian machine.

Type invariants (`TypeOK`) are proved in every module with proofs, which are all but the abstract ones.

Definitions by recursion are functions over the numbers up to a bound (`upTo`, `Power`, ...). A proof about one first shows that a
function with its equation exists, by a least number without one (`Least`), so that the definition chooses such a function; what it computes is then
proved by a least counterexample.

Only model-checked: the liveness properties (`CallbacksDelivered`, `HangsOnlyWhenDone`, `RunReturns`, `CallsFinish` of
`Stream` and of `Datagram`, `WalkEnds`), because the prover does not handle fairness and ENABLED.
All other properties the runs check are proved, but for the one of the run that finds a violation.

## 5. Plan

Every component that can be modelled is, and the safety properties of the runs are proved. What is left is liveness, which
stays with TLC.

## 6. Not modelled

* A chain of `readAll` that goes on, after `close()`, on the next connection of its socket (Socket.cpp:208):
  `Stream` has one connection. Nothing says that a chain must not.
* `WSA`: one-time loading of three pointers; the constructors that take a handle
  skip it (Socket.cpp:45).
* Handles that `setHandle` is given twice: `setHandle(other.getHandle())` (Socket.cpp:331) makes two owners of a handle, each of
  which closes it, and a handle that is on the port already makes `attachHandle` throw in a `noexcept` function, which ends
  the program. `Adopt` gives it new handles only.
* The memory of the timer queue: `timerQueue.top().cb()` (IOExecutor.cpp:80) runs a function that lies in a vector, which a
  push from the callback may move. The model has the order of the queue.
* `Directory(FilePath::getCurrent())`: the path ends with a zero (FilePath.hpp:196), behind which the wildcard has no
  effect. `Directory` starts at a place in the tree.
* Which call of the system failed: `GetAddrInfoW`, like a list without an address, leaves the resolver's user without
  one (IPResolver.cpp:76, 117); `getpeername` changes nothing when it fails, as it does after `ConnectEx` and `AcceptEx`, which
  leave the context of the socket unset.
* What `::WriteFile` does with the bytes it is given: `WriteFile` hands it the count, cut to a DWORD, and the offset.
* Lifetimes: the objects that callbacks refer to exist as long as they are referred to, which is the client's
  duty. Socket.cpp:147 keeps a reference to the socket to be accepted into.
* Renames of files and directories; `flush`, as a crash of the system is not modelled;
  `FileInfo::getSize` and `getSpace`, which read numbers; `toString`, and all other text.
* Promise variants are the callback variants with a callback that settles a promise of the Corecat
  library, which is not part of this repository.
* Umbrella headers and examples.
