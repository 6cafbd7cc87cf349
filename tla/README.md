# Formal models of the Nanosoft project

This directory holds TLA+ models of the libraries and programs of the
repository: libnano2 and its ancestor libnano, the video conferences of ffcairo,
the services of nanosrv, and the programmer pigro with the firmware of its
adapter. TLC checks each model on small instances. TLAPS proves the most
important results for every value of the constants.

`src/README.md` lists the sub-projects. libnano2 is the maintained library, and
ffcairo is built on it, so the models and the proofs start there.

1. The system
2. The modules
3. What is checked
4. What is proved
5. What the code does otherwise than one might think
6. Not modelled
7. Plan


## 1. The system

**libnano2** is single-threaded. One `NetDaemon` owns an epoll descriptor and a
table `fds[]` indexed by file descriptor; `run()` calls `epoll_wait()`, hands
each event to the object of that descriptor, and then runs the timers and the
process manager. Everything else happens in callbacks, so there are no data
races, but every handler may call back into the daemon and change the state that
the loop looks at when the handler returns. The kernel is the second actor: it
closes connections, reuses the numbers of descriptors and processes, takes any
part of a write, and forgets a closed descriptor without telling the library.

**libnano** is the first version: the same loop, with worker threads that share
epoll, the table and the buffers, woken and put to sleep by signals; formulas,
pools of temporary objects, INI files and `masterd`, a log of switches in MySQL,
and an HTTP client. **nanosrv** is a fork of it with an SNMP client and a NetFlow
collector. **ffcairo** has a conference server on libnano2 and a feeder that
sends it a camera's frames. **pigro** talks over a serial line to the firmware of
an adapter, which talks over SPI to the chip.

| Component (sources) | State | Operations | What makes it correct |
|---|---|---|---|
| Block pool (`blockspool.cpp`) | free stack, macro-blocks, counters | reserve, alloc, free, clear; the global pool | no block is lost or lent twice; the counters that allocation trusts are exact |
| Buffered stream (`bufferstream.cpp`) | chain of blocks, `last`, `size`, `offset`, quota | read, write, clear, quota | a queue of bytes; chains are disjoint |
| Output buffers (`netdaemon.cpp`) | a chain for each descriptor | put, push, cleanup, setQuota | the peer gets what was accepted, in order, once |
| Registry and loop (`netdaemon.cpp`, `asyncobject.cpp`, `asyncstream.cpp`) | `fds[]`, `count`, each object's `fd`; epoll's list | add, enable, disable, remove, modify, reset, setFd, close; the loop | table, objects and epoll agree; nobody goes deaf; no bytes reach a stranger |
| Timers (`netdaemon.cpp`) | a priority queue and its counter | callAt, setTimer, processTimers | a due timer is called |
| Child processes (`processmanager.cpp`) | callbacks by pid | fork, exec, bindProcess, onProcessTimer | the end of a process is reported once, and never before |
| Agents (`asyncagent.cpp`, `asyncdns.cpp`) | connection state, timer, query | startConnection, on_connect_a4, reconnect, onPeerDown, ... | a lost connection is retried; one timer; no descriptor leaks |
| Layers of a stream (`asyncstream.cpp`) | codecs of TLS and zlib | put, handleRead, enable and disable, handshake | each codec gets what its peer produced, in order |
| XML (`xmlwriter.cpp`, `attagparser.cpp`, `tagbuilder.cpp`, `xml_tag.cpp`, `taghelper.cpp`) | buffers, depth, stack of tags | writing, reading by fragments, searching | what is read is what was meant |
| Worker threads of libnano (`libnetd/netdaemon.cpp`) | status of each thread, table, epoll | dispatch, sleep, terminate, resetObject | one thread per object; all sleep before objects are terminated |
| Buffers of libnano (`libnetd/asyncstream.cpp`, `netdaemon.cpp`) | buffers under two locks | put, push, removal | as above, for threads |
| Temporary objects (`doublepool.cpp`, `simplepool.cpp`) | two stacks of memory | alloc, tempAlloc, enter, leave | an object lives as long as its context |
| Formulas (`math.cpp`, `mathparser.cpp`) | trees with counted references | building, derive, optimize, parse | value kept, grammar taken, nodes freed in time |
| masterd, INI files | a list of sections with pids | open, save, fork, exec, wait | one worker for each section |
| Switch log (`switchlogserver.cpp`, `mysql.cpp`) | rows of a log, open events | reports in transactions | one active event, one row for each report |
| HTTP client, URLs, options, base64 | a receive buffer, a list of headers | open, read, close; url_parse | the page as it was sent |
| Conference (`ffcairo/avc_*.cpp`) | the feed, its queue, the list of viewers | connect, feed, draw, leave | the feed is live; the shared pool keeps its blocks, and a viewer lacks only the frames it refused |
| Packets and the path of a picture | queues between muxer, TCP, demuxer, decoder | send, read, decode, draw | pictures arrive whole and in order |
| SNMP, NetFlow (`nanosrv`) | messages of bytes; classes and counters | build, parse; classify | both ends mean the same; each record counts once |
| pigro, its adapter | rings, packets, pages of the flash | read, write, check, erase | program, adapter and chip keep step; reports are true |

How the components interact:

- `NetDaemon` takes its output buffers from the global block pool, and so does any
  `BufferStream` by default: one free list under many owners. In the conference's server
  they are the viewers' buffers and the feeds' queues; no quota is set, so each may take
  what is left.
- `AsyncStream::onEvent()` calls `handleRead`, `handleWrite` and
  `handlePeerDown` in turn; each may call `disableObject`, `setFd`, `close` or
  `put`, of its own object or of another one. The loop calls `resetObject()`
  afterwards, because epoll is used with `EPOLLONESHOT`.
- `AsyncAgent` uses timers, DNS queries, `setFd`, `close` and `enableObject`;
  `ProcessManager` is called from the pass over the timers.
- The conference's timer draws a frame from the feed, whatever the connections
  did since the last one.
- In libnano, a thread that handles an object's event races with threads that
  put data for it or remove it, and with the signal that stops them all.

The hard behaviours are therefore reentrancy (state read before a callback and
used after it), reuse of numbers of descriptors and processes, partial failure
(a system call that fails between two updates), partial writes, block
boundaries, threads that read without the lock, signals that come too early, and
starvation. `PROJECT.json` lists them line by line under `hazards`, each with
the properties that would catch it going wrong. A note says where the code itself does go
wrong: there a property can only name the event as its exception and show that nothing
else leads to the same end.


## 2. The modules

| Module | Models | Uses |
|---|---|---|
| `BlocksPool` | the pool of blocks, and the global pool | |
| `ByteQueue` | what a buffered stream promises (abstract) | |
| `BufferStream` | several streams over one pool, byte by byte | `INSTANCE BlocksPool` with `lent` the blocks of all chains; `INSTANCE ByteQueue` with the bytes read through the chains |
| `OutputBuffers` | the daemon's put, push, cleanup over a socket that takes part of the bytes | extends `BufferStream` |
| `NetDaemon` | registry, epoll, event loop, order of handlers | |
| `Timers` | the queue of timers and a pass over it | |
| `ProcessManager` | the table of callbacks, the pass, the kernel's processes | |
| `AsyncAgent` | reconnecting agents that share descriptors with the program, and a queue of timers with the resolver | the enabling rules of `NetDaemon`, repeated |
| `AsyncStream` | TLS and compression, turned on and off while data are on their way | |
| `XmlTag`, `XmlWriter`, `XmlReader` | tags and their texts; the writer; the parser at the other end of its connection, searches and helpers | each extends the one before |
| `Workers` | libnano's threads, epoll and termination | |
| `SharedBuffers` | libnano's buffers, filled and emptied by threads | |
| `DoublePool` | libnano's pools of temporary objects | |
| `MathFunction`, `MathParser` | formulas, their handles; the parser over tokens | the second extends the first |
| `NanoIni`, `Masterd` | INI files; the master of workers | the second extends the first |
| `SwitchLog` | reports of switches, query by query, and the database | |
| `HttpGet` | the HTTP client, `url_parse`, options, base64 | |
| `Conference` | avc_server: feeders, viewers, and the pool of blocks under the feeds' queues and the viewers' buffers | |
| `AvcStream` | packets between feeder and server | |
| `FeedPath` | a picture from camera to scene, and the scene's pace | |
| `Snmp` | builder, ASN.1 reader and parser of SNMP | |
| `Collector` | nanosrv's daemon with counted references; the NetFlow collector | |
| `IspChip` (external), `IspAdapter`, `Pigro`, `PigroSpi` | the chip; the firmware; the program; its first version without adapter | `Pigro` extends `IspAdapter`, `PigroSpi`, these `IspChip` |
| `ChainLemmas`, `*Proofs` | lemmas and theorems | the modules they are about: `WorkersProofs` also `DoublePool`, `SharedBuffers` and `Masterd`, `TimersProofs` also `Conference` and `FeedPath`, `ProcessManagerProofs` also `Collector`, `AsyncAgentProofs` also `SwitchLog` |

The `MC` modules give values to the constants that a configuration cannot write,
and the symmetry sets. Six of them put several small models into one run: a
variable `subject` is chosen in the initial state and says which of them moves
while the others stand still. No step mixes two of them, so such a run is the
sum of independent runs.

Each module also holds mutants: operators, marked as such, that change the
definition below them as a plausible bug would. They stand in no specification;
substituting one for its original must break a property, which shows that the
property looks at that code. `PROJECT.json` lists them.

### Correspondence

`PROJECT.json` maps every definition to its lines. In general:

- **A list of blocks that ends with NULL is the sequence of its blocks.** `stack`
  in `BlocksPool` is the free list, head first; `chain[s]` in `BufferStream` is
  the list from `first`. `last` is a pointer of its own, because the code leaves
  it dangling when a read empties the stream. A block's data is
  `mem[<<block, place>>]`; what a freed block holds is `Junk`, so that a read of
  freed memory would show as a wrong byte.
- **One action is one call of the library**, or one system call where the kernel
  may act between two, or one section under a lock where threads run. In
  `NetDaemon` a handler is any sequence of calls: they are enabled at any time,
  between any two steps of the loop, for any object. This covers timers and the
  program's start-up too, and every order of handlers. `event` is the event that
  `doActiveAction()` works on; its `todo` loses one kind as each of the three
  handlers runs.
- **The kernel is state.** `opened`, `watched`, `armed` and `wants_out` are the
  open descriptors, epoll's list, the entries whose `EPOLLONESHOT` is not spent
  and those with `EPOLLOUT`. `socket()` and `accept()` return the lowest closed
  descriptor. Closing one removes it from epoll's list, and `epoll_ctl()` fails
  for one that is not there.
- **`orderly`** is a history variable of `NetDaemon`: TRUE until a caller closes an
  object that still stands in `fds[]`, or writes for an object that is not there.
  The code permits both (`AsyncAgent` and `avc_channel.cpp` do the first) and
  recovers from neither. Properties that need this discipline say so; `AnyInv`
  holds whatever callers do. In the same way `AsyncAgent` has `faults`, `Workers`
  has `torn` and `modified`, `DoublePool` has `overfull`, `ProcessManager` has the
  processes whose pid was taken over: each names a behaviour of section 5 after
  which a promise ends.
- **Time** in `Timers` is relative: `left[t]` seconds remain. The clock is read
  once for each pass. `AsyncAgent` keeps only the order of the daemon's queue, whose top
  alone may fire; without a clock a timer that is set may come anywhere in it. The
  resolver's timers count as one, because each of them looks at all queries.
- **Data are as coarse as the properties allow.** The units of `AsyncStream` bear
  their number in each layer they went through; formulas compute in a field of
  five elements, in which the laws that the optimization uses hold exactly; a
  length's byte in `AvcStream` has four values; Snmp's bytes are bytes. Pieces of
  XML are what the writer puts together, so that escaping is visible.
- **A failing call is a choice**, wherever the code looks at the result or should
  have.


## 3. What is checked

Every run passes. Some properties join several promises about one component, each
of them a definition with a comment of its own; the table names the parts.

| Run | Properties | Shows |
|---|---|---|
| `library` | `PoolInv`; `ObjectsLive`; `FormulasSound` = `RewritesSound`, `ParsesTheGrammar`, `NodesCounted` | blocks are neither lost nor lent twice; temporary objects live as long as their context; parser, derivative and optimization are right, and nodes are freed in time |
| `streams` | `StreamSound`; `PoolSpec`; `QueueSpec` | chains are sound and apart; the streams use the pool as it asks; they implement `ByteQueue` |
| `buffers` | `BuffersSound` = `SentThenBuffered`, `NoBlockLost`; `SharedSound` = `PoolExact`, `OwnBytes`, `NoneStuck` | what `put()` took goes out once and in order, in one thread and in several |
| `daemon` | `AnyInv`; `ViewsAgree`; `ObjectsServed` = `NobodyDeaf`, `OutputWatched`, `OutputIsOwn`; `FullBufferDrains` | table, objects and epoll agree; registered objects are served |
| `timers` | `CountExact`; `LateOnlyBehindLater`; `AllFire`; `FeedSound` = `FeedWhole`, `OnPace`; `CollectorSound` = `ObjectsCounted`, `ConfiguredAsWritten`, `FlowsReported` | timers; pictures arrive and are drawn at their pace; each flow counts once |
| `processes` | `CalledOnceAfterEnd`; `EndIsReported`; `SectionsSound` = `OneEach`, `SavedIsRead`; `AlwaysRestarted` | callbacks once, after the end, and for every end; one worker for each section |
| `agents` | `AgentSound` = `TimerIffReconnecting`, `ConnectedIsServed`, `NoSocketLeaked`; `ToldWhenLost`; `KeepsTrying`; `EventsSound` = `OneActive`, `RowsFit`, `NothingTwice`; `EndsLogged` | agents connect again and leak nothing; the log has each report once |
| `workers` | `ObjectsSound`; `SleepFirstUnlessTorn`; `EveryoneTold` | one thread per object; the order and the end of termination |
| `pigro` | `RoundSound` = `InStep`, `ExitSound`; `Answered` | program, adapter and chip keep step; reports are true |
| `conference` | `FramesArrive` = `TablesLive`, `PoolShared`, `StreamWhole`; `Forgotten` | the feed is live, tables and counts agree, no block of the shared pool is lost, streams lack only what it refused |
| `formats` | `TagsUnderstood` = `ReadsWhatWasMeant`, `TagsFaithful`; `BytesUnderstood` = `PacketsWhole`, `SnmpUnderstood`; `HttpSound`; `ArrivesAtLast` | what one end writes the other reads, however it is split or cut |
| `wire` | `Intact`; `ReadAsSent`; `HandshakeEnds` | data pass through the codecs that were on when they were sent |

### The bounds, and why they are enough

- *Pool and streams*: four blocks and three macro-blocks for the pool alone; two
  streams over three blocks of two bytes, packets of none, one and four bytes and
  a quota of four for streams. Packets and reads then reach every boundary: an
  empty, partly filled and full last block, a packet that fits the rest, one that
  needs one more block and one that needs two, a read that ends in, at and behind
  a boundary. Two streams let a block change its owner in both directions.
- *Output buffers*: the same pool, packets of none, one and three bytes, a quota
  of three bytes, and four bytes accepted for each descriptor. In libnano's form
  two threads serve two streams that follow one another on one descriptor, which
  is the least that lets a number pass on with bytes in its slot.
- *Temporary objects*: four bytes, stacks of two, objects of one and two bytes:
  contexts nest until a stack is full.
- *Formulas*: texts of up to six tokens; trees over two variables with three more
  operations, evaluated at every point of the field of five elements; three
  handles on three nodes.
- *Daemon*: two objects and a table of two let descriptors swap owners; the third
  descriptor lies outside the table, as `enableObject()` tests. One packet for
  each buffer is enough for emptiness and ownership, which is all that this
  model tells apart.
- *Timers*: three timers give one that sets itself again, one behind it and one
  more; delays and lateness above two only repeat the order of the queue. A
  feeder sends six frames of one or two payloads, of which its buffer and TCP take
  six packets, through libav's buffers and a queue with thresholds of two and three;
  the scene's timer is called after gaps of 10 to 50 ms for a quarter of a second. The collector has two servers on two descriptors, files of up to
  three lines, and datagrams of versions 5 and 9.
- *Processes*: three lives over three pids allow a pid to be used three times, by
  children and strangers in any order. `masterd` has an empty file or one of two
  sections, four children that end twice, and one failing call.
- *Agents*: two agents and one foreign owner over three descriptors, one of them
  outside the table. The log gets two reports, of a port between two switches and
  of an unknown switch, and one query fails.
- *Workers*: two threads (the main thread and one more) and a table of two: both
  can hold the same object's event, and one can tell, sleep or be torn while the
  other does anything else.
- *Pigro*: two rounds of actions over files that cross pages, come out of order or give an address twice,
  have wrong lines or no end; a chip that misses one command; a ring of 16 bytes,
  as in the code.
- *Conference*: two connections that are feeder or viewer, a table of three, two places
  for viewers, two frames, each a key frame or not, and a pool of two blocks under
  buffers and queues: either connection can hold all of it while the other is refused.
- *Formats*: six operations on tags with two names, one attribute and a character
  to be escaped; payloads of up to three units; SNMP requests of two identifiers,
  one of them too long for the reader, cut at every length up to 30 bytes; two pages
  read through a buffer of four lines in parts; URLs with each part there, empty
  or absent.
- *Wire*: a buffer of three units, chunks of two, six units coded and taken, three
  sent by the peer.

### Fairness

- `NetDaemon!LiveSpec`: handlers return and `resetObject()` follows (weak
  fairness, the code of one thread). `epoll_wait()` serves every ready
  descriptor in turn, and a socket that is writable again and again takes bytes
  again and again (strong: other events may come between). No user call is fair.
  `FullBufferDrains` stands until a caller ceases to be orderly.
- `Timers`: `run()` makes pass after pass, because `epoll_wait()` has a timeout of
  200 ms; callbacks return; time passes between passes (strong, since a pass
  suspends it). Setting a timer is not fair.
- `ProcessManager`: the steps of the pass follow one another (weak), since
  `processTimers()` calls it each time. Processes need not end. `Masterd`: the
  program goes on, and a child that was forked calls `exec` (weak).
- `AsyncAgent`: the timer that is on top of the queue fires, because it expires at last;
  queries are answered or time out, events are handled, and the rest of the program
  closes what it opened (all weak). Whether a timer comes to the top is left to the
  queue: `KeepsTrying` says that a lost connection is retried unless other agents'
  queries, which set the resolver's timer again, hold the agent's timer back again and
  again, and that this and the end of every attempt stand unless a timer finds no socket
  again and again, which sets it again. A query times out in any call of
  `dns_timeouts()`, which each `a4()` and each of the resolver's timers makes; these are
  reached unless such a timer of an agent is put on top for ever, which the second
  exception covers.
- `SwitchLog`: a query is answered or fails, and the daemon handles the events of
  the server's socket (weak).
- `Workers`: whoever sets the states goes on (weak), and every thread runs and gets
  the lock that it asks for again and again (strong). Nobody need call
  `terminate()`.
- `Pigro`: program, main loop and interrupts go on (weak) until the adapter sleeps
  over a byte. `Conference`: handlers return and a frame is handed to all places (weak), and epoll serves every ready
  descriptor in turn (strong). `XmlReader`: the program goes on reading (weak).
  `AsyncStream`: epoll serves the stream, and the peer answers (weak).

### Deadlock

`daemon` and `streams` check that the system can always go on. The other
configurations say `CHECK_DEADLOCK FALSE`, because their systems may stop:
bounds on bytes, frames, reports, lives, lines or operations end the work of
most; threads that missed a signal may sleep for good (`workers`); the
conference's server exits on errors; pigro ends; a master may crash (section 5).
What must not stop is stated as liveness instead.


## 4. What is proved

Everything below is proved by TLAPS for every value of the constants that meets
the named `ASSUME`s of the modules, and those say no more than that sets are
finite, numbers natural or positive, and that a "none" is not one of the things it stands for.
`PROJECT.json` lists the theorems; the lemmas are beside them. Where the
conjunction that a run checks is proved, the two state the same definition.

| Module | Theorems | Inductive invariant |
|---|---|---|
| `BlocksPoolProofs` | `PoolInvariant`, `PoolConservation` | `PoolInv` itself |
| `BufferStreamProofs` | `StreamInvariant`, `StreamsAreSound`, `StreamChainsDisjoint`, `StreamsUsePool`, `StreamsAreQueues`, `BuffersAreSound` | `StreamInv`, `BuffersInv` |
| `NetDaemonProofs` | `DaemonAnyInvariant`, `DaemonViewsAgree`, `DaemonNobodyDeaf`, `DaemonOutputWatched`, `DaemonOutputIsOwn`, `DaemonObjectsServed` | `AnyInv`, `DaemonInv` |
| `TimersProofs` | `TimerCountExact`, `TimersLateOnlyBehindLater`, `ConferenceFramesArrive`, `FeedIsSound` | `TimersInv`, `ConferenceInv`, `PoolInv`, `FeedInv`, `PaceInv` |
| `ProcessManagerProofs` | `ProcessCalledOnceAfterEnd`, `ServersAreCounted`, `FlowsAreReported`, `FilesAreRead`, `CollectorIsSound` | `ProcessInv`, `DaemonInv`, `FlowsInv`, `ReadInv` |
| `AsyncAgentProofs` | `AgentTimerIffReconnecting`, `AgentNoSocketLeaked`, `AgentConnectedIsServed`, `AgentToldWhenLost`, `AgentIsSound`, `SwitchLogEventsSound` | `AgentInv`, `SwitchLogInv` |
| `WorkersProofs` | `WorkersObjectsSound`, `WorkersSleepFirst`, `PoolsObjectsLive`, `SectionsAreSound`, `SharedBuffersSound` | `WorkersInv`, `SleepInv`, `PoolsInv`, `MasterdOK` with `OneInv`, `SharedInv` |
| `ChainLemmas` | lemmas on sequences without repetition, their ranges and lengths, and on where an element stands in `FlattenSeq` | |

**Pool.** Conservation, exact counters and the types are inductive only together:
`allocByBlocks()` trusts `free_count`, and the chain that it cuts off lies within the
free list because the counter is exact.

**Streams.** `StreamInv` adds to the pool's invariant that a chain has as many blocks as
`size` and `offset` ask for, that `last` is its end, and that chains are disjoint.
`StreamSound` also says that a write is refused only when quota or room ends
(`RefusalIsDue`). Two refinements follow. `StreamsUsePool`: each step of the streams
is a step of the pool, with `lent` the blocks of all chains. `StreamsAreQueues`: byte
`i` of a stream is in a cell that follows from `offset` and the chain
(`PlaceHeld`, `CellIsPlace`), no two bytes have the same cell, so that a write adds
what it was given at the end, a read takes it from the front, and neither
changes what another stream holds. `BuffersInv` puts the socket behind that queue:
sent and buffered bytes together are the accepted ones, until `cleanup()` hands a
chain to libc (`heap_ok`).

**Daemon.** `AnyInv` holds whatever callers do. `OwnInv`, which holds while callers are
orderly, adds to the properties that an object's descriptor is open and its
own (`FdsOwned`): without it a close could empty the entry of another object.
`DaemonInv` is `AnyInv /\ (orderly => OwnInv)`, and nothing makes a run orderly again.

**Timers.** A removed timer lowers the size of the queue by one only if the queue is
finite, which `TimersInv` adds. `TimersLateOnlyBehindLater` is an action property:
the step that ends a pass leaves late timers only behind one not yet due.

**Conference.** The feed is a plain pointer, and no step looks at what it points to
before it draws. `ConferenceInv` says why that is safe: the feed stands in the slot of
its own descriptor (`FeedHeld`), and the object whose event is handled finds in the
slot of its descriptor itself or nobody (`EventHeld`), so that closing it closes nobody
else's, and nothing is destroyed that a slot still names (`SlotsHold`). A stream
lacks only what the pool refused because a viewer that has been sent a frame stays in
the streaming state and has, of every frame since the key frame it began with, all or a
part (`FramesFollow`). The blocks add up because each call takes or gives what a buffer or a
queue gains or loses (`PoolInv`). That viewers and the
daemon's objects are the same is only claimed until an `addObject()` has failed; the feed and
the streams are right after that as well.

**Feed and pace.** What is on the wire, in the queue and in libav's buffer is one run of
the feeder's payloads, each directly behind the one before (`WireInv`, `ChannelInv`), and
the first on the wire goes on where the queue ends (`JunctionInv`). A read begins only
above the threshold, where at least one frame has come whole and libav's block with it,
so that the loop, whose turns are a recursive function, gives whole frames and ends at the
threshold (`DrawFramesKeeps`); the induction over its turns takes the least turn that is
not as claimed. The pace rests on arithmetic alone: the plan stays `FrameTime - 2` ahead of
what was emitted, and a pts is the frame nearest to its time (`RescaleFacts`).

**Processes.** A registration outlives its callback, so `ProcessInv` says where the pass
is between the two (`Spent`, `KeysBehind`), that the kernel gives a pid to one
process at a time (`PidsUnique`), and that what stands under a pid is of a process
that had it (`UnderOwnPid`, `ChildRegistered`).

**nanosrv.** The references have owners (`Owned`): the program's pointers, two for a place
in the table, one for the turn, and the one that a refused addition leaves. That is
inductive with three more facts: no two servers have one descriptor (`Distinct`), a server
stands at its own descriptor unless it was closed while it was listed (`Listing`), and
whatever is listed and was not closed is armed or served (`WaitedFor`). The collector's class filters
are those that were added, in reverse (`NewestFirst`). The key that `collect()` makes of an
address is less than it by its first three bytes; that it falls in the same block
of a network whenever no edge lies between them is arithmetic (`KeyCovers`), and the first
filter that fits is found (`FirstFitIs`). The proof showed that an earlier form of
`FarFromEdges` was not enough: it compared whether a network covers the address and the
least key, and a network of fewer than 766 addresses may lie between the two. It now
speaks of the network's edges. `configure()` reads a file a few tokens at a time, across its lines:
`HasRead` says where a turn may begin (between two lines, in the wrong one, or one token
behind it) and which filters there are by then, and every turn keeps it (`TurnIs`).

**Agents.** `reconnecting`, `connection_state`, socket, query and the place in the daemon's
queue of timers move together (`Phases`); the table names only connected agents until a `connect()` fails at once
(`TableFresh`); a connection that has not begun cannot end (`IdleTillConnected`).

**Switch log.** The errors that queries have met are history, and the invariant says
what they excuse. A handler that has met none is inside the transaction it began and
knows what it has looked for (`HandlerFits`): so its row fits the event and the peer
(`RowsFitAll`), and it opens an event only where none is open (`NoneOpen`). Reports
are taken in the order in which they came (`OldestFirst`), so that a second row of one
report is one that was repeated after a lost connection (`OneRow`).

**Threads.** Who holds an event has taken its object out of `armed`, and nobody else
holds it (`HeldByOne`), until a handler arms its object itself (`modified`); what is
held was listed (`HeldWasListed`). For the order of termination, `SleepInv` is a
disjunction of phases: before the objects are told, `activeCount` is the number of
threads that have not said that they sleep; while one thread tells them, no other
gets to work; afterwards nobody is put to sleep; or nothing is listed, or a
thread's status was torn.

**Temporary objects.** `PoolsInv` says that calls alternate between the pools
(`Alternate`), that a note parts the objects that outlive a call from those freed
with it (`Noted`), and that each byte given is exactly one object's (`Covered`).

**masterd.** What is saved is read as it was only of a sound image (`IniGood`): no two sections have one
name, no two options of one of them one key, none is empty, and no name is shorter than
the name before it, of which a header would keep the tail. `ReadLine` keeps that, so
`ini_open()` gives it (`IniOpenGood`), and so does `ini_seti()`. Read back, a saved image grows by one option
a line (`HasRead`), whatever stands in it (`SavedImageIsRead`). Both inductions are over the turns of a recursive function
and take the least turn that is not as claimed. `OneInv` says who works for a section: while no
`execve()` has failed the only master is the first, a section that it has not come to has no
worker, and the pid it has for any other is that of the only worker there can be
(`Known`), because a worker that has ended is waited for before its section is started again.

**Buffers of threads.** `SharedInv`: the slot of a number names the listed object
(`SlotsMatch`), nobody gives a number away while a thread holds its object
(`OneOwner`, `Handles`), what waits in a slot follows what the peer got (`InOrder`),
bytes that wait have their socket armed or a thread that is to arm it (`NoneStuck`),
and the blocks in the pool, in slots and on their way back are all blocks there are
(`PoolCounted`).

### What is only model-checked

- Liveness, and what rests on `ENABLED`: `FullBufferDrains`, `AllFire`, `EndIsReported`,
  `AlwaysRestarted`, `KeepsTrying`, `EndsLogged`, `EveryoneTold`, `Answered`, `Forgotten`,
  `ArrivesAtLast`, `HandshakeEnds`. The prover has no rule for fairness of these
  systems' actions.
- What recursive definitions compute, which needs induction over data: `FormulasSound`,
  `TagsUnderstood`, `BytesUnderstood`, `HttpSound`,
  `Intact` and `ReadAsSent`.
  The modules `AsyncStream`, `AvcStream`, `HttpGet`,
  `MathFunction`, `MathParser`, `Snmp` and `XmlTag` declare recursive operators, which
  only TLC evaluates.
- Not yet proved: `RoundSound` of `Pigro`, which needs an invariant that joins the states
  of program, firmware and chip, and `ExitSound` one that says which bytes of a file are in the
  chip's page buffer and which in its flash.


## 5. What the code does otherwise than one might think

The models contain all of this, unless it is said to be left out: properties
either hold in spite of it or say up to which event they hold. No run expects a
violation.

**libnano2: daemon, buffers, processes, agents**
- `cleanup()` gives a pool's block to libc's `free()` (`netdaemon.cpp:683`).
  `NoBlockLost` holds until then (`heap_ok`).
- `close()` closes the descriptor before it calls `setFd(-1)`, so that a listed
  object stays in the table and in the counter (`asyncstream.cpp:761`): `orderly`.
- Bytes put for an object that is not enabled stay in the buffer of its descriptor
  (`netdaemon.cpp:607`) and go to whoever is enabled there next; the code logs this
  as unexpected (`netdaemon.cpp:213`): `orderly`.
- `resetObject()` of an object that closed itself reads `fds[-1]` (`netdaemon.cpp:352`)
  before `epoll_ctl()` refuses -1; the read is left out. `disableObject()` and
  `modifyObject()` check the range.
- The quota of `put()` is compared with bytes (`netdaemon.cpp:509`), where
  `netdaemon.h:394` and `:401` say blocks.
- The timer queue has the timer that expires last on top (`netdaemon.h:95`), so that
  a due timer may wait behind a later one: what `LateOnlyBehindLater` leaves open.
- A timer that sets itself again, as `AsyncDNS` does (`asyncdns.cpp:56-63`), can
  starve another for ever: the exception in `AllFire`. So may the queries of one agent the
  timer of another, and an agent that finds no socket all timers: the exceptions in
  `KeepsTrying`. Other timers of a program, which could do the same, are not in that model.
- `ps.erase(pid)` after a callback may erase the registration of a newer child with
  the same pid (`processmanager.cpp:115`): the exception in `EndIsReported`.
- `write()` of no bytes to a stream whose last block is full sets `last->next` to an
  uninitialised pointer (`bufferstream.cpp:171`). `BufferStream` records such streams
  in `wild`.
- `bp_pool(min_size)` never returns NULL (`blockspool.cpp:229`), where the comment above
  it (`:198-200`) says it does when memory is short.
- When `connect()` fails at once, `reconnect()` leaves the agent in the table
  (`asyncagent.cpp:64`), and the result of `adns->a4()` is ignored (`:97`): `faults`.
- `AsyncServer::close()` takes 0 for the closed descriptor (`asyncserver.cpp:109`).

**libnano2: the layers of a stream**
- A chunk that deflate has produced and the buffer refuses is lost; a refused
  `put()` leaves zlib with input, so that the next `put()` answers TRUE and sends
  something else (`asyncstream.cpp:604-620`). gnutls keeps a refused record and sends
  it with the next call. `Intact` stands until a codec is refused.
- A handshake whose flight was refused, or one that the peer begins in a session,
  goes on only when the peer sends another byte (`asyncstream.cpp:69`).
- A fatal error of the handshake, after which the stream terminates itself
  (`asyncstream.cpp:77-82`), and a peer that ends in a handshake are left out:
  `HandshakeEnds` speaks of peers that go on with the protocol.
- `disableTLS()` does not wait for the peer's last record. `disableCompression()`, left
  out, and several other functions lack a `return`.

**libnano2: XML**
- An interrupted read is resumed with the builder as it was: `ATTagBuilder::reset()`
  does not do what its comment says (`tagbuilder.cpp:41-55`, `attagparser.cpp:54`).
  An `ATTagParser` parses one document. `resetParser()` inside a callback
  (`xmlparser.cpp:83-98`), left out, frees the parser that is running.
- An attribute set after `flush()` is lost. `getChildByAttribute()` looks only at the
  first child of the name (`xml_tag.cpp:147-158`). `TagHelper`'s path operator never
  goes back to a second holder and makes a new tag (`taghelper.cpp:26-59`).
- The texts have one character that must be escaped, in values and data alike; white
  space between and in attributes is left out.
- `removeChild()`, left out, uses an iterator after erasing it (`xml_tag.cpp:395-426`).

**libnano: threads**
- `setWorkersState()` writes `status` and `checked` in two steps (`netdaemon.cpp:399-414`)
  that the threads read without the lock (`:284-296`): a thread that reads between
  them is counted twice, and objects may be terminated while another still works:
  `torn`.
- A signal before `nanosleep()` is lost (`:305`), and the thread sleeps for good; the
  others finish without it.
- `modifyObject()` arms an object while its handler runs (`:204`), so that a second
  thread may enter it: `modified`.
- `timerCount` is read outside of the lock (`:545-549`); left out. So is a second
  `terminate()`, and one before the threads exist (`:402`).
- The bytes of a removed stream stay in its slot, because nobody calls `cleanup()`:
  the next connection on that number sends them first. A stream that closes itself
  without detaching makes `resetObject()` arm descriptor 0.

**libnano: formulas, pools, INI files, the log, HTTP**
- `optimize()` of x/(y/z) crashes (`math.cpp:702`); `pow(2, x)` becomes a number (`:740`);
  the derivative of `pow(x, 2)` is NaN for x <= 0 until it is optimized. The parser has
  no `^`, and `parse(text, len)` does not look at `len`. `toString()` is not always
  parsed back. `unset()` of an unknown name erases `end()`. Assignment of a handle
  releases what it held before it takes the new one (`math.cpp:1018`).
- `enter()` swaps the two pools before it finds its stack full (`doublepool.cpp:84-88`):
  `overfull`.
- A header's name shorter than the last one keeps its tail (`nanoini.c:54`): such a
  section is not found. `ini_geti()` tests the wrong pointer (`nanoini.c:136`), so that a
  master crashes after a failed first fork. A child whose `execve()` fails becomes a
  second master (`masterd.c:32-37`), and a failed fork is never repeated.
- After a reconnect in the midst of a transaction the rest of it runs outside of
  it, and may write a row for an event that was rolled back or repeat a statement;
  an unanswered SELECT opens a second active event; a failed INSERT gives a stale
  row number (`mysql.cpp:39`, `switchlogserver.cpp`).
- `strstr()` looks past the received data and may find an older answer's blank
  line (`http.cpp:64-66`); all headers must come with one `recv()`; a failed `recv()`
  is taken for a length. An '@' in a path without user is misread by `url_parse()`.
  A socket that `close()` closed is closed again. `miniget` ends on a read error as
  if the page were complete.

**ffcairo**
- A feeder that leaves closes its descriptor before the object is disabled, and
  leaves a stale slot. `resetObject()` reads `fds[-1]` for a connection that closed
  itself. A failed `accept()` returns 0, which is taken for a connection.
- The feed's queue is in the same pool as all output buffers (`bufferstream.cpp:13-21`,
  `avc_server.cpp:123`), and no quota is set. Viewers that are slow may leave it no
  block: then `queuePacket()` ends the server (`avc_channel.cpp:140-149`), and other
  viewers are refused parts of frames, which nobody looks at (`avc_http.cpp:192-197`). A
  feed that was replaced keeps its blocks, because its slot keeps the object. So does a
  feed that does not open end the server, and a payload of no bytes counts as a full
  queue. When `av_write_frame()` of the scene's own stream fails, no viewer gets the
  frame (`avc_scene.cpp:105-110`).
- The length of a packet below 2 wraps around (`avc_stream.cpp:86`); left out, since no
  feeder sends one.
- A pass of the timer that comes 20 to 40 ms late loses a frame, though the comment
  says otherwise (`avc_scene.cpp:331-341`). The last 128 Kbytes of a feed are never
  drawn, because the thresholds are never reached again.

**nanosrv**
- An item of an identifier from 2^14 on has its middle digits in the wrong order
  (`snmpbuilder.cpp:105`), lengths of a binding have one byte, and a first pair
  beyond 40 is read wrong. Negative integers are read without their sign. Callbacks
  are called before a later error is found.
- A datagram of 4096 bytes or more makes `onRead()` write one byte behind its buffer
  (`snmpserver.cpp:222`); left out, as the model's datagrams are shorter.
- The collector reads as many records as the header says, from the last datagram
  if there are fewer. One that ends inside its header, of which the rest would be the
  last one's too, is left out. `run()` ends when the last object is removed
  (`core/netdaemon.cpp:97`); `close()` of a listed server leaves its slot for ever. A
  wrong line of the file may take the next one with it.

**pigro and its adapter**
- The adapter may go to sleep over a byte that has just come (`main.c:20-52`): the
  exception in `Answered`.
- "firmware write: ok" is printed though a page write failed (`main2.c:309`, `:525`,
  `:530`), the check looks at the data byte and not at the status (`:272-278`,
  `:447-450`), `at_act_check()` always returns 0, and a wrong line leaves the result 1.
  `ExitSound` says what the result may be relied upon for.
- The checksum of a line is not verified, and records of type 2 and 4 are skipped.


## 6. Not modelled

- The addresses, alignment and headers of macro-blocks; the wording of logs and
  reports; peaks and other statistics.
- `ptr<>` and `Object` of libnano2: the reference counts of formulas, of nanosrv's
  objects and of the conference's connections are modelled, those of the daemon's
  objects are not.
- Calls that change no state, such as `processExists()` and `getBufferSize()`; the
  global timer, which the pass over the timers calls first.
- SASL of `AsyncStream`, an empty interface in this repository; several daemons.
- `AsyncXMLStream`, which hands what a stream reads to a parser, a parser that is
  reset inside its own callback, `removeChild`, and the namespaces of tags.
- libnano's timers, TLS and compression: libnano2 has them, in the same form.
- Formulas as strings, vectors of formulas, and the split of a text into tokens.
- Request texts of the HTTP client; the removal of INI options, which the source
  leaves unfinished; syslog, which prints what comes.
- The pictures themselves, their scaling and drawing, which are libav's and
  cairo's.
- The pins that `main.c` of pigro toggles, reading of hexadecimal digits, and the
  firmware for another chip (`main_m8.c`).
- `Easy*` rows and vectors, files, the logger and strings: containers and I/O
  without a protocol. The AVR recorder and `test`: experiments.

`PROJECT.json` lists all components with what is left out of each.


## 7. Plan

Next: `RoundSound`, which joins the states of program, firmware and chip.
New proofs go to the proof modules there are. After that: the output buffers of
libnano2 in one model with the loop of `NetDaemon`, so that `FullBufferDrains` speaks
of bytes; and the namespaces of `AsyncXMLStream`, where
`XmlReader` ends.
