# TLA+ models of CFloor

CFloor is a small web server in C. One thread reads requests from all connections,
each request is served by threads of its own, and one thread cleans up. This
directory holds TLA+ models of it, the TLC instances that check them, and TLAPS
proofs of what matters most. Paths below are those of the repository; `networking.c`
stands for `src/src/networking.c`, and so on.

Contents: [1 The system](#1-the-system) · [2 Plan](#2-plan) · [3 Linked list](#3-linked-list) ·
[4 Connections](#4-connections) · [5 Reading a request](#5-reading-a-request) ·
[6 Paths, configuration, selection](#6-paths-configuration-selection) · [7 Handlers](#7-handlers) ·
[8 Runs](#8-runs) · [9 Proofs](#9-proofs) · [10 Divergences](#10-divergences) ·
[11 Not modelled](#11-not-modelled)

## 1 The system

| component | state | operations | what makes it correct |
|---|---|---|---|
| linked list (`linked.c`) | `first`, a lock per list and per link, `next`, `prev`, `inUse`, `unlinked` | push, first, next, get, length, release, unlink, destroy | order of arrival; a pass misses nothing; a link is freed once, when unlinked and unreferenced; no deadlock |
| connections (`networking.c`) | `connectionList`, `connectionsToFree`; per connection a state, a lock, `inUse`, three thread ids, two descriptors | listen, data, request, response, encoder and cleanup threads | requests do not overlap; each ends; a connection is freed once, after its last use; none is lost; a served one is not aborted |
| header line reader (`networking.c:243-266, 717-865`) | 64-byte buffer, `currentHeader` and its length | read of one byte, flush, line end | the lines found do not depend on how the bytes arrive |
| response writer (`networking.c:428-573`, `status.c`) | `isChunked`, the encoder's pipe | `sendHeader`, `minimalErrorResponse`, `status` | one response per request, also after an error |
| headers and metadata (`headers.c`) | array of key and value | mod, get, remove, parse, metadata | a map with the last value per key |
| paths (`util.c`) | none | `symbolicRealpath`, `isInDir`, `strremove` | the result has no `.`, `..` or empty part |
| handler selection (`config.c:741-824`) | the configuration, constant | `config_getHandler` | exact host before wildcard, longest directory |
| configuration (`config.c`) | 29 parser states, tree of binds, sites, handlers | `config_parse`, `config_destroy` | everything allocated is freed on error |
| logging (`logging.c`) | table of loggers, a semaphore each | `setLogging`, `logging` | a line is written whole; nobody waits for ever |
| CGI handler (`cgi.c`), file handler (`files.c`) | pipe, child process, copy thread | handler calls | one status per request, child reaped |
| SSL (`ssl.c`) | four descriptors, two copy threads | init, copy, close | each descriptor closed once |
| signals and timers (`signals.c`) | blocked signals, a timer | wait, set up | a blocked signal stays pending |
| startup and shutdown (`main.c`) | configuration | `main`, `shutdownHandler` | nothing is used after it was freed |
| `mime.c`, `status.c` (table), `misc.*`, `auth.*`, `test.c` | constants, types, tests | | |

How they interact. The listen threads push new connections to `connectionList` and
send SIGIO. SIGIO wakes the **data thread**, which walks that list, reads what there
is on each `OPENED` connection, and starts a **request thread** when the headers of a
request are complete. That one picks a handler, starts the **response thread**, which
calls the handler, and sleeps 30 s; if it is still there then, it cancels the response
thread and ends the connection. A handler calls back into `sendHeader`, which for a
response without length on a persistent connection starts an **encoder thread** between
the handler and the socket. Whoever of the response and encoder threads comes last
resets the connection for the next request: it cancels and joins the request thread,
joins the other one, gives up the use and sends SIGIO again. A timer raises SIGALRM
for the **cleanup thread**, which aborts idle connections that are too old, moves
finished ones to `connectionsToFree`, and frees those whose `inUse` is 0.

What is hard in it: threads that cancel and join each other in both directions; joins
under `connection->lock`; a use count that passes from one thread to the next; list
links that stay alive by reference counts while what they lead to does not; state
read outside the lock and used inside; failures of `pthread_create` and `dup` half-way;
a wake-up that must not be lost. Nothing is persisted and no messages are exchanged
between hosts beyond the socket, so that crash recovery and redelivery do not arise.
The hazards are listed one by one, with lines and properties, in `PROJECT.json`.

## 2 Plan

In order of what a mistake costs and how hard it is to test:

1. `LinkedList`, `LinkedListPass`, `ListPromise`: the list both daemons share. Done, with proofs.
2. `Connection`, `ConnectionLifecycle`: threads, locks and the life of a connection on top
   of the list. Done, with proofs.
3. `Handlers`, `HandlerPromise`: what a handler starts (child, copy thread, encoder) and what
   the client gets. Done, with proofs.
4. `HeaderReader` and `Headers`: bytes to lines to headers; every way to cut a byte
   sequence into reads gives the same lines; the header list against a finite map. Done,
   with proofs.
5. `Paths`, `Selection`, `ConfigParser`: from a config file and a request to the handler,
   against reference definitions. Done, with proofs.

What is left: the copy threads of `ssl.c`, the shutdown and the semaphores of `logging.c`;
section 11 says what stands in the way.

Abstract specifications: `ListPromise` (a FIFO with references), `ConnectionLifecycle`
(none, idle, busy, closing, freed) and `HandlerPromise` (head, body, end and the encoder), all
checked as properties. Composition: `Connection` takes its lists as sets that change
atomically and that a pass visits completely; `ChainIsMembers`, `PassIsComplete` and
`KeepsPromise` of the list modules are what justifies that, and section 9 proves all three for
lists of any length. It takes a handler as one
that sends a head, writes and returns with everything closed, and an encoder that ends
after that; `KeepsPromise` of `Handlers` justifies it. `ConfigParser` EXTENDS `Selection`, which
EXTENDS `Paths`, as does `Headers` for the path of a request line: `HandlerIsChosen` asks a
request's path of a config that was read from a file.

## 3 Linked list

`LinkedList.tla` models every function of `linked.c`. The list object is the node `List`
(its `next` is `list->first`, its mutex `list->lock`). One action is the code between two
lock acquisitions: locks are taken hand over hand, and each acquisition that may block
is the guard of an action, so that TLC interleaves threads wherever the mutexes do.

| variable | in the code |
|---|---|
| `mutex` | the holder of `list->lock` and each `link->lock` |
| `next`, `prev`, `inUse`, `unlinked` | the fields of `link_t`; `prev` is `List` where C has NULL |
| `mem` | `malloc` and `linked_free` of each link; `linked_destroy` of the list |
| `pc`, `at`, `cur` | where a thread is, the link it refers to, the local `current`, `new` or `prev` |
| `fault` | a freed node was touched: the behaviour is undefined, the model stops |

Actions by function: `PushAlloc`, `PushLockList`, `PushWalk`, `PushAppend` (`linked_push`);
`FirstCall`, `FirstLockList`, `FirstTake` (`linked_first`); `NextLock`, `NextStep`
(`linked_next`); `Release` (`linked_release`); `Unlink...` (`linked_unlink`, including its
retry loop and the read of `unlinked` without the lock); `Destroy...` (`linked_destroy`).
`linked_get` and `linked_length` are loops of first and next. A failed `malloc` in
`linked_push` returns before it touches the list and is left out.

`linked_unlink` reads `link->prev`, lets the link go, and locks the predecessor only then; by
that time it may be no predecessor any more (`linked.c:150-184`). `PredecessorHeld` says that it
never gets past its retry with a wrong one. With one unlinker, as in the server, only
`linked_destroy` can take the predecessor away in between, which is why that one runs beside
it in `list_shared`.

`LinkedListPass.tla` adds two history variables: what a pass has met and what it owes.
`ListPromise.tla` is the abstract list; `KeepsPromise` states that `LinkedListPass`
implements it, with the chain of `next` pointers as the abstract sequence.

## 4 Connections

`Connection.tla` has one action per critical section or blocking step of the five kinds
of threads, and the steps of clients, time and `accept` around them.

| variable | in the code |
|---|---|
| `mem` | `malloc` in `listenThread`, `free` in `cleanup` |
| `conn` | `struct connection`: `state`, `inUse`, `lock` (its holder, when held across a join), `resetOkay`, descriptors, `isPersistent`, `isChunked`, the three ids in `threads` |
| `pc`, `cancel` | where the request, response and encoder threads are; a cancellation is pending |
| `client` | requests in the socket, end of file, and whether `lastUpdate` is older than `connectionTimeout` |
| `list`, `toFree` | `connectionList`, `connectionsToFree` |
| `sigio` | SIGIO pending for `sigwait`; it does not queue |
| `d`, `cl` | data thread and cleanup thread: location, connection, links still to visit, `diffms` |
| `fault` | lock of a freed connection, or cancel or join of no thread: undefined, the model stops |
| `serving`, `reason` | history: a started request holds a use; why the connection was first aborted |

| code | actions |
|---|---|
| `listenThread` | `Accept` |
| `dataThread`, `dataHandler` | `DataWake`, `DataNext`, `DataTouchesFreed`, `DataLock`, `DataRequest`, `DataNothing`, `DataDrop`, `DataPut` |
| `startRequestHandler` failing | `DataRequestFails` |
| `requestThread` | `RequestStart`, `RequestStartFails`, `RequestTimeout` |
| `safeEndConnection` | `Cancel`, then `SafeEnd` |
| `responseThread`, `sendHeader` | `SendHeader`, `SendHeaderChunked`, `SendHeaderFails`, `HandlerReturns`, `ResponseReset`, `ResponseLeave`, `ResponseEnd` |
| `resetPersistentConnection` | `Cancel`, then `Reset` in `ResponseResets`, `EncoderResets`; `EncoderJoinsNobody` |
| `chunkedTransferEncodingThread` | `EncoderCopies`, `EncoderGivesUp`, `EncoderLocks`, `EncoderResets` |
| `pthread_cancel` taking effect | `Die`, at the places where the thread waits or the handler does I/O |
| `cleanup` | `CleanupWake`, `CleanupNext`, `CleanupKeep`, `CleanupAbort`, `CleanupMove`, `CleanupExamine`, `CleanupDone`, `CleanupCancel`, `CleanupStopsNobody`, `CleanupFree` |

Abstractions. A request's bytes are one unit that is there, not there, or unreadable
(`DataRequest`, `DataNothing`, `DataDrop`). `pthread_create` fails in two ways POSIX allows:
the id stays as it was or is left with garbage. The stretch from a join to the next lock
that follows without waiting is one step, so that a thread dies before or after the whole
of it: `SafeEnd` has the two closes of `safeEndConnection` in it (a `close` is a cancellation
point). `CleanupMove` is `cleanup`'s decision under the lock together with the push and the unlink
behind it. Cleanup visits the connections of a pass in any order, which includes list order.
The client's and time's steps have no fairness: clients may fall silent.

`RequestTimeout` is the end of `sleep(30)`. A handler that is too late is one way there,
`HandlerMayTimeOut`. The other is always open: nobody is left who would end the request, since the
response thread is gone or was never created, and so is the encoder (`networking.c:371-385, 532,
639`). `KeepAliveIsServed` says what `networking.c:73` says of `KEEP_ALIVE`, by the threads
themselves and not by the history: the response or the encoder thread runs, or the
request thread is about to start the one or to take the request down.

`ConnectionLifecycle.tla` is the life of a connection without threads. `Connection.tla`
maps `mem`, `serving` and the state to it (`Life`) and states the refinement
(`KeepsLifecycle`): in particular no step frees a busy connection.

## 5 Reading a request

`Connection` takes a request as one unit. `HeaderReader.tla` opens that unit: the loop of
`dataHandler` that reads one byte at a time, for one connection, with `Headers.tla` for
what `headers.c` makes of a line. Bytes are symbols, and a word that is compared as a
whole (`GET`, `HTTP/1.1`, `close`) is one symbol.

| variable | in the code |
|---|---|
| `sock`, `eof`, `sent` | the socket, and the bound on what a client sends |
| `buffer`, `last` | the locals of `dataHandler`; `length` is the length of `buffer` |
| `currentHeader` | the field, NULL or its text; `currentHeaderLength` is its length |
| `metaData` | NULL while `metaData.path` is, else protocol and query |
| `headers` | the array of keys and values, in order |
| `state`, `pc` | `connection->state`; whether the data thread is at this connection |
| `fault` | a write outside an object: undefined, the model stops |
| `taken`, `failed` | history: bytes read of this request; `read` has failed |

| code (`networking.c`) | actions |
|---|---|
| 691-727 | `Wake` |
| 818-828 | `ReadByte` |
| 729-760, 810-815 | `ReadRequestLine`, `ReadHeader`, `LengthWraps` |
| 760-795 | `ReadEnd` |
| 744-755, 796-806 | `BadLine` |
| 837-878 | `ReadAgain`, `ReadEof`, `ReadFails` |
| 327-348 | `resetPersistentConnection` (the part that concerns the request) |

`ReadAgain` is always possible: the bytes in `sock` may not have arrived yet. Thereby TLC
cuts each byte sequence at every place. What the result should be is said by operators
that do not read byte by byte: `LinesOf` splits what was sent at its CR LF pairs. `Sets` and
`Parts` say by the positions of the colon and the blanks what a header or request line means.
`Says` asks that each key of the lines is in the list once, with the value of the last line that
names it, and `AsksToClose` that the last `Connection` header, or else the protocol, decides.
`ReaderAssumption` says what a `char *` is here: a sequence of the bytes that are sent, or NULL,
which is none of them. `headers_remove` is not used for
requests: `cgiHandler` takes the `Status` out of a program's headers with it (`cgi.c:203`), and
`minimalErrorResponse` the `Content-Encoding` (`networking.c:431`). It stands in `Headers.tla`
beside the rest of the list, for the proofs of section 9.

## 6 Paths, configuration, selection

`Paths.tla` holds `symbolicRealpath` and `isInDir` (`util.c`). The loop over characters is the
recursive function `scan`; `Closed` is what happens at a slash, `short` the number of bytes by which the loop
stops early (see section 10). `Picked` takes what stands at a set of positions, in their order;
the second loop, which drops the repeated slashes, and the reference definitions are said with
it. `Segments`, `Depth` and `Resolved` say of whole paths what
`symbolicRealpath` should come to; it does for `Plain` paths, absolute ones that never climb
above the root and have no empty segment before the last. `Headers` uses it for the path
of a request line, and `UriTooLong` compares the lengths: `headers_metadata` fills a buffer of
the length of the path as sent with the path as resolved. When the target does not begin
with `/` the latter may be longer; in `HeaderReader` that is `UriOverflows`, after which the
model stops. Targets that begin with `#` or `?`, which `strtok` would skip, are not sent there.

`Selection.tla` is `config_getHandler`: bind, site by Host header, handler by longest
directory. Its two loops are recursive functions, with `Look` and `Match` as what one round
does. `RightSite` and `RightHandler` say segment by segment which is the right one; a relative
directory, as `isInDir` compares it, holds nothing.

`ConfigParser.tla` is `config_parse`, `config_setLogging`, and the choice of `vlogging`
whether a logger writes a message.

| variable | in the code |
|---|---|
| `file`, `read` | the tokens of the file, how many were read; `currentToken` is the next |
| `state` | the local `state`, with the source's names |
| `config` | `struct config`, filled while parsing |
| `phase` | parsing, rejected (`main` exits), accepted, or serving once the logs are open |
| `logger` | the table of `logging.c` |
| `plan` | what the file is meant to say; `file` is `Printed(plan)`, or that with one token left out |
| `failed`, `ended` | history: a call failed; the end of the file was reached |

| code (`config.c`) | actions |
|---|---|
| tokens that only change the state | `Keyword`, by the table `Keywords` |
| those that allocate or store | `NewBind`, `BindValue`, `NewSsl`, `SslKey`, `SslCert`, `NewSite`, `SiteHost`, `SiteRoot`, `NewHandler`, `HandlerDir`, `Type`, `Index`, `AccessFile`, `ServerFile`, `Verbosity` |
| any other token, or one too long | `Unexpected` |
| `malloc`, `strdup` or `realpath` fails | `AllocationFails` |
| end of file and the checks after it | `EofAccepts`, `EofRejects`, `SslFails` |
| `config_setLogging`, `setLogging` | `config_setLogging` |

A plan is a sequence of entries, settings and blocks of settings; `BindBlocks` and
`LoggingBlocks` say what may stand in what. The end of the file may come after any token, so that
every file is also read cut off at every place. `ReadsTheConfig` compares the machine with
`Declared` and `Readable`, which go by the entries of the plan and know neither tokens nor states.
`Readable` is `Valid`, which does not depend on the order of the items of a handler, and
`TypesFirst`: the code takes an `index` only behind `type = file`. The grammar asks for no order;
`OrderIsFree` holds that against the code, and `config_order` shows it violated.
`HandlerIsChosen` asks, for each bind of a config that is served, all `Hosts` and all `Raws`, plain
paths as a client sends them, which handler answers. `RightSite` asks of the site what
`config_getHandler` does ask: that it serves the host, and that the exact name is preferred, but the
latter only among the sites in front of the break at `config.c:788` (section 10), so that
the property does not tell whether that break is meant. If two binds have the same address and port the
first is found for both, even if only one of them has `ssl`, and the property is about the first.

## 7 Handlers

`Handlers.tla` is one level below a connection: the thread that runs a handler, the child
process of a CGI request, the thread that copies the child's output, the encoder, and the
pipes between them. Several requests run at once, and interact in one way only: no descriptor
is close-on-exec, so that a child inherits the write end of every pipe that is open
when it is forked, and a pipe has an end only when the last holder is gone.

| variable | in the code |
|---|---|
| `pc`, `job`, `head` | where the handler's thread is; what it will write after the head; the status |
| `persistent`, `kind` | `isPersistent`; which handler answers |
| `whole`, `given` | content of the file or output of the program; how far it was read or written |
| `got` | what the header lines of the program said so far |
| `child` | the child process, until `waitpid` |
| `fd`, `copyFd` | `response.fd`; the `to` of the copy thread |
| `thread` | the copy thread (of the pipe `cgi`), the encoder (`enc`), a second one (`again`) |
| `pipe`, `writers` | content of each pipe; the processes that hold its write end |
| `out` | what was written to the socket, item by item; `"lost"` where the socket did not take it |

| code | actions |
|---|---|
| `fileHandler`, `normalizePath`, `status`, `showIndex`, `fuckyouHandler` | `ServePage`, `ServeFile`, `WritePage`, `PageFails`, `WriteFile`, `CloseFile`, `FileReadFails` |
| `sendHeader` | `SendUnchunked`, `SendChunked`, `WriteHead` |
| `cgiHandler` | `StartCgi`, `Fork`, `ForkFails`, `CloseOwn`, `ReadLine`, `ReadBlank`, `ReadMalformed`, `ReadEof`, `Reap`, `StartCopy`, `StartCopyFails`, `Waitpid`, `WaitpidFails`, `Join`, `CancelCopy`, `UsesGarbage` |
| the child | `Exec`, `ExecFails`, `ChildWrites`, `ChildExits` |
| `fileCopyThread`, `chunkedTransferEncodingThread` | `Moves`, `CopierEnds`, `EncoderEnds` |
| the 30 s of `requestThread`, and `cleanup` | `Cancel` |

The socket is non-blocking: `writefd` is a `dup` of a descriptor that gets `O_NONBLOCK`
(`networking.c:1081-1089`), and nobody looks at what `write`, `fprintf` and `fclose` return on it
(`files.c:225`; `util.c:149`, where the bytes are out of the pipe already, and to which
the copy thread falls back when `splice` gets `EAGAIN`; `networking.c:395-397`). When a client reads more slowly than the server writes, and the send
buffer is full, what does not fit is gone and the thread goes on. `Slow` is the set
of requests whose clients may be that slow: each item for one of these is received or lost
(`Received`, `Sends`), whoever writes it. On an SSL connection `writefd` is a pipe that blocks,
as for a client outside `Slow`. `AnswersInOrder` therefore does not say that the client gets
its whole answer. It says that each item stands at its place or was lost there, that nothing comes
twice, early or late around a gap, and that when the response has ended there was a write for
every item of it. For a client that is not in `Slow` that is the answer, whole.

Abstractions. Bytes go one at a time and stand for a buffer of any length; a lost one, for any
part of that buffer. A header line of
a program is one unit of five kinds: one that can be read (a good `Status` among them), a
`Content-Length`, a wrong `Status`, one without a colon, the empty one. A program says at most
one `Status`. Which answer a path leads to is chosen among those the handlers can give
(`Pages`, `Readable`, `Executable`), for the file system is external.

Requests in `Unruly` may meet every failure and the timeout, and their programs may ignore
SIGTERM; the others meet failures of `fork`, `exec`, `stat` and `open`, and programs that
write what is no header, but their `waitpid`, `pthread_create`, `scandir` and `read` succeed. The
properties are about the latter, next to an unruly one: with the former's own faults the
code does what section 10 lists.

## 8 Runs

| run | question | bounds | expected |
|---|---|---|---|
| `list_cleanup` | does a list with one unlinking walker and two appenders keep its promise? | 4 links, 3 threads; deadlock checked | pass |
| `list_shared` | do freeing, back pointers, lock order, passes and the retry of `linked_unlink` survive a second walker and a `linked_destroy` at any time? | 3 links, 3 threads, of which two may destroy | pass |
| `list_dangling` | is a freed link ever touched? | 2 links, 3 threads | `NoUseAfterFree` violated |
| `conn_requests` | is a connection with two requests served, reset and freed, when handlers are in time? | 1 connection, 2 requests | pass |
| `conn_failures` | what survives timeouts, cancellations, failing `pthread_create`, `dup` and `sendHeader`? | 1 connection, 2 requests | pass |
| `reader_cuts` | does the cutting of a byte stream make a difference to the requests read? | 4 lines out of 15, buffer of 2 bytes | pass |
| `config_files` | is a file accepted exactly when it is complete, valid and has each index behind its type, is it read as what it says, and each request for a plain path given to the handler it names? | 136 files, each cut anywhere or with any one token left out; 3 hosts, paths of up to 4 segments | pass |
| `handlers` | does a client get its answer in order, each item once, with nothing missing but what its socket lost, is the child waited for, and does the response end, next to a request that meets every fault? | 2 requests, the one with a slow client, pipes of one byte, 3 and 2 programs | pass |
| `conn_data_freed` | does the data thread lock only live connections? | 1 connection | `LocksLiveConnections` violated |
| `conn_abandoned` | does a connection in `KEEP_ALIVE` have a handler? | 1 connection, handlers may time out | `KeepAliveIsServed` violated |
| `config_order` | is an index taken also in front of its type, as the grammar has it? | the files of `config_files` | `OrderIsFree` violated |
| `conn_dead_holder` | does the holder of `connection->lock` live to unlock it? | 1 connection, handlers may time out | `LockHolderAlive` violated |

Why the bounds suffice. A list operation touches at most three neighbouring nodes; four
links give a first, a middle and a last link and one that is unlinked meanwhile, and
with links never used twice a stale pointer is told from a fresh one. The threads are
the ones the server has: data, cleanup, listen. A connection's hazards are between two
consecutive requests on it (ids and threads left from the first), hence two requests.
Between connections only the two daemons and the lists are shared; that they do not disturb each
other is not left to an instance, the theorems of section 9 hold for any number. A request needs a request line, two
headers that may be the same, and its empty line: four lines, which also give two short
requests in a row; a buffer of two bytes is filled and dumped within every line.
The files of `config_files` have up to three sites in every order of four kinds (nameless, named,
wildcard, named otherwise), two handlers in one site in every order, repeated and missing settings,
and two binds to one address. A pipe of one byte is full after every write, so that each
writer waits at each place where it could; two requests are enough for a pipe to be inherited,
in either direction. The request the properties are about has the slow client, the unruly one
a client that keeps up, as what a client gets concerns no other request. `MaxRequests`, `MaxLines` and `Room` are the only bounds inside a
module. The proofs of section 9 hold without any.

Symmetry is used for links, in runs without liveness only. `CHECK_DEADLOCK FALSE` is set
where the system really stops: after a fault; when all links, connections or requests of the
instance have been used up; when a client has sent all its lines; when the configuration is
read. `list_cleanup` checks deadlock: its walker can always call again.

Fairness. The lists have none: what is checked of them is safety, and that nobody waits in a
circle. `FairSpec` of `Connection` asks weak fairness of each thread as a whole, and of `HandlerReturns`. The kernel schedules every runnable thread; a mutex of this program is
held for a bounded stretch, and in the instance with fairness at most one other thread
competes for it, so weak fairness is what a real mutex gives. `CleanupWake` is always
enabled and fair because the timer raises SIGALRM periodically (`networking.c:1152-1161`).
That handlers return is an assumption on handlers, made only in `conn_requests`; what
happens otherwise is in `conn_failures`, without liveness. Clients, time, `accept`, the
30 s timeout and calls of list operations are never forced there.

`FairSpec` of `Handlers` asks weak fairness of each handler, child, copy thread and encoder,
of what the kernel schedules; of the child it includes that a program ends once what it
writes is read, an assumption on programs. `Cancel` is fair because the timeout comes. What
nobody holds is waited for by nobody else in that module, so weak fairness is enough.
`AllEnds` excepts one case. A handler that is cancelled leaves its child behind, blocked
on a pipe nobody reads; as the child holds the write ends it inherited, an encoder of another
request then waits for ever. Without the exception TLC finds just that.

## 9 Proofs

`tlapm` proves all of this for any sets of links, threads, connections, requests, lines and config files, any
number of requests and any sizes of buffers and pipes, with handlers timing out and calls failing
or not. The assumptions on constants are `ListAssumption`, `ConnectionAssumption`,
`HandlersAssumption`, `ReaderAssumption` and `ConfigAssumption`: which constants are sets of what,
that NULL is none of them, that `Threads` is finite, that a plan is made of blocks as the grammar
has them, none of them a bind to the address `logging`, and that the paths asked for are `Plain`. Where a theorem needs more it says so itself, as a
hypothesis; each is met by one of the runs, and section 10 or a comment says what
goes wrong without it.

`LinkedListProofs.tla`, whoever walks, appends, unlinks and destroys:

* `TypeCorrect`: `Spec => []TypeOK`, by `Typed`, which adds what a thread's locals are at
  each location.
* `LocksAreHeld`: at each location the thread holds the mutexes the code took on the way.
* `CountsAreExact` (`RefCount`): `inUse` of a link is the number of threads that stand at
  it. The count is a cardinality; `MoveHolder` says how it changes when one thread moves
  from one link to another, and every operation is such a move or none.
* `FreeingIsSafe` (`FreedUnreferenced`): a freed link was unlinked and nobody stands at it.
  Inductive only together with `RefCount` (the decision to free reads `inUse`) and the
  ownership of locks (nobody else moves at a locked link): hence
  `Typed /\ Owned /\ Counted`.
* `NothingLeaks` (`NoLeak`): an unlinked link nobody stands at was freed.
* `NoDeadlock` (`NoWaitCycle`): no circle of threads that wait for each other's mutexes, of any
  length. Whoever waits for a mutex holds only mutexes of nodes before it, so that in a circle
  nobody could hold the last of the nodes that are waited for. That the nodes have an order
  (`Ordered`: a rank that grows along `next`, over unlinked links too) is itself part of the
  invariant: a link that is appended gets a rank above its predecessor's.

The two last need more than the counts: a link that is being pushed is known to its pusher only
(`Secluded`), and what a thread that holds a predecessor has checked of it stays so (`Aimed`). All
of it is `Settled`.

`ListShapeProofs.tla` is about where the pointers lead. Its theorems assume `SoleUnlinker`, one
thread at most that calls `linked_unlink`: in the server only the cleanup thread does
(`networking.c:87, 105`), and with two TLC finds `ChainIsMembers` violated (section 10).

* `DestroyIsComplete` (`DestroyLeavesNothing`): after `linked_destroy` no link is in the list, also
  if a `linked_push` was past `list->lock` before.
* `ListIsWhatWasAppended` (`ChainIsMembers`): following `next` meets what was appended and not
  unlinked, each link once.
* `PrevIsNextReversed` (`BackPointers`): `prev` leads the same way back, but for the successor of a
  link that is half unlinked.
* `UnlinksBehindItsPredecessor` (`PredecessorHeld`): past its retry `linked_unlink` has locked the
  member of the list that leads to the link, which is a member too.
* `OneWalkerIsSafe` (`NoUseAfterFree`), if one thread walks and nobody destroys (`Solitary`): no
  freed node is touched. So it is for `connectionsToFree`; for a second walker
  `list_dangling` refutes it. It needs one invariant of its own, `Alone`.

They rest on `Shape`. `Linear` says that each member has exactly one predecessor in the
list and at most one successor, without mentioning the sequence; `Backed` is the same for
`prev`; `Placed` says that a thread that has locked the predecessor of the link it unlinks
stands in the list. Each action changes one or two pointers, so that this is what is
proved step by step, and it speaks of any set of links. `ListIsWhatWasAppended` and
`PrevIsNextReversed` speak of the sequence and assume that `Links` is finite, for `Chain` is cut
off at the number of links; `ChainFacts` shows that this is never too early.

The same module on passes and on the promise, under `SoleUnlinker` as well:

* `ListKeepsItsPromise` (`KeepsPromise`), for finite `Links` and if nobody destroys: the pointers,
  locks and counts implement `ListPromise`. The abstract sequence is `Chain`; appending to it
  and taking one out is shown from what `next` is before and after (`Route`).
* `PassesAreComplete` (`PassIsComplete`): a pass that ends has met every link that was in the list
  from its beginning to its end. The invariant `Passing` says that what is still owed is
  reached by following `next` from the walker's link, which may have been unlinked.

`ConnectionProofs.tla`

* `TypeCorrect`: `Spec => []TypeOK`.
* `UsesAreExact` (`InUseExact`): `inUse` is 1 for the data thread while it is at the
  connection, plus 1 while a request is under way; never more, never lost.
* `FreedAreQuiet` (`FreedIsQuiet`): no thread of a freed connection runs.
* `RequestsDoNotOverlap` (`StartsClean`) and `ServedAreKept` (`ServedNotAborted`), two action
  properties.
* `LifecycleIsKept` (`KeepsLifecycle`): `Connection` implements `ConnectionLifecycle`. Each
  action moves at most one connection, and only along an arrow of the lifecycle
  (`StepMoves`, one lemma per thread); that a busy connection is not freed needs `Freed`.

These rest on one inductive invariant, `IInv`: for each connection, `Served` and `Freed`.
`InUseExact` alone is not inductive: that a use is given up once needs to know who may do
so. `Served` says that an `OPENED` connection, or one being read, has no request under way
and an empty request slot; that the request and response threads run only inside a
request; and, the surprising part, that an encoder thread may outlive the request, but
then the response slot is empty and its late reset comes to `EncoderJoinsNobody` instead of
giving up a use a second time. `Freed` says that while cleanup joins the threads it holds
the lock and the count is 0. TLC checked `IInv` on the instance of `conn_failures`
before it was proved. The proof has one lemma per thread (`DataServed`,
`RequestServed`, ...) and in it one step per action.

The other four properties have an invariant each on top of `IInv`:

* `FreedWithReason` (`FreedForAReason`), whatever times out or fails: what is freed has had its one
  request or was aborted. The state alone does not tell, for a request that was being read when
  its connection was aborted sets the state again. `Reasoned` keeps the reason apart from
  the state and says that `connectionsToFree` has only connections with one.
* `LockIsGivenBack` (`LockHolderAlive`), as long as `~HandlerMayTimeOut`. `Orderly` says that nothing
  is then cancelled while it runs but the request thread in its sleep, and that whoever holds the
  lock across a join is at the place where it unlocks. Calls may fail: the 30 s then do
  end, but only where no other thread of the request runs.
* `KeptAliveAreServed` (`KeepAliveIsServed`), as long as `~HandlerMayTimeOut` and `~MayFail`.
  `Attended` says that a request under way is about to get its response thread, or has one that
  runs, or one that handed over to an encoder that runs, and that a `KEEP_ALIVE` connection has a
  request under way.
* `ThreadsAreReal` (`StopsRealThreads`), under the same two: every slot that is cancelled or joined
  holds the id of a thread (`Named`).

These hypotheses are not for the proof's sake. `conn_dead_holder` and `conn_abandoned` violate the
first two when a handler may time out. The second fails as well when every handler is in time but
the `dup` of an encoder does not succeed, or an encoder or a response thread could not be created: nobody
ends the request, the 30 s run out, and the connection stays in `KEEP_ALIVE`. A failing
`pthread_create` leaves garbage where the third asks for an id.

`HandlersProofs.tla`, for any requests, programs, files and size of pipes (`HandlersAssumption`):

* `TypeCorrect`: `Spec => []TypeOK`; what the pipes and the client hold is typed item by item.
* `ChildIsReaped` (`ChildReaped`): a handler that returns has waited for its child.
* `PromiseIsKept` (`KeepsPromise`): the handlers implement `HandlerPromise`.

They rest on `Inv`, which is `Typed` (with `AllFresh`: what a handler has not come to is as it was
at first) and, for each request that is not unruly, `SinkOrder` (at each location, what `fd`
and `copyFd` lead to), `EncoderOrder` (the server holds the encoder's pipe open exactly as long
as one of the two leads there; its end is therefore after both) and `ChildOrder` (which
location goes with which state of the child). `StepSame` says that the steps of one request
leave all of this alone in another, but for the holders of its pipes, where they add or
remove only themselves.

`AnswersProofs.tla`, under the same assumption:

* `AnswersAreInOrder` (`AnswersInOrder`), for any set `Slow` of clients whose sockets lose what they
  have no room for: what the client was sent is the beginning of the response with each item at
  its place or lost there, and of the length of the response when the handler has
  returned and the encoder has ended. With `Slow` empty it is the whole response.

Every byte goes through up to two pipes and is moved by up to four threads and processes, so
that no single location tells what the client has. `AnswersInv` adds to `Inv`, per request
that is not unruly:
`Queue` (the child's pipe holds the items of `whole` after the first `Taken`);
`SourceOrder` (a program that can still write holds its pipe, so that an end of the pipe means
that all was written); `AnswerOrder` (which answer goes with which kind of request: a page for
a program only if it wrote no header); `HeaderOrder` (`got` is what the lines taken so far
said, and `copy` starts right behind the header); `EncodingOrder` (there is an encoder if and
only if the response has no length and the connection is persistent, and it ends only when
everything was given to it); `StreamOrder` (client and encoder's pipe together hold the first
`Given` items of the body after the head, in order). The data lemmas are about two
sequences that hold consecutive parts of a third (`Holds`, `Carried`), the first of them with
some items lost (`Kept`). There is one lemma per
conjunct for the handler's steps and one for those of the other threads; `SameOrdered`
covers the steps of other requests, `ResponseIs` shows that the stream is `Response`. TLC checked
the conjuncts on the instance of `handlers` before they were proved.

`PathsProofs.tla`, for any bytes and any length:

* `RealpathResolves`: `symbolicRealpath` makes of each `Plain` path what its segments lead to. The
  scan keeps a stack of segments and pops at `..`; `Resolved` asks of each segment whether a
  later `..` goes back over it, by counting. Between the two stands the height of the
  path after each segment (`Altitudes`): `Kept` are the segments after which it never falls back,
  and pushing, skipping and popping are what `Kept` does when the height rises, stays or falls. Then
  an invariant of the scan byte by byte (`InSegment`); the slash behind each kept segment is moved in
  front of the next; and the second loop changes nothing, since no two slashes meet.
* `InDirIs`: `isInDir`, which compares bytes and then looks at the one behind them, holds exactly
  when the segments of the directory, but for an empty last one, are the first of the file's. `/ab`
  is not taken for a path in `/a`.

`ConfigProofs.tla`, for any plans of any size, over any bytes:

* `TheConfigIsRead` (`ReadsTheConfig`): a file is accepted exactly when it was read to the end of an
  entry and what was read is valid and has each index behind a `type = file`, and the config is then
  what it declares.
* `ConfigTypes` (`TypeOK`) and `LogsFollowTheConfig` (`LogsAsConfigured`).
* `HandlersAreChosen` (`HandlerIsChosen`): whatever host and plain path is asked for, the handler
  is the one the config names.

The parser takes one token at a time and a plan is a tree of blocks in blocks, so that
there is no invariant to be read off the variables. `Step` is the parser as a function of its
state, its config and a token, and `Leads(r, x, q)` says that it makes `q` of `r` and the text `x`;
`UnderstoodIs` and `UnexpectedIs` show that the actions do what `Step` says. `Leads` composes, which
gives lemmas for each kind of block, from the inside out: the settings of a handler, the handler,
the site, the bind, the whole. They say what the config is afterwards if the block is valid, and
that the parser fails otherwise, be it for a token that is too long (`LeadsTo`).

What is left is the file that was cut off or lacks a token: it must be taken only where it ends
with an entry. `Route` and `Way` keep of a plan only the states it leads through (`Arrow`), valid or
not, and say that `ROOT` is met exactly where an entry ends. When a token is missing the state of the
parser is, from there on, one arrow short of where the plan would be, or in one of three wrong
places (`Ahead`), and it never comes back to `ROOT` (`StaysAhead`, `NeverRoot`). Hence who reads such a
file and is at `ROOT` has read whole entries and nothing else (`ReadWhole`). The invariant is `ReadInv`: the text read
so far leads to state and config, or to failure where the parser rejects. It is here that a bind
to `logging` is excluded: without the word `bind` in front, `bind logging { }`, which is no valid
entry, becomes an empty logging block, which is one.

`Kinds` is the invariant for the parser's own variables, and `LogInv` says which loggers the table
holds. Of `config_getHandler` each loop has an invariant: `Searched`, by which the site found so far
serves the host and a search that goes on has met one without a name, with `Reaches` for
the sites with the very name, and `Matched`, by which the best handler so far is that of the
longest directory that holds the path. `RealpathResolves` and `InDirIs` turn the bytes these
compare into the segments the client meant.

`ReaderProofs.tla`, for lines of any bytes in any pieces:

* `ModAssigns`, `RemoveTakesOut`: the array that `headers_find` searches from the front is a map.
  No key is in it twice, `headers_mod` assigns one and `headers_remove` takes one out, and what
  `headers_get` returns for any other is what it was, although the array shifts.
* `ReaderTypeOK` (`TypeOK`): with it, the buffer is never filled beyond its end.
* `ReaderReadsWhatWasSent` (`ReadsWhatWasSent`): `metaData` and `headers` say what the complete lines
  say, and the line that is open is kept.
* `ReaderStartsAtEmptyLine` (`StartsAtEmptyLine`): a request starts at its first empty line, and
  the connection is kept or not as it asks for.
* `ReaderDroppedForAReason` (`DroppedForAReason`): no connection is given up for how its bytes were cut.

The inductive invariant is `IInv` (`ReaderInvariant`). `InStep` says that what is held is the
open line of what was taken, and that `metaData` and `headers` are `Told` by its complete lines. It
is more than `ReadsWhatWasSent`, which follows from it by `RequestRead`: `metaData` is exactly what
`headers_metadata` makes of the first line, and every line behind it is a header. `InPiece` says
that `last` is the last byte of the open line: without it a line could end inside the reader
where the bytes sent do not end one, or the reverse. `GoesOn` and
`EndsIt` say what a byte does to `LinesOf`, and the parsing of one line is compared with its reference
definition by `PartsAreWords` (request lines), `ParseSays` and `SetsExactly` (headers) and `AsksIt`
(the `Connection` header). TLC checked `IInv` on the instance of `reader_cuts` before it was proved. All of this
is said while `fault = "none"`, and `StartsAtEmptyLine` and `DroppedForAReason` of every step: the
writes outside an object, where the model stops, are listed in section 10.

On induction. The library's induction theorems take an operator as a parameter, which the
provers cannot instantiate. Where a proof goes by induction over a sequence or a number it
does so on a set instead: the set of numbers that fail has a least member (`Minimum`, from the
well-foundedness of `<`), which gives `Induct` and `InductSequence`. What the recursive functions
`scan` and `FlattenSeq` compute is obtained the same way, from lemmas about recursion over the numbers.

Only model-checked: liveness (`RequestsTakenUp`, `ClosedIsFreed`, `RequestsEnd`,
`AllEnds`), which is out of the prover's reach like everything with fairness. All other
properties of the passing runs are stated by a theorem.

## 10 Divergences

Five runs show the code to do something else than its comments and its README say; `PROJECT.json` quotes
them under "findings". In short:

* `list_dangling`: an unlinked link keeps its `next`, whose target is freed by its own count;
  a walker that stood at the first then touches the second (`linked.c:97, 217`).
* `conn_data_freed`: the data thread locks a connection it holds no use of (`networking.c:699`).
* `conn_abandoned`: a request that runs into the 30 s leaves a persistent connection in
  `KEEP_ALIVE`, which cleanup never frees (`networking.c:667, 72`). So does one whose handler was in
  time, if its encoder could not be created or its `dup` failed: `EncoderGivesUp`, `RequestTimeout`.
* `conn_dead_holder`: the timeout can cancel a thread that holds `connection->lock` in a join.
* `config_order`: an `index` in front of the `type` of its handler is rejected (`config.c:495`), where
  the grammar has the two in any order.

Further ones, met while modelling and described by the actions named, but not stated as
properties:

* The encoder joins the response slot without the test the encoder slot gets
  (`networking.c:319, 322`), also when the timeout has cleared it: `EncoderJoinsNobody`.
* `pthread_create` and its like return a positive error number, while lines 532 and 639 test
  for a negative one: `RequestStartFails`, `SendHeaderFails` go on as if a thread ran.
* `diffms` is computed before the lock is taken (line 69): a line or a reset in between does
  not save the connection: `CleanupNext`, `CleanupAbort`.
* The 408 goes to every `ABORTED` connection that is still open, also to one dropped for a
  request that could not be read (line 123): `CleanupFree`.
* Line 735 says that the CR of a line that ends is in the buffer. It is not when LF follows
  CR LF in the same pass, for `last` still holds the CR; `currentHeaderLength` then goes
  below 0: `LengthWraps`.
* At the end of file line 852 writes one byte past a full `buffer`: `ReadEof`.
* Two threads that unlink neighbouring links can leave one of them in the list, since an
  unlinked predecessor still points to it (`linked.c:172`); the server has one unlinker.
* The error path of `sendHeader` always ends in `strdup(NULL)`, since `minimalErrorResponse`
  passes 0 for a value (`networking.c:433`): `SendHeaderRefused`.

Of paths and configuration:

* `symbolicRealpath` ends its scan one byte early for a relative path, and one more after
  each climb above the root (`util.c`): a `..` so near the end stays. A final `.` or `..` always
  stays, and `..` after an empty segment takes only that one along: `Closed`, `symbolicRealpath`.
* `headers_metadata` allocates by the length of the path as sent (`headers.c:248`): `UriOverflows`.
* The README's grammar lacks the verbosity `critical`, and `config.h` writes "verboseity".
* The first named site after a nameless one that was taken ends the search, also if it does
  not serve the host (`config.c:788`): `ChosenSite`. `RightSite`, and thereby `HandlerIsChosen`, asks
  no more of the search than that leaves. Without a Host header names are compared
  with NULL (`config.c:773`); such requests are left out.
* `freeEverything` frees nothing, for `*length++` advances the pointer (`config.c:35`), and
  `config_destroy` forgets the names of the logs. As a rejected file ends the program,
  `Rejected` has no memory to account for.

Of handlers:

* What the non-blocking socket has no room for is lost, and nobody notices (`files.c:225`,
  `util.c:149`, `networking.c:395-397`): `Received`, `Sends`. A file or an answer larger than the send
  buffer is whole only if the client keeps up.
* A program that exits with 255 is taken for one that could not be executed, and its
  request is answered a second time, with a second encoder whose id overwrites the
  first (`cgi.c:247`): `Waitpid`, `Encoder`.
* The result of `startCopyThread` is ignored, and what was never a thread is joined (`cgi.c:229,
  252`): `StartCopyFails`, `UsesGarbage`. A copy thread that is cancelled is not joined, and the
  descriptor it wrote to stays open (`cgi.c:237`): `CancelCopy`.
* `read` returning -1 is taken for a byte, for ever (`files.c:224`): `FileReadFails`.
* When `scandir` or `fdopen` fails the descriptor stays open (`files.c:53`, `status.c:346`): `PageFails`.
* A failed `fork` leaves both ends of the pipe open, and the read end is never closed at
  all (`cgi.c`): `ForkFails`, `Join`.
* The program is waited for after SIGTERM while the read end is open and nobody reads
  (`cgi.c:211`); a cancelled handler does not even send that: `Kill`, `Cancel`. A child
  left like this can hold up other requests for as long as it lives, and two of them each other.
  `AllEnds` excepts these cases, a child abandoned and a program that ignores SIGTERM; it does not
  tell whether the code is right there.
* `cgi.c:242` says of `WIFEXITED` that it has to be true; it is not for a program that a
  signal ended.

## 11 Not modelled

* The copy threads of `ssl.c`, compiled only with `SSL_SUPPORT`. Four descriptors of a
  connection are shared by two threads, `ssl_closeConnection` and `cleanup`; which of them is
  still that connection's when it is closed for the second time (`ssl.c:167`,
  `networking.c:166-169`) depends on numbers that other connections are given meanwhile, so that
  a model needs the process's descriptor table across all modules above. The two pipes stand
  in `Connection` as the socket.
* The semaphores of `logging.c`. They are held over a `fprintf`; whether a thread can be
  cancelled in there (`logging.c:190`) is up to the C library. Logging is a step that returns.
* Shutdown: `shutdownHandler` frees the configuration in a signal handler, while requests may
  be reading it (`main.c:28`), and exits.
* `headers_free` and `headers_dump`, which release and print the list.
* `malloc` failures outside the configuration, which the code answers by dropping what it was
  about to build; `linked.s`, which is compiler output; `mime.c`, the table of `status.c`,
  `misc.*`, `auth.*`: constants, types and empty files; `test.c`, which was read for what
  it says the code promises.
* External: OpenSSL, the file system, what a child process does but for its output, name
  resolution; the set-up of a listening socket (`networking.c:899-959`), which ends the thread
  or goes on and shares no state; formatting of log lines, status texts and directory listings.
