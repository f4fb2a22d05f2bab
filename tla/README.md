# A TLA+ model of libsimple

libsimple is a small C library (threads, semaphores, a worker pool, a
request/reply thread, a byte ring, an intrusive list, an HTTP message parser,
URLs, TCP with timeouts), an HTTP server built on it (`httpsrv/`) and, under
`tmp/`, a classroom tracking application with its camera control. This directory
holds TLA+ modules translated from that source, TLC configurations for small
instances, and proofs that TLAPS checks for every value of the constants. Paths
below are relative to the repository.

## 1. Inventory

| part | state | operations | what makes it hard | what makes it correct |
|---|---|---|---|---|
| thread pool `src/threadpool.c` | task list under a mutex, semaphore, `quit`, worker ids; a local `task` per worker | create, add_task, destroy, the loop `_thread_proc`; task create/destroy | the wake-up is posted after the unlock, `quit` is read without the lock, handlers add tasks during destroy, `task` is never reset | a wake-up finds a task; one owner per task; order; clean shutdown |
| request/reply thread `src/thread.c` | mutex, slots `req`/`rpl`, two semaphores | create, req, getreq, chkreq, reply, join | the slots have no lock but the protocol; timeouts race requests; join frees everything | each call gets the answer to its own request; calls and join return |
| semaphore `src/semaphore.c` | the count | post, wait, wait_timeout | EINTR is dropped, or returned like a timeout; the deadline arithmetic | a wait ends, with a token or at its deadline |
| mutex `src/mutex.c` | owner | lock, unlock | - | used through its callers |
| ring `src/circ_buf.c` | `buf`, `head`, `tail`, mutex | read, write, two counters | copies in two passes around the end; counters run without the lock | a bounded byte queue; no cell out of range; counts a caller may rely on |
| list `include/simple/list.h` | `prev`/`next` of every cell | init, add, del, splice, exchange, loops | order of pointer assignments when cells coincide; deletion inside a loop | both rings hold the intended sequence |
| HTTP message `src/httpc.c` | start line, header list, `header_cnt`, body | set/get/del value, append/clear body, encode | headers are multi-valued and prepended; every append adds a Content-Length; the encoder must agree with the length it promises | what is encoded can be read back |
| HTTP parser `src/httpparser.c` | line buffer, `state`, `last_state`, the message under construction | `httpc_parser_parse` on a piece of the input | the input is cut anywhere; line folding; body of known length; next message behind it | the message and the bytes used do not depend on the cuts |
| URL parser `src/urlparser.c` | static `_inited` and two compiled expressions, `strtok` state | parse, release | called by all server threads at once; the expressions are compiled in place | each thread gets its own URL |
| descriptor streams `src/fd.c`, TCP client `src/tcpclient.c` | operating system descriptors | open, send, recv, close, with timeouts | a descriptor closed twice or used after close; time left between rounds | one close per descriptor |
| HTTP server `httpsrv/` | listening socket, pool, one `client` per connection, descriptors | accept loop, handle, http_request | a failure half-way through a request; a handler that is through before `add_task` returns; numbers of closed descriptors given out again | every connection is answered or closed once; what it had is released; nobody uses a descriptor of another |
| camera queue `tmp/Ptz.cpp` | task deque, semaphore, mutex, `quit_` | add, worker loop, destructor | shutdown while the worker waits | the destructor returns |
| teacher's tracker `tmp/TeacherPtz.*` | areas, durations, flags shared with the keys | one picture, keys | durations, hysteresis, lost targets, unlocked flags | the camera follows the target |
| close-view worker `tmp/TeacherRunningImpl.*`, `tmp/TeacherAnalyze.*` | points of the last seconds, task queue, semaphore, `state_` | frames, tasks, modes, worker loop, destructor | one semaphore for frames and tasks; a look may queue a task for its own thread; the target is lost on the way | no task without a wake-up; no state without a way out; the destructor returns |
| runners `tmp/Running.*`, `tmp/TeacherRunning.*`, `tmp/StudentRunning.*` | mode, calibration points, mask and its flags, configuration | keys, clicks, one picture | the mask is rebuilt from what it was; keys change the mask under the frame thread | the mask is what the calibration means |
| application shell `tmp/tdt.cpp`, `tmp/Running.h` | window thread, two runners, queues of pictures | open, enable, close, pictures, keys, clicks | start and stop order, two joins on the way; queues without a limit | no runner is used after it is gone; pictures are shown; close returns, or hangs where it is known to |
| picture detection `tmp/StudentDetecting.cpp`, `tmp/TeacherDetecting.cpp` | the frame before, its movement, its regions | one_frame | what is kept from frame to frame | a stand-up takes two frames |
| regular expressions `src/regex.c` | - | - | vendored GNU code | - |

How they interact: the server's accept loop adds one task per connection to the
pool; the task's handler reads the socket, feeds the parser, parses the URL,
fills a message and encodes it. Messages keep their headers on the intrusive
list. The request/reply thread and the pool share the semaphore and the mutex.
The tracking application has its own threads: the program's, which open, close
and bring pictures; the window thread, which takes keys and clicks to both
runners and draws the pictures that wait; and the camera's worker. A picture goes
through the mask to the detection and from there, for the teacher, to the tracker,
which adds tasks to the camera's queue; keys add tasks to the same queue.

## 2. Modules and the code they model

A step of a concurrent module is what one thread does between two accesses to
shared state. Definitions keep the names of the source where a function has one
definition; `PROJECT.json` maps each to its lines. Definitions marked "Mutant"
are the plausible bugs each property is tried against; no specification uses them.

**ThreadPool** (`threadpool.c`). `tasks`, `sem`, `lock`, `quit` are the
`thread_pool_t`; `pc`/`task` the workers; `apc`/`adding` every thread inside
`simple_thread_pool_add_task` (clients, and workers from their handlers);
`main`/`i` the owner in create and destroy; `heap` the life of each `task_t`;
`added`, `popped` and `intr` are history (`intr` counts interrupted waits).
Workers may run while create is still starting the others. A handler (`Body`) may add tasks and then destroys its own.
Clients stop adding before destroy is called (the API gives them no other safe
way), handlers do not. `SemInterrupted` is `sem_wait` failing with EINTR.

**ThreadReq** (`thread.c`), with **Rpc** as its abstract specification: an
atomic call. Callers step through `simple_thread_req`; the working thread runs
the loop that `thread.h` prescribes and chooses getreq or chkreq each time, a
chkreq may time out at any moment; the owner sends the stop request when no
other caller is inside and then joins.

**SemTimeout** (`semaphore.c`, `simple_sem_wait_timeout`): clock, deadline
arithmetic with C's division, `sem_timedwait` (external) with its EINVAL for a
timespec that is not normalised and its EINTR (`Interrupted`), both of which the code
returns like a timeout. The units are constants, so that a second of
six ticks shows what one of 10^9 does.

**CircBuf** (`circ_buf.c`), with **ByteFifo** as its abstract specification: a
bounded queue on which writes and reads are atomic. Each index is stored twice
per pass (past the end, then reduced), and the unlocked counters may load it in
between.

**List** (`include/simple/list.h`): pointers of every cell, assignment by
assignment, compared with the sequence `seq` each list is meant to hold. A loop
(`list_for_each_safe`) is a sequence of steps that may delete as it goes. An
exchange of neighbours is not among the steps: see section 6.

**HttpMessage** (`httpc.c`): a message as a record and its functions as
operators: values are put in front, deletion removes all of a key, every append
to the body sets one more `Content-Length`; `encode` stores characters and
`get_encode_length` counts them, two passes as in the code. A text is a sequence
of characters in which CR, LF, blank and colon stand for themselves and any
other token for a word or a number (`Letters`, `Numerals`), which is all the parser
looks at. The list a deletion leaves is `OnlyIn` of **Filter**, a recursive function,
since the library's `SelectSeq` has no definition a proof could expand.

**HttpParser** (`httpparser.c`): one step is one round of the loop of
`httpc_parser_parse` over the current piece; `pd` is `ParserData` (line buffer,
`state`, `last_state`), `len` what is left of the call, `wire` what the parser
has not used. `DEAD` stands for what the code cannot survive (a memcpy of negative
length). The branch of `appendByte` for the body is never reached and is not
modelled.

**HttpExchange** composes the two: either a message is built with the functions
of `httpc.c` in any order and sent as `send_res` sends it, or another peer sends
one with folded lines, blanks, line ends in the body and a further message
behind it (`input` holds both); the parser receives it cut anywhere. What may stand in
a message is said of any text and assumed of the constants (`ComposerAssumption`,
`PeerAssumption`): words without spaces (`StartLine`, `IsKey`), values and pieces of
folded values that do not end in the middle of a line end (`IsValue`, `IsHeader`), a
Content-Length that is true (`IsMessage`). A value may be empty, a line may be folded
any number of times, and the body and what is behind it may be anything.

**UrlParser** (`urlparser.c`): threads in `simple_url_parse`. The two static
expressions are compiled by whoever finds `_inited` unset (test, two compilations
and the store are separate steps, a compilation or execution has a beginning and
an end; `reg` is cleared where a compilation begins, since `regcomp` builds in place,
and what another thread executes then is gone under it); a URL that does not match
returns nothing (`ExecFails`); `strtok`'s position is one variable; a query is a sequence of pieces, of which
`Strtok` (external) cuts off the first that is not empty.

**TcpClient** (`fd.c`, `tcpclient.c`): the kernel's descriptor table with lowest
free number first, the client's open over the addresses found, its single and
n-byte transfers round by round, and a thread with sockets of its own.

**HttpServer** (`httpsrv/`): the accept loop (`Accept`, then `add_task`: the link under
the lock and the post after it, before which the handler may not run and after which
it may be through), the pool seen as a list and a semaphore (a worker that is woken
runs the first task, which `PoolFIFO` and `PoolSafety` prove of `ThreadPool`), the
worker's `handle` from the first byte to the close, and the peers. `opened` is the
table of descriptors, where sockets and files take the lowest free number; `obj` the
life of what is made for a connection, but for the client struct, which nobody frees.
A response is a number of units to send. The ways out of the code that do no good are
steps too: a URL that does not parse (`UrlFails`), a path without a dot, for which
`strcasecmp` gets a null pointer (`LocalFileNoDot`), a read error, on which
`while (!feof)` goes round (`ReadFails`, and `ReadRecovers` if it ever ends), SIGPIPE.

**Ptz** (`tmp/Ptz.cpp`, `tmp/ptz_oper.h`): the camera's task queue and its
worker. A task is the place it turns the camera to; `Elsewhere` is where moves,
zooms and clicks of the operator leave it. The push under the mutex and the post
after it are two steps; the worker takes tasks until there is none.

**TeacherPtz** (`tmp/TeacherPtz.*`, the keys of `tmp/TeacherRunning.cpp`) on top
of `Ptz`: the frame thread (`Frame`, then `Check`, `Mark`, `Reset`: the accesses
of `set_detected_data` to the flags it shares), the window thread (the two
stores of `set_running_state`, then the turn or the task) and the worker.
`AreaDuration` is `area_`, `dva` (time in the area), `div` (time without a
target), `begun`, `cnt`, `valid_`; times are compared with thresholds only and
stop one above them. `turn` flips with every frame, so that a frame like the last
one is a step and fairness can ask for it. The two stores at the end of the operator's
mode come in either order (`Leave`, `Left`: escape from an edge sets `state_` first).
`disturbed` (the operator moved the camera last), `late` (the worker's first reset
came after the tracker's last request) and `raced` are history.

**TeacherWorkingThread** (`tmp/TeacherRunningImpl.*`, `tmp/TeacherAnalyze.*`):
the worker of the teacher's close view. `datas` are the points the frame thread
delivered in the last seconds, `tasks_` and `sem_` the queue and its semaphore,
`state_` the view. A round of `run` is three steps (`Wait`, `Look`, `DoTask`);
`trytrace` analyses the points, runs the state's function and, when the target is
away too long, adds a reset to the queue of its own thread. `last_valid_stamp`,
which the code reads uninitialised when no point is valid, is any value.
`hvec < width * 2 / 3` keeps its sign and its integer division.

**Running** (`tmp/Running.*`, `tmp/TeacherRunning.*`, `tmp/StudentRunning.*`,
`TeacherPtz`'s edges): a runner, the teacher's or the student's. A picture is a
row of columns, an area and a mask are sets of them. A handler of keys is cut
where it touches what the frame thread reads (`state_`, `enable_mask_` and the
mask); `hpc` is where it stands. `build_mask` keeps the code's use of `masked_`, which
speaks of the mask before. `do_mask` and `one_image` are the frame thread's two
steps. `meant` and `removed` are history.

**Application** (`tmp/tdt.cpp`, the `WindowThread` of `tmp/Running.h`) on top of
`Running`: opening (window thread first, then the two runners), the flag of
`tdt_enable`, closing, the four ways a picture comes in, and the window thread's
loop. `waiting` says which of the four queues hold pictures. A runner that is
used when it is not there sets `crashed`. Deleting a runner joins the worker of its
camera: either that worker sees `quit_` (`Delete`) or it sleeps and the join does not
return (`JoinForEver`, runner "stuck"); which of them is module `Ptz`'s matter.

**StudentDetecting** (`tmp/StudentDetecting.cpp`): `one_frame` from the vertical
movement of each cell of the picture (the optical flow is OpenCV's) to what it
returns, with the movement and the regions it keeps for the next frame.

**MCLibrary**, **MCHttp** and **MCApplication** put parts that do not call each
other beside one another: `subject` says which of them a behaviour is about, and
nothing else moves in it. The runs are those of the parts; the states add up.

## 3. Runs

| run | what it shows | bounds |
|---|---|---|
| `pool` | wake-ups match tasks (`TokenCount`), each task has one owner (`Ownership`), first in first out, clean shutdown; destroy returns, a listed task is served or the pool destroyed | 2 workers, 2 clients, 2 tasks, 1 interrupted wait: workers compete while two threads add, a handler adds the other's task |
| `req` | the slots are never shared (`Handshake`), each call gets its own answer, nothing touches a joined thread, the whole implements `Rpc`; calls and join return | 2 callers, 2 calls each, 1 interrupted wait |
| `library`, semaphore | a timed wait fails early only when a signal interrupts it or the nanoseconds add up to exactly one second | seconds of 6 ticks, clock to 15: carries, exact seconds, zero and negative timeouts; 2 signals |
| `library`, URL parser | no expression is executed before it was compiled, or while another thread builds it anew, unless two threads found `_inited` unset together; a URL has its own pairs unless two threads were in `_parse_query` at once | 2 threads, 2 URLs each: first and second use of the expressions |
| `library`, TCP client | transfer counts are exact; no socket is left behind | 2 numbers, 2 addresses, transfers to 3 bytes, 4 sockets |
| `library`, lists | both rings hold the intended nodes after every operation; the safe loop visits all | 2 lists, 3 nodes |
| `library`, ring | a lone side may rely on its own count; the ring implements `ByteFifo` (no pass crosses the end: a read would return a byte that was not written) | 3 cells, a writer and a reader, lengths 0 to 2 (a write of two wraps around and may find one cell), 2 bytes |
| `http`, messages | what is parsed is what was sent, however it was cut (`Faithful` for another peer, `RoundTrip` for `httpc.c`); a whole message is found complete | pieces of 1 or 2 characters (every cut is made of them), 2 headers set, bodies to 4 characters, other peers' messages of 3 headers |
| `http`, server | what a connection had is released, nobody uses a descriptor of another (`OwnDescriptor`), a response without a fault is sent whole, every connection is closed unless the process has ended, its file cannot be read or no worker is left for that reason | 2 workers, 2 connections, 3 descriptors (one fewer than two sockets and two files need, so that numbers come back and run out), heads of 2 units, files of up to 1 block |
| `tracking` | the area stays in range; at rest the camera points where the tracker believes, or at home after a late first reset; a target that stays away or stays put (frames that are all the same count) is followed to the end, but for one race | 4 areas of 4 columns and a strip of 3; the target where two areas overlap (11), in the last (14), in the strip (18); every threshold 1 (exceeded by the second frame), 3 keys (into the operator's mode, a move, out again), `MaxTasks` 1 (a post or task waiting stops new frames and keys, those begun still push) |
| `working` | a wake-up for every task, resets do not pile up, the way to the close view ends, the destructor returns | see `MCTeacherWorking.cfg`: few columns, the points of a short time, `MaxTasks` tasks of the operator's |
| `application` | a key meets a missing runner only during `tdt_open`; the mask follows the last calibration; every picture for a window is drawn; `tdt_close` returns or hangs in the join of a sleeping camera worker, and nowhere else (`EndsOrSleeps`); a stand-up takes two frames | 2 columns, areas of 1; `Corners` 1 for the code's 4 (fewer and enough are the two cases); opened 2 times; settings that give pictures with 2 keys, or no pictures and 3 or 4 keys (two calibrations, begun, confirmed or cancelled); 3 cells for the students |
| `tcp_open` (violation) | `_connect` closes the socket it was given; the opened client holds a closed number | as above |
| `tracking_race` (violation) | that race: the camera stays where the operator left it | as above |
| `working_left` (violation) | a target that only walks to the left begins the close view | as above |
| `edges` (violation) | during a calibration the mask is away but the tracker goes on: a person outside the edges fails its assert | as above, one opening |
| `removed` (violation) | a calibration confirmed with too few points does not remove its area | as above, one opening |

Deadlock is checked except where the system really stops: in the runs that join
several parts, whose bounds on calls are used up (a message parsed, URLs,
sockets, connections served), the application closed for the last time or ended by
an assert, the tracking after `Close` or after the assertion of an area out of
range, the worker after its destructor.

Properties of the form "unless ..." name their exception, with a history variable
that the code's fault sets (`intr`, `signals`, `overlap`, `raced`, `disturbed`, `late`,
`removed`) or with the place where it is stuck (a worker of the server in "error", a
runner "stuck"); section 6 says what happens in each exception. They do not show that the
code survives it, only that nothing else breaks what they say.

## 4. Fairness

Weak fairness of each thread's own steps: the code's threads are operating
system threads that keep running when they can. Calls from outside (adding a
task, making a request, destroying the pool, pressing a key) are not fair:
nobody has to make them. In `ThreadPool` handlers return, which is the user's
obligation; without it destroy rightly blocks in join. In `HttpExchange` the
receiver reads on. In `HttpServer` a peer sends
its request or goes away in the end: the server has no timeout on a request, and
a silent peer keeps its worker; a file that cannot be read need never recover. In
`TeacherPtz` frames keep coming, be they all the same, and a key's
handler that has begun is finished. In `TeacherWorkingThread` frames are delivered
while the worker lives, the camera turns, a destructor that has begun goes on. In
`Application` the window thread runs (`WindowRuns`: no key and no click need
come) and a `tdt_close` that has begun goes on, to the end or into a join. Semaphores and mutexes are not assumed to be
first come, first served; where a liveness property needs a caller to get the
mutex, the number of calls is bounded, so the others finish.

## 5. What is proved

`ThreadPool_proofs` (any number of workers, clients and tasks, any number of
interrupted waits; what depends on waits holds until the first interruption):

* `TypeAndControl`: types, mutual exclusion on the list, and the phases of create
  and destroy; `TypeOK /\ Control` is inductive by itself.
* `PoolSafety`: `TokenCount` (also by itself, `PoolTokens`), `Ownership` and
  `NoUseAfterFree`. The inductive
  invariant is `TypeOK /\ Control` with `intr = 0 => Tokens /\ OneOwner`
  (`TokenCount`, `Ownership` and `NoUseAfterFree` are `intr = 0 =>` `Tokens`,
  `OneOwner` and `LiveTasks`; `LiveTasks` follows from `OneOwner`).
  `Tokens` carries the argument: as long as `quit` is not set the tasks on the
  list are exactly as many as the semaphore, the workers that took a wake-up and
  have not unlinked, and the adders that have still to post account for; so a
  worker that locks the list finds a task on it and never falls through with its
  stale `task`. The cardinalities are handled by two lemmas on adding and
  removing one element.
* `PoolFIFO` and `PoolNoStartAfterQuit` without exception, `PoolShutdown` from
  the same invariants.

`ThreadReq_proofs` (any callers, requests, number of calls and interruptions):
`ReqHandshake`, where the inductive invariant lists the stages of an exchange
(who may touch the slots, what they hold, the two semaphores), serial use of the
mutex without exception and the slots until a wait is interrupted; `ReqSafety`,
that a call returns its own answer until then (by itself: `ReqOwnAnswer`), and that
nothing touches a joined thread at all; `ReqImplementsRpc`, the step simulation of `Rpc`.

`Application_proofs` (any runners, configurations, marked areas; the window thread
at any point of a handler): `ClosesInOrder` and `MaskIsMeant`. The inductive
invariant is `MaskInv`. `Order` and `KeyOrder` tie the life of the runners to the
window thread, which is joined before they are deleted. `MaskStages` follows a
handler through its stages, since between them the mask is neither the old one nor
the new one. `MaskFollows` alone is not inductive: `build_mask` starts from `masked_`
as the previous calibration left it, so the lemmas `BuildOne` and `BuildTwo` need that
the flag is only set while a polygon is there, which is what `removed` records.

The module also proves `StandUpTakesTwo` of the students' pictures. What
`StandNeedsTwo` says of two frames is inductive with `Kept`: the regions kept from
the last frame move up fast in the flow of that frame, which is kept beside them.

`TeacherWorking_proofs` (any columns, durations and bounds): `TasksHaveTokens` and
`ResetsDoNotPileUp`, together in `QueueInv`: the semaphore saturates (`MaxSem`), so a
post may add nothing, and `HasToken` then needs that the queue is shorter than a
full semaphore, which is `NoPileUp` and `MaxSem > MaxTasks`.

`CircBuf_proofs` (any size, threads, bytes and lengths): `OwnCountHolds` and
`RingImplementsFifo`, from one invariant, `RingInv`. `Locked` says which index may be
unreduced and when. `Passing` says of an operation half-way, from where it began
(`start`), how much it has moved, where that lies in the ring, and that it goes on
only when it met the end: without it the second pass could store anywhere.
`Loaded` is what makes the count inductive: a count that is under way has loaded one
index, and what it would count with it is at most what is there, since only the
other side has moved. For the refinement the abstract queue is what the ring holds
between the committed indices (`ContentsIs`); an operation takes effect where it
unlocks, where `Grows` and `Shrinks` say what the queue gained or lost, and every
other step leaves the queue as it was (`PassBeyond`, the cells stored so far are
beyond it, and the lemmas named `Unseen`). The arithmetic of the indices
(`CntIs`, `SpaceIs`, `Pieces`) is proved once for reduced and unreduced ones.

`Library_proofs`, three parts that do not call each other:

* The TCP client (any descriptors, addresses, lengths): `CountsWhatMoved` and
  `LeavesNoSocket`. `TcpInv` adds to `CountsAll` that while a transfer runs `moved`
  and `rest` make up its length (`Moving`), and that the only socket of the client
  is the one it connects (`OwnSocketOnly`), whatever another thread takes or loses
  meanwhile.
* The semaphore (any units, clock and signals): `EarlyInTwoCases`, from the arithmetic
  of the deadline: the timespec the waiter holds is normalised in all cases but one.
* The intrusive list (any heads and nodes): `ListsRepresent` and `LoopsVisitAll`, when
  neighbours are not exchanged. `ListInv` is `Lists` and `Looping`. `Once`: a node is
  in one place of one list, which the code leaves to its callers and the guards
  state; without it the assignments of one list could reach into another. `Rings`:
  the pointers of every list, position by position (`Ring`). `Looping`: the nodes not
  yet visited are the end of the list, and the node looked ahead is the second of
  them. One lemma for each shape of change (`Insertion`, `Removal`, `Splicing`,
  `Exchanging`) says what the assignments make of one ring, one (`RingKept`) that
  other rings do not notice; an empty list, the first and the last place, where the
  cells that are assigned coincide, are cases of the same position arithmetic.

`Http_proofs`, what belongs to HTTP:

* The server (any workers, connections, descriptors and sizes): `OwnDescriptors`,
  `AllReleased` and `WholeAnswers`. `ServerInv`: a connection is main's, in the list once,
  or with one worker (`Placed`); the number of a connection that is open is open for its
  socket, and that of a worker's file for its file (`Held`), so that a number given out is
  nobody's; what a worker has allocated and sent of its
  connection follows from its place in `handle` (`Stages`); before and after nothing of it
  is there (`Ends`). The three properties speak of connections that are closed or handled;
  alone none is inductive, since faults, complete answers and files join before the
  release and only `Stages` says what each of them brings along.
* The URL parser (any threads and queries): `CompiledFirst` and `PairsAreOwn`. `UrlInv`
  says for each place a thread can be in what has been compiled by then (`Prepared`), and
  that whoever compiles is alone in it and `_inited` is not set; `raced` is what excuses
  it, since a second compilation takes away what others execute.
  `QueryInv` cuts the query of a thread in `_parse_query` in two (`Half`, `Kept`): the part
  `strtok` has gone through, whose pairs the thread has, and the part it has still to go
  through, which is what its copy holds. As long as no two threads were in there at once
  `strtok`'s position is in the copy of the one that is (`overlap` is the exception).
* The exchange (any texts, headers, folds, bodies and cuts): `PeerIsUnderstood`,
  `ComposedArrives` and `ParserSurvives`. `ExInv` has two parts. `Sound` is kept by the
  functions of `httpc.c`: every header can be sent, those that `appendBody` adds too. Once
  a message has been sent, `Reading` holds of the parser, whichever side composed it
  (`Source`): the parser's line buffer and what it has not used are together a line of
  that message, its CRLF and all that comes behind (`InText`), and the message under
  construction is what the lines before it mean (`Parsed`). A folded line goes through
  this once for each of its pieces: dropping the CRLF and the blanks leaves the buffer with
  the value so far (`SoFar`) and the next piece ahead (`Follows`). That a CRLF is only met
  where a line ends (`Tidy`) is what the assumptions on texts are for, and why no cut of
  the input matters. In the body, what is there and what has not been used make up the
  body that was sent; and a parser that is `DEAD` has met a header without a value
  (`NoValue`), which no composed message has. The lemmas before it say what the parser's functions return: words,
  blanks and colons (`StartLineParsed`, `HeaderLineTaken`), that `encode` writes as many
  characters as `get_encode_length` counts, and that the first match of the reversed
  headers is the oldest.
* What these need of sequences. tlapm cannot instantiate the library's induction
  theorems, so induction over the naturals is proved here in a form about sets, from
  `FS_StrictSubsetOrderingWellFounded` and `WFMin` (`LeastElement`, `Induction`), and from
  it that a recursive function over `0..N` exists and has its values (`Iteration`).
  `OnlyIn`, `FlattenSeq` and the sum in `get_encode_length` are unfolded with it.

`TeacherPtz_proofs` (any areas, widths, durations, places of the target): `AreasExist`,
`CameraIsWhereBelieved` and `NeverAsleepOnATask`. `PtzInv` keeps beside the types and the
area the one task or place the camera will have come to (`Heads`): the last task in
the queue, else the one being done, else where it is, which is where the tracker believes it
to be, or home after a late first reset, unless the operator moved it last; and that a queue with a task
has a post done or still to come, or a worker that looks again (`Woken`). `AreaExists`
is the arithmetic of `area_changed`: from an area that exists the target leads to one
that does, unless it is in the strip.

Assumptions are the named ASSUMEs of the modules; TLC evaluates them on every
run. `ListsRepresent` and `LoopsVisitAll` assume besides that `AdjacentToo` is FALSE,
which is how the run has it (section 6).

Every invariant and every safety property of the passing runs is a theorem. Only
model-checked: liveness under fairness, which is out of the prover's reach
(`DestroyReturns`, `TaskServed`, `CallReturns`, `JoinReturns`, `Completes`, `AllClosed`,
`Settles`, `ReachesClose`, `DestructorReturns`, `ShownAll`, `EndsOrSleeps`). The
properties of the violations are counterexamples of TLC's.

## 6. What the code does in the exceptions, and what is not modelled

Seen while modelling; each is a step of a model unless it says otherwise.

* `semaphore.c:72` drops the EINTR of `sem_wait`. A pool worker then finds the
  list empty and runs its previous, destroyed task again (`threadpool.c:69`); a
  request returns without its answer (`thread.c:113`).
* `semaphore.c:90`: nanoseconds that add up to exactly one second are not
  carried; `sem_timedwait` refuses them and the wait fails at once. Line 96: a signal
  ends the wait with the result of a timeout.
* `list.h:40`: `list_exchange` of two neighbours makes each point at itself (not
  a step of `List`, whose callers exchange other nodes).
* `httpparser.c:120`, `133`: an empty header value makes the length of a copy
  negative (`DEAD`), a key of one letter is never copied. A line of one CR before
  its line end, a blank line that is folded and a leading blank line are read in
  ways no test covers (not sent by the model's peers).
* `httpc.c:205`: `encode` stores one character more than its length says, which
  the caller cuts off. `header_cnt` never falls, and clearing or appending the
  body leaves older `Content-Length` headers, the oldest of which counts.
* `urlparser.c:86`: two threads in `_parse_query` share `strtok`'s position, and
  one goes on in the other's query; `urlparser.c:108`: two threads may compile
  the same expression, and the second clears what the first has compiled and
  executes (`regex.c:4754`).
* `tcpclient.c:59`, `85`: the socket is closed by `_connect`, and closed again
  when it failed; in between the number may belong to another thread.
* `client.c:66` answers a request before its body has arrived; the `client`
  struct is never freed. `httprequest.c:140`: `while (!feof)` does not end on a read
  error, and the worker is lost for as long as that lasts. `httprequest.c:80`: a path
  without a dot ends the process, as may SIGPIPE.
* `TeacherPtz.cpp:296`: the race of `tracking_race`; `Ptz.cpp:91`: the worker's
  first reset may come after the first area, and the camera stays at home until the
  target walks into another (`late`); `TeacherPtz.cpp:272`:
  the tracker moves the camera under the operator's hand; `TeacherPtz.h:78`:
  single frames with a target add to the time in the area while there is none,
  so `is_stable` may come early; `Ptz.cpp:29`: the destructor joins a worker that
  nobody wakes, and with it `tdt_close` hangs (`tdt.cpp:58`).
* `TeacherPtz.cpp:177`, `188`: a width that the areas do not divide leaves a strip at the
  right end; a target first seen there fails the assert, one that walks there from the
  last area makes the code read past its tables (`Abort`: the model says nothing of
  what follows).
* `TeacherRunningImpl.cpp:440`: the sign of `working_left`. Every frame posts, so
  `sem_` grows while looks are slow; `TO_CLOSE` and the close view are not left
  because the target is lost, only because a valid point or the camera says so.
* `TeacherRunning.cpp:74`: the assert of `edges`; the edges are loaded at the start
  only, so a calibration of this session does not move them. Line 240 (and
  `StudentRunning.cpp:324`): what `removed` shows. One key goes to both runners, so
  one Enter confirms, and one Escape cancels, what either is doing. A confirmed
  calibration makes a mask although the setting `mask` is 0; the mask of 'c' is
  not the one built at the next start unless `hog_enabled` is set.
* `tdt.cpp:44`: the window thread runs before the runners exist and `handle_key`
  has no test for that (`crashed` while opening). A runner whose windows are not
  shown, or that has none, queues its pictures all the same when there is a window
  thread; nobody draws or drops them.
* `StudentDetecting.cpp:154`: the position of a stand-up is counted from the corner
  of its region, where `StudentDetecting.h:13` says position in the picture and
  lines 128 and 190 add the corner. `get_real_down_speed` is negative, so the second
  threshold for sitting down lets all pass; `get_real_down_area` is not used.

Not modelled: the Windows branches; the vendored regular expressions (a
compilation is one step with a beginning and an end); recursion of the mutex (no
caller locks twice); reading and writing of descriptor streams, which only pass
on; OpenCV itself: optical flow, background, contours, distances from the camera;
allocation failure (the code does not check malloc); the smooth mode of the
tracker (its `handle_valid_data` uses a variable that is not declared); the
student's camera, whose keys repeat the teacher's; clicks in the trace windows,
what is drawn into pictures and the window "movie output"; the vertical axis,
`set_hog_size` and the testing state of `TeacherRunningImpl`, which nothing creates
at this commit; `async_io.h`, a header without an implementation.

## 7. Plan

1. `HttpServer` composed with `ThreadPool` itself instead of its queue, and the proof
   that the pool implements that queue.
2. `Application` composed with `TeacherPtz`: the keys of both in one window thread.
