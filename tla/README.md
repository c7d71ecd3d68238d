# little-learning: specifications, model checking and proofs

This directory holds TLA+ models of the parts of *little-learning* in which
the order of events matters, the TLC configurations that check them on small
instances, and proofs, checked by TLAPS, of what holds for every instance.
Paths below are relative to the repository (`src/`).

## 1. The system

The repository is a collection of exercises in C++ around one program, a small
networked database on top of leveldb.

| Part | State | Operations | Who shares it |
|---|---|---|---|
| **ProducerConsumerQueue** `levelDb/util/inc/ProducerConsumerQueue.h` | an array of slots, two atomic indices | `write`, `read`, `frontPtr`, `popFront`, `isEmpty`, `isFull`, `sizeGuess`, destructor | one producer and one consumer thread, without a lock |
| **BlockingQueue** `code/inc/concurrent/BlockingQueue.h` | a queue of ints, a mutex, two condition variables | `put`, `pop`, `size` | any number of threads |
| **TaskQueue** `levelDb/repo/inc/TaskQueue.h` | the ring, a mutex, two condition variables | `write`, `read` | the event loop writes, the executing thread reads |
| **Server, event loop** `levelDb/db/src/DbServer.cpp`, `DbClient.cpp`, `levelDb/db/inc/DbClient.h` | the map of clients; per client its input and output buffers, parser state, exit flag, two libevent events | callbacks `acceptEventHandler`, `processInput`, `reply`, `reReply` | runs the callbacks one at a time; shares map, buffers and flag with the executing thread |
| **Server, executing thread** `DbServer.cpp` | the task in hand | `dataUpdate_Entry`, `handleTask` | takes tasks, fills output buffers, signals descriptors through an eventfd |
| **DbProxy** `levelDb/db/src/DbProxy.cpp` | the leveldb database | `set`, `get`, `del`, `handleCmd` | the executing thread; `get` assigns into the client's output buffer |
| **Query parser** `DbClient.cpp` | input buffer, position, counts | `processQuery`, `parseQuery`, `parseBulkQuery` | the event loop |
| **Client program** `levelDb/client/client.cpp` | – | connects, writes one query, blocks for the answer | the network |
| **SpinLock, CasLock** `code/inc/concurrent/SpinLock.h` | one flag | `lock`, `unlock` | the threads of `ftest/src/FtConcurrency.cpp` |
| **Thread, Singleton, ThreadLocal** `code/*/concurrent/` | handles, a semaphore; one instance; one value per thread | start, move, join, detach; `getInstance`; `get` | creator and created thread |
| **LFUCache, LruCache** `code/inc/algorithm/` | map and ordered set, map and list | `get`, `put` | sequential |
| **StringMatcher** `code/inc/algorithm/StringMatcher.h` | pattern, failure table | `match`, `matchAll` | sequential |
| **ttcp and echo** `example/net/` | a session | blocking reads and writes | client and server |

How a request travels: the event loop reads it (`processInput`), puts a task
into the task queue, the executing thread takes it, runs it against leveldb,
appends to the client's output, and adds the client's descriptor to an
eventfd; the eventfd wakes the loop, whose `reply` writes the output, and
`reReply` the rest of it once the socket is writable again.

What is hard about it:

* **The ring** is correct only if each side may act on an old value of the
  other's index, if answers do not turn false before they are used, and if the
  indices wrap at the same point in five places.
* **The two blocking queues** must not lose a wake-up. BlockingQueue does all
  under its mutex; TaskQueue publishes and notifies outside of it.
* **The server** shares a client's output and the map between two threads
  (the lock in `reply` and `reReply` is a temporary that is released at once),
  passes descriptors through a counter that adds them up, and refers to
  clients by descriptors that the kernel gives away again.
* **The query parser** keeps a position, counts and a buffer from one read to the
  next, for requests in several forms; a batch of commands may stop half way.
* **Thread** hands its object to a thread that goes on reading it, while the vector
  that holds the object may move it.
* **The algorithms** are exposed to long sequences of calls (caches) and to partial
  matches (matcher).

`PROJECT.json` lists every hazard at its line under `hazards`.

## 2. Modules

| Module | What it is |
|---|---|
| `BoundedFifo` | abstract: what a bounded FIFO queue promises, blocking or not |
| `SpscQueue` | the ring of ProducerConsumerQueue.h |
| `SpscQueueProofs` | its invariant and properties; that it implements `BoundedFifo` |
| `BlockingQueue`, `BlockingQueueProofs` | the monitor, and its proofs |
| `TaskQueue`, `TaskQueueProofs` | extends `SpscQueue` with the mutex, the condition variables and the calls of TaskQueue.h; its proofs |
| `DbServer`, `DbServerProofs` | event loop, executing thread, clients, descriptors and eventfd; proofs of its safety properties |
| `QueryParser` | the input side of a `Client`: `processQuery` and its two parsers |
| `DbProxy` | extends `QueryParser` with who writes requests and with the commands on the database |
| `DbProxyProofs` | from the text of a request to its answer: proofs about both |
| `SequenceLemmas` | induction and recursion over numbers, joined sequences: what those proofs need |
| `Threads`, `ThreadsProofs` | the class Thread and CasLock under the tests of FtConcurrency.cpp; proofs |
| `Cache` | abstract: a cache of bounded size, and which key it gives up |
| `CacheParameters` | keys, values and capacity, which the two caches share |
| `LfuCache`, `LruCache` | LFUCache.h and LruCache.h |
| `StringMatcher` | `KmpMatcher::match` of StringMatcher.h |
| `AlgorithmProofs` | proofs of the invariants and refinements of the two caches, and about the matcher |
| `MC*` | instances for TLC |

Definitions marked `\* mutant` are not part of the models. Each is a plausible
mistake in the definition that follows it (a check left out, an index not
wrapped, one sleeper notified in place of all); replacing that definition by
it makes a property fail, which shows that the property can.

### SpscQueue

One action per access to shared memory, so that `write` is
`WriteBegin; WriteConstruct; WriteStore`, `read` is
`ReadBegin; ReadMove; ReadDestroy; ReadStore`, and `popFront` is
`PopFront; PopDestroy; ReadStore`. A slot holds an item, nothing (`Raw`), or
an object that has been moved from.

*Memory order.* A thread knows its own index. Of the other's index it may load
any value between the one it saw last and the newest: `seenRead` and
`seenWrite` are what a load would give now, and `SeeRead` and `SeeWrite` let
stores become visible, singly or several at a time. The stores are releases
and the loads acquires, so the contents of the slots are as the store left
them. A call that finds the queue full or empty changes no shared state and is
no step. Indices are unsigned 32-bit numbers below `size_`, so that they cannot
overflow; `sizeGuess` computes their difference as an int, which is right for
fewer than 2^31 slots.

### BlockingQueue

A thread's `pc` goes through the mutex, the predicate, the sleep and the
notification. The wait with predicate evaluates it under the mutex and gives
the mutex up in the same step as it falls asleep, which is what
`condition_variable::wait` guarantees. `Spurious` wakes a sleeper for no reason.

### TaskQueue

Extends `SpscQueue`, and its ring actions are those of `SpscQueue` conjoined
with the control of TaskQueue.h. `wctl` and `rctl` say whether a side is on
the lock-free attempt (`fast`), at the mutex (`lock`), in the predicate
(`pred`), past a predicate that said no but not yet asleep (`drowsy`),
`asleep`, or notifying. Between `drowsy` and `asleep` lies the window of the
lost wake-up: the sleeper still holds the mutex, but the notifier does not ask
for it. `handedRead` and `handedWrite` carry the memory order of the mutex: who
acquires it sees at least what was stored before it was released.

### DbServer

A callback of the loop is one action up to a `write()`, and further actions for
what it makes of the result, because the executing thread may run in between.
`owner`, `pollIn` and `pollOut` are the kernel's books (which connection a
descriptor denotes, what epoll reports of it), `clients` and `pendingOut` those
of the server and of libevent; the model keeps them apart because closing a
descriptor changes the first and not the second. `counter` is the eventfd.
Requests are whole and one per read, answers are units of output: the value
that `Get` assigns, the status that `handleTask` appends. A "get" of a missing
key, a "del" and a failing command append a status only, as "set" does. `due` is a
history variable: what each client should be sent for all it has asked. No step reads it.
The first branch of `processInput`, for a descriptor without a `Client`, is left out: the
only descriptors that are watched are those of the map, which `Known` says and the proofs
show.

External parts (sockets, epoll through libevent, the eventfd) are modelled from
their use: the least free descriptor is accepted, `close` makes epoll forget a
descriptor, `event_add` of a pending event does nothing, one-shot events are
removed before their callback runs.

### QueryParser and DbProxy

Text is a sequence of characters here, because lengths and the places where a read
ends are what the parser is about. Parsers are functions from the parser's part of a
`Client` (buffer, type, position, count, length, words) to the same and what they
return: `task`, `wait` for the -1 that leaves the rest to the next read, `throw` for
the exception of `stoi`, which nothing catches. `Stored` is what `processQuery`
does: it enlarges the buffer and reads to its *front*, whatever was kept there.
`Bulks` and `Words` are the loops of `parseBulkQuery` and `parseQuery`, as recursive
functions.

`DbProxy` adds the writer of requests, in four forms: a line that ends with LF or
with CR LF, an array with a tail of zeros as in the comment of `client.cpp`, and the
file `query.txt`. `TakeTask` and one action per command follow a task word by word,
as `handleCmd` does; `Answer` is the status of `handleTask` with what `get` left in
the output. The task queue is taken to be a queue, and the output to be sent when
the status is appended: `TaskQueue` and `DbServer` are about these two. leveldb is a
function from keys to values, and may refuse to write (`faults`). What the command
"exit" does to a connection is in `DbServer`: here, where only what is left of a cut
request could spell it, it is one more invalid command.

### Threads

One thread per element of a vector, as in the lock tests, or of local variables (room
for all from the start, as in `thread_local_data_`). `mem` holds the `Thread` objects
at their places, a place being a storage of the vector and an index in it. A vector
without room constructs the new element in new storage, waits in its constructor, then
moves the older elements one by one; the move constructor is two steps, since a thread
may look at its old object in between. A thread notes its tid and posts (`Post`), asks
for its argument (`Test`) and calls its function (`Call`), each through the pointer that
it was given. What it finds where no object is counts as nothing, and a call of
nothing as the end of the process. Then it takes the lock, increments in steps of one
load and one store, and gives the lock back. 10000 increments are `Rounds`.

### LfuCache, LruCache and StringMatcher

The caches are sequential: one action per call and outcome (`get` of a key that
is there, `getMissing`, `putPresent`, `putNew`, `putEvict`). What could go wrong is
in the containers, so these are modelled with what their operations really do.
`insert` into the ordered set of LFUCache does nothing if an equivalent element is
there and returns that one's position, after which `erase` would remove a wrong
element; that this never happens is a consequence of the times being distinct. An
iterator into the set is the element it stands at. The list of LruCache has nodes
with identity; a hit makes the new node before it erases the old one, an
eviction erases first, so the node may be the same place in memory. The names of
`LruCache` begin with `lru` or `Lru`, so that one instance can hold both caches.

`Cache` is the reference for both: the resident keys, their values, what their uses
count, and who was used before whom. With `worth = 1` the victim is the key with the
fewest uses, and among equals the longest unused; with `worth = 0` uses count
nothing, and it is the longest unused. -1, which `get` returns for a missing key,
is kept apart from the values: a caller that stores -1 cannot tell them apart.
Capacity 0 is refused by `LFUCache::put`, and undefined in `LruCache::put`, which takes
`back()` of an empty list: `LruAssumption` excludes it. A negative capacity of LFUCache,
compared as an unsigned number, is no bound at all, and is left out.

`StringMatcher` has one step per letter of the text. The table `dfs` is zero
everywhere, since nothing calls `computeDfs`; the inner loop therefore runs at most
once. `Occurs` is what the plain function `match` tries at each place.

## 3. Runs

| Run | Instance | What it shows |
|---|---|---|
| `spsc` | 4 slots, 2 items | no slot is used raw or by both threads; `popFront`'s assertion; no leak; `sizeGuess` errs on the promised side; answers and pointers stay good; refinement of `BoundedFifo` |
| `blocking_queue` | 3 threads, capacity 2, 2 values | nobody is stranded asleep; no standstill, both sides are served; refinement of the blocking `BoundedFifo` |
| `task_queue` | 3 slots, 2 tasks | the ring's discipline on both paths; no task dropped, doubled or overtaken; tasks are taken and `write` returns, if no notification misses its sleeper |
| `task_queue_lost` | same | **fails:** without that assumption a queued task may never be taken |
| `server` | six worlds, below | unchecked `getClient()` results are never null; no client gets the answers of another who is there; clients that await answers get exactly those, and the loop keeps off an output while an answer is made in it; a client that is alone is answered, through short writes and EAGAIN |
| `server_two_clients` | 2 clients | **fails:** two signals add up and neither client is answered |
| `server_second_client` | 2 clients, 1 descriptor | **fails:** the second client on a descriptor is never read from |
| `query` | three worlds, 2 or 3 requests of 4 batches | the inductive invariant; a request that is read whole is forwarded as it was written, whatever came before; a batch takes effect up to its first failing command and the answer says so; a command that needs a key finds one in the task; whole requests are answered |
| `query_file` | the request of `query.txt` | **fails:** the parser loses its place and `stoi` throws |
| `threads` | 4 threads, 2 rounds, a vector that is empty or has room | mutual exclusion, no lost increment; the tid is known when a constructor returns; the assertions of the tests; they are reached if no `Thread` moves |
| `threads_moved` | 2 threads, an empty vector | **fails:** the tests need not reach their end |
| `algorithms` | caches: 4 keys, 2 values, capacity 3, 9 uses, 4 nodes; matcher: patterns of 1 to 3 and texts of 0 to 5 out of 3 letters | maps and containers in step, both caches refine `Cache`; what the matcher finds is there, and is the first if the pattern's first letter is alone in it |

The three headers of `code/inc/algorithm` share a run, `which` of them is used being
chosen at the start: they have nothing to do with one another, and two of them are
instances of one abstract specification.

*Why the bounds are enough.* Four slots let the ring be empty, full, wrapped
around, and seen by a side at any distance; the proofs cover the other sizes.
Three threads let two sleep on a condition variable while the third notifies them
and may take the mutex before either; the safety proofs cover any number. Three
slots make TaskQueue full after two tasks. In the
server, two connections and one descriptor force reuse, two of each let answers
interfere, two requests let the second meet what the first left behind. `Fd` is
`{7, 8}` because neither number is the sum of others, as for the descriptors that
the server really gets. A cache of three entries is filled, hit at the front, in the
middle and at the end, and made to evict by the fourth key, repeatedly; nine uses
(`MaxTime`) let counts tie and overtake each other after evictions. The vector of four
threads is given new storage three times, with one and with two older elements to
move. Texts of five letters hold a partial match, its failure and a whole match; the
proofs cover all lengths. Requests: a batch that succeeds, one that fails in the
middle or not depending on earlier ones, one with a key that only an array can hold,
and a single command.

*The worlds of the queries.* Requests arrive whole in three forms (three of
them), or with a leveldb that may fail (two), or as lines in two parts (two). In two
parts a request may be lost or mangled, because the second read overwrites the
first: nothing is said of such a request, only of whole ones after it, and that no
task is ever empty. `AllOrPrefix` and `WholeAnswered` are about requests that arrive
whole, which is how one `write` of a short query does arrive.

*The worlds of the server.* `world`, chosen at the start and never changed, is what
the server is up against: the connections and descriptors there are, the commands,
what `write()` may return (`faults`), whether the uninitialised `r_event` may be
garbage (`fresh`), whether clients leave (`mayClose`), whether each awaits its answer
before it goes on (`patient`, as `client.cpp` does), and a bound on the requests. The
run `server` explores six: `Rough` (two clients, one request each, every fault),
`Reuse` (one descriptor for two clients, two requests each), `Refused` (the same, where a
`write()` to a client that has gone is refused), `Attentive` (three
patient clients over two descriptors, two requests each), `Leaving` (two patient clients
that get, exit and close, one of whom may be given the other's descriptor), `Alone` (one
client, two requests, every result of `write()` but an error). Four properties depend on the world, because
the code does:

* `AnswersToOwner` has an exception where `write()` may be refused. `reply` then closes the
  descriptor without marking the client exited, and what was still to be answered goes
  to the next owner of the descriptor. This happens in `Refused`; what the property says
  there is that only answers of clients that have gone can go astray in this way.
* `ExactAnswers` is about `Orderly` worlds. It excludes short writes, after which `reply`
  sends the beginning twice; impatient clients, for which an answer appended between
  `write` and `clear` is lost; and descriptors of which two may add up to a third, the
  first finding's other side: signals of 1 and 2 make the loop look at 3, and send for it
  the value of an answer whose status is still to be appended. With `Fd = {1, 2, 3}` TLC
  finds that in a few steps. It is a condition on the numbers only, and true of any range
  of descriptors whose least is more than half of its greatest.
* `OutputUnshared` is about `Orderly` worlds too: a client that does not await its answers
  has the executing thread append to the output that the loop is writing from.
* `AnsweredAlone` is about `Alone`: two clients at a time meet the second finding.

`Alone` and the runs that fail assume that `r_event` is zero. `MCTaskQueue` likewise chooses at
the start whether notifications may be missed (`heard`); its two liveness properties
are about the schedules in which none is, its other properties about all.

`CHECK_DEADLOCK FALSE` is set where the system may stop: the server comes to rest
when the clients have sent all the requests they may.

### Fairness

* `BlockingQueue`: a thread that holds the mutex is scheduled (weak fairness of
  each thread), and a free mutex goes to someone. Nothing is promised to a
  particular thread, and the properties promise nothing to one.
* `TaskQueue`: both threads are scheduled, stores become visible, and a thread
  that again and again finds the mutex free gets it (strong fairness). The
  event loop need not call `write`; no thread may count on spurious wake-ups.
* `DbServer`: libevent runs the callback of every active event before it polls
  again, hence strong fairness per kind of callback and descriptor; a connected
  client reads, hence strong fairness of a `write` that makes progress. Weak
  fairness of the executing thread stands for a task queue that does wake it: the
  defect of `task_queue_lost` is not counted a second time.
* `DbProxy`: the event loop reads what has arrived, and the executing thread goes on.
* `Threads`: every thread is scheduled (weak fairness). One that spins gets the lock
  because each of the others takes it once only.

## 4. Findings

1. **TaskQueue loses wake-ups** (`TaskQueue.h:22`, run `task_queue_lost`). `write`
   publishes and notifies without the mutex. If both fall between the reader's
   predicate and its sleep, the reader sleeps beside a queued task until the
   next one comes. `TaskTakenIfHeard` shows that tasks are taken in the schedules in which
   no notification falls there. These schedules (`heard`) also have what was published
   visible to the side that evaluates its predicate.
2. **Two answers, no answer** (`DbServer.cpp:123`, run `server_two_clients`). An
   eventfd adds up what is written to it, so two descriptors signalled before
   the loop reads arrive as their sum.
3. **The second client of a descriptor is deaf** (`DbServer.cpp:129`, `146`, run
   `server_second_client`). `freeClient` erases only what is not there; the
   next connection on the descriptor finds an old `Client` and is not watched.

4. **A vector of threads** (`Thread.cpp:76`, run `threads_moved`). A new thread reads
   function and argument from an object that the vector may have moved by then; it
   finds neither, and the exception ends the process. `TestPassesUnmoved` shows that
   the tests would reach their end if nothing moved, that is in a vector with room for
   all. The lock tests of the repository all let their vectors grow from empty, so none of
   them meets that condition.
5. **The query the client sends** (`DbClient.cpp:99`, run `query_file`). The parser
   accepts `query.txt`'s line feeds after headers and skips two characters after
   bulks; it then reads a length in the middle of a key, and `stoi` throws.

The matcher is not what `README.md:11` of the repository describes, KMP after preprocessing
the pattern ("模式预处理"): nothing calls `computeDfs`, and with a table of zeros "aab" is
not found in "aaab". No run of its own shows this. `FirstFound` states the other side: with
a pattern that needs no table, as those of the tests, the place returned is the first one.

The inverted test of `freeClient` also hides unchecked null pointers: with the
test put right, `NoNullClient` fails (it is that property's mutant).

## 5. Proofs

All theorems hold for every value of the constants that the assumptions admit:
`size_ >= 2`, which the constructor asserts; any set of items; any set of
threads; any natural capacity; any keys and values; names such as `NoItem` that are not items.

**Ring.** `IInv` is the conjunction of three ideas. `ViewsOrdered`: going round
the ring from the producer's view of `readIndex_` one meets `readIndex_`, then the
consumer's view of `writeIndex_`, then `writeIndex_`. `Underway`: what a thread
established at the start of its call is still true in the middle of it.
`SlotContent`: slots between the indices hold items, others are raw, and the
two slots being worked on are as far as the program counters say. None of the
safety properties is inductive alone: that the producer's slot is raw follows only
from its stale view being behind the true index and from where the items lie.
The arithmetic (`Dist`, `Between`, `nextRecord`) is in lemmas about single indices,
stated for constants so that they apply before and after a step.
From `IInv`: `SlotSafety`, `PopFrontSafe`, `NothingLeaks`, `GuessesBounded`,
`AnswersKeep`, `FrontKeeps`.

**Ring implements queue.** `RingImplementsFifo`: the abstract queue is the
sequence of slots from `HeadIndex` to `writeIndex_`, where `HeadIndex` has already
passed a slot whose item was moved out. `WriteBegin` offers, `WriteStore`
accepts, `ReadMove` and `PopDestroy` take, the destructor closes, all else stutters.

**Monitor.** `IInv` adds to the types that exactly the holder of the mutex is
past its acquisition (`Monitor`) and that a sleeper whose condition holds has a
notifier holding the mutex (`NoStranded`). `MonitorImplementsFifo` maps directly.

**Task queue.** `RingStep` shows that each step of TaskQueue is a step of the ring
(or leaves it alone), so the ring's invariant carries over; `Attempts`, `Mutex` and
`Handed` say how the control restricts the ring. `TQIInv` is the ring's
invariant with these, which TLC checks and `TQInductive` proves. `TaskQueueImplementsFifo` reuses
the step lemmas of the ring's refinement; the abstract offer is the whole call of
`write`, failed attempts included, so a failed attempt is a stutter and not a refusal.

**LFUCache.** `IInv` says that the set holds exactly the elements the map points to,
each under its own key (`InStep`), that no two elements have the same time and none
has a later one than `g_time` (`TimesDiffer`), and that the capacity is kept. `InStep`
alone is not inductive: that `erase` takes out the old element, and not the new
one, needs `insert` to have found no equivalent element, hence `TimesDiffer`.
`Becomes` names what every use does to map and set, `TouchBecomes` and `JoinBecomes`
show it of hits and of new keys, `Replaced` that it preserves `IInv`.
`LfuImplementsCache` maps the times to the order of uses; that the first element of
the set is the victim the reference allows is `BeginIsVictim`. `MaxTime` is any
natural number, and stands for the uses an int can count.

**Threads.** `IInv` has one conjunct about the lock and the counters (`Mutex`: while a
thread is inside, `num` is the increments of those that are done and its own, and
what it loaded is up to date) and four about objects: where the vector keeps each one
(`Kept`, by `Home`), that each knows the tid of its thread (`TidKnown`), what the main
thread knows at each place (`Phase`), and that a thread which has not posted writes to
the object under construction, which nothing moves (`Handshake`). `Mutex` is preserved
by itself, except that it needs to know who has not begun. Without `Handshake`,
`TidKnown` is not inductive: a late thread would note its tid in an object that is gone.
`AssertionHolds` follows from `Mutex` and from the joins recorded in `Phase`.

**LruCache.** `LruInv` says that map and list are in step and (`LruOnce`) that no node
is twice in the list, which the map's being one-to-one does not give by itself.
`LruImplementsReference` maps the position in the list to the order of uses. Every call
that changes the list leads (`Leads`): it puts one node in front of those of the keys
that it keeps, which stay in their order. `TouchLeads`, `NewLeads` and `EvictLeads`
show it of the calls, `LeadsInv` and `LeadsAbstract` are the two halves of the argument. An
eviction erases the last node before it makes the new one, which may be the same place,
so nothing is said of the new node but that it is none of those kept.

**Matcher.** `MatchInv` says that what is matched is the beginning of the pattern and
that no occurrence begins before it. The second is inductive only for patterns whose
first letter is alone in them: then no occurrence begins inside of a partial match
(`TurnBreaks`), and to fall back to zero loses nothing. `FirstFound` follows: a place
returned is one where the pattern stands, whatever the pattern, and for these it is the
first.

**Server.** `Known` says that whatever names a descriptor (an open connection, an
event, a queued task, a step under way) names one that the map has a `Client` for; it
is inductive because `freeClient` removes nothing, and `ClientNeverNull` follows.
`AnswersToOwner` needs to know which of the buffers and tasks that outlive a connection
can still reach the next one on its descriptor. `Live` is the answer: a `Client` that
is not marked exited, or has a pending `reReply`, or is the one a callback is about. `Own` says
that all output, tasks and work of the executing thread for a live `Client` are for the
connection that its descriptor denotes. A step that closes a descriptor leaves
its `Client` not live, and nothing brings it back; `OwnFrame` is that argument for
the steps that only take away. The exception is a refused `write()`, since `reply` then
closes without marking. Such a descriptor is `Forsaken`: the client on it has gone
(`Lost`), so what stays behind for it answers (`For`) nobody who is there, and the next
owner may inherit it without the invariant being lost. `Written` says
what a `write()` delivers.

`ExactAnswers` needs to know where the answer to a client's last request is. `InOrder`
says it: `due` is what was delivered, and, unless the client has its answer, the answer to
its last request (`ConnOrder`); and that request is unread, or the only task of its
descriptor (`QueuedOrder`), or in the executing thread, with as much in the output as
that has made of it (`BusyOrder`), or complete in the output with exactly one thing that
will make the loop write it: the eventfd, the event for a writable descriptor, or a
`write()` just put off (`TriggeredOrder`). Once written it is only in the output, until that
is cleared (`FinishingOrder`). The five exclude each other, which is why the missing lock
does no harm to a patient client: while the loop is between `write` and `clear`
no task of that descriptor is queued or being executed. `OutputsUnshared` reads the same
off the other side: while an answer is being made, `BusyOrder` holds, and with it neither
`TriggeredOrder` nor `FinishingOrder`. `Placed` (a connection is in
the backlog or has one descriptor) and `Own` make the connection's and the descriptor's
side agree. `FdFrame` and `OneDescriptor` reduce a step to the one descriptor that it is
about; then there is a lemma for each action. That a sum in the eventfd is never a
descriptor is used in `SignalOrder`, and nowhere else.

**From a request to its answer.** `IInv` of `DbProxy` has a part for the parser and one
for the executing thread. `ParserInv`: between two calls the parser keeps nothing but
text; as long as requests arrive whole that text is zeros (what `Stored` leaves behind);
the tasks so far are the words of the requests so far. `ExecutorInv`: tasks are answered
in order, and with the task of a whole request in hand the thread stands *between two
commands* of it: `st` is behind the words of the first j, the database is what these j
made of `before`, and the output what the last "get" among them found. Without it a value
that reads "get", as in the run's first batch, could be taken for a command. TLC
checks `IInv` in `query`; `QueryInductive` proves it, and `RequestsForwarded`,
`BatchesAnswered` and `KeysThere` follow.

The executing thread's half is an argument about prefixes of joined sequences: the words
of a batch are those of its first j commands, of the next, and of the rest
(`SequenceLemmas`), so a command is recognised by where it begins, whatever its key and
value say. The parser's half is about recursive functions (`Value`, `Words`, `Bulks`).
The library's induction theorems take an operator as parameter, which the provers cannot
instantiate, so `SequenceLemmas` states the two that are needed with *sets* and
*functions*: `EveryNumber` (a set of numbers with 0 and all successors is `Nat`) and
`Recursion` (if a rule, given as a function from functions to functions, asks for values
at a smaller measure only, some function follows it; hence the recursive definition,
a CHOOSE, does). `ValueRule`, `WordsRule` and `BulksRule` are the equations that one
would like to read off the definitions. With them, `StoiDecimal`: a number that was written
is read again, whatever follows; `LineWords`: the words of a line of words are these;
`MarkIs` and `ItemIs`: a header is found where it stands, and gives the length of its word;
and then, by induction on the words still to be read, an array is its words. In lines
that are cut, the rest of a line is read with what is in the buffer behind it: no word of
the request need survive, and the lemma says only that there is at least one word, so that
no task is empty, and that the parser is at rest again.

The theorems have one hypothesis beyond the assumptions, `Readable`: nobody sends what
this parser is known to misread, which is the array of `query.txt` (finding 5: there
`~ crashed`, which `IInv` has, is false), or an array in parts, whose second part is stored
over the first. TLC evaluates it of the run's worlds (`UsualReadable`). The bounds on a
batch are those of `Decimal`, which writes one or two digits: fewer than 100 words of
fewer than 100 characters.

**Only model-checked:** liveness: `NoStandstill`, `Served`, `TaskTakenIfHeard`,
`WriteReturnsIfHeard`, `AnsweredAlone`, `TestPassesUnmoved` and `WholeAnswered`. Fairness
and ENABLED are beyond the prover. All the invariants and action properties that the
passing runs check are theorems.

## 6. Not modelled, and the plan

Not modelled for good: `3rd/`, which is vendored third-party code (googletest, protobuf,
leveldb and others) and almost all the lines of the repository; `Socket.cpp` and
`util.cpp` (wrappers of system calls, and a block copy), the header-only types,
`SkipList.h` (a declaration), `Singleton` and `ThreadLocal` (whose synchronisation is
that of the language and of pthreads), and the tests that exercise the language or
third-party libraries. Of Thread, `detach` and the constructor without an argument; of
StringMatcher, `matchAll` and `computeDfs`: nothing calls them. Data races are modelled
by the order of the steps, not by torn values: the unlocked lookup in the map of clients
during an insertion, and a `std::string` written from and assigned to at once, are
undefined behaviour that no choice of outcomes describes.

Planned: `Ttcp`, the session of client and server of `example/net`.
