------------------------------ MODULE DbServer ------------------------------
(***************************************************************************)
(* The database server (levelDb/db): an event loop that accepts            *)
(* connections, reads requests and writes answers, and one thread that     *)
(* executes the requests.  They share the task queue, the Client objects   *)
(* and an eventfd by which the executing thread tells the loop on which    *)
(* descriptor there is something to send.                                  *)
(*                                                                         *)
(* A callback of the event loop runs to its end before the next, but the   *)
(* executing thread may run in between its steps: the lock that reply()    *)
(* and reReply() mean to hold is a temporary, released at once             *)
(* (DbServer.cpp:70, DbClient.cpp:117).                                    *)
(*                                                                         *)
(* Sockets, epoll as libevent drives it and the eventfd are modelled from  *)
(* how the server uses them.  The task queue is the first-in first-out     *)
(* queue that TaskQueue implements; a request arrives whole and alone in   *)
(* one read, and an answer is one unit of output per append.               *)
(***************************************************************************)
EXTENDS Integers, Sequences, FiniteSets, SequencesExt

CONSTANTS
  Conn,        \* connections that clients make
  Nobody,      \* not a connection: what a closed descriptor denotes
  Fd,          \* descriptors
  Worlds       \* what the server may be up against: a set of records with
               \*   conns     the connections that are made
               \*   fds       the descriptors that accept() may return
               \*   kinds     the commands that are sent: "set", "get", "exit"
               \*   faults    what write() may do besides accepting everything:
               \*             "partial", "again", "error" when the peer has gone
               \*   fresh     what the r_event of a new Client may be, which no
               \*             constructor sets (DbClient.h:79): "null", or the
               \*             "garbage" that its memory held
               \*   mayClose  whether clients close their connections
               \*   patient   whether a client awaits each answer before it
               \*             goes on, as levelDb/client/client.cpp does
               \*   requests  bound: requests per connection

World == [conns : SUBSET Conn, fds : SUBSET Fd, kinds : SUBSET {"set", "get", "exit"},
          faults : SUBSET {"partial", "again", "error"}, fresh : SUBSET {"null", "garbage"},
          mayClose : BOOLEAN, patient : BOOLEAN, requests : Nat]

ASSUME ServerAssumption ==
  /\ Nobody \notin Conn
  /\ Fd \subseteq Nat \ {0} /\ IsFiniteSet(Fd)
  /\ Worlds \subseteq World

VARIABLES
  world,      \* the one that this run of the server meets
  (* the clients and the network *)
  peer,       \* peer[c]: "none", "up" (connected) or "gone" (closed by the client)
  backlog,    \* connections that wait to be accepted
  sent,       \* sent[c]: the commands that c has sent
  inbox,      \* inbox[c]: requests that have arrived and are not read yet
  delivered,  \* delivered[c]: the units of output that were written to c
  due,        \* due[c]: history, which no step reads: the units that c should
              \* be sent for all it has asked
  (* the kernel, for the server's process *)
  owner,      \* owner[f]: the connection that f denotes, or Nobody if f is closed
  pollIn,     \* the descriptors of which epoll reports that they are readable
  pollOut,    \* the same for writable
  counter,    \* value of the eventfd
  (* the server's memory *)
  clients,    \* the descriptors that the map has a Client for
  isExited,   \* those of them whose Client has isExited set
  output,     \* output[f], the bytes to be sent
  pendingOut, \* those of them whose replyEvent is added, in libevent's books
  tasks,      \* the task queue
  loop,       \* where the event loop is: in no callback, or in one that has
              \* called write(), with its descriptor and result
  worker      \* where the executing thread is, and its task

net == <<peer, backlog, sent, inbox, delivered, due>>
kernel == <<owner, pollIn, pollOut, counter>>
memory == <<clients, isExited, output, pendingOut, tasks>>
vars == <<world, net, kernel, memory, loop, worker>>

\* a request: who sent it, its number, its command
Request(c, n, k) == [conn |-> c, num |-> n, kind |-> k]

\* what handleTask() adds to the output: the value that Get() assigns, the status
Value(r) == [conn |-> r.conn, num |-> r.num, part |-> "value"]
Status(r) == [conn |-> r.conn, num |-> r.num, part |-> "status"]
Answer(r) == CASE r.kind = "get" -> <<Value(r), Status(r)>>
               [] r.kind = "set" -> <<Status(r)>>
               [] r.kind = "exit" -> <<>>

LastRequest(c) == Request(c, Len(sent[c]), Last(sent[c]))

\* c has been sent the end of the answer to its last request
Answered(c) == sent[c] # <<>> => Status(LastRequest(c)) \in ToSet(delivered[c])

LoopIdle == [at |-> "idle", fd |-> 0, st |-> 0]
InReply(f, st) == [at |-> "written", fd |-> f, st |-> st]
InClear(f) == [at |-> "complete", fd |-> f, st |-> 0]
InReReply(f, st) == [at |-> "rewritten", fd |-> f, st |-> st]

WorkerIdle == [at |-> "idle"]
Working(stage, task) == [at |-> stage, task |-> task]

Init ==
  /\ world \in Worlds
  /\ peer = [c \in Conn |-> "none"]
  /\ backlog = <<>>
  /\ sent = [c \in Conn |-> <<>>]
  /\ inbox = [c \in Conn |-> <<>>]
  /\ delivered = [c \in Conn |-> <<>>]
  /\ due = [c \in Conn |-> <<>>]
  /\ owner = [f \in Fd |-> Nobody]
  /\ pollIn = {}
  /\ pollOut = {}
  /\ counter = 0
  /\ clients = {}
  /\ isExited = {}
  /\ output = [f \in Fd |-> <<>>]
  /\ pendingOut = {}
  /\ tasks = <<>>
  /\ loop = LoopIdle
  /\ worker = WorkerIdle

-----------------------------------------------------------------------------
(* The clients.                                                            *)

Connect(c) ==
  /\ c \in world.conns /\ peer[c] = "none"
  /\ peer' = [peer EXCEPT ![c] = "up"]
  /\ backlog' = Append(backlog, c)
  /\ UNCHANGED <<world, sent, inbox, delivered, due, kernel, memory, loop, worker>>

\* the server has not closed the connection
Reachable(c) == c \in ToSet(backlog) \/ \E f \in Fd : owner[f] = c

Send(c, k) ==
  /\ peer[c] = "up" /\ Reachable(c) /\ Len(sent[c]) < world.requests
  /\ world.patient => Answered(c)
  /\ sent' = [sent EXCEPT ![c] = Append(@, k)]
  /\ inbox' = [inbox EXCEPT ![c] = Append(@, Request(c, Len(sent[c]) + 1, k))]
  /\ due' = [due EXCEPT ![c] = @ \o Answer(Request(c, Len(sent[c]) + 1, k))]
  /\ UNCHANGED <<world, peer, backlog, delivered, kernel, memory, loop, worker>>

Disconnect(c) ==
  /\ world.mayClose /\ peer[c] = "up"
  /\ world.patient => Answered(c)
  /\ peer' = [peer EXCEPT ![c] = "gone"]
  /\ UNCHANGED <<world, backlog, sent, inbox, delivered, due, kernel, memory, loop, worker>>

-----------------------------------------------------------------------------
(* Helpers of the event loop's callbacks.                                  *)

freeClientErases(f) == clients' = clients \ {f}               \* mutant

\* freeClient(): the guard asks for an entry that is not there
freeClient(f) == clients' = IF f \notin clients THEN clients \ {f} ELSE clients

\* close(fd): the descriptor is free again, and epoll forgets it
close(f) ==
  /\ owner' = [g \in Fd |-> IF g = f THEN Nobody ELSE owner[g]]
  /\ pollIn' = pollIn \ {f} /\ pollOut' = pollOut \ {f}

pendReplyNever(f) == UNCHANGED <<pendingOut, pollIn, pollOut>>    \* mutant

\* pendReply(): event_add() on an event already added does nothing; otherwise
\* epoll is told of all that libevent wants of the descriptor
pendReply(f) ==
  IF f \in pendingOut THEN UNCHANGED <<pendingOut, pollIn, pollOut>>
  ELSE /\ pendingOut' = pendingOut \cup {f}
       /\ pollIn' = pollIn \cup {f} /\ pollOut' = pollOut \cup {f}

\* the results of write(f, bytes, n): how many of the n units go out, or -1 for
\* EAGAIN, or -2 for any other error
WriteResults(f, n) ==
  IF owner[f] = Nobody THEN {-2}
  ELSE {n} \cup (IF "partial" \in world.faults THEN 1 .. n - 1 ELSE {})
           \cup (IF "again" \in world.faults THEN {-1} ELSE {})
           \cup (IF "error" \in world.faults /\ peer[owner[f]] = "gone" THEN {-2} ELSE {})

\* a write() that returns st has sent that many units to the other end of f
Deliver(f, st) ==
  delivered' = IF st <= 0 THEN delivered
               ELSE [delivered EXCEPT ![owner[f]] = @ \o SubSeq(output[f], 1, st)]

-----------------------------------------------------------------------------
(* The event loop.                                                         *)

FreeFd == {f \in world.fds : owner[f] = Nobody}

\* addClientIfNotExited(): a Client is made and watched unless the map has one
addClientIfNotExited(f) ==
  IF f \in clients THEN UNCHANGED <<clients, isExited, output, pendingOut, pollIn>>
  ELSE /\ clients' = clients \cup {f}
       /\ isExited' = isExited \ {f}
       /\ output' = [output EXCEPT ![f] = <<>>]
       /\ pendingOut' = pendingOut \ {f}
       /\ \E r_event \in world.fresh :
            pollIn' = IF r_event = "null" THEN pollIn \cup {f} ELSE pollIn

\* acceptEventHandler(): accept() returns the least free descriptor
Accept ==
  /\ loop = LoopIdle
  /\ backlog # <<>>
  /\ \E f \in FreeFd :
       /\ \A g \in FreeFd : f <= g
       /\ owner' = [owner EXCEPT ![f] = Head(backlog)]
       /\ addClientIfNotExited(f)
  /\ backlog' = Tail(backlog)
  /\ UNCHANGED <<world, peer, sent, inbox, delivered, due, pollOut, counter, tasks, loop, worker>>

Input(f) == inbox[owner[f]]

ProcessRequestNoFd(f) ==                                      \* mutant
  /\ loop = LoopIdle
  /\ f \in pollIn /\ owner[f] # Nobody /\ Input(f) # <<>>
  /\ inbox' = [inbox EXCEPT ![owner[f]] = Tail(@)]
  /\ tasks' = Append(tasks, [fd |-> 0, request |-> Head(Input(f))])
  /\ UNCHANGED <<world, peer, backlog, sent, delivered, due, kernel, clients, isExited, output,
                 pendingOut, loop, worker>>

\* processInput() after a read() that returned a request: it goes to the queue.
\* Its first branch, for a descriptor without a Client (DbClient.cpp:11-15), is
\* never taken: pollIn is a part of clients (Known), as nothing is watched before
\* the map has it and freeClient() removes nothing.
ProcessRequest(f) ==
  /\ loop = LoopIdle
  /\ f \in pollIn /\ owner[f] # Nobody /\ Input(f) # <<>>
  /\ inbox' = [inbox EXCEPT ![owner[f]] = Tail(@)]
  /\ tasks' = Append(tasks, [fd |-> f, request |-> Head(Input(f))])
  /\ UNCHANGED <<world, peer, backlog, sent, delivered, due, kernel, clients, isExited, output,
                 pendingOut, loop, worker>>

ProcessEofForgets(f) ==                                       \* mutant
  /\ loop = LoopIdle
  /\ f \in pollIn /\ owner[f] # Nobody /\ Input(f) = <<>> /\ peer[owner[f]] = "gone"
  /\ freeClient(f) /\ close(f)
  /\ UNCHANGED <<world, net, counter, isExited, output, pendingOut, tasks, loop, worker>>

\* processInput() after a read() that returned 0: exit(), freeClient(), close()
ProcessEof(f) ==
  /\ loop = LoopIdle
  /\ f \in pollIn /\ owner[f] # Nobody /\ Input(f) = <<>> /\ peer[owner[f]] = "gone"
  /\ isExited' = isExited \cup {f}
  /\ freeClient(f) /\ close(f)
  /\ UNCHANGED <<world, net, counter, output, pendingOut, tasks, loop, worker>>

(* reply(): reading the eventfd returns its value and resets it.           *)

\* there is no such client
ReplyUnknown ==
  /\ loop = LoopIdle
  /\ counter # 0 /\ counter \notin clients
  /\ close(counter)
  /\ counter' = 0
  /\ UNCHANGED <<world, net, memory, loop, worker>>

\* there is nothing to send
ReplyNothing ==
  /\ loop = LoopIdle
  /\ counter \in clients /\ output[counter] = <<>> /\ counter \notin isExited
  /\ counter' = 0
  /\ UNCHANGED <<world, net, owner, pollIn, pollOut, memory, loop, worker>>

\* the client has left
ReplyExited ==
  /\ loop = LoopIdle
  /\ counter \in clients /\ counter \in isExited
  /\ freeClient(counter) /\ close(counter)
  /\ counter' = 0
  /\ UNCHANGED <<world, net, isExited, output, pendingOut, tasks, loop, worker>>

\* the write()
ReplyWrite ==
  /\ loop = LoopIdle
  /\ counter \in clients /\ output[counter] # <<>> /\ counter \notin isExited
  /\ \E st \in WriteResults(counter, Len(output[counter])) :
       Deliver(counter, st) /\ loop' = InReply(counter, st)
  /\ counter' = 0
  /\ UNCHANGED <<world, peer, backlog, sent, inbox, due, owner, pollIn, pollOut, memory, worker>>

\* what reply() makes of the result: complete, refused for good, or to be tried
\* again with the output as it is
ReplyComplete ==
  /\ loop.at = "written" /\ loop.st = Len(output[loop.fd])
  /\ loop' = InClear(loop.fd)
  /\ UNCHANGED <<world, net, kernel, memory, worker>>

ReplyFailed ==
  /\ loop.at = "written" /\ loop.st = -2
  /\ freeClient(loop.fd) /\ close(loop.fd)
  /\ loop' = LoopIdle
  /\ UNCHANGED <<world, net, counter, isExited, output, pendingOut, tasks, worker>>

ReplyPending ==
  /\ loop.at = "written" /\ loop.st \notin {-2, Len(output[loop.fd])}
  /\ pendReply(loop.fd)
  /\ loop' = LoopIdle
  /\ UNCHANGED <<world, net, owner, counter, clients, isExited, output, tasks, worker>>

ReplyClearNothing ==                                          \* mutant
  /\ loop.at = "complete"
  /\ loop' = LoopIdle
  /\ UNCHANGED <<world, net, kernel, memory, worker>>

\* output.clear(), and with it what was appended since the comparison
ReplyClear ==
  /\ loop.at = "complete"
  /\ output' = [output EXCEPT ![loop.fd] = <<>>]
  /\ loop' = LoopIdle
  /\ UNCHANGED <<world, net, kernel, clients, isExited, pendingOut, tasks, worker>>

(* reReply(): the one-shot event for a writable descriptor.                *)

Writable(f) == loop = LoopIdle /\ f \in pendingOut /\ f \in pollOut

ReReply(f) ==
  /\ Writable(f)
  /\ pendingOut' = pendingOut \ {f}
  /\ pollOut' = pollOut \ {f}
  /\ IF output[f] = <<>> THEN UNCHANGED <<delivered, loop>>
     ELSE \E st \in WriteResults(f, Len(output[f])) :
            Deliver(f, st) /\ loop' = InReReply(f, st)
  /\ UNCHANGED <<world, peer, backlog, sent, inbox, due, owner, pollIn, counter, clients,
                 isExited, output, tasks, worker>>

ReReplyErase ==
  /\ loop.at = "rewritten" /\ loop.st > 0
  /\ output' = [output EXCEPT ![loop.fd] = SubSeq(@, loop.st + 1, Len(@))]
  /\ IF output'[loop.fd] = <<>> THEN UNCHANGED <<pendingOut, pollIn, pollOut>>
     ELSE pendReply(loop.fd)
  /\ loop' = LoopIdle
  /\ UNCHANGED <<world, net, owner, counter, clients, isExited, tasks, worker>>

ReReplyAgain ==
  /\ loop.at = "rewritten" /\ loop.st = -1
  /\ pendReply(loop.fd)
  /\ loop' = LoopIdle
  /\ UNCHANGED <<world, net, owner, counter, clients, isExited, output, tasks, worker>>

ReReplyFailed ==
  /\ loop.at = "rewritten" /\ loop.st = -2
  /\ freeClient(loop.fd) /\ close(loop.fd)
  /\ loop' = LoopIdle
  /\ UNCHANGED <<world, net, counter, isExited, output, pendingOut, tasks, worker>>

-----------------------------------------------------------------------------
(* The executing thread: dataUpdate_Entry() and handleTask().              *)

\* read(t), then getClient(): what it returns is used unchecked
TakeTask ==
  /\ worker = WorkerIdle /\ tasks # <<>>
  /\ worker' = Working(IF Head(tasks).fd \in clients THEN "run" ELSE "null", Head(tasks))
  /\ tasks' = Tail(tasks)
  /\ UNCHANGED <<world, net, kernel, clients, isExited, output, pendingOut, loop>>

Exit ==
  /\ worker.at = "run" /\ worker.task.request.kind = "exit"
  /\ isExited' = isExited \cup {worker.task.fd}
  /\ worker' = Working("signal", worker.task)
  /\ UNCHANGED <<world, net, kernel, clients, output, pendingOut, tasks, loop>>

GetSignals ==                                                 \* mutant
  /\ worker.at = "run" /\ worker.task.request.kind = "get"
  /\ output' = [output EXCEPT ![worker.task.fd] = <<Value(worker.task.request)>>]
  /\ counter' = counter + worker.task.fd
  /\ worker' = Working("status", worker.task)
  /\ UNCHANGED <<world, net, owner, pollIn, pollOut, clients, isExited, pendingOut, tasks, loop>>

\* handleCmd(): leveldb assigns the value to the output, under the lock
Get ==
  /\ worker.at = "run" /\ worker.task.request.kind = "get"
  /\ output' = [output EXCEPT ![worker.task.fd] = <<Value(worker.task.request)>>]
  /\ worker' = Working("status", worker.task)
  /\ UNCHANGED <<world, net, kernel, clients, isExited, pendingOut, tasks, loop>>

Set ==
  /\ worker.at = "run" /\ worker.task.request.kind = "set"
  /\ worker' = Working("status", worker.task)
  /\ UNCHANGED <<world, net, kernel, memory, loop>>

\* "OK!" or "Error!" is appended, under the lock
AppendStatus ==
  /\ worker.at = "status"
  /\ output' = [output EXCEPT ![worker.task.fd] = Append(@, Status(worker.task.request))]
  /\ worker' = Working("signal", worker.task)
  /\ UNCHANGED <<world, net, kernel, clients, isExited, pendingOut, tasks, loop>>

SignalOnce ==                                                 \* mutant
  /\ worker.at = "signal"
  /\ counter' = 1
  /\ worker' = WorkerIdle
  /\ UNCHANGED <<world, net, owner, pollIn, pollOut, memory, loop>>

\* write(notifyFd, &fd, 8) adds fd to the eventfd's value
Signal ==
  /\ worker.at = "signal"
  /\ counter' = counter + worker.task.fd
  /\ worker' = WorkerIdle
  /\ UNCHANGED <<world, net, owner, pollIn, pollOut, memory, loop>>

-----------------------------------------------------------------------------
Client(c) == Connect(c) \/ Disconnect(c) \/ \E k \in world.kinds : Send(c, k)

\* what the loop does once a callback has written
Continue == \/ ReplyComplete \/ ReplyFailed \/ ReplyPending \/ ReplyClear
            \/ ReReplyErase \/ ReReplyAgain \/ ReReplyFailed

Reply == ReplyUnknown \/ ReplyNothing \/ ReplyExited \/ ReplyWrite

ProcessInput(f) == ProcessRequest(f) \/ ProcessEof(f)

EventLoop == \/ Accept
             \/ \E f \in Fd : ProcessInput(f)
             \/ Reply
             \/ \E f \in Fd : ReReply(f)
             \/ Continue

Worker == TakeTask \/ Exit \/ Get \/ Set \/ AppendStatus \/ Signal

Next == (\E c \in Conn : Client(c)) \/ EventLoop \/ Worker

Spec == Init /\ [][Next]_vars

\* a connected client reads, so that write() does not answer EAGAIN for ever
ReReplySome(f) == ReReply(f) /\ loop'.st > 0

\* libevent runs a callback for every event it finds active, before it asks the
\* kernel again, so none of them is passed over for ever
FairSpec ==
  /\ Spec
  /\ WF_vars(Worker) /\ WF_vars(Continue)
  /\ SF_vars(Accept) /\ SF_vars(Reply)
  /\ \A f \in Fd : /\ SF_vars(ProcessInput(f))
                   /\ SF_vars(ReReply(f)) /\ SF_vars(ReReplySome(f))

-----------------------------------------------------------------------------
(* Safety.                                                                 *)

Unit == [conn : Conn, num : 1 .. world.requests, part : {"value", "status"}]
Req == [conn : Conn, num : 1 .. world.requests, kind : world.kinds]
Task == [fd : Fd, request : Req]

TypeOK ==
  /\ world \in Worlds
  /\ peer \in [Conn -> {"none", "up", "gone"}]
  /\ backlog \in Seq(Conn)
  /\ sent \in [Conn -> Seq(world.kinds)]
  /\ \A c \in Conn : Len(sent[c]) <= world.requests
  /\ inbox \in [Conn -> Seq(Req)]
  /\ delivered \in [Conn -> Seq(Unit)] /\ due \in [Conn -> Seq(Unit)]
  /\ owner \in [Fd -> Conn \cup {Nobody}]
  /\ pollIn \subseteq Fd /\ pollOut \subseteq Fd
  /\ counter \in Nat
  /\ clients \subseteq Fd /\ isExited \subseteq Fd /\ pendingOut \subseteq Fd
  /\ output \in [Fd -> Seq(Unit)]
  /\ tasks \in Seq(Task)
  /\ loop.at \in {"idle", "written", "complete", "rewritten"}
  /\ loop.at # "idle" => loop.fd \in Fd /\ loop.st \in Int
  /\ worker.at \in {"idle", "run", "status", "signal", "null"}
  /\ worker.at # "idle" => worker.task \in Task

(* Whatever names a descriptor, be it an open connection, an event, a task  *)
(* or a step under way, names one that the map has a Client for.            *)
Known ==
  /\ \A f \in Fd : owner[f] # Nobody => f \in clients
  /\ pollIn \subseteq clients /\ pollOut \subseteq clients
  /\ \A n \in 1 .. Len(tasks) : tasks[n].fd \in clients
  /\ loop.at # "idle" => loop.fd \in clients
  /\ worker.at # "null"
  /\ worker.at # "idle" => worker.task.fd \in clients

\* something may still be sent for the Client of f
Live(f) == f \notin isExited \/ f \in pollOut \/ (loop.at # "idle" /\ loop.fd = f)

\* a client whose connection the server may have lost to a write() that failed
Lost(c) == "error" \in world.faults /\ c \in Conn /\ peer[c] = "gone"

\* what answers c may be sent to d
For(c, d) == c = d \/ Lost(c)

\* all that is on its way to the Client of f is for the connection that f denotes
OwnedBy(f) ==
  /\ owner[f] = Nobody => "error" \in world.faults
  /\ \A n \in 1 .. Len(output[f]) : For(output[f][n].conn, owner[f])
  /\ \A n \in 1 .. Len(tasks) : tasks[n].fd = f => For(tasks[n].request.conn, owner[f])
  /\ worker.at # "idle" /\ worker.task.fd = f => For(worker.task.request.conn, owner[f])

(* A Client for which something may still be sent works for the connection  *)
(* that is open on its descriptor, and for no other, unless a write() was   *)
(* refused because the client had gone.                                     *)
Own ==
  /\ \A f \in clients : Live(f) => OwnedBy(f)
  /\ \A c \in Conn : \A n \in 1 .. Len(inbox[c]) : inbox[c][n].conn = c
  /\ \A c \in Conn : \A n \in 1 .. Len(delivered[c]) : For(delivered[c][n].conn, c)
  /\ loop.at \in {"written", "rewritten"} /\ loop.st = -2 =>
       /\ "error" \in world.faults
       /\ owner[loop.fd] = Nobody \/ Lost(owner[loop.fd])

(* Where the answer to the last request of a client is on its way: queued as *)
(* a task, in the executing thread, or in the output of its Client, with     *)
(* something that will make the loop write it, or has made it.              *)

Busy(f) == worker.at # "idle" /\ worker.task.fd = f

\* the loop has called write() for f, which put it off
PutOff(f) == loop.at \in {"written", "rewritten"} /\ loop.fd = f /\ loop.st = -1
Triggered(f) == counter = f \/ f \in pendingOut \/ PutOff(f)

\* the loop has written the output of f, and is about to clear or erase it
Finishing(f) ==
  \/ loop.at = "complete" /\ loop.fd = f
  \/ loop.at \in {"written", "rewritten"} /\ loop.fd = f /\ loop.st > 0

\* c waits for the answer to a request that the server has read
Waits(c) == c \in Conn /\ ~ Answered(c) /\ inbox[c] = <<>>

\* c has its answer, or its next request is not read yet
Rests(c) == Answered(c) \/ inbox[c] # <<>>

\* the output holds the value, or nothing yet; or all that answers r
Begun(f, r) == \/ r.kind = "get" /\ output[f] = <<Value(r)>>
               \/ r.kind = "set" /\ output[f] = <<>>
Ready(f, r) == \/ f \in isExited /\ r.kind = "exit"
               \/ f \notin isExited /\ r.kind \in {"get", "set"} /\ output[f] = Answer(r)

QueuedOrder(f, c) ==
  \A n \in 1 .. Len(tasks) : tasks[n].fd = f =>
    /\ Waits(c) /\ tasks[n].request = LastRequest(c)
    /\ f \notin isExited /\ output[f] = <<>>
    /\ ~ Busy(f) /\ ~ Triggered(f) /\ ~ Finishing(f)

BusyOrder(f, c) ==
  Busy(f) =>
    /\ Waits(c) /\ worker.task.request = LastRequest(c)
    /\ ~ Triggered(f) /\ ~ Finishing(f)
    /\ worker.at = "run" => f \notin isExited /\ output[f] = <<>>
    /\ worker.at = "status" => f \notin isExited /\ Begun(f, LastRequest(c))
    /\ worker.at = "signal" => Ready(f, LastRequest(c))

TriggeredOrder(f, c) ==
  Triggered(f) =>
    /\ Waits(c) /\ ~ Finishing(f) /\ Ready(f, LastRequest(c))
    /\ f \in isExited => f \notin pendingOut /\ ~ PutOff(f)
    /\ counter = f => f \notin pendingOut /\ ~ PutOff(f)
    /\ f \in pendingOut => ~ PutOff(f)

FinishingOrder(f, c) ==
  Finishing(f) =>
    /\ c \in Conn /\ Rests(c) /\ f \notin isExited
    /\ loop.at # "complete" => loop.st = Len(output[f])

IdleOrder(f, c) ==
  /\ f \in clients \ isExited /\ c \in Conn /\ Rests(c) =>
       output[f] = <<>> \/ Finishing(f)
  /\ f \in isExited /\ f \in pollIn => Waits(c)
  /\ c = Nobody => f \notin pollIn

FdOrder(f, c) == /\ QueuedOrder(f, c) /\ BusyOrder(f, c) /\ TriggeredOrder(f, c)
                 /\ FinishingOrder(f, c) /\ IdleOrder(f, c)

\* what has been delivered is all that is due, but for what is on its way
ConnOrder(c) ==
  /\ \A n \in 1 .. Len(delivered[c]) : delivered[c][n].num <= Len(sent[c])
  /\ due[c] = IF Answered(c) THEN delivered[c]
              ELSE delivered[c] \o Answer(LastRequest(c))
  /\ inbox[c] # <<>> => ~ Answered(c) /\ inbox[c] = <<LastRequest(c)>>
  /\ peer[c] = "gone" => Answered(c)

\* a connection waits to be accepted or has one descriptor
Placed ==
  /\ \A f, g \in Fd : owner[f] = owner[g] /\ owner[f] # Nobody => f = g
  /\ \A m, n \in 1 .. Len(backlog) : backlog[m] = backlog[n] => m = n
  /\ \A n \in 1 .. Len(backlog) : \A f \in Fd : owner[f] # backlog[n]
  /\ \A c \in Conn : peer[c] = "none" =>
       /\ \A f \in Fd : owner[f] # c
       /\ \A n \in 1 .. Len(backlog) : backlog[n] # c

InOrder ==
  /\ Placed
  /\ \A c \in Conn : ConnOrder(c)
  /\ \A m, n \in 1 .. Len(tasks) : tasks[m].fd = tasks[n].fd => m = n
  /\ \A f \in Fd, c \in Conn \cup {Nobody} : owner[f] = c => FdOrder(f, c)
  /\ counter = 0 \/ counter \in Fd \/ \A f \in Fd : counter > f
  /\ loop.at # "idle" => PutOff(loop.fd) \/ Finishing(loop.fd)

\* clients that await each answer, a write() that accepts all or nothing, and
\* descriptors of which no two add up to a third, or to less
Orderly ==
  /\ world.patient /\ world.faults \subseteq {"again"}
  /\ \A f, g, h \in Fd : f + g > h

(* What every step preserves: freeClient() removes nothing from the map; a  *)
(* Client is marked exited before its descriptor can be given away, unless  *)
(* a write() is refused; and in an orderly world, the answer to a request   *)
(* is in one place at a time.                                               *)
IInv ==
  /\ TypeOK
  /\ Known
  /\ Own
  /\ Orderly => InOrder

(* handleTask() and reReply() use what getClient() returns without asking   *)
(* whether it is null (DbServer.cpp:107, DbClient.cpp:114).  It never is,   *)
(* although connections close while their tasks are queued: freeClient()    *)
(* removes nothing.                                                        *)
NoNullClient ==
  /\ worker.at # "null"
  /\ pollOut \subseteq clients

(* A descriptor that is closed while answers for it are still being made    *)
(* is given to the next connection, but a client receives only answers to   *)
(* its own requests: a Client whose connection has ended is marked exited   *)
(* before its descriptor is closed, and nothing is sent for it any more.    *)
(* The exception is a write() that is refused, after which reply() and      *)
(* reReply() close the descriptor of a Client that they do not mark: the    *)
(* next connection on it may be sent what it still had to answer, but       *)
(* nothing that answers a client who is there.                              *)
AnswersToOwner ==
  \A c \in Conn : \A u \in ToSet(delivered[c]) :
    u.conn = c \/ ("error" \in world.faults /\ peer[u.conn] = "gone")

(* No lock keeps the executing thread and the loop apart: handleCmd() may   *)
(* assign to an output that reply() writes from.  What does is that clients *)
(* await each answer: while one is being made, no event, no descriptor in   *)
(* the eventfd and no callback under way is about the same Client.          *)
OutputUnshared ==
  Orderly =>
    \A f \in Fd : Busy(f) =>
      /\ counter # f /\ f \notin pendingOut
      /\ ~ (loop.at # "idle" /\ loop.fd = f)

(* Clients that await their answers receive exactly those: no unit twice,   *)
(* none left out, none out of order, although the executing thread appends  *)
(* to the output while the loop compares, clears or erases it.  It takes a  *)
(* write() that accepts all or nothing: after a short one reply() sends the *)
(* beginning again.  And it takes descriptors that do not add up to one     *)
(* another: the loop would find a sum in the eventfd to be a descriptor,    *)
(* and send for that one an answer that is not complete.                    *)
ExactAnswers ==
  Orderly => \A c \in Conn : IsPrefix(delivered[c], due[c])

-----------------------------------------------------------------------------
(* Liveness.                                                               *)

(* A client whose connection was accepted, which stays connected and has    *)
(* sent a request, is sent the answer: the client of the repository blocks  *)
(* in read() for it (levelDb/client/client.cpp:49-51).                      *)
EveryRequestAnswered ==
  \A c \in Conn :
    peer[c] = "up" /\ c \notin ToSet(backlog) /\ sent[c] # <<>>
      ~> peer[c] = "gone" \/ Answered(c)

=============================================================================
