--------------------------- MODULE DbServerProofs ---------------------------
(***************************************************************************)
(* The executing thread and reReply() never meet a missing Client; as long *)
(* as no write() is refused a client receives answers to its own requests  *)
(* only; and a client that awaits each answer receives exactly those, if   *)
(* write() accepts all or nothing: for any connections and worlds, and any *)
(* descriptors that do not add up to one another.                          *)
(***************************************************************************)
EXTENDS DbServer, TLAPS

\* The units of an answer are of the connection that asked.
LEMMA UnitOfRequest ==
  ASSUME NEW r \in Req
  PROVE  /\ Value(r) \in Unit /\ Value(r).conn = r.conn
         /\ Status(r) \in Unit /\ Status(r).conn = r.conn
  BY DEF Req, Unit, Value, Status

\* What answers a request.
LEMMA AnswerOf ==
  ASSUME world \in Worlds, NEW r \in Req
  PROVE  /\ Answer(r) \in Seq(Unit) /\ r.kind \in {"set", "get", "exit"}
         /\ r.kind = "get" => Answer(r) = <<Value(r), Status(r)>>
         /\ r.kind = "set" => Answer(r) = <<Status(r)>>
         /\ r.kind = "exit" => Answer(r) = <<>>
<1>1. r.kind = "get" => Answer(r) = <<Value(r), Status(r)>>
  BY DEF Answer
<1>2. r.kind = "set" => Answer(r) = <<Status(r)>>
  BY DEF Answer
<1>3. r.kind = "exit" => Answer(r) = <<>>
  BY DEF Answer
<1>4. r.kind \in {"set", "get", "exit"}
  BY ServerAssumption DEF Req, World
<1>5. Value(r) \in Unit /\ Status(r) \in Unit
  BY UnitOfRequest
<1>6. Answer(r) \in Seq(Unit)
  <2> DEFINE v == Value(r)  s == Status(r)
  <2> HIDE DEF v, s
  <2>4. v \in Unit /\ s \in Unit
    BY <1>5 DEF v, s
  <2>5. <<v, s>> \in Seq(Unit) /\ <<s>> \in Seq(Unit)
    BY <2>4
  <2>1. CASE r.kind = "get"
    BY <2>1, <2>5, <1>1 DEF v, s
  <2>2. CASE r.kind = "set"
    BY <2>2, <2>5, <1>2 DEF v, s
  <2>3. CASE r.kind = "exit"
    BY <2>3, <1>3
  <2> QED  BY <2>1, <2>2, <2>3, <1>4
<1> QED  BY <1>1, <1>2, <1>3, <1>4, <1>6

\* In an empty server no answer is on its way.
LEMMA InitOrder == Init => InOrder
<1> SUFFICES ASSUME Init PROVE InOrder
  OBVIOUS
<1>1. Placed
  <2>1. (\A f \in Fd : owner[f] = Nobody) /\ Len(backlog) = 0
    BY DEF Init
  <2> QED  BY <2>1, ServerAssumption DEF Placed
<1>2. ASSUME NEW c \in Conn PROVE ConnOrder(c)
  BY <1>2 DEF Init, ConnOrder, Answered
<1>3. ASSUME NEW f \in Fd, NEW c, owner[f] = c PROVE FdOrder(f, c)
  <2>1. ~ Busy(f) /\ ~ Triggered(f) /\ ~ Finishing(f)
    BY ServerAssumption DEF Init, Busy, Triggered, PutOff, Finishing, LoopIdle, WorkerIdle
  <2> QED  BY <1>3, <2>1 DEF Init, FdOrder, QueuedOrder, BusyOrder, TriggeredOrder,
                             FinishingOrder, IdleOrder
<1> QED  BY <1>1, <1>2, <1>3 DEF Init, InOrder, LoopIdle

\* An empty server satisfies the invariant.
LEMMA InitInv == Init => IInv
<1> SUFFICES ASSUME Init PROVE IInv
  OBVIOUS
<1>1. TypeOK
  <2>1. world.requests \in Nat
    BY ServerAssumption DEF Init, World
  <2> QED  BY <2>1 DEF Init, TypeOK, LoopIdle, WorkerIdle
<1>2. Known
  BY DEF Init, Known, LoopIdle, WorkerIdle
<1>3. Own
  BY DEF Init, Own, LoopIdle, WorkerIdle
<1> QED  BY <1>1, <1>2, <1>3, InitOrder DEF IInv

-----------------------------------------------------------------------------
\* The sets of units, requests and tasks depend on the world only, which stays.
LEMMA WorldStays ==
  ASSUME [Next]_vars
  PROVE  world' = world /\ Unit' = Unit /\ Req' = Req /\ Task' = Task
<1>1. world' = world
  BY DEF Next, vars, Client, Connect, Send, Disconnect, EventLoop, Accept, ProcessInput,
         ProcessRequest, ProcessEof, Reply, ReplyUnknown, ReplyNothing, ReplyExited, ReplyWrite,
         ReReply, Continue, ReplyComplete, ReplyFailed, ReplyPending, ReplyClear, ReReplyErase,
         ReReplyAgain, ReReplyFailed, Worker, TakeTask, Exit, Get, Set, AppendStatus, Signal
<1> QED  BY <1>1 DEF Unit, Req, Task

\* What the clients do keeps the types.
LEMMA ClientTypes ==
  ASSUME TypeOK, [Next]_vars, NEW c \in Conn, Client(c)
  PROVE  TypeOK'
<1> USE WorldStays DEF net, kernel, memory
<1>1. CASE Connect(c)
  BY <1>1 DEF Connect, TypeOK
<1>2. ASSUME NEW k \in world.kinds, Send(c, k) PROVE TypeOK'
  <2>1. Len(sent[c]) + 1 \in 1 .. world.requests
    BY <1>2, ServerAssumption DEF Send, TypeOK, World
  <2>2. Request(c, Len(sent[c]) + 1, k) \in Req
    BY <2>1 DEF Request, Req
  <2>3. sent' \in [Conn -> Seq(world.kinds)] /\ inbox' \in [Conn -> Seq(Req)]
    BY <1>2, <2>2 DEF Send, TypeOK
  <2>4. ASSUME NEW d \in Conn PROVE Len(sent'[d]) <= world.requests
    BY <1>2, <2>1 DEF Send, TypeOK
  <2>5. due' \in [Conn -> Seq(Unit)]
    <3>1. Answer(Request(c, Len(sent[c]) + 1, k)) \in Seq(Unit)
      BY <2>2, AnswerOf DEF TypeOK
    <3> QED  BY <1>2, <3>1 DEF Send, TypeOK
  <2> QED  BY <1>2, <2>3, <2>4, <2>5 DEF Send, TypeOK
<1>3. CASE Disconnect(c)
  BY <1>3 DEF Disconnect, TypeOK
<1> QED  BY <1>1, <1>2, <1>3 DEF Client

\* Where the elements of two sequences are when one is put after the other.
LEMMA Joined ==
  ASSUME NEW S, NEW s \in Seq(S), NEW t \in Seq(S)
  PROVE  /\ s \o t \in Seq(S) /\ Len(s \o t) = Len(s) + Len(t)
         /\ \A n \in 1 .. Len(s) + Len(t) :
              (s \o t)[n] = IF n <= Len(s) THEN s[n] ELSE t[n - Len(s)]
<1>1. Len(s) \in Nat /\ Len(t) \in Nat
  OBVIOUS
<1>2. s \o t \in Seq(S) /\ Len(s \o t) = Len(s) + Len(t)
  OBVIOUS
<1>3. ASSUME NEW n \in 1 .. Len(s) + Len(t)
      PROVE  (s \o t)[n] = IF n <= Len(s) THEN s[n] ELSE t[n - Len(s)]
  BY <1>1, <1>3
<1> QED  BY <1>2, <1>3

\* A sequence begins what another is added to.
LEMMA Begins ==
  ASSUME NEW S, NEW s \in Seq(S), NEW t \in Seq(S)
  PROVE  IsPrefix(s, s \o t)
<1> DEFINE w == s \o t
<1>1. w \in Seq(S) /\ Len(w) = Len(s) + Len(t) /\ \A n \in 1 .. Len(s) : w[n] = s[n]
  BY Joined
<1>2. Len(s) \in Nat /\ Len(t) \in Nat /\ Len(s) <= Len(w)
  BY <1>1
<1> HIDE DEF w
<1>3. SubSeq(w, 1, Len(s)) = [n \in 1 .. Len(s) |-> w[n]]
  BY <1>1, <1>2
<1>4. SubSeq(s, 1, Len(s)) = [n \in 1 .. Len(s) |-> s[n]]
  BY <1>2
<1>5. SubSeq(s, 1, Len(s)) = SubSeq(w, 1, Len(s))
  BY <1>1, <1>3, <1>4
<1> QED  BY <1>2, <1>5 DEF IsPrefix, w

(* A write() to a descriptor sends units of its output to the connection it  *)
(* denotes, and is refused only if that is closed or its peer is gone.      *)
LEMMA Written ==
  ASSUME TypeOK, NEW f \in Fd, NEW st \in WriteResults(f, Len(output[f])), Deliver(f, st)
  PROVE  /\ st \in Int /\ delivered' \in [Conn -> Seq(Unit)]
         /\ owner[f] # Nobody /\ "error" \notin world.faults => st # -2
         /\ \A c \in Conn : \A n \in 1 .. Len(delivered'[c]) :
              \/ n \in 1 .. Len(delivered[c]) /\ delivered'[c][n] = delivered[c][n]
              \/ c = owner[f] /\ \E i \in 1 .. Len(output[f]) : delivered'[c][n] = output[f][i]
<1> DEFINE out == output[f]
<1>1. out \in Seq(Unit) /\ Len(out) \in Nat /\ owner[f] \in Conn \cup {Nobody}
  BY DEF TypeOK
<1>2. /\ st \in Int /\ st <= Len(out)
      /\ st > 0 => owner[f] # Nobody
      /\ owner[f] # Nobody /\ "error" \notin world.faults => st # -2
  BY <1>1 DEF WriteResults
<1>3. CASE st <= 0
  BY <1>2, <1>3 DEF Deliver, TypeOK
<1>4. CASE st > 0
  <2> DEFINE sub == SubSeq(out, 1, st)
             del == delivered[owner[f]]
  <2>1. owner[f] \in Conn /\ del \in Seq(Unit)
    BY <1>1, <1>2, <1>4 DEF TypeOK
  <2>2. sub \in Seq(Unit) /\ Len(sub) = st /\ \A i \in 1 .. st : sub[i] = out[i]
    BY <1>1, <1>2, <1>4
  <2>3. delivered' = [delivered EXCEPT ![owner[f]] = @ \o sub]
    BY <1>2, <1>4 DEF Deliver
  <2> HIDE DEF sub, del
  <2>4. del \o sub \in Seq(Unit) /\ Len(del \o sub) = Len(del) + st
        /\ \A n \in 1 .. Len(del) + st :
             (del \o sub)[n] = IF n <= Len(del) THEN del[n] ELSE sub[n - Len(del)]
    <3>1. /\ del \o sub \in Seq(Unit) /\ Len(del \o sub) = Len(del) + Len(sub)
          /\ \A n \in 1 .. Len(del) + Len(sub) :
               (del \o sub)[n] = IF n <= Len(del) THEN del[n] ELSE sub[n - Len(del)]
      BY <2>1, <2>2, Joined
    <3> QED  BY <2>2, <3>1
  <2> USE DEF del
  <2>5. delivered' \in [Conn -> Seq(Unit)]
    BY <2>1, <2>3, <2>4 DEF TypeOK
  <2>6. ASSUME NEW c \in Conn, NEW n \in 1 .. Len(delivered'[c])
        PROVE  \/ n \in 1 .. Len(delivered[c]) /\ delivered'[c][n] = delivered[c][n]
               \/ c = owner[f] /\ \E i \in 1 .. Len(output[f]) : delivered'[c][n] = output[f][i]
    <3>1. CASE c # owner[f]
      BY <3>1, <2>3, <2>6 DEF TypeOK
    <3>2. CASE c = owner[f]
      <4>1. delivered'[c] = del \o sub
        BY <3>2, <2>1, <2>3 DEF TypeOK
      <4>2. CASE n <= Len(del)
        BY <3>2, <4>1, <4>2, <2>1, <2>4, <1>2, <2>6
      <4>3. CASE n > Len(del)
        <5>1. n - Len(del) \in 1 .. st /\ delivered'[c][n] = sub[n - Len(del)]
          BY <4>1, <4>3, <2>1, <2>4, <1>2, <2>6
        <5>2. sub[n - Len(del)] = out[n - Len(del)] /\ n - Len(del) \in 1 .. Len(output[f])
          BY <5>1, <2>2, <1>1, <1>2
        <5> QED  BY <5>1, <5>2, <3>2
      <4> QED  BY <4>2, <4>3, <2>1, <2>6
    <3> QED  BY <3>1, <3>2
  <2> QED  BY <1>2, <2>5, <2>6
<1> QED  BY <1>2, <1>3, <1>4

\* What the event loop does keeps the types.
LEMMA LoopTypes ==
  ASSUME TypeOK, [Next]_vars, EventLoop
  PROVE  TypeOK'
<1> USE WorldStays DEF net, kernel, memory
<1>1. CASE Accept
  <2>1. world.fds \subseteq Fd
    BY ServerAssumption DEF TypeOK, World
  <2>2. PICK f \in Fd : owner' = [owner EXCEPT ![f] = Head(backlog)] /\ addClientIfNotExited(f)
    BY <1>1, <2>1 DEF Accept, FreeFd
  <2>3. Head(backlog) \in Conn /\ Tail(backlog) \in Seq(Conn)
    BY <1>1 DEF Accept, TypeOK
  <2>4. owner' \in [Fd -> Conn \cup {Nobody}] /\ backlog' \in Seq(Conn)
    BY <1>1, <2>2, <2>3 DEF Accept, TypeOK
  <2>5. output' \in [Fd -> Seq(Unit)] /\ pollIn' \subseteq Fd /\ clients' \subseteq Fd
        /\ isExited' \subseteq Fd /\ pendingOut' \subseteq Fd
    <3>1. CASE f \in clients
      BY <3>1, <2>2 DEF addClientIfNotExited, TypeOK
    <3>2. CASE f \notin clients
      <4>1. /\ clients' = clients \cup {f} /\ isExited' = isExited \ {f}
            /\ pendingOut' = pendingOut \ {f} /\ pollIn' \subseteq pollIn \cup {f}
            /\ output' = [output EXCEPT ![f] = <<>>]
        BY <3>2, <2>2 DEF addClientIfNotExited
      <4>2. output' \in [Fd -> Seq(Unit)]
        BY <4>1 DEF TypeOK
      <4> QED  BY <4>1, <4>2 DEF TypeOK
    <3> QED  BY <3>1, <3>2
  <2> QED  BY <1>1, <2>4, <2>5 DEF Accept, TypeOK
<1>2. ASSUME NEW f \in Fd, ProcessRequest(f) PROVE TypeOK'
  <2>1. Head(Input(f)) \in Req /\ Tail(Input(f)) \in Seq(Req) /\ owner[f] \in Conn
    BY <1>2 DEF ProcessRequest, Input, TypeOK
  <2>2. [fd |-> f, request |-> Head(Input(f))] \in Task
    BY <2>1 DEF Task
  <2> QED  BY <1>2, <2>1, <2>2 DEF ProcessRequest, Input, TypeOK
<1>3. ASSUME NEW f \in Fd, ProcessEof(f) PROVE TypeOK'
  BY <1>3 DEF ProcessEof, TypeOK, close, freeClient
<1>4. CASE ReplyUnknown
  BY <1>4 DEF ReplyUnknown, TypeOK, close
<1>5. CASE ReplyNothing
  BY <1>5 DEF ReplyNothing, TypeOK
<1>6. CASE ReplyExited
  BY <1>6 DEF ReplyExited, TypeOK, close, freeClient
<1>7. CASE ReplyWrite
  <2>1. counter \in Fd
    BY <1>7 DEF ReplyWrite, TypeOK
  <2>2. PICK st \in WriteResults(counter, Len(output[counter])) :
          Deliver(counter, st) /\ loop' = InReply(counter, st)
    BY <1>7 DEF ReplyWrite
  <2>3. delivered' \in [Conn -> Seq(Unit)] /\ st \in Int
    BY <2>1, <2>2, Written
  <2> QED  BY <1>7, <2>1, <2>2, <2>3 DEF ReplyWrite, TypeOK, InReply
<1>8. CASE ReplyComplete
  BY <1>8 DEF ReplyComplete, TypeOK, InClear
<1>9. CASE ReplyFailed
  BY <1>9 DEF ReplyFailed, TypeOK, LoopIdle, close, freeClient
<1>10. CASE ReplyPending
  BY <1>10 DEF ReplyPending, TypeOK, LoopIdle, pendReply
<1>11. CASE ReplyClear
  BY <1>11 DEF ReplyClear, TypeOK, LoopIdle
<1>12. ASSUME NEW f \in Fd, ReReply(f) PROVE TypeOK'
  <2>1. CASE output[f] = <<>>
    BY <1>12, <2>1 DEF ReReply, TypeOK
  <2>2. CASE output[f] # <<>>
    <3>1. PICK st \in WriteResults(f, Len(output[f])) :
            Deliver(f, st) /\ loop' = InReReply(f, st)
      BY <1>12, <2>2 DEF ReReply
    <3>2. delivered' \in [Conn -> Seq(Unit)] /\ st \in Int
      BY <3>1, Written
    <3> QED  BY <1>12, <3>1, <3>2 DEF ReReply, TypeOK, InReReply
  <2> QED  BY <2>1, <2>2
<1>13. CASE ReReplyErase
  <2>1. SubSeq(output[loop.fd], loop.st + 1, Len(output[loop.fd])) \in Seq(Unit)
    BY <1>13 DEF ReReplyErase, TypeOK
  <2> QED  BY <1>13, <2>1 DEF ReReplyErase, TypeOK, LoopIdle, pendReply
<1>14. CASE ReReplyAgain
  BY <1>14 DEF ReReplyAgain, TypeOK, LoopIdle, pendReply
<1>15. CASE ReReplyFailed
  BY <1>15 DEF ReReplyFailed, TypeOK, LoopIdle, close, freeClient
<1> QED
  BY <1>1, <1>2, <1>3, <1>4, <1>5, <1>6, <1>7, <1>8, <1>9, <1>10, <1>11, <1>12, <1>13, <1>14,
     <1>15 DEF EventLoop, ProcessInput, Reply, Continue

\* What the executing thread does keeps the types.
LEMMA WorkerTypes ==
  ASSUME TypeOK, [Next]_vars, Worker
  PROVE  TypeOK'
<1> USE WorldStays DEF net, kernel, memory
<1>t. worker.at # "idle" => worker.task \in Task /\ worker.task.fd \in Fd
                            /\ worker.task.request \in Req
  BY DEF TypeOK, Task
<1>1. CASE TakeTask
  <2>1. Head(tasks) \in Task /\ Tail(tasks) \in Seq(Task)
    BY <1>1 DEF TakeTask, TypeOK
  <2> QED  BY <1>1, <2>1 DEF TakeTask, TypeOK, Working
<1>2. CASE Exit
  BY <1>2, <1>t DEF Exit, TypeOK, Working
<1>3. CASE Get
  BY <1>3, <1>t, UnitOfRequest DEF Get, TypeOK, Working
<1>4. CASE Set
  BY <1>4, <1>t DEF Set, TypeOK, Working
<1>5. CASE AppendStatus
  BY <1>5, <1>t, UnitOfRequest DEF AppendStatus, TypeOK, Working
<1>6. CASE Signal
  <2>1. worker.task.fd \in Nat
    BY <1>6, <1>t, ServerAssumption DEF Signal
  <2>2. counter' \in Nat /\ worker'.at = "idle"
    BY <1>6, <2>1 DEF Signal, TypeOK, WorkerIdle
  <2> QED  BY <1>6, <2>2 DEF Signal, TypeOK
<1> QED  BY <1>1, <1>2, <1>3, <1>4, <1>5, <1>6 DEF Worker

\* Every step keeps the types.
LEMMA TypeStep == TypeOK /\ [Next]_vars => TypeOK'
<1> SUFFICES ASSUME TypeOK, [Next]_vars PROVE TypeOK'
  OBVIOUS
<1>1. CASE UNCHANGED vars
  BY <1>1, WorldStays DEF vars, net, kernel, memory, TypeOK
<1> QED  BY <1>1, ClientTypes, LoopTypes, WorkerTypes DEF Next

-----------------------------------------------------------------------------
\* freeClient() frees nothing: its guard asks for what is not there.
LEMMA FreesNothing ==
  ASSUME NEW f, freeClient(f)
  PROVE  clients' = clients
  BY DEF freeClient

\* A request that was read is the last of the queued tasks.
LEMMA Queued ==
  ASSUME TypeOK, NEW f \in Fd, ProcessRequest(f)
  PROVE  \A n \in 1 .. Len(tasks') :
           \/ n \in 1 .. Len(tasks) /\ tasks'[n] = tasks[n]
           \/ tasks'[n].fd = f /\ tasks'[n].request = Head(Input(f))
<1> DEFINE t == [fd |-> f, request |-> Head(Input(f))]
<1>1. tasks' = Append(tasks, t) /\ tasks \in Seq(Task)
  BY DEF ProcessRequest, TypeOK
<1> HIDE DEF t
<1>2. \A n \in 1 .. Len(tasks') : (n \in 1 .. Len(tasks) /\ tasks'[n] = tasks[n]) \/ tasks'[n] = t
  BY <1>1
<1> QED  BY <1>2 DEF t

\* What the event loop does keeps the descriptors known.
LEMMA LoopKnown ==
  ASSUME TypeOK, Known, EventLoop
  PROVE  Known'
<1> USE DEF net, kernel, memory
<1>1. CASE Accept
  <2>1. world.fds \subseteq Fd
    BY ServerAssumption DEF TypeOK, World
  <2>2. PICK f \in Fd : owner' = [owner EXCEPT ![f] = Head(backlog)] /\ addClientIfNotExited(f)
    BY <1>1, <2>1 DEF Accept, FreeFd
  <2>3. clients' = clients \cup {f} /\ pollIn' \subseteq pollIn \cup {f}
    BY <2>2 DEF addClientIfNotExited
  <2> QED  BY <1>1, <2>2, <2>3 DEF Accept, Known, TypeOK
<1>2. ASSUME NEW f \in Fd, ProcessRequest(f) PROVE Known'
  <2>1. f \in clients
    BY <1>2 DEF ProcessRequest, Known
  <2>2. \A n \in 1 .. Len(tasks') :
             \/ n \in 1 .. Len(tasks) /\ tasks'[n] = tasks[n]
             \/ tasks'[n].fd = f /\ tasks'[n].request = Head(Input(f))
    BY <1>2, Queued
  <2>3. \A n \in 1 .. Len(tasks') : tasks'[n].fd \in clients
    BY <2>1, <2>2 DEF Known
  <2> QED  BY <1>2, <2>3 DEF ProcessRequest, Known
<1>3. ASSUME NEW f \in Fd, ProcessEof(f) PROVE Known'
  BY <1>3, FreesNothing DEF ProcessEof, Known, close
<1>4. CASE ReplyUnknown
  BY <1>4 DEF ReplyUnknown, Known, close
<1>5. CASE ReplyNothing
  BY <1>5 DEF ReplyNothing, Known
<1>6. CASE ReplyExited
  BY <1>6, FreesNothing DEF ReplyExited, Known, close
<1>7. CASE ReplyWrite
  BY <1>7 DEF ReplyWrite, Known, InReply
<1>8. CASE ReplyComplete
  BY <1>8 DEF ReplyComplete, Known, InClear
<1>9. CASE ReplyFailed
  BY <1>9, FreesNothing DEF ReplyFailed, Known, LoopIdle, close
<1>10. CASE ReplyPending
  BY <1>10 DEF ReplyPending, Known, LoopIdle, pendReply
<1>11. CASE ReplyClear
  BY <1>11 DEF ReplyClear, Known, LoopIdle
<1>12. ASSUME NEW f \in Fd, ReReply(f) PROVE Known'
  BY <1>12 DEF ReReply, Writable, Known, LoopIdle, InReReply
<1>13. CASE ReReplyErase
  BY <1>13 DEF ReReplyErase, Known, LoopIdle, pendReply
<1>14. CASE ReReplyAgain
  BY <1>14 DEF ReReplyAgain, Known, LoopIdle, pendReply
<1>15. CASE ReReplyFailed
  BY <1>15, FreesNothing DEF ReReplyFailed, Known, LoopIdle, close
<1> QED
  BY <1>1, <1>2, <1>3, <1>4, <1>5, <1>6, <1>7, <1>8, <1>9, <1>10, <1>11, <1>12, <1>13, <1>14,
     <1>15 DEF EventLoop, ProcessInput, Reply, Continue

\* So do the other steps: the queue hands on the tasks it was given.
LEMMA KnownStep == TypeOK /\ Known /\ [Next]_vars => Known'
<1> SUFFICES ASSUME TypeOK, Known, [Next]_vars PROVE Known'
  OBVIOUS
<1> USE DEF net, kernel, memory
<1>1. ASSUME NEW c \in Conn, Client(c) PROVE Known'
  BY <1>1 DEF Client, Connect, Send, Disconnect, Known
<1>2. CASE TakeTask
  <2>1. /\ Head(tasks) = tasks[1] /\ 1 \in 1 .. Len(tasks)
        /\ Len(tasks') = Len(tasks) - 1
        /\ \A n \in 1 .. Len(tasks') : tasks'[n] = tasks[n + 1] /\ n + 1 \in 1 .. Len(tasks)
    BY <1>2 DEF TakeTask, TypeOK
  <2>2. Head(tasks).fd \in clients
    BY <2>1 DEF Known, TypeOK
  <2>3. worker' = [at |-> "run", task |-> Head(tasks)]
    BY <1>2, <2>2 DEF TakeTask, Working
  <2> QED  BY <1>2, <2>1, <2>2, <2>3 DEF TakeTask, Known
<1>3. CASE Exit \/ Get \/ Set \/ AppendStatus
  <2>1. worker'.at \in {"status", "signal"} /\ worker'.task = worker.task
        /\ worker.at # "idle"
    BY <1>3 DEF Exit, Get, Set, AppendStatus, Working
  <2> QED  BY <1>3, <2>1 DEF Exit, Get, Set, AppendStatus, Known
<1>4. CASE Signal
  BY <1>4 DEF Signal, Known, WorkerIdle
<1>5. CASE UNCHANGED vars
  BY <1>5 DEF vars, Known
<1> QED  BY <1>1, <1>2, <1>3, <1>4, <1>5, LoopKnown DEF Next, Worker

-----------------------------------------------------------------------------
(* What was on its way to a Client stays for the connection of its          *)
(* descriptor when that is closed, or given away, after a refused write():  *)
(* then it is for a client that has gone.                                   *)

Forsaken(f) ==
  "error" \in world.faults /\ (owner[f] = Nobody \/ Lost(owner[f]))

(* A step that opens, extends and queues nothing, and after which nothing   *)
(* is sent for a Client that it was not sent for before, keeps the owners.  *)
LEMMA OwnFrame ==
  ASSUME TypeOK, Known, Own, clients' = clients, world' = world, peer' = peer,
         \A f \in clients : Live(f)' =>
           /\ Live(f)
           /\ owner'[f] = owner[f] \/ Forsaken(f)
           /\ \/ output'[f] = output[f]
              \/ \A n \in 1 .. Len(output'[f]) :
                   \E i \in 1 .. Len(output[f]) : output'[f][n] = output[f][i],
         UNCHANGED <<tasks, worker, inbox>>,
         \A c \in Conn : \A n \in 1 .. Len(delivered'[c]) : For(delivered[c][n].conn, c)',
         loop'.at \in {"written", "rewritten"} => loop'.st # -2 \/ Forsaken(loop.fd)'
  PROVE  Own'
<1> USE DEF For, Lost
<1>1. ASSUME NEW f \in clients', Live(f)' PROVE OwnedBy(f)'
  <2>1. /\ f \in Fd /\ OwnedBy(f)
        /\ owner'[f] = owner[f] \/ Forsaken(f)
        /\ \/ output'[f] = output[f]
           \/ \A n \in 1 .. Len(output'[f]) :
                \E i \in 1 .. Len(output[f]) : output'[f][n] = output[f][i]
    BY <1>1 DEF Own, TypeOK
  <2>2. /\ \A x \in Conn : For(x, owner[f]) => For(x, owner'[f])
        /\ owner'[f] = Nobody => "error" \in world'.faults
    BY <2>1, ServerAssumption DEF OwnedBy, Forsaken
  <2>3. /\ \A n \in 1 .. Len(output[f]) : output[f][n] \in Unit
        /\ \A n \in 1 .. Len(tasks) : tasks[n] \in Task
        /\ worker.at # "idle" => worker.task \in Task
    BY <2>1 DEF TypeOK
  <2>4. /\ \A u \in Unit : u.conn \in Conn
        /\ \A t \in Task : t.request.conn \in Conn
    BY DEF Unit, Task, Req
  <2> HIDE DEF For, Lost
  <2>5. /\ \A n \in 1 .. Len(output[f]) : For(output[f][n].conn, owner[f])
        /\ \A n \in 1 .. Len(tasks) : tasks[n].fd = f => For(tasks[n].request.conn, owner[f])
        /\ worker.at # "idle" /\ worker.task.fd = f => For(worker.task.request.conn, owner[f])
    BY <2>1 DEF OwnedBy
  <2>6. \A n \in 1 .. Len(output'[f]) : For(output'[f][n].conn, owner'[f])
    <3>1. \A n \in 1 .. Len(output'[f]) :
            \E i \in 1 .. Len(output[f]) : output'[f][n] = output[f][i]
      BY <2>1
    <3>2. \A i \in 1 .. Len(output[f]) : For(output[f][i].conn, owner'[f])
      BY <2>2, <2>3, <2>4, <2>5
    <3> QED  BY <3>1, <3>2
  <2>7. /\ \A n \in 1 .. Len(tasks) : tasks[n].fd = f => For(tasks[n].request.conn, owner'[f])
        /\ worker.at # "idle" /\ worker.task.fd = f => For(worker.task.request.conn, owner'[f])
    BY <2>2, <2>3, <2>4, <2>5
  <2> QED  BY <2>2, <2>6, <2>7 DEF OwnedBy, For, Lost
<1>2. \A c \in Conn : \A n \in 1 .. Len(inbox'[c]) : inbox'[c][n].conn = c
  BY DEF Own
<1> QED  BY <1>1, <1>2 DEF Own, Forsaken

\* What is left of a sequence when its beginning is erased was in it before.
LEMMA SuffixUnits ==
  ASSUME NEW S, NEW s \in Seq(S), NEW k \in Nat
  PROVE  \A n \in 1 .. Len(SubSeq(s, k + 1, Len(s))) :
           \E i \in 1 .. Len(s) : SubSeq(s, k + 1, Len(s))[n] = s[i]
<1> DEFINE m == k + 1
           sub == SubSeq(s, m, Len(s))
<1>1. m \in Nat /\ Len(s) \in Nat /\ m >= 1
  OBVIOUS
<1> HIDE DEF m
<1>2. Len(sub) = IF m <= Len(s) THEN Len(s) - m + 1 ELSE 0
  BY <1>1
<1>3. ASSUME NEW n \in 1 .. Len(sub) PROVE \E i \in 1 .. Len(s) : sub[n] = s[i]
  <2>1. n + m - 1 \in 1 .. Len(s) /\ m <= Len(s) /\ n \in 1 .. Len(s) - m + 1
    BY <1>1, <1>2
  <2>2. sub[n] = s[n + m - 1]
    BY <1>1, <2>1
  <2> QED  BY <2>1, <2>2
<1> QED  BY <1>3 DEF m

\* What is written for a live Client is for its connection, and if it is refused,
\* there is none, or its client has gone.
LEMMA WrittenOwn ==
  ASSUME TypeOK, Own, NEW f \in clients, f \in Fd, Live(f), world' = world, peer' = peer,
         NEW st \in WriteResults(f, Len(output[f])), Deliver(f, st)
  PROVE  /\ st = -2 => Forsaken(f)
         /\ \A c \in Conn : \A n \in 1 .. Len(delivered'[c]) : For(delivered[c][n].conn, c)'
<1>1. OwnedBy(f) /\ owner[f] \in Conn \cup {Nobody}
  BY DEF Own, TypeOK
<1>2. \A c \in Conn : \A n \in 1 .. Len(delivered'[c]) :
        \/ n \in 1 .. Len(delivered[c]) /\ delivered'[c][n] = delivered[c][n]
        \/ c = owner[f] /\ \E i \in 1 .. Len(output[f]) : delivered'[c][n] = output[f][i]
  BY Written
<1>3. \A c \in Conn : \A n \in 1 .. Len(delivered'[c]) : For(delivered'[c][n].conn, c)
  BY SMTT(20), <1>1, <1>2 DEF OwnedBy, Own
<1>4. st = -2 => Forsaken(f)
  <2>1. Len(output[f]) \in Nat
    BY DEF TypeOK
  <2> QED  BY <1>1, <2>1 DEF WriteResults, OwnedBy, Forsaken, Lost
<1> QED  BY <1>3, <1>4 DEF For, Lost

\* What the event loop does leaves each Client with its own connection.
LEMMA LoopOwn ==
  ASSUME TypeOK, Known, Own, EventLoop
  PROVE  Own'
<1> USE DEF net, kernel, memory
<1>w. world' = world /\ peer' = peer
  BY DEF EventLoop, Accept, ProcessInput, ProcessRequest, ProcessEof, Reply, ReplyUnknown,
         ReplyNothing, ReplyExited, ReplyWrite, ReReply, Continue, ReplyComplete, ReplyFailed,
         ReplyPending, ReplyClear, ReReplyErase, ReReplyAgain, ReReplyFailed
<1>f. \A x, y : For(x, y)' <=> For(x, y)
  BY <1>w DEF For, Lost
<1>d. delivered' = delivered =>
        \A c \in Conn : \A n \in 1 .. Len(delivered'[c]) : For(delivered[c][n].conn, c)'
  BY <1>w DEF Own, For, Lost
<1>1. CASE Accept
  <2>1. world.fds \subseteq Fd
    BY ServerAssumption DEF TypeOK, World
  <2>2. PICK f \in Fd : /\ owner[f] = Nobody
                        /\ owner' = [owner EXCEPT ![f] = Head(backlog)]
                        /\ addClientIfNotExited(f)
    BY <1>1, <2>1 DEF Accept, FreeFd
  <2>3. Head(backlog) \in Conn /\ owner'[f] # Nobody
    BY <1>1, <2>2, ServerAssumption DEF Accept, TypeOK
  <2>4. CASE f \in clients
    <3>1. Live(f) => Forsaken(f)
      BY <2>2, <2>4 DEF Own, OwnedBy, Forsaken
    <3>2. clients' = clients /\ UNCHANGED <<isExited, output, pendingOut, pollIn>>
      BY <2>2, <2>4 DEF addClientIfNotExited
    <3>3. \A g \in clients : Live(g)' => Live(g) /\ (owner'[g] = owner[g] \/ Forsaken(g))
      BY <1>1, <2>2, <3>1, <3>2 DEF Accept, Live, TypeOK
    <3> QED  BY <1>1, <1>w, <1>d, <3>2, <3>3, OwnFrame DEF Accept, LoopIdle
  <2>5. CASE f \notin clients
    <3>1. /\ clients' = clients \cup {f} /\ isExited' = isExited \ {f}
          /\ output' = [output EXCEPT ![f] = <<>>]
      BY <2>2, <2>5 DEF addClientIfNotExited
    <3>2. ASSUME NEW g \in clients, Live(g)' PROVE OwnedBy(g)'
      <4>1. g # f /\ Live(g) /\ owner'[g] = owner[g] /\ output'[g] = output[g]
        BY <1>1, <2>2, <2>5, <3>1, <3>2 DEF Accept, Live, TypeOK
      <4>2. OwnedBy(g)
        BY <4>1 DEF Own
      <4> QED  BY <1>1, <1>w, <1>f, <4>1, <4>2 DEF Accept, OwnedBy
    <3>3. OwnedBy(f)'
      <4>1. Len(output'[f]) = 0
        BY <3>1 DEF TypeOK
      <4>2. worker.at # "idle" => worker.task.fd # f
        BY <2>5 DEF Known
      <4>3. \A n \in 1 .. Len(tasks) : tasks[n].fd # f
        BY <2>5 DEF Known
      <4> QED  BY <1>1, <2>3, <4>1, <4>2, <4>3 DEF Accept, OwnedBy
    <3>4. \A c \in Conn : \A n \in 1 .. Len(inbox'[c]) : inbox'[c][n].conn = c
      BY <1>1 DEF Accept, Own
    <3> QED  BY <1>1, <1>d, <3>1, <3>2, <3>3, <3>4 DEF Accept, Own, LoopIdle
  <2> QED  BY <2>4, <2>5
<1>2. ASSUME NEW f \in Fd, ProcessRequest(f) PROVE Own'
  <2>1. /\ owner[f] \in Conn /\ Head(Input(f)).conn = owner[f]
        /\ \A n \in 1 .. Len(Tail(Input(f))) : Tail(Input(f))[n].conn = owner[f]
    <3>1. owner[f] \in Conn /\ Input(f) \in Seq(Req) /\ Input(f) # <<>>
      BY <1>2 DEF ProcessRequest, TypeOK, Input
    <3>2. \A n \in 1 .. Len(Input(f)) : Input(f)[n].conn = owner[f]
      BY <3>1 DEF Own, Input
    <3>3. /\ 1 \in 1 .. Len(Input(f)) /\ Head(Input(f)) = Input(f)[1]
          /\ \A n \in 1 .. Len(Tail(Input(f))) :
               n + 1 \in 1 .. Len(Input(f)) /\ Tail(Input(f))[n] = Input(f)[n + 1]
      BY <3>1
    <3> QED  BY <3>1, <3>2, <3>3
  <2>2. ASSUME NEW g \in clients, Live(g)' PROVE OwnedBy(g)'
    <3>1. Live(g) /\ OwnedBy(g)
      BY <1>2, <2>2 DEF ProcessRequest, Live, Own
    <3>2. \A n \in 1 .. Len(tasks') :
               \/ n \in 1 .. Len(tasks) /\ tasks'[n] = tasks[n]
               \/ tasks'[n].fd = f /\ tasks'[n].request = Head(Input(f))
      BY <1>2, Queued
    <3>3. \A n \in 1 .. Len(tasks') :
            tasks'[n].fd = g => For(tasks'[n].request.conn, owner[g])
      BY <2>1, <3>1, <3>2 DEF OwnedBy, For
    <3> QED  BY <1>2, <1>w, <1>f, <3>1, <3>3 DEF ProcessRequest, OwnedBy
  <2>3. ASSUME NEW c \in Conn, NEW n \in 1 .. Len(inbox'[c]) PROVE inbox'[c][n].conn = c
    <3>1. CASE c = owner[f]
      BY <1>2, <2>1, <2>3, <3>1 DEF ProcessRequest, TypeOK, Input
    <3>2. CASE c # owner[f]
      BY <1>2, <2>3, <3>2 DEF ProcessRequest, TypeOK, Own
    <3> QED  BY <3>1, <3>2
  <2> QED  BY <1>2, <1>d, <2>2, <2>3 DEF ProcessRequest, Own, LoopIdle
<1>3. ASSUME NEW f \in Fd, ProcessEof(f) PROVE Own'
  <2>1. \A g \in clients : Live(g)' => g # f /\ Live(g) /\ owner'[g] = owner[g]
    BY <1>3 DEF ProcessEof, Live, LoopIdle, TypeOK, close
  <2> QED  BY <1>3, <1>w, <1>d, <2>1, FreesNothing, OwnFrame DEF ProcessEof, LoopIdle
<1>4. CASE ReplyUnknown
  <2>1. \A g \in clients : Live(g)' => Live(g) /\ owner'[g] = owner[g]
    BY <1>4 DEF ReplyUnknown, Live, LoopIdle, TypeOK, close
  <2> QED  BY <1>4, <1>w, <1>d, <2>1, OwnFrame DEF ReplyUnknown, LoopIdle
<1>5. CASE ReplyNothing
  <2>1. \A g \in clients : Live(g)' => Live(g)
    BY <1>5 DEF ReplyNothing, Live
  <2> QED  BY <1>5, <1>w, <1>d, <2>1, OwnFrame DEF ReplyNothing, LoopIdle
<1>6. CASE ReplyExited
  <2>1. \A g \in clients : Live(g)' => Live(g) /\ owner'[g] = owner[g]
    BY <1>6 DEF ReplyExited, Live, LoopIdle, TypeOK, close
  <2> QED  BY <1>6, <1>w, <1>d, <2>1, FreesNothing, OwnFrame DEF ReplyExited, LoopIdle
<1>7. CASE ReplyWrite
  <2>1. counter \in clients /\ counter \in Fd /\ Live(counter)
    BY <1>7 DEF ReplyWrite, TypeOK, Live
  <2>2. PICK st \in WriteResults(counter, Len(output[counter])) :
          Deliver(counter, st) /\ loop' = InReply(counter, st)
    BY <1>7 DEF ReplyWrite
  <2>3. /\ st = -2 => Forsaken(counter)
        /\ \A c \in Conn : \A n \in 1 .. Len(delivered'[c]) : For(delivered[c][n].conn, c)'
    BY <1>w, <2>1, <2>2, WrittenOwn
  <2>4. \A g \in clients : Live(g)' => Live(g)
    BY <1>7, <2>1, <2>2 DEF ReplyWrite, Live, InReply
  <2>5. loop'.at \in {"written", "rewritten"} => loop'.st # -2 \/ Forsaken(loop.fd)'
    BY <1>7, <1>w, <2>2, <2>3 DEF ReplyWrite, InReply, Forsaken, Lost
  <2> QED  BY <1>7, <1>w, <2>3, <2>4, <2>5, OwnFrame DEF ReplyWrite
<1>8. CASE ReplyComplete
  <2>1. \A g \in clients : Live(g)' => Live(g)
    BY <1>8 DEF ReplyComplete, Live, InClear
  <2> QED  BY <1>8, <1>w, <1>d, <2>1, OwnFrame DEF ReplyComplete, InClear
<1>9. CASE ReplyFailed
  <2>1. loop.fd \in Fd /\ Forsaken(loop.fd)
    BY <1>9 DEF ReplyFailed, Own, TypeOK, Forsaken
  <2>2. \A g \in clients : Live(g)' => Live(g) /\ (owner'[g] = owner[g] \/ Forsaken(g))
    BY <1>9, <2>1 DEF ReplyFailed, Live, LoopIdle, TypeOK, close
  <2> QED  BY <1>9, <1>w, <1>d, <2>2, FreesNothing, OwnFrame DEF ReplyFailed, LoopIdle
<1>10. CASE ReplyPending
  <2>1. \A g \in clients : Live(g)' => Live(g)
    BY <1>10 DEF ReplyPending, Live, LoopIdle, pendReply
  <2> QED  BY <1>10, <1>w, <1>d, <2>1, OwnFrame DEF ReplyPending, LoopIdle
<1>11. CASE ReplyClear
  <2>1. \A g \in clients : Live(g)' => Live(g)
    BY <1>11 DEF ReplyClear, Live, LoopIdle
  <2>2. \A g \in clients : output'[g] = output[g] \/ Len(output'[g]) = 0
    BY <1>11 DEF ReplyClear, TypeOK
  <2> QED  BY <1>11, <1>w, <1>d, <2>1, <2>2, OwnFrame DEF ReplyClear, LoopIdle
<1>12. ASSUME NEW f \in Fd, ReReply(f) PROVE Own'
  <2>1. f \in clients /\ Live(f) /\ loop.at = "idle"
    BY <1>12 DEF ReReply, Writable, Known, Live, LoopIdle
  <2>2. CASE output[f] = <<>>
    <3>1. \A g \in clients : Live(g)' => Live(g)
      BY <1>12, <2>2 DEF ReReply, Live
    <3> QED  BY <1>12, <1>w, <1>d, <2>1, <2>2, <3>1, OwnFrame DEF ReReply
  <2>3. CASE output[f] # <<>>
    <3>1. PICK st \in WriteResults(f, Len(output[f])) :
            Deliver(f, st) /\ loop' = InReReply(f, st)
      BY <1>12, <2>3 DEF ReReply
    <3>2. /\ st = -2 => Forsaken(f)
          /\ \A c \in Conn : \A n \in 1 .. Len(delivered'[c]) : For(delivered[c][n].conn, c)'
      BY <1>w, <2>1, <3>1, WrittenOwn
    <3>3. \A g \in clients : Live(g)' => Live(g)
      BY <1>12, <2>1, <3>1 DEF ReReply, Live, InReReply
    <3>4. loop'.at \in {"written", "rewritten"} => loop'.st # -2 \/ Forsaken(loop.fd)'
      BY <1>12, <1>w, <3>1, <3>2 DEF ReReply, InReReply, Forsaken, Lost
    <3> QED  BY <1>12, <1>w, <3>2, <3>3, <3>4, OwnFrame DEF ReReply
  <2> QED  BY <2>2, <2>3
<1>13. CASE ReReplyErase
  <2> DEFINE out == output[loop.fd]
  <2>1. \A g \in clients : Live(g)' => Live(g)
    BY <1>13 DEF ReReplyErase, Live, LoopIdle, pendReply
  <2>2. loop.fd \in Fd /\ loop.st \in Nat /\ out \in Seq(Unit)
    BY <1>13 DEF ReReplyErase, TypeOK
  <2>3. \A n \in 1 .. Len(SubSeq(out, loop.st + 1, Len(out))) :
          \E i \in 1 .. Len(out) : SubSeq(out, loop.st + 1, Len(out))[n] = out[i]
    BY <2>2, SuffixUnits
  <2>4. \A g \in clients : \/ output'[g] = output[g]
                           \/ g = loop.fd /\ output'[g] = SubSeq(out, loop.st + 1, Len(out))
    BY <1>13, <2>2 DEF ReReplyErase, TypeOK
  <2>5. \A g \in clients : \/ output'[g] = output[g]
                           \/ \A n \in 1 .. Len(output'[g]) :
                                \E i \in 1 .. Len(output[g]) : output'[g][n] = output[g][i]
    <3> HIDE DEF out
    <3>1. CASE output'[loop.fd] = SubSeq(out, loop.st + 1, Len(out))
      BY ZenonT(30), <2>3, <2>4, <3>1 DEF out
    <3> QED  BY <2>4, <3>1
  <2> QED  BY <1>13, <1>w, <1>d, <2>1, <2>5, OwnFrame DEF ReReplyErase, LoopIdle
<1>14. CASE ReReplyAgain
  <2>1. \A g \in clients : Live(g)' => Live(g)
    BY <1>14 DEF ReReplyAgain, Live, LoopIdle, pendReply
  <2> QED  BY <1>14, <1>w, <1>d, <2>1, OwnFrame DEF ReReplyAgain, LoopIdle
<1>15. CASE ReReplyFailed
  <2>1. loop.fd \in Fd /\ Forsaken(loop.fd)
    BY <1>15 DEF ReReplyFailed, Own, TypeOK, Forsaken
  <2>2. \A g \in clients : Live(g)' => Live(g) /\ (owner'[g] = owner[g] \/ Forsaken(g))
    BY <1>15, <2>1 DEF ReReplyFailed, Live, LoopIdle, TypeOK, close
  <2> QED  BY <1>15, <1>w, <1>d, <2>2, FreesNothing, OwnFrame DEF ReReplyFailed, LoopIdle
<1> QED
  BY <1>1, <1>2, <1>3, <1>4, <1>5, <1>6, <1>7, <1>8, <1>9, <1>10, <1>11, <1>12, <1>13, <1>14,
     <1>15 DEF EventLoop, ProcessInput, Reply, Continue

\* What the clients do leaves each Client with its own connection.
LEMMA ClientOwn ==
  ASSUME TypeOK, Own, NEW c \in Conn, Client(c)
  PROVE  Own'
<1> USE DEF net, kernel, memory
<1>1. CASE Connect(c) \/ Disconnect(c)
  <2>1. UNCHANGED <<world, sent, inbox, delivered, due, kernel, memory, loop, worker>>
    BY <1>1 DEF Connect, Disconnect
  <2>2. \A x : Lost(x) => Lost(x)'
    BY <1>1, <2>1 DEF Connect, Disconnect, Lost, TypeOK
  <2>3. \A x, y : For(x, y) => For(x, y)'
    BY <2>2 DEF For
  <2>4. ASSUME NEW f \in clients, Live(f)' PROVE OwnedBy(f)'
    <3>1. OwnedBy(f)
      BY <2>1, <2>4 DEF Live, Own
    <3> QED  BY <2>1, <2>3, <3>1 DEF OwnedBy
  <2> QED  BY <2>1, <2>2, <2>3, <2>4 DEF Own
<1>2. ASSUME NEW k \in world.kinds, Send(c, k) PROVE Own'
  <2> DEFINE r == Request(c, Len(sent[c]) + 1, k)
  <2>1. r.conn = c
    BY DEF Request
  <2> HIDE DEF r
  <2>2. inbox' = [inbox EXCEPT ![c] = Append(@, r)] /\ inbox \in [Conn -> Seq(Req)]
    BY <1>2 DEF Send, TypeOK, r
  <2>3. ASSUME NEW d \in Conn, NEW n \in 1 .. Len(inbox'[d]) PROVE inbox'[d][n].conn = d
    <3>1. CASE d # c
      BY <2>2, <2>3, <3>1 DEF Own
    <3>2. CASE d = c
      <4>1. inbox'[c] = Append(inbox[c], r) /\ inbox[c] \in Seq(Req)
        BY <2>2
      <4>2. (n \in 1 .. Len(inbox[c]) /\ inbox'[c][n] = inbox[c][n]) \/ inbox'[c][n] = r
        BY <2>3, <3>2, <4>1
      <4> QED  BY <2>1, <3>2, <4>2 DEF Own
    <3> QED  BY <3>1, <3>2
  <2> QED  BY <1>2, <2>3 DEF Send, Own, OwnedBy, Live, For, Lost
<1> QED  BY <1>1, <1>2 DEF Client

\* What the executing thread does leaves each Client with its own connection.
LEMMA WorkerOwn ==
  ASSUME TypeOK, Known, Own, Worker
  PROVE  Own'
<1> USE DEF net, kernel, memory, For, Lost
<1>t. worker.at # "idle" => worker.task.fd \in Fd /\ worker.task.request \in Req
  BY DEF TypeOK, Task
<1>1. CASE TakeTask
  <2>1. /\ Head(tasks) = tasks[1] /\ 1 \in 1 .. Len(tasks)
        /\ Len(tasks') = Len(tasks) - 1
        /\ \A n \in 1 .. Len(tasks') : tasks'[n] = tasks[n + 1] /\ n + 1 \in 1 .. Len(tasks)
    BY <1>1 DEF TakeTask, TypeOK
  <2>2. worker'.task = Head(tasks)
    BY <1>1 DEF TakeTask, Working
  <2>3. ASSUME NEW f \in clients, Live(f)' PROVE OwnedBy(f)'
    <3>1. OwnedBy(f)
      BY <1>1, <2>3 DEF TakeTask, Live, Own
    <3> QED  BY <1>1, <2>1, <2>2, <3>1 DEF TakeTask, OwnedBy
  <2> QED  BY <1>1, <2>3 DEF TakeTask, Own
<1>2. CASE Exit
  <2>1. ASSUME NEW f \in clients, Live(f)' PROVE OwnedBy(f)'
    <3>1. OwnedBy(f)
      BY <1>2, <2>1 DEF Exit, Live, Own
    <3> QED  BY <1>2, <3>1 DEF Exit, OwnedBy, Working
  <2> QED  BY <1>2, <2>1 DEF Exit, Own
<1>3. CASE Set
  BY <1>3 DEF Set, Own, OwnedBy, Live, Working
<1>4. CASE Signal
  BY <1>4 DEF Signal, Own, OwnedBy, Live, WorkerIdle
<1>5. CASE Get \/ AppendStatus
  <2> DEFINE t == worker.task
  <2>1. /\ worker.at # "idle" /\ worker'.task = t /\ t.fd \in Fd
        /\ Value(t.request).conn = t.request.conn /\ Status(t.request).conn = t.request.conn
    BY <1>5, <1>t, UnitOfRequest DEF Get, AppendStatus, Working
  <2>2. \A f \in Fd : f # t.fd => output'[f] = output[f]
    BY <1>5 DEF Get, AppendStatus, TypeOK
  <2>3. \A n \in 1 .. Len(output'[t.fd]) :
          \/ n \in 1 .. Len(output[t.fd]) /\ output'[t.fd][n] = output[t.fd][n]
          \/ output'[t.fd][n].conn = t.request.conn
    <3>1. CASE Get
      <4>1. output'[t.fd] = <<Value(t.request)>>
        BY <2>1, <3>1 DEF Get, TypeOK
      <4> QED  BY <2>1, <4>1
    <3>2. CASE AppendStatus
      <4>1. output'[t.fd] = Append(output[t.fd], Status(t.request)) /\ output[t.fd] \in Seq(Unit)
        BY <2>1, <3>2 DEF AppendStatus, TypeOK
      <4>2. \A n \in 1 .. Len(output'[t.fd]) :
              \/ n \in 1 .. Len(output[t.fd]) /\ output'[t.fd][n] = output[t.fd][n]
              \/ output'[t.fd][n] = Status(t.request)
        BY <4>1
      <4> QED  BY <2>1, <4>2
    <3> QED  BY <1>5, <3>1, <3>2
  <2>4. ASSUME NEW f \in clients, Live(f)' PROVE OwnedBy(f)'
    <3>1. OwnedBy(f) /\ f \in Fd
      BY <1>5, <2>4 DEF Get, AppendStatus, Live, Own, TypeOK
    <3>2. \A n \in 1 .. Len(output'[f]) : For(output'[f][n].conn, owner[f])
      <4>1. CASE f = t.fd
        BY <2>1, <2>3, <3>1, <4>1 DEF OwnedBy
      <4>2. CASE f # t.fd
        BY <2>2, <3>1, <4>2 DEF OwnedBy
      <4> QED  BY <4>1, <4>2
    <3> QED  BY <1>5, <2>1, <3>1, <3>2 DEF Get, AppendStatus, OwnedBy
  <2> QED  BY <1>5, <2>4 DEF Get, AppendStatus, Own
<1> QED  BY <1>1, <1>2, <1>3, <1>4, <1>5 DEF Worker

-----------------------------------------------------------------------------
(* In an orderly world, the answer to a request is in one place at a time.  *)

\* What a step does that has nothing to do with a connection, or a descriptor.
ConnSame(c) ==
  sent'[c] = sent[c] /\ delivered'[c] = delivered[c] /\ inbox'[c] = inbox[c]

LoopAt(f) == loop.at # "idle" /\ loop.fd = f

FdSame(f) ==
  /\ \A n \in 1 .. Len(tasks') : tasks'[n].fd = f =>
       \E m \in 1 .. Len(tasks) : tasks[m] = tasks'[n]
  /\ Busy(f)' => Busy(f) /\ worker' = worker
  /\ counter' = f => counter = f
  /\ f \in pendingOut' => f \in pendingOut
  /\ loop' = loop \/ (~ LoopAt(f) /\ ~ LoopAt(f)')
  /\ output'[f] = output[f]
  /\ f \in isExited' <=> f \in isExited
  /\ f \in clients' => f \in clients
  /\ f \in pollIn' => f \in pollIn

\* A connection that a step leaves alone has its answer after it, or waits
\* for it, as it did before.
LEMMA ConnFrame ==
  ASSUME NEW c, ConnSame(c)
  PROVE  /\ LastRequest(c)' = LastRequest(c)
         /\ Answered(c)' <=> Answered(c)
         /\ Waits(c)' <=> Waits(c)
         /\ Rests(c)' <=> Rests(c)
<1>1. LastRequest(c)' = LastRequest(c)
  BY DEF ConnSame, LastRequest
<1>2. Answered(c)' <=> Answered(c)
  <2>1. Status(LastRequest(c))' = Status(LastRequest(c))
    BY <1>1 DEF Status
  <2> QED  BY <2>1 DEF ConnSame, Answered
<1> QED  BY <1>1, <1>2 DEF ConnSame, Waits, Rests

\* Its order is kept, unless its peer leaves.
LEMMA ConnOrderFrame ==
  ASSUME NEW c \in Conn, ConnOrder(c), ConnSame(c), due'[c] = due[c],
         peer'[c] = "gone" => peer[c] = "gone"
  PROVE  ConnOrder(c)'
<1>1. Answer(LastRequest(c))' = Answer(LastRequest(c))
  BY ConnFrame DEF Answer, Value, Status
<1> QED  BY <1>1, ConnFrame DEF ConnOrder, ConnSame

\* So is that of a descriptor that a step leaves alone with its connection.
LEMMA FdFrame ==
  ASSUME NEW f \in Fd, NEW c, c \in Conn => ConnSame(c), FdSame(f), FdOrder(f, c)
  PROVE  FdOrder(f, c)'
<1>1. Waits(c)' <=> Waits(c)
  BY ConnFrame DEF Waits
<1>2. Waits(c) => LastRequest(c)' = LastRequest(c)
  BY ConnFrame DEF Waits
<1>3. c \in Conn => (Rests(c)' <=> Rests(c))
  BY ConnFrame
<1>4. Finishing(f)' <=> Finishing(f)
  BY DEF FdSame, Finishing, LoopAt
<1>5. PutOff(f)' <=> PutOff(f)
  BY DEF FdSame, PutOff, LoopAt
<1>6. Triggered(f)' => Triggered(f)
  BY <1>5 DEF FdSame, Triggered
<1>7. Waits(c) => /\ Begun(f, LastRequest(c))' <=> Begun(f, LastRequest(c))
                  /\ Ready(f, LastRequest(c))' <=> Ready(f, LastRequest(c))
  <2> SUFFICES ASSUME Waits(c)
               PROVE  /\ Begun(f, LastRequest(c))' <=> Begun(f, LastRequest(c))
                      /\ Ready(f, LastRequest(c))' <=> Ready(f, LastRequest(c))
    OBVIOUS
  <2>1. /\ Value(LastRequest(c))' = Value(LastRequest(c))
        /\ Answer(LastRequest(c))' = Answer(LastRequest(c))
    BY <1>2 DEF Answer, Value, Status
  <2> QED  BY <1>2, <2>1 DEF FdSame, Begun, Ready
<1>8. QueuedOrder(f, c)'
  BY <1>1, <1>2, <1>4, <1>6 DEF FdOrder, QueuedOrder, FdSame
<1>9. BusyOrder(f, c)'
  <2> SUFFICES ASSUME Busy(f)' PROVE BusyOrder(f, c)'
    BY DEF BusyOrder
  <2>1. Busy(f) /\ worker' = worker /\ BusyOrder(f, c)
    BY DEF FdSame, FdOrder
  <2>2. /\ Waits(c) /\ worker.task.request = LastRequest(c)
        /\ ~ Triggered(f) /\ ~ Finishing(f)
        /\ worker.at = "run" => f \notin isExited /\ output[f] = <<>>
        /\ worker.at = "status" => f \notin isExited /\ Begun(f, LastRequest(c))
        /\ worker.at = "signal" => Ready(f, LastRequest(c))
    BY <2>1 DEF BusyOrder
  <2> QED  BY <1>1, <1>2, <1>4, <1>6, <1>7, <2>1, <2>2 DEF BusyOrder, FdSame
<1>10. TriggeredOrder(f, c)'
  BY <1>1, <1>4, <1>5, <1>6, <1>7 DEF FdOrder, TriggeredOrder, FdSame
<1>11. FinishingOrder(f, c)'
  BY <1>3, <1>4 DEF FdOrder, FinishingOrder, FdSame, Finishing, LoopAt
<1>12. IdleOrder(f, c)'
  BY <1>1, <1>3, <1>4 DEF FdOrder, IdleOrder, FdSame
<1> QED  BY <1>8, <1>9, <1>10, <1>11, <1>12 DEF FdOrder

\* Connections stay placed when descriptors are closed.
LEMMA PlacedFrame ==
  ASSUME TypeOK, Placed, UNCHANGED <<peer, backlog>>,
         \A f \in Fd : owner'[f] = owner[f] \/ owner'[f] = Nobody
  PROVE  Placed'
<1>1. \A n \in 1 .. Len(backlog) : backlog[n] # Nobody
  BY ServerAssumption DEF TypeOK
<1>2. \A f, g \in Fd : owner'[f] = owner'[g] /\ owner'[f] # Nobody => f = g
  BY DEF Placed
<1> QED  BY <1>1, <1>2, ServerAssumption DEF Placed

\* Units are numbered.
LEMMA UnitNumber ==
  ASSUME TypeOK, NEW u \in Unit
  PROVE  u.num \in Nat
<1>1. world.requests \in Nat
  BY ServerAssumption DEF TypeOK, World
<1> QED  BY <1>1 DEF Unit

\* What a client whose answer is not complete waits for.
LEMMA Awaited ==
  ASSUME TypeOK, NEW c \in Conn, ~ Answered(c)
  PROVE  /\ sent[c] # <<>> /\ LastRequest(c) \in Req
         /\ LastRequest(c).conn = c /\ LastRequest(c).num = Len(sent[c])
<1>1. sent[c] # <<>>
  BY DEF Answered
<1>2. sent[c] \in Seq(world.kinds) /\ Len(sent[c]) \in 1 .. world.requests
  BY <1>1, ServerAssumption DEF TypeOK, World
<1>3. Last(sent[c]) \in world.kinds
  BY <1>2 DEF Last
<1> QED  BY <1>1, <1>2, <1>3 DEF LastRequest, Request, Req

\* The units of the answer to a request have its number, and its status is last.
LEMMA AnswerUnits ==
  ASSUME world \in Worlds, NEW r \in Req
  PROVE  /\ \A n \in 1 .. Len(Answer(r)) : Answer(r)[n].num = r.num
         /\ r.kind # "exit" => /\ Answer(r) # <<>> /\ Len(Answer(r)) \in Nat \ {0}
                               /\ Answer(r)[Len(Answer(r))] = Status(r)
<1>1. Value(r).num = r.num /\ Status(r).num = r.num
  BY DEF Value, Status
<1>2. CASE r.kind = "get"
  BY <1>1, <1>2, AnswerOf
<1>3. CASE r.kind = "set"
  BY SMTT(20), <1>1, <1>3, AnswerOf
<1>4. CASE r.kind = "exit"
  BY <1>4, AnswerOf
<1> QED  BY <1>2, <1>3, <1>4, AnswerOf

\* What an orderly world excludes.
LEMMA OrderlyWorld ==
  ASSUME Orderly
  PROVE  /\ "error" \notin world.faults /\ "partial" \notin world.faults
         /\ \A f, g, h \in Fd : f + g > h
<1>1. world.faults \subseteq {"again"}
  BY Zenon DEF Orderly
<1>2. \A f, g, h \in Fd : f + g > h
  BY Zenon DEF Orderly
<1> QED  BY <1>1, <1>2

\* In an orderly world a client goes on when it has its answer.
LEMMA GoesOn ==
  ASSUME Orderly, NEW c, (\E k \in world.kinds : Send(c, k)) \/ Disconnect(c)
  PROVE  Answered(c)
<1>1. world.patient
  BY Zenon DEF Orderly
<1>2. world.patient => Answered(c)
  BY Zenon DEF Send, Disconnect
<1> QED  BY <1>1, <1>2, Zenon

\* There a write() to an open connection accepts all or nothing.
LEMMA OrderlyWritten ==
  ASSUME TypeOK, Orderly, NEW f \in Fd, owner[f] \in Conn, output[f] # <<>>,
         NEW st \in WriteResults(f, Len(output[f])), Deliver(f, st)
  PROVE  \/ st = -1 /\ delivered' = delivered
         \/ /\ st = Len(output[f]) /\ st > 0
            /\ delivered' = [delivered EXCEPT ![owner[f]] = @ \o output[f]]
<1>1. output[f] \in Seq(Unit) /\ Len(output[f]) \in Nat \ {0}
  BY DEF TypeOK
<1>2. owner[f] # Nobody
  BY ServerAssumption
<1>3. st = -1 \/ st = Len(output[f])
  BY <1>2, OrderlyWorld DEF WriteResults
<1>4. SubSeq(output[f], 1, Len(output[f])) = output[f]
  BY <1>1
<1>5. CASE st = -1
  BY <1>5 DEF Deliver
<1>6. CASE st = Len(output[f])
  <2>1. delivered' = [delivered EXCEPT ![owner[f]] = @ \o SubSeq(output[f], 1, st)]
    BY <1>1, <1>6 DEF Deliver
  <2>2. delivered' = [delivered EXCEPT ![owner[f]] = @ \o output[f]]
    BY <2>1, <1>4, <1>6
  <2> QED  BY <1>1, <1>6, <2>2
<1> QED  BY <1>3, <1>5, <1>6

\* A step is about f: every other descriptor keeps its connection, and all that
\* its order speaks of.
OthersSame(f) ==
  \A g \in Fd \ {f} : /\ owner'[g] = owner[g] /\ FdSame(g)
                      /\ \A c \in Conn : owner[g] = c => ConnSame(c)

\* So a step preserves the order if it does for the one descriptor that it is
\* about, for the connections and for the tasks.
LEMMA OneDescriptor ==
  ASSUME InOrder, NEW f, OthersSame(f), Placed',
         \A c \in Conn : ConnOrder(c)',
         \A m, n \in 1 .. Len(tasks') : tasks'[m].fd = tasks'[n].fd => m = n,
         f \in Fd => \A c \in Conn \cup {Nobody} : owner'[f] = c => FdOrder(f, c)',
         counter' = 0 \/ counter' \in Fd \/ \A g \in Fd : counter' > g,
         loop'.at # "idle" => PutOff(loop.fd)' \/ Finishing(loop.fd)'
  PROVE  InOrder'
<1>1. ASSUME NEW g \in Fd, NEW c \in Conn \cup {Nobody}, owner'[g] = c
      PROVE  FdOrder(g, c)'
  <2>1. CASE g = f
    BY <1>1, <2>1
  <2>2. CASE g # f
    <3>1. owner[g] = c /\ FdSame(g) /\ (c \in Conn => ConnSame(c))
      BY <1>1, <2>2 DEF OthersSame
    <3>2. FdOrder(g, c)
      BY <3>1 DEF InOrder
    <3> QED  BY <3>1, <3>2, FdFrame
  <2> QED  BY <2>1, <2>2
<1> QED  BY <1>1 DEF InOrder

\* A step at which no client and no socket does anything leaves the order of
\* the connections.
LEMMA NetFrame ==
  ASSUME InOrder, UNCHANGED <<peer, sent, inbox, delivered, due>>
  PROVE  (\A d : ConnSame(d)) /\ \A c \in Conn : ConnOrder(c)'
<1>1. \A d : ConnSame(d)
  BY DEF ConnSame
<1>2. ASSUME NEW c \in Conn PROVE ConnOrder(c)'
  <2>1. ConnOrder(c) /\ ConnSame(c)
    BY <1>1 DEF InOrder
  <2> QED  BY <2>1, ConnOrderFrame
<1> QED  BY <1>1, <1>2

\* Nothing is on its way for a descriptor whose connection does not wait.
LEMMA Quiet ==
  ASSUME NEW f, NEW c, FdOrder(f, c), ~ Waits(c)
  PROVE  /\ \A n \in 1 .. Len(tasks) : tasks[n].fd # f
         /\ ~ Busy(f) /\ ~ Triggered(f) /\ counter # f /\ f \notin pendingOut
         /\ f \in isExited => f \notin pollIn
  BY DEF FdOrder, QueuedOrder, BusyOrder, TriggeredOrder, IdleOrder, Triggered

\* A connection that is made has no descriptor yet.
LEMMA ConnectOrder ==
  ASSUME TypeOK, InOrder, NEW c \in Conn, Connect(c)
  PROVE  InOrder'
<1> USE DEF net, kernel, memory
<1>1. Placed'
  <2>1. /\ backlog' = Append(backlog, c) /\ backlog \in Seq(Conn) /\ owner' = owner
        /\ peer[c] = "none" /\ peer' = [peer EXCEPT ![c] = "up"] /\ peer \in [Conn -> {"none", "up", "gone"}]
    BY DEF Connect, TypeOK
  <2>2. /\ Len(backlog') = Len(backlog) + 1 /\ Len(backlog) \in Nat
        /\ \A n \in 1 .. Len(backlog') :
             backlog'[n] = IF n = Len(backlog) + 1 THEN c ELSE backlog[n]
    BY <2>1
  <2>3. Placed
    BY DEF InOrder
  <2>4. \A m, n \in 1 .. Len(backlog') : backlog'[m] = backlog'[n] => m = n
    BY <2>1, <2>2, <2>3 DEF Placed
  <2>5. \A n \in 1 .. Len(backlog') : \A f \in Fd : owner'[f] # backlog'[n]
    BY <2>1, <2>2, <2>3 DEF Placed
  <2>6. ASSUME NEW d \in Conn, peer'[d] = "none"
        PROVE  /\ \A f \in Fd : owner'[f] # d
               /\ \A n \in 1 .. Len(backlog') : backlog'[n] # d
    BY <2>1, <2>2, <2>3, <2>6 DEF Placed
  <2> QED  BY <2>1, <2>3, <2>4, <2>5, <2>6 DEF Placed
<1>2. ASSUME NEW d \in Conn PROVE ConnOrder(d)'
  <2>1. ConnSame(d) /\ due'[d] = due[d] /\ (peer'[d] = "gone" => peer[d] = "gone")
    BY DEF Connect, ConnSame, TypeOK
  <2> QED  BY <2>1, ConnOrderFrame DEF InOrder
<1>3. OthersSame(0)
  <2>1. ASSUME NEW g PROVE FdSame(g)
    BY DEF Connect, FdSame, Busy
  <2>2. ASSUME NEW d PROVE ConnSame(d)
    BY DEF Connect, ConnSame
  <2> QED  BY <2>1, <2>2 DEF Connect, OthersSame
<1>4. 0 \notin Fd
  BY ServerAssumption
<1>5. loop.at # "idle" => PutOff(loop.fd)' \/ Finishing(loop.fd)'
  BY DEF InOrder, Connect, PutOff, Finishing
<1> QED
  BY <1>1, <1>2, <1>3, <1>4, <1>5, OneDescriptor DEF Connect, InOrder

\* A client that leaves has its answer.
LEMMA DisconnectOrder ==
  ASSUME TypeOK, Orderly, InOrder, NEW c \in Conn, Disconnect(c)
  PROVE  InOrder'
<1> USE DEF net, kernel, memory
<1>1. peer' = [peer EXCEPT ![c] = "gone"] /\ peer[c] = "up"
  BY DEF Disconnect
<1>2. Placed'
  BY <1>1 DEF Disconnect, InOrder, Placed, TypeOK
<1>3. ASSUME NEW d PROVE ConnSame(d)
  BY DEF Disconnect, ConnSame
<1>4. ASSUME NEW d \in Conn PROVE ConnOrder(d)'
  <2>1. CASE d # c
    <3>1. due'[d] = due[d] /\ peer'[d] = peer[d]
      BY <1>1, <2>1 DEF Disconnect, TypeOK
    <3> QED  BY <1>3, <3>1, ConnOrderFrame DEF InOrder
  <2>2. CASE d = c
    <3>1. Answered(c) /\ ConnOrder(c)
      BY GoesOn DEF InOrder
    <3>2. /\ Answered(c)' <=> Answered(c)
          /\ Answer(LastRequest(c))' = Answer(LastRequest(c))
          /\ LastRequest(c)' = LastRequest(c)
      BY <1>3, ConnFrame DEF Answer, Value, Status
    <3> QED  BY <2>2, <3>1, <3>2 DEF ConnOrder, Disconnect
  <2> QED  BY <2>1, <2>2
<1>5. OthersSame(0)
  <2>1. ASSUME NEW g PROVE FdSame(g)
    BY DEF Disconnect, FdSame, Busy
  <2> QED  BY <1>3, <2>1 DEF Disconnect, OthersSame
<1>6. 0 \notin Fd
  BY ServerAssumption
<1>7. loop.at # "idle" => PutOff(loop.fd)' \/ Finishing(loop.fd)'
  BY DEF InOrder, Disconnect, PutOff, Finishing
<1> QED
  BY <1>2, <1>4, <1>5, <1>6, <1>7, OneDescriptor DEF Disconnect, InOrder

\* A request is sent by a client that has its answers, and nothing is on its
\* way for it: it waits for this one.
LEMMA SendOrder ==
  ASSUME TypeOK, Orderly, InOrder, NEW c \in Conn, NEW k \in world.kinds, Send(c, k)
  PROVE  InOrder'
<1> USE DEF net, kernel, memory
<1> DEFINE r == Request(c, Len(sent[c]) + 1, k)
<1>1. Answered(c) /\ ConnOrder(c) /\ inbox[c] = <<>> /\ due[c] = delivered[c]
  <2>1. Answered(c) /\ ConnOrder(c)
    BY GoesOn DEF InOrder
  <2> QED  BY <2>1 DEF ConnOrder
<1>2. /\ sent'[c] = Append(sent[c], k) /\ inbox'[c] = Append(inbox[c], r)
      /\ due'[c] = due[c] \o Answer(r) /\ delivered' = delivered
      /\ Len(sent[c]) \in Nat /\ sent[c] \in Seq(world.kinds)
  BY DEF Send, TypeOK
<1>3. LastRequest(c)' = r
  BY <1>2 DEF LastRequest, Last
<1>4. sent'[c] # <<>> /\ Len(sent'[c]) = Len(sent[c]) + 1
  BY <1>2
<1>5. inbox'[c] = <<r>>
  BY <1>1, <1>2
<1>6. ~ Answered(c)'
  <2>1. Status(r).num = Len(sent[c]) + 1
    BY DEF Status, Request
  <2>2. \A n \in 1 .. Len(delivered[c]) : delivered[c][n].num <= Len(sent[c])
    BY <1>1 DEF ConnOrder
  <2>3. Status(r) \notin ToSet(delivered[c])
    <3>1. delivered[c] \in Seq(Unit)
      BY DEF TypeOK
    <3>2. ASSUME NEW n \in 1 .. Len(delivered[c]) PROVE delivered[c][n] # Status(r)
      <4>1. delivered[c][n].num <= Len(sent[c]) /\ delivered[c][n].num \in Nat
        BY <2>2, <3>1, <3>2, UnitNumber
      <4> QED  BY <1>2, <2>1, <4>1
    <3> QED  BY <3>1, <3>2 DEF ToSet
  <2>4. Status(LastRequest(c))' = Status(r)
    BY <1>3 DEF Status
  <2> QED  BY <1>2, <1>4, <2>3, <2>4 DEF Answered
<1>7. ASSUME NEW d \in Conn, d # c PROVE ConnSame(d) /\ due'[d] = due[d]
  BY <1>7 DEF Send, ConnSame, TypeOK
<1>8. ASSUME NEW d \in Conn PROVE ConnOrder(d)'
  <2>1. CASE d # c
    BY <1>7, <2>1, ConnOrderFrame DEF InOrder, Send
  <2>2. CASE d = c
    <3>1. \A n \in 1 .. Len(delivered'[c]) : delivered'[c][n].num <= Len(sent'[c])
      <4>1. \A n \in 1 .. Len(delivered[c]) : delivered[c][n].num <= Len(sent[c])
        BY <1>1 DEF ConnOrder
      <4>2. \A n \in 1 .. Len(delivered[c]) : delivered[c][n].num \in Int
        <5>1. delivered[c] \in Seq(Unit)
          BY DEF TypeOK
        <5> QED  BY <5>1, UnitNumber
      <4> QED  BY <1>2, <1>4, <4>1, <4>2
    <3>2. Answer(LastRequest(c))' = Answer(r)
      BY <1>3 DEF Answer, Value, Status
    <3>3. peer'[c] # "gone"
      BY DEF Send
    <3> HIDE DEF r
    <3> QED  BY <1>1, <1>2, <1>3, <1>5, <1>6, <2>2, <3>1, <3>2, <3>3 DEF ConnOrder
  <2> QED  BY <2>1, <2>2
<1>9. ASSUME NEW f PROVE FdSame(f)
  BY DEF Send, FdSame, Busy
<1>10. ASSUME NEW f \in Fd, owner'[f] = c PROVE FdOrder(f, c)'
  <2>1. owner[f] = c /\ FdOrder(f, c)
    BY <1>10 DEF Send, InOrder
  <2>2. ~ Waits(c) /\ Rests(c)
    BY <1>1 DEF Waits, Rests
  <2>3. Rests(c)'
    BY <1>5 DEF Rests
  <2>4. /\ \A n \in 1 .. Len(tasks) : tasks[n].fd # f
        /\ ~ Busy(f) /\ ~ Triggered(f)
        /\ f \notin isExited \/ f \notin pollIn
    BY <2>1, <2>2 DEF FdOrder, QueuedOrder, BusyOrder, TriggeredOrder, IdleOrder
  <2>5. ~ Busy(f)' /\ ~ Triggered(f)' /\ (Finishing(f)' <=> Finishing(f))
    BY <2>4 DEF Send, Busy, Triggered, Finishing, PutOff
  <2> QED
    BY <2>1, <2>2, <2>3, <2>4, <2>5
    DEF Send, FdOrder, QueuedOrder, BusyOrder, TriggeredOrder, FinishingOrder, IdleOrder
<1>11. loop.at # "idle" => PutOff(loop.fd)' \/ Finishing(loop.fd)'
  BY DEF InOrder, Send, PutOff, Finishing
<1>12. PICK f : \A g \in Fd \ {f} : owner[g] # c
  BY ServerAssumption DEF InOrder, Placed
<1>13. OthersSame(f)
  BY <1>7, <1>9, <1>12 DEF Send, OthersSame
<1>14. f \in Fd => \A d \in Conn \cup {Nobody} : owner'[f] = d => FdOrder(f, d)'
  <2> SUFFICES ASSUME f \in Fd, NEW d \in Conn \cup {Nobody}, owner'[f] = d
               PROVE  FdOrder(f, d)'
    OBVIOUS
  <2>1. CASE d = c
    BY <1>10, <2>1
  <2>2. CASE d # c
    <3>1. FdOrder(f, d)
      BY DEF Send, InOrder
    <3> QED  BY <1>7, <1>9, <2>2, <3>1, FdFrame
  <2> QED  BY <2>1, <2>2
<1>15. Placed'
  BY DEF Send, InOrder, Placed
<1> QED
  BY <1>8, <1>11, <1>13, <1>14, <1>15, OneDescriptor DEF Send, InOrder

\* A descriptor that is given away has nothing on its way.
LEMMA AcceptOrder ==
  ASSUME TypeOK, Known, Own, Orderly, InOrder, Accept
  PROVE  InOrder'
<1> USE DEF net, kernel, memory
<1>1. PICK f \in Fd : /\ owner[f] = Nobody
                      /\ owner' = [owner EXCEPT ![f] = Head(backlog)]
                      /\ addClientIfNotExited(f)
  <2>1. world.fds \subseteq Fd
    BY ServerAssumption DEF TypeOK, World
  <2> QED  BY <2>1 DEF Accept, FreeFd
<1>2. PICK c \in Conn : c = Head(backlog)
  BY DEF Accept, TypeOK
<1>3. /\ owner'[f] = c /\ \A g \in Fd \ {f} : owner'[g] = owner[g]
      /\ 1 \in 1 .. Len(backlog) /\ c = backlog[1]
      /\ Len(backlog') = Len(backlog) - 1
      /\ \A n \in 1 .. Len(backlog') : backlog'[n] = backlog[n + 1] /\ n + 1 \in 1 .. Len(backlog)
  BY <1>1, <1>2 DEF Accept, TypeOK
<1>4. Placed'
  <2>1. Placed /\ peer' = peer
    BY DEF InOrder, Accept
  <2>2. \A n \in 1 .. Len(backlog') : backlog'[n] # c
    BY <1>3, <2>1 DEF Placed
  <2>3. \A g \in Fd : owner[g] # c
    BY <1>3, <2>1 DEF Placed
  <2>4. peer[c] # "none"
    BY <1>3, <2>1 DEF Placed
  <2>5. \A g, h \in Fd : owner'[g] = owner'[h] /\ owner'[g] # Nobody => g = h
    BY <1>3, <2>1, <2>3 DEF Placed
  <2>6. \A m, n \in 1 .. Len(backlog') : backlog'[m] = backlog'[n] => m = n
    BY <1>3, <2>1 DEF Placed
  <2>7. \A n \in 1 .. Len(backlog') : \A g \in Fd : owner'[g] # backlog'[n]
    BY <1>3, <2>1, <2>2 DEF Placed
  <2>8. ASSUME NEW d \in Conn, peer'[d] = "none"
        PROVE  /\ \A g \in Fd : owner'[g] # d
               /\ \A n \in 1 .. Len(backlog') : backlog'[n] # d
    BY <1>3, <2>1, <2>4, <2>8 DEF Placed
  <2> QED  BY <2>5, <2>6, <2>7, <2>8 DEF Placed
<1>5. (\A d : ConnSame(d)) /\ \A d \in Conn : ConnOrder(d)'
  BY NetFrame DEF Accept
<1>6. OthersSame(f)
  <2>1. ASSUME NEW g \in Fd \ {f} PROVE FdSame(g)
    BY <1>1 DEF Accept, addClientIfNotExited, FdSame, Busy, TypeOK
  <2> QED  BY <1>3, <1>5, <2>1 DEF OthersSame
<1>7. FdOrder(f, c)'
  <2>1. FdOrder(f, Nobody) /\ ~ Waits(Nobody)
    BY <1>1, ServerAssumption DEF InOrder, Waits
  <2>2. /\ \A n \in 1 .. Len(tasks) : tasks[n].fd # f
        /\ ~ Busy(f) /\ counter # f /\ f \notin pendingOut /\ f \notin pollIn
    BY <2>1, Quiet DEF FdOrder, IdleOrder
  <2>3. ~ Busy(f)' /\ ~ Triggered(f)' /\ ~ Finishing(f)'
    BY <1>1, <2>2 DEF Accept, Busy, Triggered, PutOff, Finishing, LoopIdle, addClientIfNotExited
  <2>4. f \in clients => f \in isExited
    BY <1>1, OrderlyWorld DEF Own, Live, OwnedBy
  <2>5. \/ f \in isExited' /\ f \notin pollIn'
        \/ f \notin isExited' /\ output'[f] = <<>>
    BY <1>1, <2>2, <2>4 DEF addClientIfNotExited, TypeOK
  <2> QED
    BY <2>2, <2>3, <2>5, ServerAssumption
    DEF Accept, FdOrder, QueuedOrder, BusyOrder, TriggeredOrder, FinishingOrder, IdleOrder
<1>8. loop'.at = "idle"
  BY DEF Accept, LoopIdle
<1> QED
  BY <1>3, <1>4, <1>5, <1>6, <1>7, <1>8, OneDescriptor DEF Accept, InOrder

(* A request that is read is the last of its client, whose Client has       *)
(* nothing in its output, nothing queued and no event: it goes to the queue *)
(* alone.                                                                  *)
LEMMA RequestOrder ==
  ASSUME TypeOK, Known, Orderly, InOrder, NEW f \in Fd, ProcessRequest(f)
  PROVE  InOrder'
<1> USE DEF net, kernel, memory
<1>1. PICK c \in Conn : c = owner[f]
  BY DEF ProcessRequest, TypeOK
<1>2. /\ inbox[c] # <<>> /\ inbox' = [inbox EXCEPT ![c] = Tail(@)]
      /\ tasks' = Append(tasks, [fd |-> f, request |-> Head(inbox[c])])
  BY <1>1 DEF ProcessRequest, Input
<1>3. ConnOrder(c) /\ FdOrder(f, c)
  BY <1>1 DEF InOrder
<1>4. ~ Answered(c) /\ inbox[c] = <<LastRequest(c)>> /\ ~ Waits(c) /\ Rests(c)
  BY <1>2, <1>3 DEF ConnOrder, Waits, Rests
<1>5. /\ \A n \in 1 .. Len(tasks) : tasks[n].fd # f
      /\ ~ Busy(f) /\ ~ Triggered(f) /\ f \notin isExited /\ output[f] = <<>>
  <2>1. f \in clients /\ f \in pollIn /\ ~ Finishing(f)
    BY DEF ProcessRequest, Known, Finishing, LoopIdle
  <2> QED  BY <1>3, <1>4, <2>1, Quiet DEF FdOrder, IdleOrder
<1> DEFINE t == [fd |-> f, request |-> LastRequest(c)]
<1>6. /\ Len(tasks') = Len(tasks) + 1 /\ Len(tasks) \in Nat
      /\ \A n \in 1 .. Len(tasks') : tasks'[n] = IF n = Len(tasks) + 1 THEN t ELSE tasks[n]
  <2>1. tasks' = Append(tasks, t) /\ tasks \in Seq(Task)
    BY <1>2, <1>4 DEF TypeOK
  <2> HIDE DEF t
  <2> QED  BY <2>1
<1>7. inbox'[c] = <<>> /\ LastRequest(c)' = LastRequest(c)
  BY <1>2, <1>4 DEF ProcessRequest, LastRequest, TypeOK
<1>8. Answered(c)' <=> Answered(c)
  <2>1. Status(LastRequest(c))' = Status(LastRequest(c))
    BY <1>7 DEF Status
  <2> QED  BY <2>1 DEF ProcessRequest, Answered
<1>9. ASSUME NEW d \in Conn, d # c PROVE ConnSame(d)
  BY <1>2, <1>9 DEF ProcessRequest, ConnSame, TypeOK
<1>10. ASSUME NEW d \in Conn PROVE ConnOrder(d)'
  <2>1. CASE d # c
    BY <1>9, <2>1, ConnOrderFrame DEF InOrder, ProcessRequest
  <2>2. CASE d = c
    <3>1. Answer(LastRequest(c))' = Answer(LastRequest(c))
      BY <1>7 DEF Answer, Value, Status
    <3> QED  BY <1>3, <1>7, <1>8, <2>2, <3>1 DEF ConnOrder, ProcessRequest
  <2> QED  BY <2>1, <2>2
<1>11. OthersSame(f)
  <2>1. ASSUME NEW g \in Fd \ {f} PROVE FdSame(g)
    <3>1. ASSUME NEW n \in 1 .. Len(tasks'), tasks'[n].fd = g
          PROVE  \E m \in 1 .. Len(tasks) : tasks[m] = tasks'[n]
      BY <1>6, <3>1
    <3> QED  BY <3>1 DEF ProcessRequest, FdSame, Busy
  <2>2. \A g \in Fd \ {f} : owner[g] # c
    BY <1>1, ServerAssumption DEF InOrder, Placed
  <2> QED  BY <1>9, <2>1, <2>2 DEF ProcessRequest, OthersSame
<1>12. FdOrder(f, c)'
  <2>1. Waits(c)' /\ ~ Rests(c)'
    BY <1>4, <1>7, <1>8 DEF Waits, Rests
  <2>2. ~ Busy(f)' /\ ~ Triggered(f)' /\ ~ Finishing(f)' /\ f \notin isExited'
        /\ output'[f] = <<>>
    BY <1>5 DEF ProcessRequest, Busy, Triggered, PutOff, Finishing, LoopIdle
  <2>3. ASSUME NEW n \in 1 .. Len(tasks'), tasks'[n].fd = f
        PROVE  tasks'[n].request = LastRequest(c)
    BY <1>5, <1>6, <2>3
  <2> QED
    BY <1>7, <2>1, <2>2, <2>3, ServerAssumption
    DEF FdOrder, QueuedOrder, BusyOrder, TriggeredOrder, FinishingOrder, IdleOrder
<1>13. \A m, n \in 1 .. Len(tasks') : tasks'[m].fd = tasks'[n].fd => m = n
  <2>1. \A m, n \in 1 .. Len(tasks) : tasks[m].fd = tasks[n].fd => m = n
    BY DEF InOrder
  <2> QED  BY <1>5, <1>6, <2>1
<1>14. Placed'
  BY DEF ProcessRequest, InOrder, Placed
<1>15. loop'.at = "idle"
  BY DEF ProcessRequest, LoopIdle
<1>16. owner'[f] = c
  BY <1>1 DEF ProcessRequest
<1> QED
  BY <1>10, <1>11, <1>12, <1>13, <1>14, <1>15, <1>16, OneDescriptor DEF ProcessRequest, InOrder

\* A descriptor that a step closes has nothing on its way any more.
LEMMA ClosedOrder ==
  ASSUME NEW f \in Fd, \A n \in 1 .. Len(tasks') : tasks'[n].fd # f,
         ~ Busy(f)', ~ Triggered(f)', ~ Finishing(f)', f \notin pollIn'
  PROVE  FdOrder(f, Nobody)'
BY ServerAssumption
DEF FdOrder, QueuedOrder, BusyOrder, TriggeredOrder, FinishingOrder, IdleOrder

\* The connection of a client that left, and so has its answer, is closed.
LEMMA EofOrder ==
  ASSUME TypeOK, Known, Orderly, InOrder, NEW f \in Fd, ProcessEof(f)
  PROVE  InOrder'
<1> USE DEF net, kernel, memory
<1>1. PICK c \in Conn : c = owner[f]
  BY DEF ProcessEof, TypeOK
<1>2. ~ Waits(c) /\ FdOrder(f, c)
  BY <1>1 DEF ProcessEof, InOrder, ConnOrder, Waits
<1>3. (\A d : ConnSame(d)) /\ \A d \in Conn : ConnOrder(d)'
  BY NetFrame DEF ProcessEof
<1>4. owner'[f] = Nobody /\ (\A g \in Fd \ {f} : owner'[g] = owner[g])
      /\ f \notin pollIn' /\ pollIn' \subseteq pollIn /\ clients' = clients
  BY FreesNothing DEF ProcessEof, close
<1>5. FdOrder(f, Nobody)'
  <2>1. /\ \A n \in 1 .. Len(tasks) : tasks[n].fd # f
        /\ ~ Busy(f) /\ ~ Triggered(f) /\ counter # f /\ f \notin pendingOut
    BY <1>2, Quiet
  <2>2. ~ Busy(f)' /\ ~ Triggered(f)' /\ ~ Finishing(f)'
    BY <2>1 DEF ProcessEof, Busy, Triggered, PutOff, Finishing, LoopIdle
  <2> QED  BY <1>4, <2>1, <2>2, ClosedOrder DEF ProcessEof
<1>6. OthersSame(f)
  <2>1. ASSUME NEW g \in Fd \ {f} PROVE FdSame(g)
    BY <1>4 DEF ProcessEof, FdSame, Busy
  <2> QED  BY <1>3, <1>4, <2>1 DEF OthersSame
<1>7. Placed'
  BY <1>4, PlacedFrame DEF ProcessEof, InOrder
<1>8. loop'.at = "idle"
  BY DEF ProcessEof, LoopIdle
<1> QED
  BY <1>3, <1>4, <1>5, <1>6, <1>7, <1>8, OneDescriptor DEF ProcessEof, InOrder

\* An answer that is delivered whole is the one that was missing.
LEMMA DeliveredOrder ==
  ASSUME TypeOK, InOrder, NEW c \in Conn, Waits(c), LastRequest(c).kind # "exit",
         delivered' = [delivered EXCEPT ![c] = @ \o Answer(LastRequest(c))],
         UNCHANGED <<peer, sent, inbox, due>>
  PROVE  /\ \A d \in Conn : ConnOrder(d)'
         /\ Rests(c)'
         /\ \A d \in Conn \ {c} : ConnSame(d)
<1> DEFINE r == LastRequest(c)
           del == delivered[c]
           ans == Answer(r)
<1>1. /\ ~ Answered(c) /\ inbox[c] = <<>> /\ ConnOrder(c)
      /\ r \in Req /\ r.num = Len(sent[c]) /\ sent[c] # <<>>
  BY Awaited DEF Waits, InOrder
<1>2. /\ del \in Seq(Unit) /\ ans \in Seq(Unit) /\ Len(ans) \in Nat \ {0}
      /\ \A n \in 1 .. Len(ans) : ans[n].num = Len(sent[c])
      /\ ans[Len(ans)] = Status(r)
  BY <1>1, AnswerOf, AnswerUnits DEF TypeOK
<1>3. delivered'[c] = del \o ans /\ \A d \in Conn \ {c} : delivered'[d] = delivered[d]
  BY DEF TypeOK
<1>4. \A n \in 1 .. Len(del) : del[n].num <= Len(sent[c])
  BY <1>1 DEF ConnOrder
<1>5. due[c] = del \o ans
  BY <1>1 DEF ConnOrder
<1>6. /\ LastRequest(c)' = r
      /\ Status(LastRequest(c))' = Status(r) /\ Answer(LastRequest(c))' = ans
  BY DEF LastRequest, Status, Value, Answer
<1> HIDE DEF r, del, ans
<1>7. /\ del \o ans \in Seq(Unit) /\ Len(del \o ans) = Len(del) + Len(ans)
      /\ \A n \in 1 .. Len(del) + Len(ans) :
           (del \o ans)[n] = IF n <= Len(del) THEN del[n] ELSE ans[n - Len(del)]
  BY <1>2, Joined
<1>8. Len(del) \in Nat /\ Len(sent[c]) \in Nat
  BY <1>2 DEF TypeOK
<1>9. \A n \in 1 .. Len(del \o ans) : (del \o ans)[n].num <= Len(sent[c])
  <2> SUFFICES ASSUME NEW n \in 1 .. Len(del \o ans) PROVE (del \o ans)[n].num <= Len(sent[c])
    OBVIOUS
  <2>1. CASE n <= Len(del)
    BY <2>1, <1>2, <1>4, <1>7, <1>8
  <2>2. CASE n > Len(del)
    <3>1. n - Len(del) \in 1 .. Len(ans) /\ (del \o ans)[n] = ans[n - Len(del)]
      BY <2>2, <1>2, <1>7, <1>8
    <3> QED  BY <3>1, <1>2, <1>8
  <2> QED  BY <2>1, <2>2, <1>2, <1>7, <1>8
<1>10. Status(r) \in ToSet(del \o ans)
  <2>1. Len(del) + Len(ans) \in 1 .. Len(del \o ans)
    BY <1>2, <1>7, <1>8
  <2>2. (del \o ans)[Len(del) + Len(ans)] = Status(r)
    BY <1>2, <1>7, <1>8
  <2> QED  BY <1>7, <2>1, <2>2 DEF ToSet
<1>11. Answered(c)'
  BY <1>3, <1>6, <1>10 DEF Answered
<1>12. Rests(c)'
  BY <1>11 DEF Rests
<1>13. ConnOrder(c)'
  BY <1>1, <1>3, <1>5, <1>9, <1>11 DEF ConnOrder
<1>14. \A d \in Conn \ {c} : ConnSame(d)
  BY <1>3 DEF ConnSame
<1>15. \A d \in Conn \ {c} : ConnOrder(d)'
  BY <1>14, ConnOrderFrame DEF InOrder
<1> QED  BY <1>12, <1>13, <1>14, <1>15

\* An answer that is ready on a descriptor, and what it answers.
LEMMA ReadyAnswer ==
  ASSUME TypeOK, NEW f \in Fd, NEW c, FdOrder(f, c), Triggered(f), f \notin isExited
  PROVE  /\ c \in Conn /\ Waits(c) /\ LastRequest(c).kind # "exit"
         /\ output[f] = Answer(LastRequest(c)) /\ output[f] # <<>>
<1>1. Waits(c) /\ Ready(f, LastRequest(c)) /\ c \in Conn /\ ~ Answered(c)
  BY DEF FdOrder, TriggeredOrder, Waits
<1>2. LastRequest(c).kind # "exit" /\ output[f] = Answer(LastRequest(c))
  BY <1>1 DEF Ready
<1>3. Answer(LastRequest(c)) # <<>>
  BY <1>1, <1>2, Awaited, AnswerUnits DEF TypeOK
<1> QED  BY <1>1, <1>2, <1>3

(* A write() of an answer that is ready is put off, which leaves something  *)
(* to make the loop try again, or completes the answer.                    *)
LEMMA WriteOrder ==
  ASSUME TypeOK, Orderly, InOrder, NEW f \in Fd, NEW c, c = owner[f], FdOrder(f, c),
         Triggered(f), f \notin isExited, loop = LoopIdle,
         NEW st \in WriteResults(f, Len(output[f])), Deliver(f, st),
         NEW at \in {"written", "rewritten"}, loop' = [at |-> at, fd |-> f, st |-> st],
         counter' # f, counter' = counter \/ counter' = 0,
         pendingOut' \subseteq pendingOut \ {f},
         UNCHANGED <<peer, backlog, sent, inbox, due, owner, pollIn, clients, isExited, output,
                     tasks, worker>>
  PROVE  InOrder'
<1>1. /\ c \in Conn /\ Waits(c) /\ LastRequest(c).kind # "exit"
      /\ output[f] = Answer(LastRequest(c)) /\ output[f] # <<>>
  BY ReadyAnswer
<1>2. \/ st = -1 /\ delivered' = delivered
      \/ /\ st = Len(output[f]) /\ st > 0
         /\ delivered' = [delivered EXCEPT ![c] = @ \o output[f]]
  BY <1>1, OrderlyWritten
<1>3. /\ \A n \in 1 .. Len(tasks) : tasks[n].fd # f
      /\ ~ Busy(f)
  BY DEF FdOrder, QueuedOrder, BusyOrder
<1>4. ~ Busy(f)'
  BY <1>3 DEF Busy
<1>5. ASSUME NEW g \in Fd \ {f} PROVE FdSame(g)
  BY ServerAssumption DEF FdSame, Busy, LoopAt, LoopIdle
<1>6. Placed'
  BY PlacedFrame DEF InOrder
<1>7. loop'.at \in {"written", "rewritten"} /\ loop'.fd = f /\ loop'.st = st
  OBVIOUS
<1>8. CASE st = -1 /\ delivered' = delivered
  <2>1. (\A d : ConnSame(d)) /\ \A d \in Conn : ConnOrder(d)'
    BY <1>8, NetFrame
  <2>2. OthersSame(f)
    BY <1>5, <2>1 DEF OthersSame
  <2>3. PutOff(f)' /\ ~ Finishing(f)' /\ Triggered(f)'
    BY <1>7, <1>8 DEF PutOff, Finishing, Triggered
  <2>4. Waits(c)' /\ ~ Rests(c)' /\ LastRequest(c)' = LastRequest(c)
    <3>1. ~ Rests(c)
      BY <1>1 DEF Waits, Rests
    <3> QED  BY <1>1, <2>1, <3>1, ConnFrame
  <2>5. Ready(f, LastRequest(c))'
    <3>1. Answer(LastRequest(c))' = Answer(LastRequest(c))
      BY <2>4 DEF Answer, Value, Status
    <3>2. Ready(f, LastRequest(c))
      BY DEF FdOrder, TriggeredOrder
    <3> QED  BY <2>4, <3>1, <3>2 DEF Ready
  <2>6. FdOrder(f, c)'
    BY <1>1, <1>3, <1>4, <2>3, <2>4, <2>5, ServerAssumption
    DEF FdOrder, QueuedOrder, BusyOrder, TriggeredOrder, FinishingOrder, IdleOrder
  <2> QED  BY <1>6, <1>7, <2>1, <2>2, <2>3, <2>6, OneDescriptor DEF InOrder
<1>9. CASE /\ st = Len(output[f]) /\ st > 0
           /\ delivered' = [delivered EXCEPT ![c] = @ \o output[f]]
  <2>1. /\ \A d \in Conn : ConnOrder(d)'
        /\ Rests(c)'
        /\ \A d \in Conn \ {c} : ConnSame(d)
    BY <1>1, <1>9, DeliveredOrder
  <2>2. OthersSame(f)
    <3>1. \A g \in Fd \ {f} : owner[g] # c
      BY <1>1, ServerAssumption DEF InOrder, Placed
    <3> QED  BY <1>5, <2>1, <3>1 DEF OthersSame
  <2>3. ~ PutOff(f)' /\ Finishing(f)' /\ ~ Triggered(f)'
    BY <1>7, <1>9 DEF PutOff, Finishing, Triggered
  <2>4. FdOrder(f, c)'
    BY <1>1, <1>3, <1>4, <1>7, <1>9, <2>1, <2>3, ServerAssumption
    DEF FdOrder, QueuedOrder, BusyOrder, TriggeredOrder, FinishingOrder, IdleOrder
  <2> QED  BY <1>6, <1>7, <2>1, <2>2, <2>3, <2>4, OneDescriptor DEF InOrder
<1> QED  BY <1>2, <1>8, <1>9

\* reply() finds a descriptor in the eventfd.
LEMMA ReplyOrder ==
  ASSUME TypeOK, Known, Orderly, InOrder, Reply
  PROVE  InOrder'
<1> USE DEF net, kernel, memory
<1>0. 0 \notin Fd
  BY ServerAssumption
<1>1. CASE ReplyUnknown
  <2>1. counter \notin clients /\ loop' = loop /\ loop.at = "idle" /\ counter' = 0
    BY <1>1 DEF ReplyUnknown, LoopIdle
  <2>2. owner' = owner /\ pollIn' \subseteq pollIn
    BY <1>1, <2>1 DEF ReplyUnknown, close, Known, TypeOK
  <2>3. (\A d : ConnSame(d)) /\ \A d \in Conn : ConnOrder(d)'
    BY <1>1, NetFrame DEF ReplyUnknown
  <2>4. OthersSame(0)
    <3>1. ASSUME NEW g \in Fd PROVE FdSame(g)
      BY <1>0, <1>1, <2>2 DEF ReplyUnknown, FdSame, Busy
    <3> QED  BY <2>2, <2>3, <3>1 DEF OthersSame
  <2>5. Placed'
    BY <1>1, <2>2, PlacedFrame DEF ReplyUnknown, InOrder
  <2> QED
    BY <1>0, <1>1, <2>1, <2>3, <2>4, <2>5, OneDescriptor DEF ReplyUnknown, InOrder
<1>2. ASSUME ~ ReplyUnknown
      PROVE  InOrder'
  <2>1. PICK f \in Fd : f = counter /\ f \in clients
    BY <1>2 DEF Reply, ReplyNothing, ReplyExited, ReplyWrite, TypeOK
  <2>2. PICK c \in Conn \cup {Nobody} : c = owner[f] /\ FdOrder(f, c)
    BY <2>1 DEF TypeOK, InOrder
  <2>3. Triggered(f) /\ f \notin pendingOut
    BY <2>1, <2>2 DEF Triggered, FdOrder, TriggeredOrder
  <2>4. ~ ReplyNothing
    <3>1. f \notin isExited => output[f] # <<>>
      BY <2>2, <2>3, ReadyAnswer
    <3> QED  BY <2>1, <3>1 DEF ReplyNothing
  <2>5. CASE ReplyExited
    <3>1. owner'[f] = Nobody /\ (\A g \in Fd \ {f} : owner'[g] = owner[g])
          /\ f \notin pollIn' /\ pollIn' \subseteq pollIn /\ clients' = clients
      BY <2>1, <2>5, FreesNothing DEF ReplyExited, close
    <3>2. (\A d : ConnSame(d)) /\ \A d \in Conn : ConnOrder(d)'
      BY <2>5, NetFrame DEF ReplyExited
    <3>3. FdOrder(f, Nobody)'
      <4>1. (\A n \in 1 .. Len(tasks) : tasks[n].fd # f) /\ ~ Busy(f)
        BY <2>2, <2>3 DEF FdOrder, QueuedOrder, BusyOrder
      <4>2. ~ Busy(f)' /\ ~ Triggered(f)' /\ ~ Finishing(f)'
        BY <1>0, <2>3, <2>5, <4>1
        DEF ReplyExited, Busy, Triggered, PutOff, Finishing, LoopIdle
      <4> QED  BY <2>5, <3>1, <4>1, <4>2, ClosedOrder DEF ReplyExited
    <3>4. OthersSame(f)
      <4>1. ASSUME NEW g \in Fd \ {f} PROVE FdSame(g)
        BY <1>0, <2>5, <3>1 DEF ReplyExited, FdSame, Busy
      <4> QED  BY <3>1, <3>2, <4>1 DEF OthersSame
    <3>5. Placed'
      BY <2>5, <3>1, PlacedFrame DEF ReplyExited, InOrder
    <3>6. loop'.at = "idle" /\ counter' = 0
      BY <2>5 DEF ReplyExited, LoopIdle
    <3> QED
      BY <2>5, <3>1, <3>2, <3>3, <3>4, <3>5, <3>6, OneDescriptor DEF ReplyExited, InOrder
  <2>6. CASE ReplyWrite
    <3>1. PICK st \in WriteResults(f, Len(output[f])) :
            Deliver(f, st) /\ loop' = [at |-> "written", fd |-> f, st |-> st]
      BY <2>1, <2>6 DEF ReplyWrite, InReply
    <3>2. f \notin isExited /\ counter' # f /\ counter' = 0 /\ pendingOut' \subseteq pendingOut \ {f}
      BY <1>0, <2>1, <2>3, <2>6 DEF ReplyWrite
    <3>3. UNCHANGED <<peer, backlog, sent, inbox, due, owner, pollIn, clients, isExited, output,
                     tasks, worker>> /\ loop = LoopIdle
      BY <2>6 DEF ReplyWrite
    <3> QED  BY <2>2, <2>3, <3>1, <3>2, <3>3, WriteOrder
  <2> QED  BY <1>2, <2>4, <2>5, <2>6 DEF Reply
<1> QED  BY <1>1, <1>2

\* reReply() finds a descriptor writable.
LEMMA ReReplyOrder ==
  ASSUME TypeOK, Orderly, InOrder, NEW f \in Fd, ReReply(f)
  PROVE  InOrder'
<1> USE DEF net, kernel, memory
<1>1. PICK c \in Conn \cup {Nobody} : c = owner[f] /\ FdOrder(f, c)
  BY DEF TypeOK, InOrder
<1>2. f \in pendingOut /\ loop = LoopIdle /\ Triggered(f)
  BY DEF ReReply, Writable, Triggered
<1>3. f \notin isExited /\ counter # f
  BY <1>1, <1>2 DEF FdOrder, TriggeredOrder
<1>4. output[f] # <<>>
  BY <1>1, <1>2, <1>3, ReadyAnswer
<1>5. PICK st \in WriteResults(f, Len(output[f])) :
        Deliver(f, st) /\ loop' = [at |-> "rewritten", fd |-> f, st |-> st]
  BY <1>4 DEF ReReply, InReReply
<1>6. counter' # f /\ counter' = counter /\ pendingOut' \subseteq pendingOut \ {f}
  BY <1>3 DEF ReReply
<1>7. UNCHANGED <<peer, backlog, sent, inbox, due, owner, pollIn, clients, isExited, output,
                 tasks, worker>>
  BY DEF ReReply
<1> QED  BY <1>1, <1>2, <1>3, <1>5, <1>6, <1>7, WriteOrder

\* What the loop has come to know of the write() it called.
LEMMA WriteReturned ==
  ASSUME TypeOK, Own, InOrder, loop.at # "idle",
         NEW f \in Fd, f = loop.fd, NEW c, c = owner[f]
  PROVE  /\ FdOrder(f, c) /\ c \in Conn /\ f \notin isExited
         /\ \A n \in 1 .. Len(tasks) : tasks[n].fd # f
         /\ ~ Busy(f) /\ counter # f /\ f \notin pendingOut
         /\ \/ PutOff(f) /\ ~ Finishing(f) /\ Triggered(f) /\ loop.st = -1
               /\ loop.at \in {"written", "rewritten"}
            \/ /\ ~ PutOff(f) /\ Finishing(f) /\ ~ Triggered(f)
               /\ loop.at # "complete" => loop.st > 0 /\ loop.st = Len(output[f])
<1>1. FdOrder(f, c) /\ (PutOff(f) \/ Finishing(f))
  BY DEF InOrder, TypeOK
<1>2. CASE PutOff(f)
  <2>1. Triggered(f)
    BY <1>2 DEF Triggered
  <2>2. loop.at \in {"written", "rewritten"} /\ loop.st = -1
    BY <1>2 DEF PutOff
  <2>3. /\ Waits(c) /\ ~ Finishing(f)
        /\ f \notin isExited /\ counter # f /\ f \notin pendingOut
    BY <1>1, <1>2, <2>1 DEF FdOrder, TriggeredOrder
  <2>4. (\A n \in 1 .. Len(tasks) : tasks[n].fd # f) /\ ~ Busy(f)
    BY <1>1, <2>1 DEF FdOrder, QueuedOrder, BusyOrder
  <2>5. c \in Conn
    BY <2>3 DEF Waits
  <2> QED  BY <1>1, <1>2, <2>1, <2>2, <2>3, <2>4, <2>5
<1>3. CASE Finishing(f)
  <2>1. /\ c \in Conn /\ f \notin isExited
        /\ loop.at # "complete" => loop.st = Len(output[f])
        /\ ~ Triggered(f) /\ ~ Busy(f) /\ \A n \in 1 .. Len(tasks) : tasks[n].fd # f
    BY <1>1, <1>3
    DEF FdOrder, QueuedOrder, BusyOrder, TriggeredOrder, FinishingOrder
  <2>2. ~ PutOff(f) /\ counter # f /\ f \notin pendingOut
    BY <2>1 DEF Triggered
  <2>3. loop.at # "complete" => loop.st > 0
    BY <1>3 DEF Finishing
  <2> QED  BY <1>1, <1>3, <2>1, <2>2, <2>3
<1> QED  BY <1>1, <1>2, <1>3

(* What a callback that ends has in common: the descriptor it was about     *)
(* has its event, or an empty output.                                      *)
LEMMA ContinueOrder ==
  ASSUME TypeOK, Own, Orderly, InOrder, Continue
  PROVE  InOrder'
<1> USE DEF net, kernel, memory
<1>1. loop.at # "idle"
  BY DEF Continue, ReplyComplete, ReplyFailed, ReplyPending, ReplyClear, ReReplyErase,
         ReReplyAgain, ReReplyFailed
<1>2. PICK f \in Fd : f = loop.fd
  BY <1>1 DEF TypeOK
<1>3. PICK c : c = owner[f]
  OBVIOUS
<1>4. /\ FdOrder(f, c) /\ c \in Conn /\ f \notin isExited
      /\ \A n \in 1 .. Len(tasks) : tasks[n].fd # f
      /\ ~ Busy(f) /\ counter # f /\ f \notin pendingOut
      /\ \/ PutOff(f) /\ ~ Finishing(f) /\ Triggered(f) /\ loop.st = -1
            /\ loop.at \in {"written", "rewritten"}
         \/ /\ ~ PutOff(f) /\ Finishing(f) /\ ~ Triggered(f)
            /\ loop.at # "complete" => loop.st > 0 /\ loop.st = Len(output[f])
  BY <1>1, <1>2, <1>3, WriteReturned
<1>5. ~ ReplyFailed /\ ~ ReReplyFailed
  BY OrderlyWorld DEF ReplyFailed, ReReplyFailed, Own
<1>6. /\ UNCHANGED <<peer, backlog, sent, inbox, delivered, due, owner, counter, clients,
                     isExited, tasks, worker>>
      /\ \A g \in Fd \ {f} : output'[g] = output[g]
                             /\ (g \in pendingOut' => g \in pendingOut)
                             /\ (g \in pollIn' => g \in pollIn)
      /\ loop'.at # "idle" => loop'.fd = f
  BY <1>2, <1>5
  DEF Continue, ReplyComplete, ReplyPending, ReplyClear, ReReplyErase, ReReplyAgain, pendReply,
      LoopIdle, InClear, TypeOK
<1>7. (\A d : ConnSame(d)) /\ \A d \in Conn : ConnOrder(d)'
  BY <1>6, NetFrame
<1>8. OthersSame(f)
  <2>1. ASSUME NEW g \in Fd \ {f} PROVE FdSame(g)
    <3>1. ~ LoopAt(g) /\ ~ LoopAt(g)'
      BY <1>2, <1>6 DEF LoopAt
    <3> QED  BY <1>6, <3>1 DEF FdSame, Busy
  <2> QED  BY <1>6, <1>7, <2>1 DEF OthersSame
<1>9. Placed'
  BY <1>6 DEF InOrder, Placed
<1>10. /\ Waits(c)' <=> Waits(c)
       /\ Rests(c)' <=> Rests(c)
       /\ LastRequest(c)' = LastRequest(c)
       /\ Answer(LastRequest(c))' = Answer(LastRequest(c))
       /\ c \in Conn => (Rests(c) <=> ~ Waits(c))
  BY <1>7, ConnFrame DEF Answer, Value, Status, Waits, Rests
<1>11. ~ Busy(f)'
  BY <1>4, <1>6 DEF Busy
<1>12. ASSUME loop'.at = "idle", output'[f] = output[f],
              f \in pendingOut', PutOff(f), Triggered(f)
       PROVE  FdOrder(f, c)'
  <2>1. Triggered(f)' /\ ~ PutOff(f)' /\ ~ Finishing(f)'
    BY <1>12 DEF Triggered, PutOff, Finishing
  <2>2. Waits(c) /\ Ready(f, LastRequest(c))
    BY <1>4, <1>12 DEF FdOrder, TriggeredOrder
  <2>3. Ready(f, LastRequest(c))'
    BY <1>6, <1>10, <1>12, <2>2 DEF Ready
  <2> QED
    BY <1>4, <1>6, <1>10, <1>11, <2>1, <2>2, <2>3, ServerAssumption
    DEF FdOrder, QueuedOrder, BusyOrder, TriggeredOrder, FinishingOrder, IdleOrder
<1>13. ASSUME ~ PutOff(f)', f \notin pendingOut', Finishing(f),
              \/ loop'.at = "complete" /\ Finishing(f)'
              \/ loop'.at = "idle" /\ ~ Finishing(f)' /\ output'[f] = <<>>
       PROVE  FdOrder(f, c)'
  <2>1. ~ Triggered(f)'
    BY <1>4, <1>6, <1>13 DEF Triggered
  <2>2. Rests(c)
    BY <1>4, <1>13 DEF FdOrder, FinishingOrder
  <2> QED
    BY <1>4, <1>6, <1>10, <1>11, <1>13, <2>1, <2>2, ServerAssumption
    DEF FdOrder, QueuedOrder, BusyOrder, TriggeredOrder, FinishingOrder, IdleOrder
<1>14. FdOrder(f, c)' /\ (loop'.at # "idle" => Finishing(f)')
  <2>1. CASE ReplyComplete
    <3>1. Len(output[f]) # -1
      BY DEF TypeOK
    <3>2. Finishing(f)
      BY <1>2, <1>4, <2>1, <3>1 DEF ReplyComplete
    <3>3. loop'.at = "complete" /\ Finishing(f)' /\ ~ PutOff(f)' /\ pendingOut' = pendingOut
      BY <1>2, <2>1 DEF ReplyComplete, InClear, Finishing, PutOff
    <3> QED  BY <1>4, <1>13, <3>2, <3>3
  <2>2. CASE ReplyPending
    <3>1. PutOff(f) /\ Triggered(f)
      BY <1>2, <1>4, <2>2 DEF ReplyPending
    <3>2. loop'.at = "idle" /\ output' = output /\ f \in pendingOut'
      BY <1>2, <1>4, <2>2 DEF ReplyPending, LoopIdle, pendReply
    <3> QED  BY <1>12, <3>1, <3>2
  <2>3. CASE ReplyClear
    <3>1. Finishing(f)
      BY <1>2, <1>4, <2>3 DEF ReplyClear
    <3>2. /\ loop'.at = "idle" /\ ~ Finishing(f)' /\ ~ PutOff(f)' /\ output'[f] = <<>>
          /\ pendingOut' = pendingOut
      BY <1>2, <2>3 DEF ReplyClear, LoopIdle, Finishing, PutOff, TypeOK
    <3> QED  BY <1>4, <1>13, <3>1, <3>2
  <2>4. CASE ReReplyErase
    <3>1. Finishing(f) /\ loop.st = Len(output[f]) /\ output[f] \in Seq(Unit)
      BY <1>2, <1>4, <2>4 DEF ReReplyErase, TypeOK
    <3>2. SubSeq(output[f], loop.st + 1, Len(output[f])) = <<>>
      BY <3>1
    <3>3. output'[f] = <<>> /\ loop' = LoopIdle
      BY <1>2, <2>4, <3>2 DEF ReReplyErase, TypeOK
    <3>4. pendingOut' = pendingOut
      BY <1>2, <2>4, <3>3 DEF ReReplyErase
    <3>5. loop'.at = "idle" /\ ~ Finishing(f)' /\ ~ PutOff(f)'
      BY <3>3 DEF LoopIdle, Finishing, PutOff
    <3> QED  BY <1>4, <1>13, <3>1, <3>3, <3>4, <3>5
  <2>5. CASE ReReplyAgain
    <3>1. PutOff(f) /\ Triggered(f)
      BY <1>2, <1>4, <2>5 DEF ReReplyAgain, TypeOK
    <3>2. loop'.at = "idle" /\ output' = output /\ f \in pendingOut'
      BY <1>2, <1>4, <2>5 DEF ReReplyAgain, LoopIdle, pendReply
    <3> QED  BY <1>12, <3>1, <3>2
  <2> QED  BY <1>5, <2>1, <2>2, <2>3, <2>4, <2>5 DEF Continue
<1>15. loop'.at # "idle" => Finishing(loop.fd)'
  BY <1>6, <1>14 DEF Finishing
<1>16. owner'[f] = c
  BY <1>3, <1>6
<1> QED
  BY <1>6, <1>7, <1>8, <1>9, <1>14, <1>15, <1>16, OneDescriptor DEF InOrder

\* The executing thread takes the task of a client that waits for it.
LEMMA TakeOrder ==
  ASSUME TypeOK, Known, InOrder, TakeTask
  PROVE  InOrder'
<1> USE DEF net, kernel, memory
<1>1. /\ Head(tasks) = tasks[1] /\ 1 \in 1 .. Len(tasks)
      /\ Len(tasks') = Len(tasks) - 1
      /\ \A n \in 1 .. Len(tasks') : tasks'[n] = tasks[n + 1] /\ n + 1 \in 1 .. Len(tasks)
  BY DEF TakeTask, TypeOK
<1>2. PICK f \in Fd : f = tasks[1].fd /\ f \in clients
  BY <1>1 DEF TypeOK, Task, Known
<1>3. PICK c \in Conn \cup {Nobody} : c = owner[f] /\ FdOrder(f, c)
  BY DEF TypeOK, InOrder
<1>4. worker = WorkerIdle /\ worker' = [at |-> "run", task |-> tasks[1]]
  BY <1>1, <1>2 DEF TakeTask, Working
<1>5. /\ Waits(c) /\ tasks[1].request = LastRequest(c)
      /\ f \notin isExited /\ output[f] = <<>>
      /\ ~ Triggered(f) /\ ~ Finishing(f)
  BY <1>1, <1>2, <1>3 DEF FdOrder, QueuedOrder
<1>6. (\A d : ConnSame(d)) /\ \A d \in Conn : ConnOrder(d)'
  BY NetFrame DEF TakeTask
<1>7. \A m, n \in 1 .. Len(tasks) : tasks[m].fd = tasks[n].fd => m = n
  BY DEF InOrder
<1>8. \A n \in 1 .. Len(tasks') : tasks'[n].fd # f
  BY <1>1, <1>2, <1>7
<1>9. \A m, n \in 1 .. Len(tasks') : tasks'[m].fd = tasks'[n].fd => m = n
  BY <1>1, <1>7
<1>10. OthersSame(f)
  <2>1. ASSUME NEW g \in Fd \ {f} PROVE FdSame(g)
    <3>1. ~ Busy(g)'
      BY <1>2, <1>4 DEF Busy
    <3>2. ASSUME NEW n \in 1 .. Len(tasks')
          PROVE  \E m \in 1 .. Len(tasks) : tasks[m] = tasks'[n]
      BY <1>1, <3>2
    <3> QED  BY <3>1, <3>2 DEF TakeTask, FdSame
  <2> QED  BY <1>6, <2>1 DEF TakeTask, OthersSame
<1>11. FdOrder(f, c)'
  <2>1. Waits(c)' /\ ~ Rests(c)' /\ LastRequest(c)' = LastRequest(c)
    BY <1>5, <1>6, ConnFrame DEF Waits, Rests
  <2>2. /\ worker'.at = "run" /\ worker'.task.fd = f
        /\ worker'.task.request = LastRequest(c)
    BY <1>2, <1>4, <1>5
  <2>3. ~ Triggered(f)' /\ ~ Finishing(f)'
    BY <1>5 DEF TakeTask, Triggered, PutOff, Finishing
  <2>4. /\ f \notin isExited' /\ output'[f] = <<>>
        /\ f \in pollIn' => f \in clients'
    BY <1>2, <1>5 DEF TakeTask
  <2>5. c \in Conn
    BY <1>5 DEF Waits
  <2> QED
    BY <1>8, <2>1, <2>2, <2>3, <2>4, <2>5, ServerAssumption
    DEF FdOrder, QueuedOrder, BusyOrder, TriggeredOrder, FinishingOrder, IdleOrder
<1>12. Placed'
  BY DEF TakeTask, InOrder, Placed
<1>13. loop.at # "idle" => PutOff(loop.fd)' \/ Finishing(loop.fd)'
  BY DEF InOrder, TakeTask, PutOff, Finishing
<1> QED
  BY <1>3, <1>6, <1>9, <1>10, <1>11, <1>12, <1>13, OneDescriptor DEF TakeTask, InOrder

\* What the executing thread holds, and what is ready when it is done.
LEMMA Held ==
  ASSUME TypeOK, InOrder, worker.at # "idle",
         NEW f \in Fd, f = worker.task.fd, NEW c, c = owner[f]
  PROVE  /\ FdOrder(f, c) /\ c \in Conn /\ Waits(c) /\ ~ Rests(c)
         /\ worker.task.request = LastRequest(c) /\ LastRequest(c) \in Req
         /\ LastRequest(c).kind \in {"set", "get", "exit"}
         /\ \A n \in 1 .. Len(tasks) : tasks[n].fd # f
         /\ ~ Triggered(f) /\ counter # f /\ f \notin pendingOut
         /\ ~ Finishing(f) /\ ~ PutOff(f)
         /\ worker.at = "run" => f \notin isExited /\ output[f] = <<>>
         /\ worker.at = "status" => f \notin isExited /\ Begun(f, LastRequest(c))
         /\ worker.at = "signal" => Ready(f, LastRequest(c))
<1>1. FdOrder(f, c) /\ Busy(f)
  BY DEF InOrder, TypeOK, Busy
<1>2. /\ Waits(c) /\ worker.task.request = LastRequest(c)
      /\ ~ Triggered(f) /\ ~ Finishing(f)
      /\ worker.at = "run" => f \notin isExited /\ output[f] = <<>>
      /\ worker.at = "status" => f \notin isExited /\ Begun(f, LastRequest(c))
      /\ worker.at = "signal" => Ready(f, LastRequest(c))
  BY <1>1 DEF FdOrder, BusyOrder
<1>3. \A n \in 1 .. Len(tasks) : tasks[n].fd # f
  BY <1>1 DEF FdOrder, QueuedOrder
<1>4. counter # f /\ f \notin pendingOut /\ ~ PutOff(f)
  BY <1>2 DEF Triggered
<1>5. c \in Conn /\ ~ Rests(c) /\ LastRequest(c) \in Req
  BY <1>2, Awaited DEF Waits, Rests
<1>6. LastRequest(c).kind \in {"set", "get", "exit"}
  BY <1>5, AnswerOf DEF TypeOK
<1> QED  BY <1>1, <1>2, <1>3, <1>4, <1>5, <1>6

\* Two sequences of two elements are the same when their elements are.
LEMMA Pairs ==
  ASSUME NEW S, NEW p \in Seq(S), NEW q \in Seq(S),
         Len(p) = 2, Len(q) = 2, p[1] = q[1], p[2] = q[2]
  PROVE  p = q
<1>1. DOMAIN p = 1 .. 2 /\ DOMAIN q = 1 .. 2
  OBVIOUS
<1>2. \A i \in 1 .. 2 : p[i] = q[i]
  OBVIOUS
<1>3. p = [i \in 1 .. 2 |-> p[i]] /\ q = [i \in 1 .. 2 |-> q[i]]
  BY <1>1
<1> QED  BY <1>2, <1>3

\* What becomes of an output that holds a unit.
LEMMA Appended ==
  ASSUME NEW v, NEW s
  PROVE  Append(<<v>>, s) = <<v, s>>
<1> DEFINE p == Append(<<v>>, s)  q == <<v, s>>
<1>1. p \in Seq({v, s}) /\ Len(p) = 2 /\ p[1] = v /\ p[2] = s
  <2>1. <<v>> \in Seq({v, s})
    OBVIOUS
  <2> QED  BY <2>1
<1>2. q \in Seq({v, s}) /\ Len(q) = 2 /\ q[1] = v /\ q[2] = s
  OBVIOUS
<1> HIDE DEF p, q
<1>3. p = q
  BY <1>1, <1>2, Pairs
<1> QED  BY <1>3 DEF p, q

(* handleTask() puts the answer into the output one piece after the other,  *)
(* and only then tells the loop.                                           *)
LEMMA HandleOrder ==
  ASSUME TypeOK, InOrder, Exit \/ Get \/ Set \/ AppendStatus
  PROVE  InOrder'
<1> USE DEF net, kernel, memory
<1>1. worker.at \in {"run", "status"}
  BY DEF Exit, Get, Set, AppendStatus
<1>2. PICK f \in Fd : f = worker.task.fd
  BY <1>1 DEF TypeOK, Task
<1>3. PICK c : c = owner[f]
  OBVIOUS
<1> DEFINE r == LastRequest(c)
<1>4. /\ FdOrder(f, c) /\ c \in Conn /\ Waits(c) /\ ~ Rests(c)
      /\ worker.task.request = LastRequest(c) /\ LastRequest(c) \in Req
      /\ LastRequest(c).kind \in {"set", "get", "exit"}
      /\ \A n \in 1 .. Len(tasks) : tasks[n].fd # f
      /\ ~ Triggered(f) /\ counter # f /\ f \notin pendingOut
      /\ ~ Finishing(f) /\ ~ PutOff(f)
      /\ worker.at = "run" => f \notin isExited /\ output[f] = <<>>
      /\ worker.at = "status" => f \notin isExited /\ Begun(f, LastRequest(c))
      /\ worker.at = "signal" => Ready(f, LastRequest(c))
  BY <1>1, <1>2, <1>3, Held
<1>5. /\ UNCHANGED <<peer, backlog, sent, inbox, delivered, due, owner, pollIn, counter, clients,
                     pendingOut, tasks, loop>>
      /\ \A g \in Fd \ {f} : output'[g] = output[g] /\ (g \in isExited' <=> g \in isExited)
      /\ worker'.at \in {"status", "signal"} /\ worker'.task = worker.task
  BY <1>2 DEF Exit, Get, Set, AppendStatus, Working, TypeOK
<1>6. (\A d : ConnSame(d)) /\ \A d \in Conn : ConnOrder(d)'
  BY <1>5, NetFrame
<1>7. OthersSame(f)
  <2>1. ASSUME NEW g \in Fd \ {f} PROVE FdSame(g)
    <3>1. ~ Busy(g)'
      BY <1>2, <1>5 DEF Busy
    <3> QED  BY <1>5, <3>1 DEF FdSame
  <2> QED  BY <1>5, <1>6, <2>1 DEF OthersSame
<1>8. Placed'
  BY <1>5 DEF InOrder, Placed
<1>9. /\ Waits(c)' /\ ~ Rests(c)' /\ LastRequest(c)' = r
      /\ Value(LastRequest(c))' = Value(r) /\ Answer(LastRequest(c))' = Answer(r)
  BY <1>4, <1>6, ConnFrame DEF Value, Status, Answer
<1>10. ~ Triggered(f)' /\ ~ Finishing(f)'
  BY <1>4, <1>5 DEF Triggered, PutOff, Finishing
<1> HIDE DEF r
<1>11. /\ worker'.at = "status" => f \notin isExited' /\ Begun(f, LastRequest(c))'
       /\ worker'.at = "signal" => Ready(f, LastRequest(c))'
  <2>1. CASE Exit
    <3>1. f \in isExited' /\ worker'.at = "signal" /\ r.kind = "exit"
      BY <1>2, <1>4, <2>1 DEF Exit, Working, r
    <3> QED  BY <1>9, <3>1 DEF Ready
  <2>2. CASE Get
    <3>1. output'[f] = <<Value(r)>> /\ r.kind = "get" /\ f \notin isExited' /\ worker'.at = "status"
      BY <1>2, <1>4, <2>2 DEF Get, Working, TypeOK, r
    <3> QED  BY <1>9, <3>1 DEF Begun
  <2>3. CASE Set
    <3>1. output'[f] = <<>> /\ r.kind = "set" /\ f \notin isExited' /\ worker'.at = "status"
      BY <1>2, <1>4, <2>3 DEF Set, Working, r
    <3> QED  BY <1>9, <3>1 DEF Begun
  <2>4. CASE AppendStatus
    <3>1. /\ output'[f] = Append(output[f], Status(r)) /\ f \notin isExited'
          /\ worker'.at = "signal" /\ Begun(f, r)
      BY <1>2, <1>4, <2>4 DEF AppendStatus, Working, TypeOK, r
    <3>2. output'[f] = Answer(r) /\ r.kind \in {"set", "get"}
      <4>1. CASE r.kind = "get"
        <5>1. output[f] = <<Value(r)>>
          BY <3>1, <4>1 DEF Begun
        <5>2. output'[f] = <<Value(r), Status(r)>>
          BY <3>1, <5>1, Appended
        <5>3. Answer(r) = <<Value(r), Status(r)>>
          BY <1>4, <4>1, AnswerOf DEF TypeOK, r
        <5> QED  BY <4>1, <5>2, <5>3
      <4>2. CASE r.kind = "set"
        <5>1. output[f] = <<>>
          BY <3>1, <4>2 DEF Begun
        <5>2. output'[f] = <<Status(r)>>
          BY <3>1, <5>1
        <5>3. Answer(r) = <<Status(r)>>
          BY <1>4, <4>2, AnswerOf DEF TypeOK, r
        <5> QED  BY <4>2, <5>2, <5>3
      <4> QED  BY <3>1, <4>1, <4>2 DEF Begun
    <3> QED  BY <1>9, <3>1, <3>2 DEF Ready
  <2> QED  BY <2>1, <2>2, <2>3, <2>4
<1>12. FdOrder(f, c)'
  <2>1. worker'.task.request = LastRequest(c)' /\ worker'.task.fd = f
    BY <1>2, <1>4, <1>5, <1>9 DEF r
  <2> QED
    BY <1>4, <1>5, <1>9, <1>10, <1>11, <2>1, ServerAssumption
    DEF FdOrder, QueuedOrder, BusyOrder, TriggeredOrder, FinishingOrder, IdleOrder
<1>13. loop.at # "idle" => PutOff(loop.fd)' \/ Finishing(loop.fd)'
  BY <1>5 DEF InOrder, PutOff, Finishing
<1> QED
  BY <1>3, <1>5, <1>6, <1>7, <1>8, <1>12, <1>13, OneDescriptor DEF InOrder

(* The executing thread tells the loop of an answer that is ready.  If the  *)
(* eventfd still holds the descriptor of another, the sum is none.         *)
LEMMA SignalOrder ==
  ASSUME TypeOK, Orderly, InOrder, Signal
  PROVE  InOrder'
<1> USE DEF net, kernel, memory
<1>1. worker.at = "signal"
  BY DEF Signal
<1>2. PICK f \in Fd : f = worker.task.fd
  BY <1>1 DEF TypeOK, Task
<1>3. PICK c : c = owner[f]
  OBVIOUS
<1>4. /\ FdOrder(f, c) /\ c \in Conn /\ Waits(c) /\ ~ Rests(c)
      /\ \A n \in 1 .. Len(tasks) : tasks[n].fd # f
      /\ f \notin pendingOut /\ ~ Finishing(f) /\ ~ PutOff(f)
      /\ Ready(f, LastRequest(c))
  BY <1>1, <1>2, <1>3, Held
<1>5. counter' = counter + f /\ f \in Nat \ {0} /\ counter \in Nat /\ worker'.at = "idle"
  BY <1>2, ServerAssumption DEF Signal, WorkerIdle, TypeOK
<1>6. /\ counter' = f \/ \A g \in Fd : counter' > g
      /\ \A g \in Fd \ {f} : counter' # g
  <2>1. counter = 0 \/ counter \in Fd \/ \A g \in Fd : counter > g
    BY DEF InOrder
  <2>2. CASE counter = 0
    BY <1>5, <2>2
  <2>3. CASE counter \in Fd
    <3>1. \A g \in Fd : counter + f > g
      BY <2>3, OrderlyWorld
    <3> QED  BY <1>5, <3>1, ServerAssumption
  <2>4. CASE \A g \in Fd : counter > g
    <3>1. \A g \in Fd : g \in Nat
      BY ServerAssumption
    <3>2. \A g \in Fd : counter + f > g
      BY <1>5, <2>4, <3>1
    <3> QED  BY <1>5, <3>1, <3>2
  <2> QED  BY <2>1, <2>2, <2>3, <2>4
<1>7. (\A d : ConnSame(d)) /\ \A d \in Conn : ConnOrder(d)'
  BY NetFrame DEF Signal
<1>8. OthersSame(f)
  <2>1. ASSUME NEW g \in Fd \ {f} PROVE FdSame(g)
    <3>1. ~ Busy(g)'
      BY <1>5 DEF Busy
    <3> QED  BY <1>6, <3>1 DEF Signal, FdSame
  <2> QED  BY <1>7, <2>1 DEF Signal, OthersSame
<1>9. FdOrder(f, c)'
  <2>1. /\ Waits(c)' /\ ~ Rests(c)' /\ LastRequest(c)' = LastRequest(c)
        /\ Answer(LastRequest(c))' = Answer(LastRequest(c))
    BY <1>4, <1>7, ConnFrame DEF Value, Status, Answer
  <2>2. Ready(f, LastRequest(c))'
    BY <1>4, <2>1 DEF Signal, Ready
  <2>3. ~ Busy(f)' /\ ~ Finishing(f)' /\ ~ PutOff(f)' /\ f \notin pendingOut'
    BY <1>4, <1>5 DEF Signal, Busy, Finishing, PutOff
  <2> QED
    BY <1>4, <2>1, <2>2, <2>3, ServerAssumption
    DEF Signal, FdOrder, QueuedOrder, BusyOrder, TriggeredOrder, FinishingOrder, IdleOrder
<1>10. Placed'
  BY DEF Signal, InOrder, Placed
<1>11. loop.at # "idle" => PutOff(loop.fd)' \/ Finishing(loop.fd)'
  BY DEF InOrder, Signal, PutOff, Finishing
<1> QED
  BY <1>3, <1>5, <1>6, <1>7, <1>8, <1>9, <1>10, <1>11, OneDescriptor DEF Signal, InOrder

\* Every step keeps the answers in their places.
LEMMA OrderStep ==
  ASSUME TypeOK, Known, Own, Orderly, InOrder, [Next]_vars
  PROVE  InOrder'
<1>1. CASE UNCHANGED vars
  <2>1. UNCHANGED <<peer, backlog, sent, inbox, delivered, due, owner, pollIn, counter, clients,
                   isExited, output, pendingOut, tasks, loop, worker>>
    BY <1>1 DEF vars, net, kernel, memory
  <2>2. (\A d : ConnSame(d)) /\ \A d \in Conn : ConnOrder(d)'
    BY <2>1, NetFrame
  <2>3. OthersSame(0)
    <3>1. ASSUME NEW g PROVE FdSame(g)
      BY <2>1 DEF FdSame, Busy
    <3> QED  BY <2>1, <2>2, <3>1 DEF OthersSame
  <2>4. Placed'
    BY <2>1 DEF InOrder, Placed
  <2>5. loop.at # "idle" => PutOff(loop.fd)' \/ Finishing(loop.fd)'
    BY <2>1 DEF InOrder, PutOff, Finishing
  <2>6. 0 \notin Fd
    BY ServerAssumption
  <2> QED  BY <2>1, <2>2, <2>3, <2>4, <2>5, <2>6, OneDescriptor DEF InOrder
<1>2. ASSUME NEW c \in Conn, Client(c) PROVE InOrder'
  BY <1>2, ConnectOrder, SendOrder, DisconnectOrder DEF Client
<1>3. CASE EventLoop
  BY <1>3, AcceptOrder, RequestOrder, EofOrder, ReplyOrder, ReReplyOrder, ContinueOrder
  DEF EventLoop, ProcessInput
<1>4. CASE Worker
  BY <1>4, TakeOrder, HandleOrder, SignalOrder DEF Worker
<1> QED  BY <1>1, <1>2, <1>3, <1>4 DEF Next

-----------------------------------------------------------------------------
\* Every step preserves the invariant.
LEMMA NextInv == IInv /\ [Next]_vars => IInv'
<1> SUFFICES ASSUME IInv, [Next]_vars PROVE IInv'
  OBVIOUS
<1>1. TypeOK' /\ Known'
  BY TypeStep, KnownStep DEF IInv
<1>2. Own'
  <2>1. CASE UNCHANGED vars
    BY <2>1 DEF vars, net, kernel, memory, IInv, Own, OwnedBy, Live, For, Lost
  <2> QED  BY <2>1, ClientOwn, LoopOwn, WorkerOwn DEF IInv, Next
<1>3. ASSUME Orderly PROVE InOrder'
  BY <1>3, OrderStep DEF IInv
<1>4. world' = world /\ (Orderly' <=> Orderly)
  BY WorldStays, Zenon DEF Orderly
<1> QED  BY <1>1, <1>2, <1>3, <1>4 DEF IInv

(* At every moment each thing that names a descriptor names one with a      *)
(* Client; a Client for which something may still be sent works for the     *)
(* connection that is open on its descriptor, unless some write() was       *)
(* refused; and in an orderly world the answer to a request is in one    *)
(* place at a time, from the queue to the connection.                      *)
THEOREM ServerInductive == Spec => []IInv
<1>1. Init => IInv
  BY InitInv
<1>2. IInv /\ [Next]_vars => IInv'
  BY NextInv
<1> QED  BY <1>1, <1>2, PTL DEF Spec

(* handleTask() and reReply() never use a null Client, however connections  *)
(* come and go while tasks are queued.                                      *)
THEOREM ClientNeverNull == Spec => []NoNullClient
<1>1. IInv => NoNullClient
  BY DEF IInv, Known, NoNullClient
<1> QED  BY <1>1, ServerInductive, PTL

(* However descriptors are closed and given away, a client receives only    *)
(* answers to its own requests, or, where a write() may be refused, what    *)
(* answers a client that has gone.                                          *)
THEOREM OwnAnswersOnly == Spec => []AnswersToOwner
<1>1. IInv => AnswersToOwner
  <2> SUFFICES ASSUME IInv, NEW c \in Conn, NEW u \in ToSet(delivered[c])
               PROVE  u.conn = c \/ ("error" \in world.faults /\ peer[u.conn] = "gone")
    BY DEF AnswersToOwner
  <2>1. delivered[c] \in Seq(Unit)
    BY DEF IInv, TypeOK
  <2>2. PICK n \in 1 .. Len(delivered[c]) : u = delivered[c][n]
    BY <2>1 DEF ToSet
  <2>3. For(u.conn, c)
    BY <2>2 DEF IInv, Own
  <2> QED  BY <2>3 DEF For, Lost
<1> QED  BY <1>1, ServerInductive, PTL

(* While the executing thread makes an answer, the loop has no reason to    *)
(* touch the output it makes it in, whatever the number of clients: the     *)
(* invariant has one place at a time for each answer.                       *)
THEOREM OutputsUnshared == Spec => []OutputUnshared
<1>1. IInv => OutputUnshared
  <2> SUFFICES ASSUME IInv, Orderly, NEW f \in Fd, Busy(f)
               PROVE  /\ counter # f /\ f \notin pendingOut
                      /\ ~ (loop.at # "idle" /\ loop.fd = f)
    BY DEF OutputUnshared
  <2>1. owner[f] \in Conn \cup {Nobody}
    BY DEF IInv, TypeOK
  <2>2. FdOrder(f, owner[f]) /\ (loop.at # "idle" => PutOff(loop.fd) \/ Finishing(loop.fd))
    BY <2>1 DEF IInv, InOrder
  <2>3. ~ Triggered(f) /\ ~ Finishing(f)
    BY <2>2 DEF FdOrder, BusyOrder
  <2> QED  BY <2>2, <2>3 DEF Triggered
<1> QED  BY <1>1, ServerInductive, PTL

(* A client that awaits each answer is sent exactly the answers to what it  *)
(* has asked, in order, none twice and none in part, although reply()       *)
(* compares, writes and clears the output without the lock: when write()    *)
(* accepts all or nothing, and no two descriptors add up to a third.       *)
THEOREM AnswersExact == Spec => []ExactAnswers
<1>1. IInv => ExactAnswers
  <2> SUFFICES ASSUME IInv, Orderly, NEW c \in Conn
               PROVE  IsPrefix(delivered[c], due[c])
    BY DEF ExactAnswers
  <2>1. TypeOK /\ ConnOrder(c)
    BY DEF IInv, InOrder
  <2>2. delivered[c] \in Seq(Unit)
    BY <2>1 DEF TypeOK
  <2>3. CASE Answered(c)
    <3>1. due[c] = delivered[c]
      BY <2>1, <2>3 DEF ConnOrder
    <3> QED  BY <2>2, <3>1 DEF IsPrefix
  <2>4. CASE ~ Answered(c)
    <3>1. Answer(LastRequest(c)) \in Seq(Unit)
      BY <2>1, <2>4, Awaited, AnswerOf DEF TypeOK
    <3>2. due[c] = delivered[c] \o Answer(LastRequest(c))
      BY <2>1, <2>4 DEF ConnOrder
    <3> QED  BY <2>2, <3>1, <3>2, Begins
  <2> QED  BY <2>3, <2>4
<1> QED  BY <1>1, ServerInductive, PTL

=============================================================================
