------------------------------ MODULE DbProxy ------------------------------
(***************************************************************************)
(* From a request to its answer: a client writes a batch of commands in    *)
(* one of the forms the server reads (client.cpp), the parser makes words  *)
(* of it, and the executing thread carries the words out one command after *)
(* the other (DbProxy.cpp), until one fails.  The queue between the two is *)
(* that of TaskQueue; sockets and descriptors are the matter of DbServer.  *)
(***************************************************************************)
EXTENDS QueryParser

CONSTANTS
  Batches,      \* the requests that clients make: sequences of commands
  Worlds        \* see `world`

-----------------------------------------------------------------------------
(* Requests                                                                *)

Word == Seq(Char)
Command ==
  [op : {"get", "del"}, key : Word] \cup [op : {"set"}, key : Word, val : Word]

Spelled ==
  [set |-> <<"s", "e", "t">>, get |-> <<"g", "e", "t">>, del |-> <<"d", "e", "l">>]

\* The words of a command, and of a batch.
WordsOf(c) ==
  IF c.op = "set" THEN <<Spelled.set, c.key, c.val>> ELSE <<Spelled[c.op], c.key>>
Says(batch) == FlattenSeq([i \in 1 .. Len(batch) |-> WordsOf(batch[i])])

\* A request is not empty.  Bound: Decimal() writes two digits.
ASSUME BatchAssumption ==
  \A batch \in Batches :
    /\ batch \in Seq(Command) /\ batch # <<>> /\ Len(Says(batch)) < 100
    /\ \A i \in 1 .. Len(Says(batch)) : Len(Says(batch)[i]) < 100

\* [cuts: read() may find a part of a request only, forms: how requests are
\*  written, faults: leveldb may fail to write, most: bound on the requests]
ASSUME ProxyAssumption ==
  \A w \in Worlds : DOMAIN w = {"cuts", "forms", "faults", "most"} /\ w.most \in Nat

(* The worlds whose requests this parser reads right: one that forgets the  *)
(* CRLF of a line in an array ("file") it reads wrong, and it waits for the *)
(* rest of a line, but never for that of an array.                          *)
CanRead(w) == w.forms \subseteq {"line", "crlf"} \cup (IF w.cuts THEN {} ELSE {"array"})
Readable == \A w \in Worlds : CanRead(w)

VARIABLES
  db,        \* what leveldb holds: a function from keys to values
  cmd,       \* the words of the task in hand, <<>> if there is none
  st,        \* the next of them, counted from 1
  before,    \* what leveldb held when the task was taken
  output,    \* the client's output buffer
  answers    \* what has been answered so far

vars == <<parserVars, db, cmd, st, before, output, answers>>

Init ==
  /\ world \in Worlds
  /\ requests = <<>> /\ pending = <<>> /\ cut = FALSE
  /\ client = Fresh /\ crashed = FALSE /\ tasks = <<>> /\ forwarded = <<>>
  /\ db = <<>> /\ cmd = <<>> /\ st = 1 /\ before = <<>>
  /\ output = <<>> /\ answers = <<>>

-----------------------------------------------------------------------------
(* The client of the database                                              *)

Decimal(n) == IF n < 10 THEN <<Digit[n + 1]>>
              ELSE <<Digit[(n \div 10) + 1], Digit[(n % 10) + 1]>>

\* One per line, each after its length.
Bulk(words, eol) ==
  <<"*">> \o Decimal(Len(words)) \o eol
    \o FlattenSeq([i \in 1 .. Len(words) |->
         <<"$">> \o Decimal(Len(words[i])) \o eol \o words[i] \o eol])

\* The comment of client.cpp writes the whole of an array that is longer than
\* the text in it; the file query.txt ends its lines with a line feed, and
\* has two empty ones.
Text(form, words) ==
  LET line == Tail(FlattenSeq([i \in 1 .. Len(words) |-> <<Space>> \o words[i]])) IN
  CASE form = "line"  -> line \o <<LF>>
    [] form = "crlf"  -> line \o <<CR, LF>>
    [] form = "array" -> Bulk(words, <<CR, LF>>) \o <<NUL, NUL>>
    [] form = "file"  -> Bulk(words, <<LF>>) \o <<LF, LF>>

\* A line says where its words begin and end by what stands between them.
IsLine(form) == form \in {"line", "crlf"}
Plain(word) == word # <<>> /\ \A i \in 1 .. Len(word) : word[i] \notin {Space, CR, LF}

\* It writes a request, and awaits the answer before it writes the next.  A
\* request that comes in parts may be lost: then there is none to wait for.
Write(batch, form) ==
  /\ Len(requests) < world.most /\ pending = <<>>
  /\ world.cuts \/ Len(answers) = Len(requests)
  /\ IsLine(form) => \A i \in 1 .. Len(Says(batch)) : Plain(Says(batch)[i])
  /\ requests' = Append(requests, batch)
  /\ pending' = Text(form, Says(batch))
  /\ UNCHANGED <<world, cut, client, crashed, tasks, forwarded,
                 db, cmd, st, before, output, answers>>

\* The event loop reads what has arrived, less than QUERY_BUFF_LEN.  Bound: a
\* request arrives in two parts at most.
Input ==
  /\ \E n \in 1 .. Len(pending) :
       ((world.cuts /\ ~ cut) \/ n = Len(pending)) /\ processInput(n)
  /\ UNCHANGED <<db, cmd, st, before, output, answers>>

-----------------------------------------------------------------------------
(* The executing thread                                                    *)

TakeTask ==
  /\ cmd = <<>> /\ tasks # <<>> /\ ~ crashed
  /\ cmd' = Head(tasks) /\ tasks' = Tail(tasks)
  /\ st' = 1 /\ before' = db
  /\ UNCHANGED <<world, requests, pending, cut, client, crashed, forwarded, db,
                 output, answers>>

\* mutant: one word too many is asked for
IsShort(op, n) == st <= Len(cmd) /\ cmd[st] = op /\ st + n < Len(cmd)

\* Is the next command op, with n words after it?
Is(op, n) == st <= Len(cmd) /\ cmd[st] = op /\ st + n <= Len(cmd)

Executing == cmd # <<>> /\ ~ crashed

\* The command is done, and the words of it are behind us.
Advance(n) ==
  /\ st' = st + n + 1
  /\ UNCHANGED <<parserVars, cmd, before, answers>>

\* handleTask() appends the status; the event loop sends what the buffer
\* holds and clears it.
Answer(status) ==
  /\ answers' = Append(answers, Append(output, status))
  /\ output' = <<>> /\ cmd' = <<>>
  /\ UNCHANGED <<parserVars, db, st, before>>

\* mutant: the value of a "set" is not skipped
setShort ==
  /\ Executing /\ Is(Spelled.set, 2)
  /\ db' = [key \in DOMAIN db \cup {cmd[st + 1]} |->
              IF key = cmd[st + 1] THEN cmd[st + 2] ELSE db[key]]
  /\ UNCHANGED output
  /\ Advance(1)

set ==
  /\ Executing /\ Is(Spelled.set, 2)
  /\ db' = [key \in DOMAIN db \cup {cmd[st + 1]} |->
              IF key = cmd[st + 1] THEN cmd[st + 2] ELSE db[key]]
  /\ UNCHANGED output
  /\ Advance(2)

\* mutant: the value is appended to what the buffer holds
getAppends ==
  /\ Executing /\ Is(Spelled.get, 1) /\ cmd[st + 1] \in DOMAIN db
  /\ output' = Append(output, db[cmd[st + 1]])
  /\ UNCHANGED db
  /\ Advance(1)

\* leveldb assigns the value to the output buffer.
get ==
  /\ Executing /\ Is(Spelled.get, 1) /\ cmd[st + 1] \in DOMAIN db
  /\ output' = <<db[cmd[st + 1]]>>
  /\ UNCHANGED db
  /\ Advance(1)

getMissing ==
  Executing /\ Is(Spelled.get, 1) /\ cmd[st + 1] \notin DOMAIN db /\ Answer("Error!")

\* The key is taken without asking whether there is one; requests have one.
del ==
  /\ Executing /\ Is(Spelled.del, 1)
  /\ db' = [key \in DOMAIN db \ {cmd[st + 1]} |-> db[key]]
  /\ UNCHANGED output
  /\ Advance(1)

WriteFails ==
  /\ Executing /\ world.faults
  /\ Is(Spelled.set, 2) \/ Is(Spelled.del, 1)
  /\ Answer("Error!")

\* Also "exit", which only the remains of a request can spell here: what it
\* does to a connection is the matter of DbServer.
InvalidCommand ==
  /\ Executing /\ st <= Len(cmd)
  /\ ~ Is(Spelled.set, 2) /\ ~ Is(Spelled.get, 1) /\ cmd[st] # Spelled.del
  /\ Answer("Error!")

\* mutant: the thread forgets to answer
FinishSilently ==
  /\ Executing /\ st > Len(cmd) /\ cmd' = <<>>
  /\ UNCHANGED <<parserVars, db, st, before, output, answers>>

Finish == Executing /\ st > Len(cmd) /\ Answer("OK!")

handleTask == set \/ get \/ getMissing \/ del \/ WriteFails \/ InvalidCommand \/ Finish

Next ==
  \/ \E batch \in Batches, form \in world.forms : Write(batch, form)
  \/ Input \/ TakeTask \/ handleTask

Spec == Init /\ [][Next]_vars

\* The event loop polls, and the executing thread is scheduled.
FairSpec == Spec /\ WF_vars(Input) /\ WF_vars(TakeTask \/ handleTask)

-----------------------------------------------------------------------------
(* Properties                                                              *)

\* All that the parser keeps is text, of the kind that qryType says.
KeepsText(type) ==
  client = [Fresh EXCEPT !.queryBuff = client.queryBuff, !.qryType = type]

\* No more than one line is left to be read, and it is left to its end.
EndsLine(text) == \A i \in 1 .. Len(text) : (text[i] = LF) = (i = Len(text))

\* What is to be read is the whole of the last request.
Outstanding ==
  /\ requests # <<>>
  /\ \E form \in world.forms :
       /\ IsLine(form) => \A i \in 1 .. Len(Says(Last(requests))) : Plain(Says(Last(requests))[i])
       /\ pending = Text(form, Says(Last(requests)))

(* The words of a task are those of a request, though the parser keeps a    *)
(* position, counts and a buffer from one call to the next: as long as      *)
(* requests arrive whole it is at rest after each of them, and what it      *)
(* keeps of them is padding.  handleTask() looks at the first word of a     *)
(* task: there is one, also if requests are cut anywhere.                   *)
ParserInv ==
  /\ world \in Worlds /\ requests \in Seq(Batches) /\ pending \in Seq(Char)
  /\ client \in Parser /\ cut \in BOOLEAN /\ ~ crashed
  /\ forwarded \in Seq(Seq(Word) \ {<<>>})
  /\ KeepsText(IF cut THEN 1 ELSE 0)
  /\ \A i \in 1 .. Len(client.queryBuff) :
       client.queryBuff[i] # LF /\ (~ world.cuts => client.queryBuff[i] = NUL)
  /\ cut => world.cuts /\ pending # <<>> /\ EndsLine(pending)
  /\ pending # <<>> /\ ~ cut => Outstanding
  /\ ~ world.cuts => /\ Len(requests) = Len(forwarded) + (IF pending = <<>> THEN 0 ELSE 1)
                     /\ \A i \in 1 .. Len(forwarded) : forwarded[i] = Says(requests[i])

\* What a command makes of a database, and a sequence of them.
Applied(e, c) ==
  CASE c.op = "set" -> [k \in DOMAIN e \cup {c.key} |-> IF k = c.key THEN c.val ELSE e[k]]
    [] c.op = "del" -> [k \in DOMAIN e \ {c.key} |-> e[k]]
    [] c.op = "get" -> e
Effect(d, batch) ==
  LET after[j \in 0 .. Len(batch)] ==
        IF j = 0 THEN d ELSE Applied(after[j - 1], batch[j])
  IN after[Len(batch)]

\* What the last "get" of a sequence of commands finds.
Found(d, batch) ==
  LET g == SelectLastInSeq(batch, LAMBDA c : c.op = "get")
  IN IF g = 0 THEN <<>> ELSE <<Effect(d, SubSeq(batch, 1, g - 1))[batch[g].key]>>

IsDatabase(d) == d \in [DOMAIN d -> Word] /\ \A k \in DOMAIN d : k \in Word

\* The first j commands of a batch have been carried out, and no more.
Carried(batch, j) ==
  /\ st = 1 + Len(Says(SubSeq(batch, 1, j)))
  /\ db = Effect(before, SubSeq(batch, 1, j))
  /\ output = Found(before, SubSeq(batch, 1, j))

(* Tasks are answered in the order in which they were forwarded, each once; *)
(* and the executing thread, which counts words, is always at the beginning *)
(* of a command of the request that it answers next.                        *)
ExecutorInv ==
  /\ IsDatabase(db) /\ IsDatabase(before) /\ output \in Seq(Word)
  /\ answers \in Seq(ToSet(answers)) /\ tasks \in Seq(Seq(Word)) /\ cmd \in Seq(Word)
  /\ LET taken == Len(answers) + (IF cmd = <<>> THEN 0 ELSE 1) IN
     /\ Len(forwarded) = taken + Len(tasks)
     /\ \A i \in 1 .. Len(tasks) : tasks[i] = forwarded[taken + i]
  /\ IF cmd = <<>> THEN output = <<>>
     ELSE /\ cmd = forwarded[Len(answers) + 1] /\ st \in 1 .. Len(cmd) + 1
          /\ ~ world.cuts =>
               LET batch == requests[Len(answers) + 1]
               IN  \E j \in 0 .. Len(batch) : Carried(batch, j)

IInv == ParserInv /\ ExecutorInv

(* A request that is read whole is forwarded as it was written, whatever    *)
(* the parts of earlier ones have left in the buffer.                       *)
WholeForwarded ==
  [][pending # <<>> /\ ~ cut /\ pending' = <<>> =>
       forwarded' = Append(forwarded, Says(Last(requests)))]_vars

(* "OK!" says that the whole batch took effect, "Error!" that exactly the   *)
(* commands before a certain one did, which is a "get" of a missing key     *)
(* unless leveldb failed; and the answer has what the last "get" found.     *)
AllOrPrefix ==
  [][Len(answers') > Len(answers) /\ ~ world.cuts =>
       LET batch == requests[Len(answers')] IN
       \E j \in 0 .. Len(batch) :
         /\ db' = Effect(before, SubSeq(batch, 1, j))
         /\ Last(answers') = Found(before, SubSeq(batch, 1, j))
                               \o <<IF j = Len(batch) THEN "OK!" ELSE "Error!">>
         /\ j < Len(batch) /\ ~ world.faults =>
              batch[j + 1].op = "get" /\ batch[j + 1].key \notin DOMAIN db']_vars

(* "del" takes the word after it without asking whether there is one        *)
(* (DbProxy.cpp:43-45), where "set" and "get" do ask: words are skipped by  *)
(* count alone, and keys and values may be spelled like commands.  Yet the  *)
(* thread never takes the last word of a request for a "del" (a request     *)
(* whose beginning is lost may well end with one).                          *)
KeyThere ==
  Executing /\ ~ world.cuts =>
    (st <= Len(cmd) /\ cmd[st] = Spelled.del => st < Len(cmd))

\* Every request is answered.
RequestsAnswered ==
  \A n \in 1 .. Max({w.most : w \in Worlds}) : Len(requests) >= n ~> Len(answers) >= n

\* It is if it arrives whole.
WholeAnswered == ~ world.cuts => RequestsAnswered

=============================================================================
