---------------------------- MODULE QueryParser ----------------------------
(***************************************************************************)
(* The input side of a Client of the database server (DbClient.cpp): a     *)
(* callback of the event loop reads what has arrived, processQuery() finds *)
(* the words of a request in it, and the words become a task for the       *)
(* executing thread.  A request is a line of words, or the number of its   *)
(* words and each word with its length.                                    *)
(*                                                                         *)
(* Text is a sequence of characters, because read() may cut it anywhere    *)
(* and because lengths decide what is found.                               *)
(***************************************************************************)
EXTENDS Integers, SequencesExt

CONSTANT Char     \* the characters

Space == " "
CR == "cr"
LF == "lf"
NUL == "nul"

Digit == <<"0", "1", "2", "3", "4", "5", "6", "7", "8", "9">>

\* those the program knows
ASSUME CharAssumption ==
  {Space, CR, LF, NUL, "*", "$", "s", "e", "t", "g", "d", "l"} \cup ToSet(Digit) \subseteq Char

VARIABLES
  world,      \* what may arrive: see the instance
  requests,   \* the requests sent so far, each a sequence of commands
  pending,    \* what has been sent of the last one and not been read
  cut,        \* whether a part of the last one has been read
  client,     \* the parser's part of the Client
  crashed,    \* whether an exception has ended the server
  tasks,      \* the tasks queued for the executing thread
  forwarded   \* all tasks so far

parserVars == <<world, requests, pending, cut, client, crashed, tasks, forwarded>>

-----------------------------------------------------------------------------
(* Library                                                                 *)

\* string::find: how many characters precede the first line feed that is
\* not among the first `from`, or -1.
Find(text, from) ==
  LET at == {i \in from + 1 .. Len(text) : text[i] = LF}
  IN IF at = {} THEN -1 ELSE Min(at) - 1

\* string::substr and string::erase count from 0; a length of -1 is npos.
Substr(text, from, len) ==
  SubSeq(text, from + 1, IF len < 0 THEN Len(text) ELSE Min({from + len, Len(text)}))
Erase(text, len) == SubSeq(text, len + 1, Len(text))

\* stoi: leading white space and what follows the digits do not matter;
\* -1 stands for the exception that is thrown without a digit.
Reading == [text : Seq(Char), n : Nat \cup {-1}]
DigitOf(c) == CHOOSE d \in 0 .. 9 : c = Digit[d + 1]

Value[r \in Reading] ==
  IF r.text # <<>> /\ r.text[1] \in ToSet(Digit)
  THEN Value[[text |-> Tail(r.text),
              n |-> (IF r.n = -1 THEN 0 ELSE 10 * r.n) + DigitOf(r.text[1])]]
  ELSE IF r.text # <<>> /\ r.n = -1 /\ r.text[1] \in {Space, CR, LF}
  THEN Value[[text |-> Tail(r.text), n |-> -1]]
  ELSE r.n
Stoi(text) == Value[[text |-> text, n |-> -1]]

-----------------------------------------------------------------------------
(* The parsers: from a client to a client and what they return             *)

Parser == [queryBuff : Seq(Char), qryType : 0 .. 2, qry_pos : Nat,
           multiBulkCnt : Nat, bulkLen : Nat \cup {-1}, paras : Seq(Seq(Char))]

Fresh == [queryBuff |-> <<>>, qryType |-> 0, qry_pos |-> 0,
          multiBulkCnt |-> 0, bulkLen |-> -1, paras |-> <<>>]

Result(c, ret) == [client |-> c, ret |-> ret]

\* The words of a line: a space is skipped, and a word ends before a space
\* or a carriage return, which is skipped with it.
Words[line \in Seq(Char)] ==
  LET end == SelectInSeq(line, LAMBDA c : c \in {Space, CR})
  IN IF line = <<>> THEN <<>>
     ELSE IF end = 0 THEN <<line>>
     ELSE IF end = 1 /\ line[1] = Space THEN Words[Tail(line)]
     ELSE <<SubSeq(line, 1, end - 1)>> \o Words[Erase(line, end)]

\* mutant: a line without words is forwarded as well
parseQueryAnyway(c) ==
  LET pos == Find(c.queryBuff, c.qry_pos)
      words == c.paras \o Words[Substr(c.queryBuff, 0, pos)]
  IN IF pos = -1 THEN Result(c, "wait")
     ELSE Result([c EXCEPT !.paras = words, !.qryType = 0,
                           !.queryBuff = Erase(@, pos + 1)], "task")

\* mutant: the carriage return stays with the last word
parseQueryKeepsCR(c) ==
  LET pos == Find(c.queryBuff, c.qry_pos)
      words == c.paras \o SelectSeq(<<Substr(c.queryBuff, 0, pos)>>, LAMBDA w : w # <<>>)
  IN IF pos = -1 THEN Result(c, "wait")
     ELSE Result([c EXCEPT !.paras = words, !.qryType = 0,
                           !.queryBuff = Erase(@, pos + 1)],
                 IF words = <<>> THEN "wait" ELSE "task")

parseQuery(c) ==
  LET pos == Find(c.queryBuff, c.qry_pos)
      words == c.paras \o Words[Substr(c.queryBuff, 0, pos)]
  IN IF pos = -1 THEN Result(c, "wait")
     ELSE Result([c EXCEPT !.paras = words, !.qryType = 0,
                           !.queryBuff = Erase(@, pos + 1)],
                 IF words = <<>> THEN "wait" ELSE "task")

\* The number of a header of `len` characters at qry_pos, which ends before
\* the line feed at pos; `old` if the header is too short to hold one.
Number(c, pos, old) ==
  IF pos - c.qry_pos > 1
  THEN Stoi(Substr(c.queryBuff, c.qry_pos + 1, pos - c.qry_pos))
  ELSE old

\* The words with their lengths; those found remain in paras if more is to come.
Bulks[c \in Parser] ==
  LET pos == Find(c.queryBuff, c.qry_pos)
      len == IF c.bulkLen = -1 THEN Number(c, pos, -1) ELSE c.bulkLen
      at == IF c.bulkLen = -1 THEN pos + 1 ELSE c.qry_pos
      more == [c EXCEPT !.bulkLen = len, !.qry_pos = at]
  IN IF c.multiBulkCnt = 0
     THEN Result([c EXCEPT !.queryBuff = Erase(@, c.qry_pos), !.qry_pos = 0,
                           !.qryType = 0], "task")
     ELSE IF c.bulkLen = -1 /\ pos = -1 THEN Result(c, "wait")
     ELSE IF c.bulkLen = -1 /\ pos - c.qry_pos > 1 /\ len = -1 THEN Result(c, "throw")
     ELSE IF at + len + 2 >= Len(c.queryBuff) THEN Result(more, "wait")
     ELSE Bulks[[c EXCEPT !.paras = Append(@, Substr(c.queryBuff, at, len)),
                          !.qry_pos = at + len + 2,
                          !.multiBulkCnt = @ - 1, !.bulkLen = -1]]

parseBulkQuery(c) ==
  LET pos == Find(c.queryBuff, 0)
      cnt == Number([c EXCEPT !.qry_pos = 0], pos, 0)
      counted == IF c.multiBulkCnt # 0 THEN c
                 ELSE [c EXCEPT !.multiBulkCnt = cnt, !.qry_pos = pos + 1]
  IN IF c.multiBulkCnt = 0 /\ pos = -1 THEN Result(c, "wait")
     ELSE IF c.multiBulkCnt = 0 /\ cnt = -1 THEN Result(c, "throw")
     ELSE IF counted.qry_pos >= Len(counted.queryBuff) THEN Result(counted, "wait")
     ELSE Bulks[counted]

-----------------------------------------------------------------------------
(* Reading                                                                 *)

\* mutant: read() appends to what the buffer holds
StoredBehind(buff, text) == buff \o text

\* read() stores at the front of a buffer that was made longer by zeros; the
\* buffer is then cut to its old length and that of what was read.
Stored(buff, text) ==
  text \o Erase(buff, Len(text)) \o [i \in 1 .. Min({Len(buff), Len(text)}) |-> NUL]

Parsed[c \in Parser] == IF c.qryType = 2 THEN parseBulkQuery(c) ELSE parseQuery(c)

processQuery(c, text) ==
  LET buff == Stored(c.queryBuff, text)
      type == IF c.qryType = 0 THEN IF buff[1] = "*" THEN 2 ELSE 1 ELSE c.qryType
  IN Parsed[[c EXCEPT !.queryBuff = buff, !.qryType = type]]

\* read() takes n characters.  forwardTask() swaps the words with those of a
\* new task.  Nothing catches an exception.
processInput(n) ==
  LET r == processQuery(client, SubSeq(pending, 1, n)) IN
  /\ pending # <<>> /\ ~ crashed
  /\ pending' = Erase(pending, n)
  /\ cut' = (pending' # <<>>)
  /\ client' = IF r.ret = "task" THEN [r.client EXCEPT !.paras = <<>>] ELSE r.client
  /\ crashed' = (r.ret = "throw")
  /\ IF r.ret = "task"
     THEN /\ tasks' = Append(tasks, r.client.paras)
          /\ forwarded' = Append(forwarded, r.client.paras)
     ELSE UNCHANGED <<tasks, forwarded>>
  /\ UNCHANGED <<world, requests>>

=============================================================================
