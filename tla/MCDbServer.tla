----------------------------- MODULE MCDbServer -----------------------------
(* Descriptors 7 and 8: what the server gets for its first two clients is  *)
(* of that order, and the sum of two of them is no descriptor of a client. *)
EXTENDS DbServer

CONSTANTS c1, c2, c3

\* two clients that do whatever they like, and write() too
Rough == [conns |-> {c1, c2}, fds |-> {7, 8}, kinds |-> {"set", "get", "exit"},
          faults |-> {"partial", "again", "error"}, fresh |-> {"null", "garbage"},
          mayClose |-> TRUE, patient |-> FALSE, requests |-> 1]

\* one descriptor, closed and given to the next connection while requests of
\* the last one are still queued
Reuse == [conns |-> {c1, c2}, fds |-> {7}, kinds |-> {"set", "get", "exit"},
          faults |-> {"partial", "again"}, fresh |-> {"null"},
          mayClose |-> TRUE, patient |-> FALSE, requests |-> 2]

\* the same, where a write() to a client that has gone is refused
Refused == [Reuse EXCEPT !.kinds = {"set", "get"}, !.faults = {"again", "error"}]

\* three clients that await their answers, over two descriptors
Attentive == [conns |-> {c1, c2, c3}, fds |-> {7, 8}, kinds |-> {"set", "get"},
              faults |-> {"again"}, fresh |-> {"null"},
              mayClose |-> TRUE, patient |-> TRUE, requests |-> 2]

\* two that may also ask the server to let them go
Leaving == [conns |-> {c1, c2}, fds |-> {7, 8}, kinds |-> {"get", "exit"},
            faults |-> {"again"}, fresh |-> {"null", "garbage"},
            mayClose |-> TRUE, patient |-> TRUE, requests |-> 2]

\* one client that stays
Alone == [conns |-> {c1}, fds |-> {7}, kinds |-> {"set", "get"},
          faults |-> {"partial", "again"}, fresh |-> {"null"},
          mayClose |-> FALSE, patient |-> TRUE, requests |-> 2]

\* two clients that stay, over a faultless network
Together == [conns |-> {c1, c2}, fds |-> {7, 8}, kinds |-> {"set", "get"},
             faults |-> {}, fresh |-> {"null"},
             mayClose |-> FALSE, patient |-> TRUE, requests |-> 1]

\* two clients that get the same descriptor if the first one leaves
InTurn == [conns |-> {c1, c2}, fds |-> {7}, kinds |-> {"set", "get"},
           faults |-> {}, fresh |-> {"null"},
           mayClose |-> TRUE, patient |-> TRUE, requests |-> 1]

Varied == {Rough, Reuse, Refused, Attentive, Leaving, Alone}
OnlyTogether == {Together}
OnlyInTurn == {InTurn}

(* A client that has the server to itself gets an answer to each of its    *)
(* requests, however write() cuts the answers or puts them off.            *)
AnsweredAlone == world = Alone => EveryRequestAnswered

=============================================================================
