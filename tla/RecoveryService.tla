-------------------------- MODULE RecoveryService --------------------------
(***************************************************************************)
(* Retransmission over TCP: the exchange's RecoveryServer thread           *)
(* (src/exchange/recovery_server.cpp) and the RecoveryClients that ask it  *)
(* (src/market_data/recovery_client.cpp).  TCP is external: a connection   *)
(* carries whole frames in order, either end may close it, and a blocked   *)
(* receive either gets the next frame, sees the close or times out         *)
(* (SO_RCVTIMEO, 2 s on both sides).                                       *)
(***************************************************************************)
EXTENDS HistoryStore, Sequences

CONSTANTS
    Clients, Nobody,
    Requesters, \* bound: the clients that make requests; the others only connect
    KBatch,     \* kMaxRecoveryBatch
    FirstSeq,   \* first sequence number published
    MaxSeq      \* bound: last sequence number published

ASSUME RecoveryAssumption ==
    /\ Nobody \notin Clients /\ Requesters \subseteq Clients
    /\ KBatch \in Nat \ {0}
    /\ FirstSeq \in Nat \ {0} /\ MaxSeq \in Nat /\ MaxSeq >= FirstSeq

VARIABLES
    running, listening,         \* running_, listen_fd_
    stopper,                    \* the thread that calls stop()
    server,                     \* where the server thread is
    peer,                       \* the client whose connection it serves
    found,                      \* what fetch put in scratch
    fd,                         \* client -> its end of the connection
    link,                       \* client -> the server's end
    c2s, s2c,                   \* client -> frames in flight
    pc, req,                    \* client -> where it is in request(), and the range
    ret,                        \* client -> how the last request() returned
    asked                       \* history: client -> newest when it sent the request

lifetime == <<running, listening, stopper>>
thread == <<server, peer, found>>
wire == <<link, c2s, s2c>>
client == <<fd, pc, req, ret, asked>>
vars == <<history, lifetime, thread, wire, client>>

Ranges == {r \in [from : FirstSeq .. MaxSeq, to : FirstSeq .. MaxSeq] :
              r.from <= r.to /\ r.to - r.from < KBatch}
NoRange == [from |-> 0, to |-> 0]

\* After start(): bound, listening, thread running.
Init ==
    /\ HistoryInit
    /\ running = TRUE /\ listening = TRUE /\ stopper = "up"
    /\ server = "check" /\ peer = Nobody /\ found = {}
    /\ link = [c \in Clients |-> "none"]
    /\ c2s = [c \in Clients |-> << >>] /\ s2c = [c \in Clients |-> << >>]
    /\ fd = [c \in Clients |-> "none"]
    /\ pc = [c \in Clients |-> "idle"] /\ req = [c \in Clients |-> NoRange]
    /\ ret = [c \in Clients |-> [ok |-> TRUE, msgs |-> {}]]
    /\ asked = [c \in Clients |-> 0]

-----------------------------------------------------------------------------
\* The publisher thread numbers its messages consecutively.
Publish ==
    /\ newest < MaxSeq
    /\ append(IF newest = 0 THEN FirstSeq ELSE newest + 1)
    /\ UNCHANGED <<lifetime, thread, wire, client>>

-----------------------------------------------------------------------------
(* RecoveryServer *)

\* stop(): clear the flag, then join the thread, then close the listener.
Stop ==
    /\ stopper = "up"
    /\ running' = FALSE /\ stopper' = "joining"
    /\ UNCHANGED <<listening, history, thread, wire, client>>

Joined ==
    /\ stopper = "joining" /\ server = "exited"
    /\ listening' = FALSE /\ stopper' = "stopped"
    /\ UNCHANGED <<running, history, thread, wire, client>>

\* run()'s loop test.
RunCheck ==
    /\ server = "check"
    /\ server' = IF running THEN "accept" ELSE "exited"
    /\ UNCHANGED <<peer, found, history, lifetime, wire, client>>

\* accept() returns a connection, or EAGAIN after 100 ms.
AcceptClient(c) ==
    /\ server = "accept" /\ link[c] = "backlog"
    /\ server' = "loop" /\ peer' = c
    /\ link' = [link EXCEPT ![c] = "served"]
    /\ UNCHANGED <<found, c2s, s2c, history, lifetime, client>>

AcceptTimesOut ==
    /\ server = "accept"
    /\ server' = "check"
    /\ UNCHANGED <<peer, found, history, lifetime, wire, client>>

\* Any other error of accept() ends the thread.
AcceptFails ==
    /\ server = "accept"
    /\ server' = "exited"
    /\ UNCHANGED <<peer, found, history, lifetime, wire, client>>

\* serve_connection returns and run() closes the connection.
HangUp ==
    /\ link' = [link EXCEPT ![peer] = "shut"]
    /\ peer' = Nobody /\ found' = {} /\ server' = "check"
    /\ UNCHANGED <<c2s, s2c>>

\* Mutant: the flag is not tested between requests.
ServeCheckNever ==
    /\ server = "loop"
    /\ server' = "read"
    /\ UNCHANGED <<peer, found, wire, history, lifetime, client>>

\* serve_connection's loop test.
ServeCheck ==
    /\ server = "loop"
    /\ IF running THEN server' = "read" /\ UNCHANGED <<peer, found, wire>> ELSE HangUp
    /\ UNCHANGED <<history, lifetime, client>>

ReadRequest ==
    /\ server = "read" /\ c2s[peer] # << >>
    /\ server' = "fetch"
    /\ UNCHANGED <<peer, found, history, lifetime, wire, client>>

\* read_exact fails: the client has closed, or sent nothing for two seconds.
ReadFails ==
    /\ server = "read" /\ c2s[peer] = << >>
    /\ HangUp
    /\ UNCHANGED <<history, lifetime, client>>

Fetch ==
    LET r == Head(c2s[peer])
        span == r.to - r.from + 1
    IN  /\ server = "fetch"
        /\ found' = fetch(r.from, r.to, IF span > KBatch THEN KBatch ELSE span)
        /\ c2s' = [c2s EXCEPT ![peer] = Tail(@)]
        /\ server' = "header"
        /\ UNCHANGED <<peer, link, s2c, history, lifetime, client>>

\* write_exact of the header, then of the payload when there is one.  A write
\* to a client that has closed fails, or goes nowhere.
Send(kind, next) ==
    /\ \/ /\ s2c' = [s2c EXCEPT ![peer] = Append(@, [kind |-> kind, msgs |-> found])]
          /\ server' = next
          /\ UNCHANGED <<peer, found, link, c2s>>
       \/ fd[peer] = "closed" /\ HangUp
    /\ UNCHANGED <<history, lifetime, client>>

SendHeader == server = "header" /\ Send("header", IF found = {} THEN "loop" ELSE "payload")
SendPayload == server = "payload" /\ Send("payload", "loop")

-----------------------------------------------------------------------------
(* RecoveryClient *)

\* connect(): the kernel completes the handshake while the listener is open.
Connect(c) ==
    /\ fd[c] = "none" /\ listening
    /\ fd' = [fd EXCEPT ![c] = "open"]
    /\ link' = [link EXCEPT ![c] = "backlog"]
    /\ UNCHANGED <<pc, req, ret, asked, c2s, s2c, history, lifetime, thread>>

\* request(): send the request and wait for the header.
Request(c, r) ==
    /\ c \in Requesters /\ fd[c] = "open" /\ pc[c] = "idle"
    /\ c2s' = [c2s EXCEPT ![c] = IF link[c] = "shut" THEN << >> ELSE Append(@, r)]
    /\ req' = [req EXCEPT ![c] = r] /\ pc' = [pc EXCEPT ![c] = "header"]
    /\ asked' = [asked EXCEPT ![c] = newest]
    /\ UNCHANGED <<fd, ret, link, s2c, history, lifetime, thread>>

\* request() returns true with msgs.
Return(c, msgs) ==
    /\ ret' = [ret EXCEPT ![c] = [ok |-> TRUE, msgs |-> msgs]]
    /\ pc' = [pc EXCEPT ![c] = "idle"]

GetHeader(c) ==
    /\ pc[c] = "header" /\ s2c[c] # << >>
    /\ s2c' = [s2c EXCEPT ![c] = Tail(@)]
    /\ IF Head(s2c[c]).msgs = {} THEN Return(c, {})
       ELSE pc' = [pc EXCEPT ![c] = "payload"] /\ UNCHANGED ret
    /\ UNCHANGED <<fd, req, asked, link, c2s, history, lifetime, thread>>

GetPayload(c) ==
    /\ pc[c] = "payload" /\ s2c[c] # << >>
    /\ s2c' = [s2c EXCEPT ![c] = Tail(@)]
    /\ Return(c, Head(s2c[c]).msgs)
    /\ UNCHANGED <<fd, req, asked, link, c2s, history, lifetime, thread>>

\* Mutant: a failed request keeps the connection.
RequestFailsOpen(c) ==
    /\ pc[c] # "idle" /\ s2c[c] = << >>
    /\ ret' = [ret EXCEPT ![c] = [ok |-> FALSE, msgs |-> {}]]
    /\ pc' = [pc EXCEPT ![c] = "idle"]
    /\ UNCHANGED <<fd, req, asked, wire, history, lifetime, thread>>

\* Mutant: no receive timeout.
RequestFailsOnClose(c) ==
    /\ pc[c] # "idle" /\ s2c[c] = << >> /\ link[c] = "shut"
    /\ fd' = [fd EXCEPT ![c] = "closed"]
    /\ ret' = [ret EXCEPT ![c] = [ok |-> FALSE, msgs |-> {}]]
    /\ pc' = [pc EXCEPT ![c] = "idle"]
    /\ UNCHANGED <<req, asked, wire, history, lifetime, thread>>

\* A read or a write fails (the server has closed, or nothing came for two
\* seconds): request() closes the connection for good and returns false.
RequestFails(c) ==
    /\ pc[c] # "idle" /\ s2c[c] = << >>
    /\ fd' = [fd EXCEPT ![c] = "closed"]
    /\ ret' = [ret EXCEPT ![c] = [ok |-> FALSE, msgs |-> {}]]
    /\ pc' = [pc EXCEPT ![c] = "idle"]
    /\ UNCHANGED <<req, asked, wire, history, lifetime, thread>>

\* request() on a client whose connection is closed.
NotConnected(c, r) ==
    /\ c \in Requesters /\ fd[c] = "closed" /\ pc[c] = "idle"
    /\ req' = [req EXCEPT ![c] = r]
    /\ ret' = [ret EXCEPT ![c] = [ok |-> FALSE, msgs |-> {}]]
    /\ UNCHANGED <<fd, pc, asked, wire, history, lifetime, thread>>

\* The destructor.
Close(c) ==
    /\ fd[c] = "open" /\ pc[c] = "idle"
    /\ fd' = [fd EXCEPT ![c] = "closed"]
    /\ UNCHANGED <<pc, req, ret, asked, wire, history, lifetime, thread>>

-----------------------------------------------------------------------------
Server ==
    \/ RunCheck
    \/ \E c \in Clients : AcceptClient(c)
    \/ AcceptTimesOut
    \/ AcceptFails
    \/ ServeCheck
    \/ ReadRequest
    \/ ReadFails
    \/ Fetch
    \/ SendHeader
    \/ SendPayload

\* The steps of a request() under way.
Answered(c) == GetHeader(c) \/ GetPayload(c) \/ RequestFails(c)

Next ==
    \/ Publish
    \/ Stop
    \/ Joined
    \/ Server
    \/ \E c \in Clients :
          \/ Connect(c)
          \/ \E r \in Ranges : Request(c, r) \/ NotConnected(c, r)
          \/ Answered(c)
          \/ Close(c)

Spec == Init /\ [][Next]_vars

\* Both threads and every client inside request() keep running: each blocking
\* call returns, if only by its timeout.
Fairness ==
    /\ WF_vars(Server) /\ WF_vars(Joined)
    /\ \A c \in Clients : WF_vars(Answered(c))

FairSpec == Spec /\ Fairness

-----------------------------------------------------------------------------
\* The retained window is intact: slot s % H of the ring holds message s for
\* every s from oldest_sequence_ to newest_sequence_, and the window is as wide
\* as the ring allows.
WindowIntact ==
    newest # 0 =>
        /\ \A s \in oldest .. newest : ring[s % H] = s
        /\ newest - oldest + 1 = IF newest - FirstSeq + 1 > H THEN H ELSE newest - FirstSeq + 1

\* A request that returns true returns messages of its own range: an answer is
\* never taken for the answer to another request, although requests share one
\* connection and may time out while the answer is under way.
AnswersMatch ==
    \A c \in Clients :
        pc[c] = "idle" /\ ret[c].ok => ret[c].msgs \subseteq req[c].from .. req[c].to

\* A short answer means that the rest has aged out of the ring: whatever was
\* published when the request was sent and is retained still is in the answer.
ShortMeansAgedOut ==
    \A c \in Clients :
        pc[c] = "idle" /\ ret[c].ok /\ req[c] # NoRange =>
            {s \in req[c].from .. req[c].to : s <= asked[c] /\ s >= oldest}
                \subseteq ret[c].msgs

\* stop() returns: the server thread notices the flag from every blocking call,
\* whatever its clients do.
StopReturns == stopper = "joining" ~> stopper = "stopped"

\* request() returns, with an answer or without, even when the server serves
\* another client, has stopped, or hangs up in the middle.
RequestReturns == \A c \in Clients : pc[c] # "idle" ~> pc[c] = "idle"

\* "The client keeps one connection open and pipelines requests over it"
\* (recovery_server.cpp:131): while the server runs it does not hang up on a
\* client that keeps its end open.
ConnectionKeptOpen ==
    \A c \in Clients : running /\ fd[c] = "open" => link[c] # "shut"
=============================================================================
