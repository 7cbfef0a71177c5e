----------------------- MODULE RecoveryServiceProofs -----------------------
(***************************************************************************)
(* The history and the retransmission protocol, for every ring size, batch *)
(* size and set of clients: the retained window is intact, an answer is    *)
(* the answer to the request that returns it, and what it leaves out has   *)
(* aged out.                                                               *)
(***************************************************************************)
EXTENDS RecoveryService, RingArithmetic

\* What the proofs need of the constants.
LEMMA Constants ==
    /\ H \in Nat \ {0} /\ KBatch \in Nat \ {0} /\ FirstSeq \in Nat \ {0} /\ MaxSeq \in Nat
    /\ Nobody \notin Clients
BY HistoryAssumption, RecoveryAssumption, Zenon

-----------------------------------------------------------------------------
(* The history: append() keeps the retained window in place and fetch()    *)
(* returns exactly what is retained of a range, for every ring size.       *)

Retained(f) == Retains(H, ring, oldest, newest, f)

LEMMA HistoryStarts == ASSUME HistoryInit, NEW f PROVE Retained(f)
BY HistoryAssumption, Zenon DEF HistoryInit, Retained, Retains

LEMMA AppendKeeps ==
    ASSUME NEW f \in Nat \ {0}, Retained(f), append(IF newest = 0 THEN f ELSE newest + 1)
    PROVE  Retained(f)' /\ oldest' >= oldest /\ newest' >= newest
<1> DEFINE s == IF newest = 0 THEN f ELSE newest + 1
<1>1. Stores(H, ring, oldest, newest, f, s, oldest', ring') /\ newest' = s
  BY Zenon DEF append, Stores
<1>2. Retains(H, ring, oldest, newest, f) /\ H \in Nat \ {0} BY HistoryAssumption, Zenon DEF Retained
<1> HIDE DEF s
<1>3. Retains(H, ring', oldest', s, f) /\ oldest' >= oldest /\ s >= newest
  BY <1>1, <1>2, NextNumber, Zenon
<1> QED BY <1>1, <1>3, Zenon DEF Retained

LEMMA FetchExact ==
    ASSUME NEW f, Retained(f), NEW from \in Nat, NEW to \in Nat, from <= to
    PROVE  fetch(from, to, to - from + 1) =
             {s \in from .. to : newest # 0 /\ s >= oldest /\ s <= newest}
<1> DEFINE kept == {s \in from .. to : newest # 0 /\ s >= oldest /\ s <= newest}
           all == {k \in from .. to : /\ newest # 0 /\ k >= oldest /\ k <= newest
                                      /\ before(k, from) < to - from + 1}
<1>1. all = kept BY DEF before, Retained, Retains
<1>2. fetch(from, to, to - from + 1) = {ring[s % H] : s \in all} BY Zenon DEF fetch
<1>3. \A s \in kept : s \in oldest .. newest BY DEF Retained, Retains
<1>4. \A s \in kept : ring[s % H] = s BY <1>3, Zenon DEF Retained, Retains
<1> HIDE DEF kept
<1>5. {ring[s % H] : s \in kept} = kept BY <1>4, Zenon
<1> QED BY <1>1, <1>2, <1>5, Zenon DEF kept

HistoryInv == Retained(FirstSeq)

LEMMA HistoryFacts ==
    HistoryInv => /\ oldest \in Nat /\ newest \in Nat /\ WindowIntact
                  /\ newest # 0 => oldest >= FirstSeq /\ oldest <= newest
BY Zenon DEF HistoryInv, Retained, Retains, WindowIntact

-----------------------------------------------------------------------------
(* The connection: what may be under way between a client and the server. *)

Asked(c) == req[c].from .. req[c].to

\* m is an answer to c's request: nothing else, and nothing retained is left out.
Good(c, m) ==
    /\ m \subseteq Asked(c)
    /\ \A s \in Asked(c) : s <= asked[c] /\ s >= oldest => s \in m

\* The server owes c nothing.
Quiet(c) == peer = c => server \in {"loop", "read"}

Frame(k, m) == [kind |-> k, msgs |-> m]

\* The phases of a connection that c keeps open.  At most one request and its
\* answer are under way, and between requests nothing is.
NoRequest(c) == pc[c] = "idle" /\ c2s[c] = << >> /\ s2c[c] = << >> /\ Quiet(c)
RequestSent(c) ==
    /\ pc[c] = "header" /\ c2s[c] = <<req[c]>> /\ s2c[c] = << >>
    /\ peer = c => server \in {"loop", "read", "fetch"}
Fetched(c) ==
    /\ pc[c] = "header" /\ c2s[c] = << >> /\ s2c[c] = << >>
    /\ peer = c /\ server = "header" /\ Good(c, found)
HeaderSent(c) ==
    /\ pc[c] = "header" /\ c2s[c] = << >>
    /\ \E m : /\ s2c[c] = <<Frame("header", m)>> /\ m # {} /\ Good(c, m)
              /\ IF peer = c THEN server = "payload" /\ found = m ELSE link[c] = "shut"
AnswerSent(c) ==
    /\ pc[c] = "header" /\ c2s[c] = << >> /\ Quiet(c)
    /\ \E m : /\ m # {} /\ Good(c, m)
              /\ s2c[c] = <<Frame("header", m), Frame("payload", m)>>
EmptySent(c) ==
    /\ pc[c] = "header" /\ c2s[c] = << >> /\ Quiet(c)
    /\ s2c[c] = <<Frame("header", {})>> /\ Good(c, {})
HeaderRead(c) ==
    /\ pc[c] = "payload" /\ c2s[c] = << >> /\ s2c[c] = << >>
    /\ IF peer = c THEN server = "payload" /\ Good(c, found) ELSE link[c] = "shut"
PayloadSent(c) ==
    /\ pc[c] = "payload" /\ c2s[c] = << >> /\ Quiet(c)
    /\ \E m : s2c[c] = <<Frame("payload", m)>> /\ Good(c, m)
Cut(c) == pc[c] = "header" /\ c2s[c] = << >> /\ s2c[c] = << >> /\ link[c] = "shut"

Phase(c) ==
    \/ NoRequest(c) \/ RequestSent(c) \/ Fetched(c) \/ HeaderSent(c) \/ AnswerSent(c)
    \/ EmptySent(c) \/ HeaderRead(c) \/ PayloadSent(c) \/ Cut(c)

ClientInv(c) ==
    /\ asked[c] \in Nat /\ asked[c] <= newest
    /\ req[c] \in Ranges \cup {NoRange}
    /\ pc[c] # "idle" => req[c] \in Ranges
    /\ peer = c => link[c] = "served"
    /\ fd[c] = "none" =>
           pc[c] = "idle" /\ link[c] = "none" /\ c2s[c] = << >> /\ s2c[c] = << >>
    /\ fd[c] = "closed" => pc[c] = "idle"
    /\ fd[c] \in {"none", "open", "closed"}
    /\ fd[c] = "open" => Phase(c)
    /\ pc[c] = "idle" /\ ret[c].ok =>
           Good(c, ret[c].msgs) \/ (req[c] = NoRange /\ ret[c].msgs = {})

\* The functions over the clients, and whom the thread serves.
Shape ==
    /\ DOMAIN fd = Clients /\ DOMAIN link = Clients /\ DOMAIN c2s = Clients
    /\ DOMAIN s2c = Clients /\ DOMAIN pc = Clients /\ DOMAIN req = Clients
    /\ DOMAIN ret = Clients /\ DOMAIN asked = Clients
    /\ peer \in Clients \cup {Nobody}
    /\ peer = Nobody <=> server \in {"check", "accept", "exited"}

RecoveryInv == HistoryInv /\ Shape /\ \A c \in Clients : ClientInv(c)

LEMMA ShapeHolds == RecoveryInv => Shape
BY Zenon DEF RecoveryInv

LEMMA ClientHolds == RecoveryInv => \A c \in Clients : ClientInv(c)
BY Zenon DEF RecoveryInv

-----------------------------------------------------------------------------
(* Frames on a connection: there are never more than two. *)

LEMMA AppendFirst == ASSUME NEW a PROVE Append(<< >>, a) = <<a>>
OBVIOUS

LEMMA AppendSecond == ASSUME NEW a, NEW b PROVE Append(<<a>>, b) = <<a, b>>
<1>1. <<a>> \in Seq({a, b}) OBVIOUS
<1>2. Append(<<a>>, b) \in Seq({a, b}) /\ Len(Append(<<a>>, b)) = 2 BY <1>1
<1>3. Append(<<a>>, b)[1] = a /\ Append(<<a>>, b)[2] = b BY <1>1
<1>4. Append(<<a>>, b) = [i \in 1 .. 2 |-> Append(<<a>>, b)[i]] BY <1>2
<1>5. <<a, b>> = [i \in 1 .. 2 |-> <<a, b>>[i]] OBVIOUS
<1>6. \A i \in 1 .. 2 : Append(<<a>>, b)[i] = <<a, b>>[i] BY <1>3
<1> QED BY <1>4, <1>5, <1>6, Zenon

LEMMA OneFrame == ASSUME NEW a PROVE Head(<<a>>) = a /\ Tail(<<a>>) = << >>
OBVIOUS

LEMMA TwoFrames == ASSUME NEW a, NEW b PROVE Head(<<a, b>>) = a /\ Tail(<<a, b>>) = <<b>>
OBVIOUS

-----------------------------------------------------------------------------
(* What a step leaves alone. *)

\* Nothing of c's own state and connection changes.
Untouched(c) ==
    /\ fd'[c] = fd[c] /\ link'[c] = link[c] /\ c2s'[c] = c2s[c] /\ s2c'[c] = s2c[c]
    /\ pc'[c] = pc[c] /\ req'[c] = req[c] /\ ret'[c] = ret[c] /\ asked'[c] = asked[c]

\* The thread serves somebody else, or does not move.
Apart(c) ==
    \/ peer # c /\ peer' # c
    \/ peer' = peer /\ server' = server /\ found' = found

\* The history only moves forward.
Forward ==
    /\ oldest \in Nat /\ newest \in Nat /\ oldest' \in Nat /\ newest' \in Nat
    /\ oldest' >= oldest /\ newest' >= newest

\* An answer that is good stays good: messages only leave the window.
LEMMA GoodStays ==
    ASSUME Forward, NEW c \in Clients, req'[c] = req[c], asked'[c] = asked[c],
           req[c] \in Ranges \cup {NoRange}, NEW m, Good(c, m)
    PROVE  Good(c, m)'
<1>1. Asked(c)' = Asked(c) BY Zenon DEF Asked
<1>2. \A s \in Asked(c) : s \in Int BY Constants DEF Asked, Ranges, NoRange
<1>3. ASSUME NEW s \in Asked(c), s <= asked[c], s >= oldest' PROVE s \in m
  <2>1. s >= oldest BY <1>2, <1>3 DEF Forward
  <2> QED BY <1>3, <2>1, Zenon DEF Good
<1> QED BY <1>1, <1>3, Zenon DEF Good

\* A client that the step does not touch, and that the thread does not turn to
\* or from, is as well off as before.
LEMMA OthersKeep ==
    ASSUME Forward, NEW c \in Clients, ClientInv(c), Untouched(c), Apart(c)
    PROVE  ClientInv(c)'
<1>1. \A m : Good(c, m) => Good(c, m)'
  BY GoodStays, Zenon DEF ClientInv, Untouched
<1>2. Quiet(c) => Quiet(c)' BY Zenon DEF Quiet, Apart
<1>3. Phase(c) => Phase(c)'
  <2>1. NoRequest(c) => NoRequest(c)' BY <1>2, Zenon DEF NoRequest, Untouched
  <2>2. RequestSent(c) => RequestSent(c)' BY Zenon DEF RequestSent, Untouched, Apart
  <2>3. Fetched(c) => Fetched(c)' BY <1>1, Zenon DEF Fetched, Untouched, Apart
  <2>4. ASSUME HeaderSent(c) PROVE HeaderSent(c)'
    <3>1. PICK m : /\ s2c[c] = <<Frame("header", m)>> /\ m # {} /\ Good(c, m)
                   /\ IF peer = c THEN server = "payload" /\ found = m ELSE link[c] = "shut"
      BY <2>4, Zenon DEF HeaderSent
    <3>2. Good(c, m)' BY <1>1, <3>1, Zenon
    <3>3. IF peer' = c THEN server' = "payload" /\ found' = m ELSE link'[c] = "shut"
      BY <3>1, Zenon DEF Untouched, Apart
    <3> QED BY <2>4, <3>1, <3>2, <3>3, Zenon DEF HeaderSent, Untouched, Frame
  <2>5. ASSUME AnswerSent(c) PROVE AnswerSent(c)'
    <3>1. PICK m : /\ m # {} /\ Good(c, m)
                   /\ s2c[c] = <<Frame("header", m), Frame("payload", m)>>
      BY <2>5, Zenon DEF AnswerSent
    <3>2. Good(c, m)' BY <1>1, <3>1, Zenon
    <3> QED BY <1>2, <2>5, <3>1, <3>2, Zenon DEF AnswerSent, Untouched, Frame
  <2>6. EmptySent(c) => EmptySent(c)' BY <1>1, <1>2, Zenon DEF EmptySent, Untouched, Frame
  <2>7. HeaderRead(c) => HeaderRead(c)' BY <1>1, Zenon DEF HeaderRead, Untouched, Apart
  <2>8. ASSUME PayloadSent(c) PROVE PayloadSent(c)'
    <3>1. PICK m : s2c[c] = <<Frame("payload", m)>> /\ Good(c, m)
      BY <2>8, Zenon DEF PayloadSent
    <3>2. Good(c, m)' BY <1>1, <3>1, Zenon
    <3> QED BY <1>2, <2>8, <3>1, <3>2, Zenon DEF PayloadSent, Untouched, Frame
  <2>9. Cut(c) => Cut(c)' BY Zenon DEF Cut, Untouched
  <2> QED BY <2>1, <2>2, <2>3, <2>4, <2>5, <2>6, <2>7, <2>8, <2>9, Zenon DEF Phase
<1>4. pc'[c] = "idle" /\ ret'[c].ok =>
         Good(c, ret[c].msgs)' \/ (req'[c] = NoRange /\ ret'[c].msgs = {})
  BY <1>1, Zenon DEF ClientInv, Untouched
<1>5. asked'[c] \in Nat /\ asked'[c] <= newest' BY DEF ClientInv, Untouched, Forward
<1>6. peer' = c => link'[c] = "served" BY Zenon DEF ClientInv, Untouched, Apart
<1>7. NoRange' = NoRange /\ Ranges' = Ranges BY Zenon DEF NoRange, Ranges
<1> QED BY <1>3, <1>4, <1>5, <1>6, <1>7, Zenon DEF ClientInv, Untouched

LEMMA HistoryStays == ASSUME HistoryInv, UNCHANGED history PROVE HistoryInv' /\ Forward
BY DEF HistoryInv, Retained, Retains, Forward, history

\* A step that changes one client's side at most: the invariant is that client's.
LEMMA OneClient ==
    ASSUME RecoveryInv, HistoryInv', Forward, Shape', NEW c,
           \A d \in Clients \ {c} : Untouched(d) /\ Apart(d),
           c \in Clients => ClientInv(c)'
    PROVE  RecoveryInv'
<1>1. ASSUME NEW d \in Clients, d # c PROVE ClientInv(d)'
  BY <1>1, OthersKeep, Zenon DEF RecoveryInv
<1> QED BY <1>1, Zenon DEF RecoveryInv

\* A step of the thread leaves the client's own variables alone: what remains
\* to show is the phase of the connection.
LEMMA ServerSide ==
    ASSUME Forward, NEW c \in Clients, ClientInv(c), UNCHANGED client, link[c] # "none",
           peer' = c => link'[c] = "served", fd[c] = "open" => Phase(c)'
    PROVE  ClientInv(c)'
<1>1. fd' = fd /\ pc' = pc /\ req' = req /\ ret' = ret /\ asked' = asked BY Zenon DEF client
<1>2. \A m : Good(c, m) => Good(c, m)' BY <1>1, GoodStays, Zenon DEF ClientInv
<1>3. pc'[c] = "idle" /\ ret'[c].ok =>
         Good(c, ret[c].msgs)' \/ (req'[c] = NoRange /\ ret'[c].msgs = {})
  BY <1>1, <1>2, Zenon DEF ClientInv
<1>4. asked'[c] \in Nat /\ asked'[c] <= newest' BY <1>1 DEF ClientInv, Forward
<1>5. NoRange' = NoRange /\ Ranges' = Ranges BY Zenon DEF NoRange, Ranges
<1> QED BY <1>1, <1>3, <1>4, <1>5, Zenon DEF ClientInv

-----------------------------------------------------------------------------
(* The publisher, stop() and the server thread until it reads a request *)

LEMMA PublishKeeps == ASSUME RecoveryInv, Publish PROVE RecoveryInv'
<1>1. HistoryInv' /\ Forward
  <2>1. append(IF newest = 0 THEN FirstSeq ELSE newest + 1) BY Zenon DEF Publish
  <2>2. HistoryInv' /\ oldest' >= oldest /\ newest' >= newest
    BY <2>1, AppendKeeps, Constants, Zenon DEF RecoveryInv, HistoryInv
  <2> QED BY <2>2, Zenon DEF RecoveryInv, HistoryInv, Retained, Retains, Forward
<1>2. Shape' BY ShapeHolds, Zenon DEF Shape, Publish, thread, wire, client
<1>3. \A d \in Clients : Untouched(d) /\ Apart(d)
  BY Zenon DEF Publish, thread, wire, client, Untouched, Apart
<1> QED BY <1>1, <1>2, <1>3, OneClient, Constants, Zenon

\* stop(), and the thread's steps while it serves nobody.
LEMMA UnservedKeeps ==
    ASSUME RecoveryInv, Stop \/ Joined \/ RunCheck \/ AcceptTimesOut \/ AcceptFails
    PROVE  RecoveryInv'
<1>1. UNCHANGED history /\ UNCHANGED wire /\ UNCHANGED client /\ peer' = peer
  BY Zenon DEF Stop, Joined, RunCheck, AcceptTimesOut, AcceptFails, thread
<1>2. HistoryInv' /\ Forward BY <1>1, HistoryStays, Zenon DEF RecoveryInv
<1>3. \/ server' = server /\ found' = found
      \/ server \in {"check", "accept"} /\ server' \in {"check", "accept", "exited"}
  BY Zenon DEF Stop, Joined, RunCheck, AcceptTimesOut, AcceptFails, thread
<1>4. Shape' BY <1>1, <1>3, ShapeHolds, Zenon DEF Shape, wire, client
<1>5. \A d \in Clients : Apart(d)
  BY <1>1, <1>3, Constants, ShapeHolds, Zenon DEF Shape, Apart
<1>6. \A d \in Clients : Untouched(d) BY <1>1, Zenon DEF wire, client, Untouched
<1> QED BY <1>2, <1>4, <1>5, <1>6, OneClient, Constants, Zenon

LEMMA AcceptClientKeeps ==
    ASSUME RecoveryInv, NEW c \in Clients, AcceptClient(c) PROVE RecoveryInv'
<1>1. HistoryInv' /\ Forward BY HistoryStays, Zenon DEF RecoveryInv, AcceptClient
<1>2. /\ peer = Nobody /\ peer' = c /\ server' = "loop" /\ c # Nobody
      /\ link[c] = "backlog" /\ link' = [link EXCEPT ![c] = "served"]
      /\ UNCHANGED <<c2s, s2c, fd, pc, req, ret, asked>>
  BY Constants, ShapeHolds, Zenon DEF Shape, AcceptClient, client
<1>3. Shape' BY <1>2, ShapeHolds, Zenon DEF Shape
<1>4. link'[c] = "served" BY <1>2, ShapeHolds, Zenon DEF Shape
<1>5. \A d \in Clients \ {c} : Untouched(d) /\ Apart(d)
  BY <1>2, Constants, ShapeHolds, Zenon DEF Shape, Untouched, Apart
<1>6. ClientInv(c) BY Zenon DEF RecoveryInv
<1>7. \A m : Good(c, m) => Good(c, m)'
  BY <1>1, <1>2, <1>6, GoodStays, Zenon DEF ClientInv
<1>8. Phase(c) => Phase(c)'
  <2>1. Quiet(c)' BY <1>2, Zenon DEF Quiet
  <2>2. NoRequest(c) => NoRequest(c)' BY <1>2, <2>1, Zenon DEF NoRequest
  <2>3. RequestSent(c) => RequestSent(c)' BY <1>2, Zenon DEF RequestSent
  <2>4. ~ Fetched(c) /\ ~ HeaderSent(c) /\ ~ HeaderRead(c) /\ ~ Cut(c)
    BY <1>2, Zenon DEF Fetched, HeaderSent, HeaderRead, Cut
  <2>5. ASSUME AnswerSent(c) PROVE AnswerSent(c)'
    BY <1>2, <1>7, <2>1, <2>5, Zenon DEF AnswerSent, Frame
  <2>6. EmptySent(c) => EmptySent(c)' BY <1>2, <1>7, <2>1, Zenon DEF EmptySent, Frame
  <2>7. PayloadSent(c) => PayloadSent(c)' BY <1>2, <1>7, <2>1, Zenon DEF PayloadSent, Frame
  <2> QED BY <2>2, <2>3, <2>4, <2>5, <2>6, <2>7, Zenon DEF Phase
<1>9. ClientInv(c)'
  BY <1>1, <1>2, <1>4, <1>6, <1>8, ServerSide, Zenon DEF ClientInv, AcceptClient
<1> QED BY <1>1, <1>3, <1>5, <1>9, OneClient, Zenon

\* The thread is in serve_connection with c.
Serves(c) == peer = c /\ server \notin {"check", "accept", "exited"}

LEMMA Serving ==
    ASSUME RecoveryInv, NEW c \in Clients, Serves(c)
    PROVE  c # Nobody /\ ClientInv(c) /\ link[c] = "served" /\ fd[c] # "none"
BY Constants, ClientHolds, Zenon DEF ClientInv, Serves

\* serve_connection may return while it owes the client nothing, or once the
\* client has closed.
LEMMA HangUpKeeps ==
    ASSUME RecoveryInv, NEW c \in Clients, Serves(c),
           server \in {"loop", "read"} \/ fd[c] = "closed", HangUp,
           UNCHANGED history, UNCHANGED client
    PROVE  RecoveryInv'
<1>1. HistoryInv' /\ Forward BY HistoryStays, Zenon DEF RecoveryInv
<1>2. c # Nobody /\ ClientInv(c) /\ link[c] = "served" BY Serving, Zenon
<1>3. /\ link' = [link EXCEPT ![c] = "shut"] /\ peer' = Nobody /\ server' = "check"
      /\ UNCHANGED <<c2s, s2c>> /\ UNCHANGED <<fd, pc, req, ret, asked>>
  BY Zenon DEF HangUp, client, Serves
<1>4. Shape' BY <1>3, ShapeHolds, Zenon DEF Shape
<1>5. link'[c] = "shut" BY <1>2, <1>3, ShapeHolds, Zenon DEF Shape
<1>6. \A d \in Clients \ {c} : Untouched(d) /\ Apart(d)
  BY <1>2, <1>3, Constants, ShapeHolds, Zenon DEF Shape, Serves, Untouched, Apart
<1>7. \A m : Good(c, m) => Good(c, m)' BY <1>1, <1>2, <1>3, GoodStays, Zenon DEF ClientInv
<1>8. ASSUME fd[c] = "open" PROVE Phase(c)'
  <2>1. Quiet(c)' BY <1>2, <1>3, Zenon DEF Quiet
  <2>2. NoRequest(c) => NoRequest(c)' BY <1>3, <2>1, Zenon DEF NoRequest
  <2>3. RequestSent(c) => RequestSent(c)' BY <1>2, <1>3, Zenon DEF RequestSent
  <2>4. ~ Fetched(c) /\ ~ HeaderSent(c) /\ ~ HeaderRead(c) /\ ~ Cut(c)
    BY <1>2, <1>8, Zenon DEF Fetched, HeaderSent, HeaderRead, Cut, Serves
  <2>5. AnswerSent(c) => AnswerSent(c)' BY <1>3, <1>7, <2>1, Zenon DEF AnswerSent, Frame
  <2>6. EmptySent(c) => EmptySent(c)' BY <1>3, <1>7, <2>1, Zenon DEF EmptySent, Frame
  <2>7. PayloadSent(c) => PayloadSent(c)' BY <1>3, <1>7, <2>1, Zenon DEF PayloadSent, Frame
  <2>8. Phase(c) BY <1>2, <1>8, Zenon DEF ClientInv
  <2> QED BY <2>2, <2>3, <2>4, <2>5, <2>6, <2>7, <2>8, Zenon DEF Phase
<1>9. ClientInv(c)' BY <1>1, <1>2, <1>3, <1>5, <1>8, ServerSide, Zenon
<1> QED BY <1>1, <1>4, <1>6, <1>9, OneClient, Zenon

\* The thread goes on with c, and changes at most the connection with c.
GoesOn(c) ==
    /\ peer' = c /\ server' \notin {"check", "accept", "exited"}
    /\ UNCHANGED history /\ UNCHANGED link /\ UNCHANGED client
    /\ DOMAIN c2s' = Clients /\ DOMAIN s2c' = Clients
    /\ \A d \in Clients \ {c} : c2s'[d] = c2s[d] /\ s2c'[d] = s2c[d]

LEMMA GoesOnKeeps ==
    ASSUME RecoveryInv, NEW c \in Clients, Serves(c), GoesOn(c),
           fd[c] = "open" => Phase(c)'
    PROVE  RecoveryInv'
<1>1. HistoryInv' /\ Forward BY HistoryStays, Zenon DEF RecoveryInv, GoesOn
<1>2. c # Nobody /\ ClientInv(c) /\ link[c] = "served" BY Serving, Zenon
<1>3. Shape' BY <1>2, ShapeHolds, Zenon DEF Shape, GoesOn, client
<1>4. \A d \in Clients \ {c} : Untouched(d) /\ Apart(d)
  BY Zenon DEF Serves, GoesOn, Untouched, Apart, client
<1>5. ClientInv(c)' BY <1>1, <1>2, ServerSide, Zenon DEF GoesOn
<1> QED BY <1>1, <1>3, <1>4, <1>5, OneClient, Zenon

LEMMA ServeCheckKeeps ==
    ASSUME RecoveryInv, NEW c \in Clients, Serves(c), ServeCheck PROVE RecoveryInv'
<1>1. CASE running
  <2>1. GoesOn(c) /\ server = "loop" /\ server' = "read" /\ UNCHANGED <<c2s, s2c>>
    BY <1>1, ShapeHolds, Zenon DEF ServeCheck, GoesOn, Serves, Shape, wire
  <2>2. \A m : Good(c, m) => Good(c, m)' BY <2>1, Zenon DEF Good, Asked, GoesOn, client, history
  <2>3. ASSUME fd[c] = "open" PROVE Phase(c)'
    <3>1. fd' = fd /\ pc' = pc /\ req' = req BY <2>1, Zenon DEF GoesOn, client
    <3>2. Quiet(c)' BY <2>1, Zenon DEF Quiet
    <3>3. NoRequest(c) => NoRequest(c)' BY <2>1, <3>1, <3>2, Zenon DEF NoRequest
    <3>4. RequestSent(c) => RequestSent(c)' BY <2>1, <3>1, Zenon DEF RequestSent
    <3>5. ~ Fetched(c) /\ ~ HeaderSent(c) /\ ~ HeaderRead(c) /\ ~ Cut(c)
      BY <2>1, Serving, Zenon DEF Fetched, HeaderSent, HeaderRead, Cut, Serves
    <3>6. AnswerSent(c) => AnswerSent(c)' BY <2>1, <2>2, <3>1, <3>2, Zenon DEF AnswerSent, Frame
    <3>7. EmptySent(c) => EmptySent(c)' BY <2>1, <2>2, <3>1, <3>2, Zenon DEF EmptySent, Frame
    <3>8. PayloadSent(c) => PayloadSent(c)'
      BY <2>1, <2>2, <3>1, <3>2, Zenon DEF PayloadSent, Frame
    <3>9. Phase(c) BY <2>3, ClientHolds, Zenon DEF ClientInv
    <3> QED BY <3>3, <3>4, <3>5, <3>6, <3>7, <3>8, <3>9, Zenon DEF Phase
  <2> QED BY <2>1, <2>3, GoesOnKeeps, Zenon
<1>2. CASE ~ running
  <2>1. HangUp /\ server = "loop" /\ UNCHANGED history /\ UNCHANGED client
    BY <1>2, Zenon DEF ServeCheck
  <2> QED BY <2>1, HangUpKeeps, Zenon
<1> QED BY <1>1, <1>2, Zenon

LEMMA ReadFailsKeeps ==
    ASSUME RecoveryInv, NEW c \in Clients, Serves(c), ReadFails PROVE RecoveryInv'
BY HangUpKeeps, Zenon DEF ReadFails

-----------------------------------------------------------------------------
(* The thread reads a request and answers it *)

\* The request that the thread finds is the one c waits on.
LEMMA ReadRequestKeeps ==
    ASSUME RecoveryInv, NEW c \in Clients, Serves(c), ReadRequest PROVE RecoveryInv'
<1>1. /\ GoesOn(c) /\ server = "read" /\ server' = "fetch" /\ c2s[c] # << >>
      /\ UNCHANGED <<c2s, s2c, pc, req>>
  BY ShapeHolds, Zenon DEF ReadRequest, GoesOn, Serves, Shape, wire, client
<1>2. ASSUME fd[c] = "open" PROVE Phase(c)'
  <2>1. Phase(c) BY <1>2, ClientHolds, Zenon DEF ClientInv
  <2>2. RequestSent(c)
    BY <1>1, <2>1, Zenon DEF Phase, NoRequest, Fetched, HeaderSent, AnswerSent, EmptySent,
                      HeaderRead, PayloadSent, Cut
  <2>3. RequestSent(c)' BY <1>1, <2>2, Zenon DEF RequestSent
  <2> QED BY <2>3, Zenon DEF Phase
<1> QED BY <1>1, <1>2, GoesOnKeeps, Zenon

\* fetch() reads the history after the request was sent, so all that was
\* published then and is retained still is found.
LEMMA FetchKeeps ==
    ASSUME RecoveryInv, NEW c \in Clients, Serves(c), Fetch PROVE RecoveryInv'
<1> DEFINE r == Head(c2s[c])
           span == r.to - r.from + 1
<1>1. /\ GoesOn(c) /\ server = "fetch" /\ server' = "header" /\ UNCHANGED <<s2c, pc, req>>
      /\ c2s'[c] = Tail(c2s[c])
  BY ShapeHolds, Zenon DEF Fetch, GoesOn, Serves, Shape, client
<1>2. found' = fetch(r.from, r.to, IF span > KBatch THEN KBatch ELSE span)
  BY Zenon DEF Fetch, Serves
<1>3. ASSUME fd[c] = "open" PROVE Phase(c)'
  <2>1. ClientInv(c) /\ Phase(c) /\ HistoryInv BY <1>3, Zenon DEF RecoveryInv, ClientInv
  <2>2. RequestSent(c)
    BY <1>1, <2>1, Serving, Zenon DEF Phase, NoRequest, Fetched, HeaderSent, AnswerSent, EmptySent,
                               HeaderRead, PayloadSent, Cut, Quiet, Serves
  <2>3. r = req[c] /\ c2s'[c] = << >> BY <1>1, <2>2 DEF RequestSent
  <2>4. req[c] \in Ranges BY <2>1, <2>2, Zenon DEF ClientInv, RequestSent
  <2>5. /\ req[c].from \in Nat /\ req[c].to \in Nat /\ req[c].from <= req[c].to
        /\ req[c].from >= FirstSeq /\ req[c].to - req[c].from + 1 <= KBatch
    <3> DEFINE a == req[c].from
               b == req[c].to
    <3>1. a \in FirstSeq .. MaxSeq /\ b \in FirstSeq .. MaxSeq /\ a <= b /\ b - a < KBatch
      BY <2>4, Zenon DEF Ranges
    <3> HIDE DEF a, b
    <3>2. a \in Nat /\ b \in Nat /\ a <= b /\ a >= FirstSeq /\ b - a + 1 <= KBatch
      BY <3>1, Constants
    <3> QED BY <3>2, Zenon DEF a, b
  <2> DEFINE want == req[c].to - req[c].from + 1
  <2>6. want \in Int /\ ~ (want > KBatch) BY <2>5, Constants
  <2>7. found' = fetch(req[c].from, req[c].to, want) BY <1>2, <2>3, <2>6, Zenon
  <2>8. found' = {s \in Asked(c) : newest # 0 /\ s >= oldest /\ s <= newest}
    BY <2>1, <2>5, <2>7, FetchExact, Zenon DEF Asked, HistoryInv
  <2>9. ASSUME NEW s \in Asked(c), s <= asked[c], s >= oldest PROVE s \in found'
    <3>1. s \in Int /\ s >= FirstSeq BY <2>5, Constants, SMTT(40) DEF Asked
    <3>2. asked[c] \in Nat /\ asked[c] <= newest /\ newest \in Nat
      BY <2>1, HistoryFacts, Zenon DEF ClientInv
    <3>3. s <= newest /\ newest # 0 BY <2>9, <3>1, <3>2, Constants
    <3> QED BY <2>8, <2>9, <3>3, Zenon
  <2>10. req' = req /\ asked' = asked /\ oldest' = oldest
    BY <1>1, Zenon DEF GoesOn, client, history
  <2>11. Good(c, found)' BY <2>8, <2>9, <2>10, Zenon DEF Good, Asked
  <2>12. Fetched(c)' BY <1>1, <2>2, <2>3, <2>11, Zenon DEF Fetched, RequestSent, GoesOn
  <2> QED BY <2>12, Zenon DEF Phase
<1> QED BY <1>1, <1>3, GoesOnKeeps, Zenon

LEMMA SendHeaderKeeps ==
    ASSUME RecoveryInv, NEW c \in Clients, Serves(c), SendHeader PROVE RecoveryInv'
<1>1. CASE fd[c] = "closed" /\ HangUp
  BY <1>1, HangUpKeeps, Zenon DEF SendHeader, Send
<1>2. CASE /\ s2c' = [s2c EXCEPT ![c] = Append(@, Frame("header", found))]
           /\ server' = IF found = {} THEN "loop" ELSE "payload"
           /\ UNCHANGED <<peer, found, link, c2s>>
  <2>1. /\ GoesOn(c) /\ server = "header" /\ UNCHANGED <<c2s, pc, req, asked, oldest, found>>
        /\ s2c'[c] = Append(s2c[c], Frame("header", found))
    BY <1>2, ShapeHolds, Zenon DEF SendHeader, Send, GoesOn, Serves, Shape, client, history
  <2>2. ASSUME fd[c] = "open" PROVE Phase(c)'
    <3>1. Phase(c) BY <2>2, ClientHolds, Zenon DEF ClientInv
    <3>2. Fetched(c)
      BY <2>1, <3>1, Serving, Zenon DEF Phase, NoRequest, RequestSent, HeaderSent, AnswerSent,
                                 EmptySent, HeaderRead, PayloadSent, Cut, Quiet, Serves
    <3>3. Good(c, found)' BY <2>1, <3>2, Zenon DEF Fetched, Good, Asked
    <3>4. s2c'[c] = <<Frame("header", found)>> /\ c2s'[c] = << >> /\ pc'[c] = "header"
      BY <2>1, <3>2, AppendFirst, Zenon DEF Fetched
    <3>5. CASE found = {}
      <4>1. EmptySent(c)' BY <1>2, <2>1, <3>3, <3>4, <3>5, Zenon DEF EmptySent, Quiet, Frame
      <4> QED BY <4>1, Zenon DEF Phase
    <3>6. CASE found # {}
      <4>1. peer' = c /\ server' = "payload" BY <1>2, <2>1, <3>6, Zenon DEF GoesOn
      <4>2. HeaderSent(c)' BY <2>1, <3>3, <3>4, <3>6, <4>1, Zenon DEF HeaderSent, Frame
      <4> QED BY <4>2, Zenon DEF Phase
    <3> QED BY <3>5, <3>6, SMTT(40)
  <2> QED BY <2>1, <2>2, GoesOnKeeps, Zenon
<1> QED BY <1>1, <1>2, Zenon DEF SendHeader, Send, Serves, Frame

LEMMA SendPayloadKeeps ==
    ASSUME RecoveryInv, NEW c \in Clients, Serves(c), SendPayload PROVE RecoveryInv'
<1>1. CASE fd[c] = "closed" /\ HangUp
  BY <1>1, HangUpKeeps, Zenon DEF SendPayload, Send
<1>2. CASE /\ s2c' = [s2c EXCEPT ![c] = Append(@, Frame("payload", found))]
           /\ server' = "loop" /\ UNCHANGED <<peer, found, link, c2s>>
  <2>1. /\ GoesOn(c) /\ server = "payload" /\ UNCHANGED <<c2s, pc, req, asked, oldest, found>>
        /\ s2c'[c] = Append(s2c[c], Frame("payload", found))
    BY <1>2, ShapeHolds, Zenon DEF SendPayload, Send, GoesOn, Serves, Shape, client, history
  <2>2. ASSUME fd[c] = "open" PROVE Phase(c)'
    <3>1. Phase(c) BY <2>2, ClientHolds, Zenon DEF ClientInv
    <3>2. HeaderSent(c) \/ HeaderRead(c)
      BY <2>1, <3>1, Serving, Zenon DEF Phase, NoRequest, RequestSent, Fetched, AnswerSent,
                                 EmptySent, PayloadSent, Cut, Quiet, Serves
    <3>3. Good(c, found)
      BY <3>2, Zenon DEF HeaderSent, HeaderRead, Serves
    <3>4. Good(c, found)' /\ Quiet(c)' BY <1>2, <2>1, <3>3, Zenon DEF Good, Asked, Quiet
    <3>5. CASE HeaderSent(c)
      <4>1. s2c[c] = <<Frame("header", found)>> /\ found # {}
        BY <3>5, Zenon DEF HeaderSent, Serves
      <4>2. s2c'[c] = <<Frame("header", found), Frame("payload", found)>>
        BY <2>1, <4>1, AppendSecond, Zenon
      <4>3. AnswerSent(c)'
        BY <2>1, <3>4, <3>5, <4>1, <4>2, Zenon DEF AnswerSent, HeaderSent, Frame
      <4> QED BY <4>3, Zenon DEF Phase
    <3>6. CASE HeaderRead(c)
      <4>1. s2c'[c] = <<Frame("payload", found)>> BY <2>1, <3>6, AppendFirst, Zenon DEF HeaderRead
      <4>2. pc'[c] = "payload" /\ c2s'[c] = << >> BY <2>1, <3>6, Zenon DEF HeaderRead
      <4>3. PayloadSent(c)' BY <2>1, <3>4, <4>1, <4>2, Zenon DEF PayloadSent, Frame
      <4> QED BY <4>3, Zenon DEF Phase
    <3> QED BY <3>2, <3>5, <3>6, SMTT(40)
  <2> QED BY <2>1, <2>2, GoesOnKeeps, Zenon
<1> QED BY <1>1, <1>2, Zenon DEF SendPayload, Send, Serves, Frame

-----------------------------------------------------------------------------
(* The clients *)

\* A step of client c moves neither the history nor the thread.
Acts(c) ==
    /\ UNCHANGED history /\ UNCHANGED thread
    /\ DOMAIN fd' = Clients /\ DOMAIN link' = Clients /\ DOMAIN c2s' = Clients
    /\ DOMAIN s2c' = Clients /\ DOMAIN pc' = Clients /\ DOMAIN req' = Clients
    /\ DOMAIN ret' = Clients /\ DOMAIN asked' = Clients
    /\ \A d \in Clients \ {c} : Untouched(d)

LEMMA ActsKeeps ==
    ASSUME RecoveryInv, NEW c \in Clients, Acts(c), ClientInv(c)' PROVE RecoveryInv'
<1>1. HistoryInv' /\ Forward BY HistoryStays, Zenon DEF RecoveryInv, Acts
<1>2. Shape' BY ShapeHolds, Zenon DEF Shape, Acts, thread
<1>3. \A d \in Clients \ {c} : Untouched(d) /\ Apart(d) BY Zenon DEF Acts, Apart, thread
<1> QED BY <1>1, <1>2, <1>3, OneClient, Zenon

LEMMA ConnectKeeps ==
    ASSUME RecoveryInv, NEW c \in Clients, Connect(c) PROVE RecoveryInv'
<1>1. Acts(c) BY ShapeHolds, Zenon DEF Connect, Acts, Shape, Untouched
<1>2. /\ UNCHANGED <<pc, req, ret, asked, c2s, s2c, peer, server, newest, oldest>>
      /\ fd[c] = "none" /\ fd'[c] = "open"
  BY ShapeHolds, Zenon DEF Connect, Shape, thread, history
<1>3. ClientInv(c) /\ peer # c BY <1>2, ClientHolds, SMTT(40) DEF ClientInv
<1>4. NoRequest(c)' BY <1>2, <1>3, Zenon DEF NoRequest, ClientInv, Quiet
<1>5. \A m : Good(c, m)' <=> Good(c, m) BY <1>2, SMTT(40) DEF Good, Asked
<1>6. ClientInv(c)'
  BY <1>2, <1>3, <1>4, <1>5, Zenon DEF ClientInv, Phase, Ranges, NoRange
<1> QED BY <1>1, <1>6, ActsKeeps, Zenon

\* A request is only made when nothing is under way on the connection.
LEMMA RequestKeeps ==
    ASSUME RecoveryInv, NEW c \in Clients, NEW r \in Ranges, Request(c, r)
    PROVE  RecoveryInv'
<1>1. Acts(c) BY ShapeHolds, Zenon DEF Request, Acts, Shape, Untouched
<1>2. /\ UNCHANGED <<fd, ret, link, s2c, peer, server, newest>>
      /\ fd[c] = "open" /\ pc[c] = "idle" /\ req'[c] = r /\ pc'[c] = "header"
      /\ asked'[c] = newest
      /\ c2s'[c] = IF link[c] = "shut" THEN << >> ELSE Append(c2s[c], r)
  BY ShapeHolds, Zenon DEF Request, Shape, thread, history
<1>3. ClientInv(c) /\ newest \in Nat BY HistoryFacts, SMTT(40) DEF RecoveryInv
<1>4. NoRequest(c)
  BY <1>2, <1>3, Zenon DEF ClientInv, Phase, NoRequest, RequestSent, Fetched, HeaderSent,
                    AnswerSent, EmptySent, HeaderRead, PayloadSent, Cut
<1>5. Phase(c)'
  <2>1. CASE link[c] = "shut"
    <3>1. Cut(c)' BY <1>2, <1>4, <2>1, Zenon DEF Cut, NoRequest
    <3> QED BY <3>1, Zenon DEF Phase
  <2>2. CASE link[c] # "shut"
    <3>1. c2s'[c] = <<r>> BY <1>2, <1>4, <2>2, AppendFirst, Zenon DEF NoRequest
    <3>2. RequestSent(c)' BY <1>2, <1>4, <3>1, Zenon DEF RequestSent, NoRequest, Quiet
    <3> QED BY <3>2, Zenon DEF Phase
  <2> QED BY <2>1, <2>2, Zenon
<1>6. Ranges' = Ranges BY Zenon DEF Ranges
<1>7. asked'[c] \in Nat /\ asked'[c] <= newest' BY <1>2, <1>3
<1>8. fd'[c] = "open" /\ req'[c] \in Ranges' /\ (peer' = c => link'[c] = "served")
  BY <1>2, <1>3, <1>6, SMTT(40) DEF ClientInv
<1>9. ClientInv(c)' BY <1>2, <1>5, <1>7, <1>8, Zenon DEF ClientInv
<1> QED BY <1>1, <1>9, ActsKeeps, SMTT(40)

\* A failed request closes the client's end: what is still under way is never read.
LEMMA RequestFailsKeeps ==
    ASSUME RecoveryInv, NEW c \in Clients, RequestFails(c) PROVE RecoveryInv'
<1>1. Acts(c) BY ShapeHolds, Zenon DEF RequestFails, Acts, Shape, Untouched, wire
<1>2. /\ UNCHANGED <<req, asked, link, peer, newest>>
      /\ fd'[c] = "closed" /\ pc'[c] = "idle" /\ ret'[c].ok = FALSE
  BY ShapeHolds, SMTT(40) DEF RequestFails, Shape, thread, history, wire
<1>3. ClientInv(c) BY Zenon DEF RecoveryInv
<1>4. ClientInv(c)' BY <1>2, <1>3, SMTT(40) DEF ClientInv, Ranges, NoRange
<1> QED BY <1>1, <1>4, ActsKeeps, Zenon

LEMMA NotConnectedKeeps ==
    ASSUME RecoveryInv, NEW c \in Clients, NEW r \in Ranges, NotConnected(c, r)
    PROVE  RecoveryInv'
<1>1. Acts(c) BY ShapeHolds, SMTT(40) DEF NotConnected, Acts, Shape, Untouched, wire
<1>2. /\ UNCHANGED <<fd, pc, asked, link, peer, newest>>
      /\ fd[c] = "closed" /\ pc[c] = "idle" /\ req'[c] = r /\ ret'[c].ok = FALSE
  BY ShapeHolds, Zenon DEF NotConnected, Shape, thread, history, wire
<1>3. ClientInv(c) BY SMTT(40) DEF RecoveryInv
<1>4. ClientInv(c)' BY <1>2, <1>3, SMTT(40) DEF ClientInv, Ranges, NoRange
<1> QED BY <1>1, <1>4, ActsKeeps, Zenon

LEMMA CloseKeeps ==
    ASSUME RecoveryInv, NEW c \in Clients, Close(c) PROVE RecoveryInv'
<1>1. Acts(c) BY ShapeHolds, SMTT(40) DEF Close, Acts, Shape, Untouched, wire
<1>2. /\ UNCHANGED <<pc, req, ret, asked, link, peer, newest, oldest>>
      /\ fd'[c] = "closed" /\ pc[c] = "idle"
  BY ShapeHolds, Zenon DEF Close, Shape, thread, history, wire
<1>3. ClientInv(c) BY Zenon DEF RecoveryInv
<1>4. \A m : Good(c, m)' <=> Good(c, m) BY <1>2, SMTT(40) DEF Good, Asked
<1>5. ClientInv(c)' BY <1>2, <1>3, <1>4, SMTT(40) DEF ClientInv, Ranges, NoRange
<1> QED BY <1>1, <1>5, ActsKeeps, Zenon

\* Reading a frame leaves the client's request and connection as they are: what
\* remains to show is the phase, and that an answer it returns is good.
LEMMA ReadsKeep ==
    ASSUME NEW c \in Clients, ClientInv(c), fd[c] = "open", pc[c] # "idle",
           UNCHANGED <<fd, req, asked, link, peer, newest>>, Phase(c)',
           pc'[c] = "idle" => Good(c, ret[c].msgs)'
    PROVE  ClientInv(c)'
<1>1. NoRange' = NoRange /\ Ranges' = Ranges BY Zenon DEF NoRange, Ranges
<1>2. req'[c] \in Ranges /\ fd'[c] = "open" BY Zenon DEF ClientInv
<1> QED BY <1>1, <1>2, Zenon DEF ClientInv

\* The header that c reads announces the answer to its request; an empty one
\* is the whole answer.
LEMMA GetHeaderKeeps ==
    ASSUME RecoveryInv, NEW c \in Clients, GetHeader(c) PROVE RecoveryInv'
<1>1. Acts(c) BY ShapeHolds, SMTT(40) DEF GetHeader, Return, Acts, Shape, Untouched
<1>2. /\ UNCHANGED <<fd, req, asked, link, c2s, peer, server, found, newest, oldest>>
      /\ pc[c] = "header" /\ s2c[c] # << >> /\ s2c'[c] = Tail(s2c[c])
  BY ShapeHolds, SMTT(40) DEF GetHeader, Shape, thread, history
<1>3. ClientInv(c) BY Zenon DEF RecoveryInv
<1>4. fd[c] = "open" /\ Phase(c) BY <1>2, <1>3, SMTT(40) DEF ClientInv
<1>5. HeaderSent(c) \/ AnswerSent(c) \/ EmptySent(c)
  BY <1>2, <1>4, Zenon DEF Phase, NoRequest, RequestSent, Fetched, HeaderRead, PayloadSent, Cut
<1>6. \A m : Good(c, m)' <=> Good(c, m) BY <1>2, Zenon DEF Good, Asked
<1>7. Phase(c)' /\ (pc'[c] = "idle" => Good(c, ret[c].msgs)') => RecoveryInv'
  BY <1>1, <1>2, <1>3, <1>4, ReadsKeep, ActsKeeps, Zenon
<1>8. CASE EmptySent(c)
  <2>1. Head(s2c[c]).msgs = {} /\ s2c'[c] = << >>
    BY <1>2, <1>8, OneFrame DEF EmptySent, Frame
  <2>2. pc'[c] = "idle" /\ ret'[c].msgs = {}
    <3>1. Return(c, {}) BY <2>1, Zenon DEF GetHeader
    <3> QED BY <3>1, ShapeHolds, Zenon DEF Return, Shape
  <2>3. NoRequest(c)' BY <1>2, <1>8, <2>1, <2>2, Zenon DEF NoRequest, EmptySent, Quiet
  <2>4. Good(c, ret[c].msgs)'
    <3>1. Good(c, {})' BY <1>6, <1>8, SMTT(40) DEF EmptySent
    <3> QED BY <2>2, <3>1, Zenon DEF Good, Asked
  <2> QED BY <1>7, <2>3, <2>4, Zenon DEF Phase
<1>9. CASE HeaderSent(c)
  <2>1. PICK m : /\ s2c[c] = <<Frame("header", m)>> /\ m # {} /\ Good(c, m)
                 /\ IF peer = c THEN server = "payload" /\ found = m ELSE link[c] = "shut"
    BY <1>9, Zenon DEF HeaderSent
  <2>2. Head(s2c[c]).msgs # {} /\ s2c'[c] = << >> BY <1>2, <2>1, OneFrame, SMTT(40) DEF Frame
  <2>3. pc'[c] = "payload" BY <2>2, ShapeHolds, SMTT(40) DEF GetHeader, Shape
  <2>4. c2s'[c] = << >> BY <1>2, <1>9, Zenon DEF HeaderSent
  <2>5. IF peer' = c THEN server' = "payload" /\ Good(c, found)' ELSE link'[c] = "shut"
    BY <1>2, <2>1, Zenon DEF Good, Asked
  <2>6. HeaderRead(c)' BY <2>2, <2>3, <2>4, <2>5, SMTT(40) DEF HeaderRead
  <2> QED BY <1>7, <2>3, <2>6, SMTT(40) DEF Phase
<1>10. CASE AnswerSent(c)
  <2>1. PICK m : /\ m # {} /\ Good(c, m)
                 /\ s2c[c] = <<Frame("header", m), Frame("payload", m)>>
    BY <1>10, Zenon DEF AnswerSent
  <2>2. Head(s2c[c]) = Frame("header", m) /\ s2c'[c] = <<Frame("payload", m)>>
    BY <1>2, <2>1, TwoFrames, SMTT(40)
  <2>3. pc'[c] = "payload" BY <2>1, <2>2, ShapeHolds, SMTT(40) DEF GetHeader, Shape, Frame
  <2>4. Quiet(c)' /\ c2s'[c] = << >> BY <1>2, <1>10, SMTT(40) DEF AnswerSent, Quiet
  <2>5. Good(c, m)' BY <1>6, <2>1, Zenon
  <2>6. PayloadSent(c)' BY <2>2, <2>3, <2>4, <2>5, Zenon DEF PayloadSent, Frame
  <2> QED BY <1>7, <2>3, <2>6, Zenon DEF Phase
<1> QED BY <1>5, <1>8, <1>9, <1>10, Zenon

LEMMA GetPayloadKeeps ==
    ASSUME RecoveryInv, NEW c \in Clients, GetPayload(c) PROVE RecoveryInv'
<1>1. Acts(c) BY ShapeHolds, Zenon DEF GetPayload, Return, Acts, Shape, Untouched
<1>2. /\ UNCHANGED <<fd, req, asked, link, c2s, peer, server, found, newest, oldest>>
      /\ pc[c] = "payload" /\ s2c[c] # << >> /\ s2c'[c] = Tail(s2c[c])
      /\ pc'[c] = "idle" /\ ret'[c].msgs = Head(s2c[c]).msgs
  BY ShapeHolds, Zenon DEF GetPayload, Return, Shape, thread, history
<1>3. ClientInv(c) BY Zenon DEF RecoveryInv
<1>4. fd[c] = "open" /\ Phase(c) BY <1>2, <1>3, SMTT(40) DEF ClientInv
<1>5. PayloadSent(c)
  BY <1>2, <1>4, Zenon DEF Phase, NoRequest, RequestSent, Fetched, HeaderSent, AnswerSent,
                    EmptySent, HeaderRead, Cut
<1>6. PICK m : s2c[c] = <<Frame("payload", m)>> /\ Good(c, m) BY <1>5, Zenon DEF PayloadSent
<1>7. s2c'[c] = << >> /\ ret'[c].msgs = m BY <1>2, <1>6, OneFrame, SMTT(40) DEF Frame
<1>8. NoRequest(c)' BY <1>2, <1>5, <1>7, Zenon DEF NoRequest, PayloadSent, Quiet
<1>9. Good(c, ret[c].msgs)'
  <2>1. Good(c, m)' BY <1>2, <1>6, Zenon DEF Good, Asked
  <2> QED BY <1>7, <2>1, Zenon DEF Good, Asked
<1>10. Phase(c)' BY <1>8, Zenon DEF Phase
<1> QED BY <1>1, <1>2, <1>3, <1>4, <1>9, <1>10, ReadsKeep, ActsKeeps, SMTT(40)

-----------------------------------------------------------------------------
LEMMA InitHolds == ASSUME Init PROVE RecoveryInv
<1>1. HistoryInv BY HistoryStarts, Zenon DEF Init, HistoryInv
<1>2. Shape BY Zenon DEF Init, Shape
<1>3. ASSUME NEW c \in Clients PROVE ClientInv(c)
  <2>1. fd[c] = "none" /\ pc[c] = "idle" /\ link[c] = "none" /\ c2s[c] = << >> /\ s2c[c] = << >>
    BY Zenon DEF Init
  <2>2. peer # c /\ req[c] = NoRange /\ ret[c].msgs = {} /\ asked[c] = 0 /\ newest = 0
    BY Constants, Zenon DEF Init, HistoryInit
  <2>3. asked[c] \in Nat /\ asked[c] <= newest BY <2>2
  <2> QED BY <2>1, <2>2, <2>3, Zenon DEF ClientInv
<1> QED BY <1>1, <1>2, <1>3, Zenon DEF RecoveryInv

LEMMA StutterKeeps == ASSUME RecoveryInv, UNCHANGED vars PROVE RecoveryInv'
<1>1. HistoryInv' /\ Forward BY HistoryStays, SMTT(40) DEF RecoveryInv, vars
<1>2. Shape' BY ShapeHolds, SMTT(40) DEF Shape, vars, thread, wire, client
<1>3. \A d \in Clients : Untouched(d) /\ Apart(d)
  BY Zenon DEF vars, thread, wire, client, Untouched, Apart
<1> QED BY <1>1, <1>2, <1>3, OneClient, Constants, Zenon

LEMMA ServerKeeps == ASSUME RecoveryInv, Server PROVE RecoveryInv'
<1>1. CASE RunCheck \/ AcceptTimesOut \/ AcceptFails BY <1>1, UnservedKeeps, Zenon
<1>2. CASE \E c \in Clients : AcceptClient(c) BY <1>2, AcceptClientKeeps, Zenon
<1>3. CASE ServeCheck \/ ReadRequest \/ ReadFails \/ Fetch \/ SendHeader \/ SendPayload
  <2>1. server \in {"loop", "read", "fetch", "header", "payload"}
    BY <1>3, Zenon DEF ServeCheck, ReadRequest, ReadFails, Fetch, SendHeader, SendPayload
  <2>2. PICK c \in Clients : peer = c BY <2>1, ShapeHolds, Zenon DEF Shape
  <2>3. Serves(c) BY <2>1, <2>2, Zenon DEF Serves
  <2> QED BY <1>3, <2>3, ServeCheckKeeps, ReadRequestKeeps, ReadFailsKeeps, FetchKeeps,
             SendHeaderKeeps, SendPayloadKeeps, Zenon
<1> QED BY <1>1, <1>2, <1>3, Zenon DEF Server

LEMMA NextKeeps == ASSUME RecoveryInv, [Next]_vars PROVE RecoveryInv'
<1>1. CASE Publish BY <1>1, PublishKeeps, Zenon
<1>2. CASE Stop \/ Joined BY <1>2, UnservedKeeps, Zenon
<1>3. CASE Server BY <1>3, ServerKeeps, Zenon
<1>4. ASSUME NEW c \in Clients, Connect(c) \/ Answered(c) \/ Close(c) PROVE RecoveryInv'
  BY <1>4, ConnectKeeps, GetHeaderKeeps, GetPayloadKeeps, RequestFailsKeeps, CloseKeeps, Zenon
     DEF Answered
<1>5. ASSUME NEW c \in Clients, NEW r \in Ranges, Request(c, r) \/ NotConnected(c, r)
      PROVE  RecoveryInv'
  BY <1>5, RequestKeeps, NotConnectedKeeps, Zenon
<1>6. CASE UNCHANGED vars BY <1>6, StutterKeeps, Zenon
<1> QED BY <1>1, <1>2, <1>3, <1>4, <1>5, <1>6, Zenon DEF Next

\* The inductive invariant of the history and the protocol holds always.
THEOREM RecoveryInvariant == Spec => []RecoveryInv
<1>1. Init => RecoveryInv BY InitHolds, Zenon
<1>2. RecoveryInv /\ [Next]_vars => RecoveryInv' BY NextKeeps, Zenon
<1> QED BY <1>1, <1>2, PTL DEF Spec

\* The ring always holds its whole window (HistoryStore::append), whatever its
\* size and however often it has been lapped.
THEOREM WindowAlwaysIntact == Spec => []WindowIntact
<1>1. RecoveryInv => WindowIntact BY HistoryFacts, Zenon DEF RecoveryInv
<1> QED BY <1>1, RecoveryInvariant, PTL

\* RecoveryClient::request never returns the messages of another request.
THEOREM AnswersAlwaysMatch == Spec => []AnswersMatch
<1>1. RecoveryInv => AnswersMatch
  BY Zenon DEF RecoveryInv, ClientInv, AnswersMatch, Good, Asked
<1> QED BY <1>1, RecoveryInvariant, PTL

\* What RecoveryClient::request leaves out has aged out of the history.
THEOREM ShortAlwaysMeansAgedOut == Spec => []ShortMeansAgedOut
<1>1. RecoveryInv => ShortMeansAgedOut
  BY Zenon DEF RecoveryInv, ClientInv, ShortMeansAgedOut, Good, Asked
<1> QED BY <1>1, RecoveryInvariant, PTL
============================================================================
