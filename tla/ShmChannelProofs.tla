-------------------------- MODULE ShmChannelProofs --------------------------
(***************************************************************************)
(* The life of the shared-memory channel for every number of runs and of   *)
(* events, with kills and failed system calls anywhere: an engine is       *)
(* attached to its own run's segment, that segment was constructed before  *)
(* its loop begins, and it keeps its name while the handler has it open.   *)
(***************************************************************************)
EXTENDS ShmChannel, TLAPS

Segment == [sized : BOOLEAN, constructed : BOOLEAN, ready : BOOLEAN, done : BOOLEAN,
            queued : Nat]

\* How far create() has come with a segment can be read off it: ready is the
\* last flag to be set, and the handler's position says which ones are.
Published ==
    /\ \A s \in Segments : segment[s].ready => segment[s].sized /\ segment[s].constructed
    /\ hpc = "map" => segment[run].sized
    /\ hpc = "publish" => segment[run].sized /\ segment[run].constructed
    /\ epc = "loop" => segment[opened].ready

\* The name leads nowhere or to the segment of this run.
ChannelInv ==
    /\ run \in Segments /\ name \in {0, run} /\ opened \in Segments \union {0}
    /\ segment \in [Segments -> Segment]
    /\ Published
    /\ AttachesToOwnRun
    /\ ReachableWhileOpen

LEMMA ChannelInit == Init => ChannelInv
BY ChannelAssumption DEF Init, ChannelInv, Published, AttachesToOwnRun, ReachableWhileOpen,
                         HandlerStates, Segments, Segment, Fresh

-----------------------------------------------------------------------------
(* Steps that set flags of a segment *)

\* Of the segments only s changes, and no flag that ready rests on is taken back.
Sets(s, r) ==
    /\ segment' = [segment EXCEPT ![s] = r]
    /\ r \in Segment
    /\ segment[s].sized => r.sized
    /\ segment[s].constructed => r.constructed
    /\ segment[s].ready => r.ready
    /\ r.ready => r.sized /\ r.constructed

LEMMA SetsKeeps ==
    ASSUME ChannelInv, NEW s \in Segments, NEW r, Sets(s, r)
    PROVE  /\ segment' \in [Segments -> Segment] /\ segment'[s] = r
           /\ \A k \in Segments : /\ segment'[k].ready =>
                                        segment'[k].sized /\ segment'[k].constructed
                                  /\ segment[k].ready => segment'[k].ready
                                  /\ segment[k].sized => segment'[k].sized
                                  /\ segment[k].constructed => segment'[k].constructed
<1>1. segment \in [Segments -> Segment] BY Zenon DEF ChannelInv
<1>2. segment' \in [Segments -> Segment] /\ segment'[s] = r
      /\ \A k \in Segments : k # s => segment'[k] = segment[k]
  BY <1>1, Zenon DEF Sets
<1>3. \A k \in Segments : segment[k].ready => segment[k].sized /\ segment[k].constructed
  BY Zenon DEF ChannelInv, Published
<1> QED BY <1>2, <1>3, Zenon DEF Sets

LEMMA CreateKeeps ==
    ASSUME ChannelInv, Truncate \/ Construct \/ PublishReady PROVE ChannelInv'
<1>1. run \in Segments /\ segment[run] \in Segment BY Zenon DEF ChannelInv
<1>2. PICK r : /\ Sets(run, r)
               /\ Truncate => r.sized
               /\ Construct => r.sized /\ r.constructed
  <2>1. CASE Truncate
    <3> DEFINE r == [segment[run] EXCEPT !.sized = TRUE]
    <3>1. r \in Segment /\ r.sized /\ (r.constructed <=> segment[run].constructed)
          /\ (r.ready <=> segment[run].ready)
      BY <1>1, Zenon DEF Segment
    <3>2. segment' = [segment EXCEPT ![run] = r] BY <2>1, Zenon DEF Truncate
    <3>3. hpc # "map" BY <2>1, Zenon DEF Truncate
    <3> HIDE DEF r
    <3>4. Sets(run, r) BY <1>1, <3>1, <3>2, Zenon DEF Sets, ChannelInv, Published
    <3>5. ~Construct BY <3>3, Zenon DEF Construct
    <3> QED BY <3>1, <3>4, <3>5, Zenon
  <2>2. CASE Construct
    <3> DEFINE r == [segment[run] EXCEPT !.constructed = TRUE, !.done = FALSE, !.queued = 0]
    <3>1. r \in Segment /\ r.constructed /\ (r.sized <=> segment[run].sized)
          /\ (r.ready <=> segment[run].ready)
      BY <1>1, Zenon DEF Segment
    <3>2. segment' = [segment EXCEPT ![run] = r] BY <2>2, Zenon DEF Construct
    <3>3. hpc = "map" /\ segment[run].sized BY <2>2, Zenon DEF Construct, ChannelInv, Published
    <3> HIDE DEF r
    <3>4. Sets(run, r) BY <1>1, <3>1, <3>2, <3>3, Zenon DEF Sets
    <3> QED BY <3>1, <3>3, <3>4, Zenon
  <2>3. CASE PublishReady
    <3> DEFINE r == [segment[run] EXCEPT !.ready = TRUE]
    <3>1. r \in Segment /\ r.ready /\ (r.sized <=> segment[run].sized)
          /\ (r.constructed <=> segment[run].constructed)
      BY <1>1, Zenon DEF Segment
    <3>2. segment' = [segment EXCEPT ![run] = r] BY <2>3, Zenon DEF PublishReady
    <3>3. hpc = "publish" /\ segment[run].sized /\ segment[run].constructed
      BY <2>3, Zenon DEF PublishReady, ChannelInv, Published
    <3> HIDE DEF r
    <3>4. Sets(run, r) BY <1>1, <3>1, <3>2, <3>3, Zenon DEF Sets
    <3>5. ~Truncate /\ ~Construct BY <3>3, Zenon DEF Truncate, Construct
    <3> QED BY <3>4, <3>5, Zenon
  <2> QED BY <2>1, <2>2, <2>3, Zenon
<1>3. /\ UNCHANGED <<run, name, epc, opened>> /\ name = run
      /\ hpc' \in {"map", "publish", "connect"}
      /\ hpc' = "map" => Truncate
      /\ hpc' = "publish" => Construct
  BY Zenon DEF Truncate, Construct, PublishReady, ChannelInv, ReachableWhileOpen, HandlerStates
<1>4. /\ segment' \in [Segments -> Segment] /\ segment'[run] = r
      /\ \A k \in Segments : /\ segment'[k].ready => segment'[k].sized /\ segment'[k].constructed
                             /\ segment[k].ready => segment'[k].ready
  BY <1>1, <1>2, SetsKeeps, Zenon
<1>5. Published'
  BY <1>1, <1>2, <1>3, <1>4, Zenon DEF ChannelInv, Published, AttachesToOwnRun
<1> QED
  BY <1>1, <1>3, <1>4, <1>5, Zenon DEF ChannelInv, AttachesToOwnRun, ReachableWhileOpen

\* Events come and go and producer_done is set: create()'s flags stay.
LEMMA TrafficKeeps == ASSUME ChannelInv, Push \/ Finish \/ Pop PROVE ChannelInv'
<1>1. PICK r : Sets(run, r)
  <2>0. \A k \in Segments : segment[k] \in Segment /\ (segment[k].ready =>
                                 segment[k].sized /\ segment[k].constructed)
    BY Zenon DEF ChannelInv, Published
  <2>1. run \in Segments BY Zenon DEF ChannelInv
  <2>2. CASE Push
    <3> DEFINE r == [segment[run] EXCEPT !.queued = @ + 1]
    <3>1. /\ r \in Segment /\ (r.ready <=> segment[run].ready)
          /\ (r.sized <=> segment[run].sized) /\ (r.constructed <=> segment[run].constructed)
      BY <2>0, <2>1 DEF Segment
    <3>2. segment' = [segment EXCEPT ![run] = r] BY <2>2, Zenon DEF Push
    <3> HIDE DEF r
    <3> QED BY <2>0, <2>1, <3>1, <3>2, Zenon DEF Sets
  <2>3. CASE Finish
    <3> DEFINE r == [segment[run] EXCEPT !.done = TRUE]
    <3>1. /\ r \in Segment /\ (r.ready <=> segment[run].ready)
          /\ (r.sized <=> segment[run].sized) /\ (r.constructed <=> segment[run].constructed)
      BY <2>0, <2>1, Zenon DEF Segment
    <3>2. segment' = [segment EXCEPT ![run] = r] BY <2>3, Zenon DEF Finish
    <3> HIDE DEF r
    <3> QED BY <2>0, <2>1, <3>1, <3>2, Zenon DEF Sets
  <2>4. CASE Pop
    <3> DEFINE r == [segment[run] EXCEPT !.queued = @ - 1]
    <3>0. opened = run /\ segment[run].queued > 0
      BY <2>4, Zenon DEF Pop, ChannelInv, AttachesToOwnRun
    <3>1. /\ r \in Segment /\ (r.ready <=> segment[run].ready)
          /\ (r.sized <=> segment[run].sized) /\ (r.constructed <=> segment[run].constructed)
      BY <2>0, <2>1, <3>0 DEF Segment
    <3>2. segment' = [segment EXCEPT ![run] = r] BY <2>4, <3>0, Zenon DEF Pop
    <3> HIDE DEF r
    <3> QED BY <2>0, <2>1, <3>1, <3>2, Zenon DEF Sets
  <2> QED BY <2>2, <2>3, <2>4, Zenon
<1>2. /\ UNCHANGED <<run, name, epc, opened>>
      /\ hpc' = hpc \/ (hpc = "loop" /\ hpc' = "drain")
  BY Zenon DEF Push, Finish, Pop
<1>3. run \in Segments /\ (epc = "loop" => opened = run)
  BY Zenon DEF ChannelInv, AttachesToOwnRun
<1>4. /\ segment' \in [Segments -> Segment]
      /\ \A k \in Segments : /\ segment'[k].ready => segment'[k].sized /\ segment'[k].constructed
                             /\ segment[k].ready => segment'[k].ready
                             /\ segment[k].sized => segment'[k].sized
                             /\ segment[k].constructed => segment'[k].constructed
  BY <1>1, <1>3, SetsKeeps, Zenon
<1>5. Published' BY <1>2, <1>3, <1>4, Zenon DEF ChannelInv, Published
<1> QED
  BY <1>2, <1>4, <1>5, Zenon DEF ChannelInv, AttachesToOwnRun, ReachableWhileOpen, HandlerStates

-----------------------------------------------------------------------------
(* Steps that leave the segments alone *)

\* A new run begins when both processes have ended, and takes the name away.
LEMMA LaunchKeeps == ASSUME ChannelInv, Launch PROVE ChannelInv'
<1>1. /\ run' \in Segments /\ name' = 0 /\ opened' = 0 /\ segment' = segment
      /\ hpc' = "unlink" /\ epc' = "open"
  BY ChannelAssumption DEF ChannelInv, Launch, Segments
<1> QED
  BY <1>1, Zenon DEF ChannelInv, Published, AttachesToOwnRun, ReachableWhileOpen, HandlerStates

LEMMA HandlerMoves ==
    ASSUME ChannelInv,
           Unlink \/ CreateSegment \/ CreateFails \/ ConnectRecovery \/ OpenReceiver
              \/ StartFails \/ HandlerExits \/ KillHandler
    PROVE  ChannelInv'
<1>1. /\ UNCHANGED <<run, segment, epc, opened>> /\ name' \in {0, run}
      /\ hpc' \notin {"map", "publish"}
      /\ hpc' \in HandlerStates \ {"unlink", "open"} => name' = run
  BY Zenon DEF Unlink, CreateSegment, CreateFails, ConnectRecovery, OpenReceiver, StartFails,
         HandlerExits, KillHandler, ChannelInv, ReachableWhileOpen, HandlerStates
<1> QED BY <1>1, Zenon DEF ChannelInv, Published, AttachesToOwnRun, ReachableWhileOpen

LEMMA EngineMoves ==
    ASSUME ChannelInv, Open \/ Stat \/ Ready \/ AttachFails \/ EngineExits \/ KillEngine
    PROVE  ChannelInv'
<1>1. /\ UNCHANGED <<run, name, segment, hpc>> /\ opened' \in Segments \union {0}
      /\ epc' \in {"stat", "wait", "loop"} => opened' = run
      /\ epc' = "loop" => segment[run].ready
  BY Zenon DEF Open, Stat, Ready, AttachFails, EngineExits, KillEngine, ChannelInv, AttachesToOwnRun
<1> QED BY <1>1, Zenon DEF ChannelInv, Published, AttachesToOwnRun, ReachableWhileOpen

LEMMA ChannelStep == ChannelInv /\ [Next]_vars => ChannelInv'
<1> SUFFICES ASSUME ChannelInv, [Next]_vars PROVE ChannelInv' BY Zenon
<1>1. CASE UNCHANGED vars
  BY <1>1, Zenon DEF vars, ChannelInv, Published, AttachesToOwnRun, ReachableWhileOpen
<1>2. CASE Handler
  BY <1>2, CreateKeeps, TrafficKeeps, HandlerMoves, Zenon DEF Handler
<1>3. CASE Engine BY <1>3, TrafficKeeps, EngineMoves, Zenon DEF Engine
<1>4. CASE Launch BY <1>4, LaunchKeeps, Zenon
<1>5. CASE KillHandler BY <1>5, HandlerMoves, Zenon
<1>6. CASE KillEngine BY <1>6, EngineMoves, Zenon
<1> QED BY <1>1, <1>2, <1>3, <1>4, <1>5, <1>6, Zenon DEF Next

-----------------------------------------------------------------------------
(* The theorems *)

\* However the runs before it ended, the name leads to this run's segment or
\* nowhere, and a segment is marked ready last.
THEOREM ChannelInvariant == Spec => []ChannelInv
BY ChannelInit, ChannelStep, PTL DEF Spec

\* An engine never attaches to the segment that an earlier run left behind.
THEOREM AlwaysAttachesToOwnRun == Spec => []AttachesToOwnRun
<1>1. ChannelInv => AttachesToOwnRun BY Zenon DEF ChannelInv
<1> QED BY <1>1, ChannelInvariant, PTL

\* An engine in its loop reads a segment whose size and content are in place.
THEOREM AttachedAlwaysConstructed == Spec => []AttachedIsConstructed
<1>1. ChannelInv => AttachedIsConstructed
  BY Zenon DEF ChannelInv, Published, AttachesToOwnRun, AttachedIsConstructed
<1> QED BY <1>1, ChannelInvariant, PTL

\* From create() to its exit the handler's segment is found under its name:
\* nobody else removes it.
THEOREM AlwaysReachableWhileOpen == Spec => []ReachableWhileOpen
<1>1. ChannelInv => ReachableWhileOpen BY Zenon DEF ChannelInv
<1> QED BY <1>1, ChannelInvariant, PTL
=============================================================================
