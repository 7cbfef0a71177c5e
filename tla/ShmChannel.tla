----------------------------- MODULE ShmChannel -----------------------------
(***************************************************************************)
(* The lifetime of the shared-memory channel                               *)
(* (src/ipc/shared_memory_queue.cpp) over consecutive runs of the pipeline *)
(* script: the script removes a left-over name and starts handler and      *)
(* engine side by side; the handler creates the segment, publishes it,     *)
(* runs and unlinks it; the engine opens it by name and waits until it is  *)
(* ready.  Either process may be killed anywhere, and every system call of *)
(* create may fail.  As in POSIX, a segment outlives its name for as long  *)
(* as a process has it mapped.  The ring is a count of entries.            *)
(***************************************************************************)
EXTENDS Integers

CONSTANTS
    MaxRuns,        \* bound: runs of the script
    MaxEvents       \* bound: events pushed in a run

ASSUME ChannelAssumption == MaxRuns \in Nat \ {0} /\ MaxEvents \in Nat

VARIABLES
    run,        \* which run of the script this is
    name,       \* the segment the name leads to, 0 when there is none
    segment,    \* segment -> its size and content
    hpc,        \* handler: where it is
    epc,        \* engine: where it is
    opened,     \* engine: the segment behind fd_, 0 when there is none
    pushed      \* history: events pushed in this run

vars == <<run, name, segment, hpc, epc, opened, pushed>>

\* A segment is created once in a run and numbered by it.
Segments == 1 .. MaxRuns
Fresh == [sized |-> FALSE, constructed |-> FALSE, ready |-> FALSE, done |-> FALSE, queued |-> 0]

Ended == {"exited", "failed", "killed"}
HandlerStates == {"unlink", "open", "size", "map", "publish", "connect", "join",
                  "loop", "drain"}

\* The first run has been launched.
Init ==
    /\ run = 1 /\ name = 0
    /\ segment = [s \in Segments |-> Fresh]
    /\ hpc = "unlink" /\ epc = "open"
    /\ opened = 0 /\ pushed = 0

\* Mutant: the left-over name is not removed.
LaunchOver ==
    /\ run < MaxRuns /\ hpc \in Ended /\ epc \in Ended
    /\ run' = run + 1
    /\ hpc' = "unlink" /\ epc' = "open" /\ opened' = 0 /\ pushed' = 0
    /\ UNCHANGED <<name, segment>>

\* The script: rm -f the name, start both, having waited for the last run.
Launch ==
    /\ run < MaxRuns /\ hpc \in Ended /\ epc \in Ended
    /\ run' = run + 1 /\ name' = 0
    /\ hpc' = "unlink" /\ epc' = "open" /\ opened' = 0 /\ pushed' = 0
    /\ UNCHANGED segment

-----------------------------------------------------------------------------
(* SharedMemoryQueue::create *)

Unlink ==
    /\ hpc = "unlink"
    /\ name' = 0 /\ hpc' = "open"
    /\ UNCHANGED <<run, segment, epc, opened, pushed>>

\* shm_open with O_CREAT and O_EXCL.
CreateSegment ==
    /\ hpc = "open" /\ name = 0
    /\ name' = run /\ hpc' = "size"
    /\ UNCHANGED <<run, segment, epc, opened, pushed>>

Truncate ==
    /\ hpc = "size"
    /\ segment' = [segment EXCEPT ![run].sized = TRUE] /\ hpc' = "map"
    /\ UNCHANGED <<run, name, epc, opened, pushed>>

\* Mutant: ready is published before the channel is constructed.
ConstructReady ==
    /\ hpc = "map"
    /\ segment' = [segment EXCEPT ![run].ready = TRUE] /\ hpc' = "publish"
    /\ UNCHANGED <<run, name, epc, opened, pushed>>

\* mmap, then the constructor and the two counters.
Construct ==
    /\ hpc = "map"
    /\ segment' = [segment EXCEPT ![run].constructed = TRUE, ![run].done = FALSE,
                                  ![run].queued = 0]
    /\ hpc' = "publish"
    /\ UNCHANGED <<run, name, epc, opened, pushed>>

\* The release store of ready.
PublishReady ==
    /\ hpc = "publish"
    /\ segment' = [segment EXCEPT ![run].ready = TRUE] /\ hpc' = "connect"
    /\ UNCHANGED <<run, name, epc, opened, pushed>>

\* shm_open, ftruncate or mmap fails.  close() does not unlink: owner_ is not
\* set before all three have succeeded.
CreateFails ==
    /\ hpc \in {"open", "size", "map"}
    /\ hpc' = "failed"
    /\ UNCHANGED <<run, name, segment, epc, opened, pushed>>

-----------------------------------------------------------------------------
(* The handler's main, from there on; close() in the destructor unlinks. *)

ConnectRecovery ==
    /\ hpc = "connect"
    /\ hpc' = "join"
    /\ UNCHANGED <<run, name, segment, epc, opened, pushed>>

\* The receiver binds, joins the group and sets its timeout.
OpenReceiver ==
    /\ hpc = "join"
    /\ hpc' = "loop"
    /\ UNCHANGED <<run, name, segment, epc, opened, pushed>>

\* The recovery server is not reached in time, or a call of the receiver
\* fails: main returns 1 without setting producer_done.
StartFails ==
    /\ hpc \in {"connect", "join"}
    /\ hpc' = "failed" /\ name' = 0
    /\ UNCHANGED <<run, segment, epc, opened, pushed>>

Push ==
    /\ hpc = "loop" /\ pushed < MaxEvents
    /\ segment' = [segment EXCEPT ![run].queued = @ + 1] /\ pushed' = pushed + 1
    /\ UNCHANGED <<run, name, hpc, epc, opened>>

\* Mutant: the handler leaves without setting producer_done.
FinishSilently ==
    /\ hpc = "loop"
    /\ hpc' = "drain"
    /\ UNCHANGED <<run, name, segment, epc, opened, pushed>>

Finish ==
    /\ hpc = "loop"
    /\ segment' = [segment EXCEPT ![run].done = TRUE] /\ hpc' = "drain"
    /\ UNCHANGED <<run, name, epc, opened, pushed>>

\* Waits until the ring is empty, for five seconds at most.
HandlerExits ==
    /\ hpc = "drain"
    /\ hpc' = "exited" /\ name' = 0
    /\ UNCHANGED <<run, segment, epc, opened, pushed>>

-----------------------------------------------------------------------------
(* The engine: SharedMemoryQueue::attach and the loop. *)

Open ==
    /\ epc = "open" /\ name # 0
    /\ opened' = name /\ epc' = "stat"
    /\ UNCHANGED <<run, name, segment, hpc, pushed>>

\* A segment without its size yet is closed and opened again.
Stat ==
    /\ epc = "stat"
    /\ IF segment[opened].sized THEN epc' = "wait" /\ UNCHANGED opened
       ELSE epc' = "open" /\ opened' = 0
    /\ UNCHANGED <<run, name, segment, hpc, pushed>>

Ready ==
    /\ epc = "wait" /\ segment[opened].ready
    /\ epc' = "loop"
    /\ UNCHANGED <<run, name, segment, hpc, opened, pushed>>

\* Mutant: close() unlinks although the engine is not the owner.
AttachFailsUnlinking ==
    /\ epc \in {"open", "wait"}
    /\ epc' = "failed" /\ opened' = 0 /\ name' = 0
    /\ UNCHANGED <<run, segment, hpc, pushed>>

\* One of the two waits times out, or mmap fails.
AttachFails ==
    /\ epc \in {"open", "wait"}
    /\ epc' = "failed" /\ opened' = 0
    /\ UNCHANGED <<run, name, segment, hpc, pushed>>

Pop ==
    /\ epc = "loop" /\ segment[opened].queued > 0
    /\ segment' = [segment EXCEPT ![opened].queued = @ - 1]
    /\ UNCHANGED <<run, name, hpc, epc, opened, pushed>>

EngineExits ==
    /\ epc = "loop" /\ segment[opened].done /\ segment[opened].queued = 0
    /\ epc' = "exited"
    /\ UNCHANGED <<run, name, segment, hpc, opened, pushed>>

-----------------------------------------------------------------------------
\* SIGKILL: the mapping goes, the name stays.
KillHandler ==
    /\ hpc \notin Ended
    /\ hpc' = "killed"
    /\ UNCHANGED <<run, name, segment, epc, opened, pushed>>

KillEngine ==
    /\ epc \notin Ended
    /\ epc' = "killed"
    /\ UNCHANGED <<run, name, segment, hpc, opened, pushed>>

Handler ==
    \/ Unlink \/ CreateSegment \/ Truncate \/ Construct \/ PublishReady \/ CreateFails
    \/ ConnectRecovery \/ OpenReceiver \/ StartFails \/ Push \/ Finish \/ HandlerExits

Engine == Open \/ Stat \/ Ready \/ AttachFails \/ Pop \/ EngineExits

Next == Launch \/ Handler \/ Engine \/ KillHandler \/ KillEngine

Spec == Init /\ [][Next]_vars

\* Both processes keep running, and the engine does not wait in attach for
\* ever: both of its loops count towards a timeout.
FairSpec == Spec /\ WF_vars(Handler) /\ WF_vars(Engine) /\ SF_vars(AttachFails)

-----------------------------------------------------------------------------
\* An engine never gets hold of the segment of an earlier run, whatever that
\* run left behind: not one whose handler was killed, not one whose create
\* failed half-way.
AttachesToOwnRun == epc \in {"stat", "wait", "loop"} => opened = run

\* An engine in its loop uses a channel that was fully constructed, although
\* the name is visible before the segment has a size and the size before the
\* content.
AttachedIsConstructed ==
    epc = "loop" => segment[opened].sized /\ segment[opened].constructed

\* From create to exit the handler's segment can be found under its name: an
\* engine that gives up does not take it away.
ReachableWhileOpen ==
    hpc \in HandlerStates \ {"unlink", "open"} => name = run

\* However the handler has ended, killed and failed included, the engine ends
\* as well, attached or not, even when the name is gone before it has drained
\* the ring.  The one exception is a handler that was killed, or whose start-up
\* failed, before it set producer_done: an engine that attaches to what it had
\* published takes all that was pushed and then polls on, and any other ends.
EngineEndsAfterRun ==
    hpc \in Ended
        ~> \/ epc \in Ended
           \/ /\ hpc # "exited" /\ epc = "loop"
              /\ segment[opened].queued = 0 /\ ~segment[opened].done
=============================================================================
