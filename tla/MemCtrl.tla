------------------------------ MODULE MemCtrl ------------------------------
(***************************************************************************)
(* The queues and the scheduling loop of the memory controller,            *)
(* gem5/src/mem/mem_ctrl.cc, in the configuration the defenses run in: one *)
(* DRAM interface, no NVM, one QoS priority, no turnaround policy, no      *)
(* power-down (MemCtrl.py, QoSMemCtrl.py, DRAMInterface.py).               *)
(*                                                                         *)
(* Two events drive it.  nextReqEvent issues one burst and reschedules     *)
(* itself, or stops without rescheduling when there is nothing to do or    *)
(* when every candidate goes to a refreshing rank; then only an arriving   *)
(* request, or a rank that ends its refresh, starts it again.              *)
(* respondEvent answers the oldest burst read.  Time is abstracted: an     *)
(* event that is scheduled may fire at any moment, and so may a refresh.   *)
(***************************************************************************)
EXTENDS Integers, FiniteSets, SequencesExt

CONSTANTS
    Packets,             \* requests of the port behind the controller
    Reads,               \* those that are reads
    Pieces,              \* [Packets -> sequence of the bursts it spans]
    Ranks,
    RankOf,              \* [burst address -> rank]
    readBufferSize, writeBufferSize,
    writeLowThreshold, writeHighThreshold,
    minWritesPerSwitch,
    memSchedPolicy,      \* "fcfs" or "frfcfs"
    None                 \* no packet

(* A piece is the part of a burst that a packet touches: the address of    *)
(* the burst and the set of its bytes.                                     *)
Piece  == UNION {{Pieces[p][i] : i \in DOMAIN Pieces[p]} : p \in Packets}
Bursts == {c.burst : c \in Piece}

(* The pieces of a packet are in different bursts, and a packet fits in    *)
(* the free part of an idle controller's queues: otherwise no retry would  *)
(* ever be accepted.                                                       *)
ASSUME MemCtrlAssumption ==
    /\ Reads \subseteq Packets /\ None \notin Packets
    /\ {readBufferSize, writeBufferSize, minWritesPerSwitch,
        writeLowThreshold, writeHighThreshold} \subseteq Nat
    /\ writeLowThreshold < writeHighThreshold
    /\ writeHighThreshold <= writeBufferSize
    /\ memSchedPolicy \in {"fcfs", "frfcfs"}
    /\ \A b \in Bursts : RankOf[b] \in Ranks
    /\ \A p \in Packets :
          /\ Pieces[p] \in Seq(Piece) /\ Pieces[p] # <<>>
          /\ \A i, j \in DOMAIN Pieces[p] :
                Pieces[p][i].burst = Pieces[p][j].burst => i = j
          /\ Len(Pieces[p]) <=
                IF p \in Reads THEN readBufferSize
                               ELSE writeBufferSize - writeLowThreshold

VARIABLES
    readQueue, respQueue,      \* sequences of [pkt, burst]
    writeQueue,                \* sequence of pieces
    isInWriteQueue,            \* burst addresses with an entry in writeQueue
    burstsServiced,            \* [Packets -> Nat], the burst helper of a split read
    busState, busStateNext,
    writesThisTime,            \* writes since the turnaround, up to the minimum
    retryRdReq, retryWrReq,    \* a refused request is owed a retry
    nextReqEvent, respondEvent,\* is the event scheduled?
    drainState,
    refresh,                   \* [Ranks -> {"idle", "drain", "busy"}]
    pwrIdle,                   \* [Ranks -> BOOLEAN]: is the power state PWR_IDLE?
    opening,                   \* [Ranks -> BOOLEAN]: an activate will end that state
    activeRank,                \* the rank of the last burst
    refused, waitRetry,        \* the port: packet refused last, no retry yet
    owed                       \* [Packets -> Int]: accepted less answered, see MemService

queues == <<readQueue, respQueue, writeQueue, isInWriteQueue, burstsServiced>>
bus    == <<busState, busStateNext, writesThisTime>>
ranks  == <<refresh, pwrIdle, opening, activeRank>>
port   == <<retryRdReq, retryWrReq, refused, waitRetry>>
vars   == <<queues, bus, ranks, port, nextReqEvent, respondEvent, drainState,
            owed>>

(* logRequest and logResponse are called once per entry pushed and erased. *)
totalReadQueueSize  == Len(readQueue)
totalWriteQueueSize == Len(writeQueue)

(* The elements of s at the positions in keep, in their order. *)
Select(s, keep) ==
    [n \in 1 .. Cardinality(keep) |->
        s[CHOOSE i \in keep : Cardinality({j \in keep : j <= i}) = n]]

Accept(p)  == owed' = [owed EXCEPT ![p] = @ + 1]
Respond(p) == owed' = [owed EXCEPT ![p] = @ - 1]
Pending    == {p \in Packets : owed[p] # 0}
IsSplit(p) == Len(Pieces[p]) > 1

Init ==
    /\ readQueue = <<>> /\ respQueue = <<>> /\ writeQueue = <<>>
    /\ isInWriteQueue = {}
    /\ burstsServiced = [p \in Packets |-> 0]
    /\ busState = "READ" /\ busStateNext = "READ" /\ writesThisTime = 0
    /\ retryRdReq = FALSE /\ retryWrReq = FALSE
    /\ nextReqEvent = FALSE /\ respondEvent = FALSE
    /\ drainState = "Running"
    /\ refresh = [r \in Ranks |-> "idle"]
    /\ pwrIdle = [r \in Ranks |-> TRUE]
    /\ opening = [r \in Ranks |-> FALSE]
    /\ activeRank \in Ranks
    /\ refused = None /\ waitRetry = FALSE
    /\ owed = [p \in Packets |-> 0]

----------------------------------------------------------------------------
(* The port                                                                *)

(* Seeded fault: the bursts that wait for their response are not counted. *)
readQueueFullNoResp(n) == totalReadQueueSize + n > readBufferSize

readQueueFull(n)  == totalReadQueueSize + Len(respQueue) + n > readBufferSize
writeQueueFull(n) == totalWriteQueueSize + n > writeBufferSize

(* The requestor keeps a refused packet, waits for sendRetryReq and then   *)
(* sends it again before any other.                                        *)
CanSend(p) ==
    /\ p \notin Pending
    /\ ~waitRetry
    /\ refused \in {None, p}

Refuse(p) == refused' = p /\ waitRetry' = TRUE
Taken     == refused' = None /\ UNCHANGED waitRetry

(* A read piece covered by an entry of the write queue needs no burst. *)
FoundInWrQ(piece) ==
    /\ piece.burst \in isInWriteQueue
    /\ \E i \in DOMAIN writeQueue :
          /\ writeQueue[i].burst = piece.burst
          /\ piece.bytes \subseteq writeQueue[i].bytes

ReadRefused(p) ==
    /\ readQueueFull(Len(Pieces[p]))
    /\ retryRdReq' = TRUE
    /\ Refuse(p)
    /\ UNCHANGED <<queues, bus, ranks, retryWrReq, nextReqEvent, respondEvent,
                   drainState, owed>>

(* Seeded fault: the burst helper starts at zero. *)
HelperStartZero(p, hits) == 0

(* A split packet's helper counts the pieces the write queue covered. *)
HelperStart(p, hits) == IF IsSplit(p) THEN hits ELSE 0

addToReadQueue(p) ==
    LET missing == Select(Pieces[p],
                       {i \in DOMAIN Pieces[p] : ~FoundInWrQ(Pieces[p][i])})
        hits    == Len(Pieces[p]) - Len(missing)
    IN
    /\ ~readQueueFull(Len(Pieces[p]))
    /\ Taken
    /\ IF missing = <<>>
       THEN UNCHANGED <<readQueue, burstsServiced, nextReqEvent, owed>>
       ELSE /\ readQueue' = readQueue \o
                   [i \in DOMAIN missing |-> [pkt   |-> p,
                                              burst |-> missing[i].burst]]
            /\ burstsServiced' =
                   [burstsServiced EXCEPT ![p] = HelperStart(p, hits)]
            /\ nextReqEvent' = TRUE
            /\ Accept(p)
    /\ UNCHANGED <<respQueue, writeQueue, isInWriteQueue, bus, ranks,
                   retryRdReq, retryWrReq, respondEvent, drainState>>

WriteRefused(p) ==
    /\ writeQueueFull(Len(Pieces[p]))
    /\ retryWrReq' = TRUE
    /\ Refuse(p)
    /\ UNCHANGED <<queues, bus, ranks, retryRdReq, nextReqEvent, respondEvent,
                   drainState, owed>>

(* A write to a burst that is already queued is merged with its entry,     *)
(* which keeps its own bytes.                                              *)
addToWriteQueue(p) ==
    LET new == Select(Pieces[p], {i \in DOMAIN Pieces[p] :
                                     Pieces[p][i].burst \notin isInWriteQueue})
    IN
    /\ ~writeQueueFull(Len(Pieces[p]))
    /\ writeQueue' = writeQueue \o new
    /\ isInWriteQueue' = isInWriteQueue \cup {new[i].burst : i \in DOMAIN new}
    /\ Taken
    /\ nextReqEvent' = TRUE
    /\ UNCHANGED <<readQueue, respQueue, burstsServiced, bus, ranks,
                   retryRdReq, retryWrReq, respondEvent, drainState, owed>>

recvTimingReq(p) ==
    /\ CanSend(p)
    /\ \/ p \in Reads    /\ (ReadRefused(p)  \/ addToReadQueue(p))
       \/ p \notin Reads /\ (WriteRefused(p) \/ addToWriteQueue(p))

----------------------------------------------------------------------------
(* respondEvent: the oldest burst read has reached its ready time          *)

allIntfDrained == \A r \in Ranks : refresh[r] = "idle" /\ pwrIdle[r]

(* Seeded faults: done whatever is left; never done. *)
SignalDrainAlways(done) ==
    drainState' = IF drainState = "Draining" THEN "Drained" ELSE drainState
SignalDrainNever(done) == UNCHANGED drainState

(* signalDrainDone() only acts on an object that is draining. *)
SignalDrainDone(done) ==
    drainState' = IF drainState = "Draining" /\ done THEN "Drained"
                                                     ELSE drainState

(* Seeded fault: each burst of a split packet answers it. *)
AnyBurst(p) == TRUE

(* Is this the packet's last burst? *)
LastBurst(p) == ~IsSplit(p) \/ burstsServiced[p] + 1 = Len(Pieces[p])

(* A refresh of the burst's rank that waits for the read goes on; the      *)
(* retry of a refused read comes last.                                     *)
processRespondEvent ==
    LET p    == Head(respQueue).pkt
        last == LastBurst(p)
        rest == Tail(respQueue)
    IN
    /\ respondEvent
    /\ respQueue' = rest
    /\ respondEvent' = (rest # <<>>)
    /\ burstsServiced' =
          [burstsServiced EXCEPT ![p] = IF last THEN 0 ELSE @ + 1]
    /\ IF last THEN Respond(p) ELSE UNCHANGED owed
    /\ SignalDrainDone(/\ rest = <<>> /\ totalWriteQueueSize = 0
                       /\ totalReadQueueSize = 0 /\ allIntfDrained)
    /\ retryRdReq' = FALSE
    /\ waitRetry' = (waitRetry /\ ~retryRdReq)
    /\ UNCHANGED <<readQueue, writeQueue, isInWriteQueue, bus, ranks,
                   retryWrReq, refused, nextReqEvent>>

----------------------------------------------------------------------------
(* nextReqEvent: one turn of the scheduling loop                           *)

Ready(b) == refresh[RankOf[b]] = "idle"
AllBusy  == \A r \in Ranks : refresh[r] # "idle"

(* isBusy() tells a rank that waited for this turn to go on with its refresh. *)
checkDrainDone ==
    refresh' = [r \in Ranks |-> IF refresh[r] = "drain" THEN "busy"
                                                       ELSE refresh[r]]

(* The entries of a queue that may be issued: the first to a rank that is  *)
(* not refreshing or, under frfcfs, any of them, as the open rows decide.  *)
chooseNext(queue) ==
    LET ready == {i \in DOMAIN queue : Ready(queue[i].burst)}
    IN  IF memSchedPolicy = "frfcfs"
        THEN ready
        ELSE {i \in ready : \A j \in ready : i <= j}

(* The bus turns around at the start of the turn. *)
TurnAround == busState' = busStateNext
WritesSoFar == IF busStateNext = "READ" THEN 0 ELSE writesThisTime

StartTurn == nextReqEvent /\ TurnAround /\ checkDrainDone

(* Seeded fault: a refused write is retried once the queue is empty. *)
RetryWhenEmpty == retryWrReq /\ writeQueue' = <<>>

RetryWrite == retryWrReq /\ Len(writeQueue') < writeBufferSize

(* The end of a turn that did something: the loop goes on, and a refused   *)
(* write is retried when there is room.                                    *)
EndTurn ==
    /\ nextReqEvent' = TRUE
    /\ retryWrReq' = (retryWrReq /\ ~RetryWrite)
    /\ waitRetry'  = (waitRetry /\ ~RetryWrite)
    /\ UNCHANGED <<retryRdReq, refused, owed>>

(* The end of a turn that found nothing to do. *)
StopLoop ==
    /\ nextReqEvent' = FALSE
    /\ writesThisTime' = WritesSoFar
    /\ UNCHANGED <<queues, busStateNext, pwrIdle, opening, activeRank, port,
                   respondEvent, owed>>

AllRanksBusy ==
    /\ StartTurn
    /\ AllBusy
    /\ StopLoop
    /\ UNCHANGED drainState

(* With no read waiting, are there enough writes to turn to? *)
WritesDue ==
    /\ totalWriteQueueSize # 0
    /\ drainState = "Draining" \/ totalWriteQueueSize > writeLowThreshold

ReadTurn  == StartTurn /\ ~AllBusy /\ busStateNext = "READ"
WriteTurn == StartTurn /\ ~AllBusy /\ busStateNext = "WRITE"

NothingToDo ==
    /\ ReadTurn
    /\ totalReadQueueSize = 0 /\ ~WritesDue
    /\ SignalDrainDone(respQueue = <<>> /\ allIntfDrained)
    /\ StopLoop

SwitchToWrites ==
    /\ ReadTurn
    /\ totalReadQueueSize = 0 /\ WritesDue
    /\ busStateNext' = "WRITE"
    /\ writesThisTime' = WritesSoFar
    /\ UNCHANGED <<queues, pwrIdle, opening, activeRank, respondEvent,
                   drainState>>
    /\ EndTurn

NoReadFound ==
    /\ ReadTurn
    /\ totalReadQueueSize # 0 /\ chooseNext(readQueue) = {}
    /\ StopLoop
    /\ UNCHANGED drainState

(* Seeded fault: the burst's address is taken for its rank. *)
doBurstAccessNoDecode(burst) ==
    /\ activeRank' = burst
    /\ opening' = [opening EXCEPT ![RankOf[burst]] = @ \/ pwrIdle[RankOf[burst]]]
    /\ UNCHANGED pwrIdle

(* The burst opens a row of its rank; a rank in PWR_IDLE stays there until *)
(* the event of the activate.                                              *)
doBurstAccess(burst) ==
    /\ activeRank' = RankOf[burst]
    /\ opening' = [opening EXCEPT ![RankOf[burst]] = @ \/ pwrIdle[RankOf[burst]]]
    /\ UNCHANGED pwrIdle

IssueRead(i) ==
    /\ ReadTurn
    /\ i \in chooseNext(readQueue)
    /\ doBurstAccess(readQueue[i].burst)
    /\ respQueue' = Append(respQueue, readQueue[i])
    /\ respondEvent' = TRUE
    /\ readQueue' = RemoveAt(readQueue, i)
    /\ busStateNext' = IF totalWriteQueueSize > writeHighThreshold
                       THEN "WRITE" ELSE busStateNext
    /\ writesThisTime' = WritesSoFar
    /\ UNCHANGED <<writeQueue, isInWriteQueue, burstsServiced, drainState>>
    /\ EndTurn

NoWriteFound ==
    /\ WriteTurn
    /\ chooseNext(writeQueue) = {}
    /\ StopLoop
    /\ UNCHANGED drainState

(* Seeded fault: an emptied queue does not turn the bus around. *)
BackToReadsLate(left, wrote) ==
    \/ /\ left + minWritesPerSwitch < writeLowThreshold
       /\ drainState # "Draining"
    \/ totalReadQueueSize # 0 /\ wrote >= minWritesPerSwitch

BackToReads(left, wrote) ==
    \/ left = 0
    \/ /\ left + minWritesPerSwitch < writeLowThreshold
       /\ drainState # "Draining"
    \/ totalReadQueueSize # 0 /\ wrote >= minWritesPerSwitch

IssueWrite(i) ==
    LET left  == totalWriteQueueSize - 1
        wrote == IF WritesSoFar < minWritesPerSwitch THEN WritesSoFar + 1
                                                     ELSE WritesSoFar
    IN
    /\ WriteTurn
    /\ i \in chooseNext(writeQueue)
    /\ doBurstAccess(writeQueue[i].burst)
    /\ isInWriteQueue' = isInWriteQueue \ {writeQueue[i].burst}
    /\ writeQueue' = RemoveAt(writeQueue, i)
    /\ writesThisTime' = wrote
    /\ busStateNext' = IF BackToReads(left, wrote) THEN "READ" ELSE busStateNext
    /\ UNCHANGED <<readQueue, respQueue, burstsServiced, respondEvent,
                   drainState>>
    /\ EndTurn

processNextReqEvent ==
    \/ AllRanksBusy
    \/ NothingToDo
    \/ SwitchToWrites
    \/ NoReadFound
    \/ \E i \in DOMAIN readQueue : IssueRead(i)
    \/ NoWriteFound
    \/ \E i \in DOMAIN writeQueue : IssueWrite(i)

----------------------------------------------------------------------------
(* The ranks, as the controller sees them                                  *)

(* A refresh lets a burst under way to its rank go ahead first. *)
RefreshDue(r) ==
    /\ refresh[r] = "idle"
    /\ refresh' = [refresh EXCEPT ![r] =
                      IF r = activeRank /\ nextReqEvent THEN "drain" ELSE "busy"]
    /\ UNCHANGED <<queues, bus, pwrIdle, opening, activeRank, port,
                   nextReqEvent, respondEvent, drainState, owed>>

(* The activate takes place, and the rank leaves PWR_IDLE. *)
RankOpens(r) ==
    /\ opening[r]
    /\ opening' = [opening EXCEPT ![r] = FALSE]
    /\ pwrIdle' = [pwrIdle EXCEPT ![r] = FALSE]
    /\ UNCHANGED <<queues, bus, refresh, activeRank, port, nextReqEvent,
                   respondEvent, drainState, owed>>

(* Seeded fault: the loop is not restarted. *)
NoRestart == UNCHANGED nextReqEvent

restartScheduler == nextReqEvent' = TRUE

(* The refresh closes all banks after the rank's last activate and read,   *)
(* and restarts the scheduling loop when it ends.                          *)
RefreshDone(r) ==
    /\ refresh[r] = "busy" /\ ~opening[r]
    /\ \A i \in DOMAIN respQueue : RankOf[respQueue[i].burst] # r
    /\ refresh' = [refresh EXCEPT ![r] = "idle"]
    /\ pwrIdle' = [pwrIdle EXCEPT ![r] = TRUE]
    /\ restartScheduler
    /\ UNCHANGED <<queues, bus, opening, activeRank, port, respondEvent,
                   drainState, owed>>

(* An automatic precharge has closed the last open row of the rank. *)
BanksClose(r) ==
    /\ refresh[r] = "idle" /\ ~pwrIdle[r]
    /\ pwrIdle' = [pwrIdle EXCEPT ![r] = TRUE]
    /\ UNCHANGED <<queues, bus, refresh, opening, activeRank, port,
                   nextReqEvent, respondEvent, drainState, owed>>

----------------------------------------------------------------------------
(* Draining, before a checkpoint or a change of CPU                        *)

QueuesEmpty == readQueue = <<>> /\ respQueue = <<>> /\ writeQueue = <<>>

(* The drain manager calls drain() again on an object that has signalled   *)
(* that it is done, until every object of the system is done at once.      *)
drain ==
    /\ drainState \in {"Running", "Drained"}
    /\ IF QueuesEmpty /\ allIntfDrained
       THEN drainState' = "Drained" /\ UNCHANGED nextReqEvent
       ELSE /\ drainState' = "Draining"
            /\ nextReqEvent' = (nextReqEvent \/ totalWriteQueueSize = 0)
    /\ UNCHANGED <<queues, bus, ranks, port, respondEvent, owed>>

drainResume ==
    /\ drainState = "Drained"
    /\ QueuesEmpty /\ allIntfDrained
    /\ drainState' = "Running"
    /\ UNCHANGED <<queues, bus, ranks, port, nextReqEvent, respondEvent,
                   owed>>

Next ==
    \/ \E p \in Packets : recvTimingReq(p)
    \/ processRespondEvent
    \/ processNextReqEvent
    \/ \E r \in Ranks : RefreshDue(r) \/ RefreshDone(r)
    \/ \E r \in Ranks : RankOpens(r) \/ BanksClose(r)
    \/ drain
    \/ drainResume

Spec == Init /\ [][Next]_vars

(***************************************************************************)
(* Fairness.  An event of the simulator's queue fires at its time, and a   *)
(* refresh comes every tREFI and ends.  A refresh takes tRFC, a small part *)
(* of tREFI, and restarts the loop at the tick at which it ends: so again  *)
(* and again a refresh ends with no other under way, and the loop takes    *)
(* its turn before the next one.  The requestor of a refused packet sends  *)
(* it again after the retry; apart from that requestors owe nothing.       *)
(***************************************************************************)
LastRefreshDone == \E r \in Ranks :
    RefreshDone(r) /\ \A s \in Ranks \ {r} : refresh[s] = "idle"
FreeTurn == processNextReqEvent /\ \A r \in Ranks : refresh[r] = "idle"

Resend   == \E p \in Packets : refused = p /\ recvTimingReq(p)

Fairness ==
    /\ WF_vars(Resend)
    /\ WF_vars(processRespondEvent)
    /\ WF_vars(processNextReqEvent)
    /\ \A r \in Ranks : /\ WF_vars(RefreshDue(r)) /\ WF_vars(RefreshDone(r))
                       /\ WF_vars(RankOpens(r))
    /\ SF_vars(LastRefreshDone) /\ SF_vars(FreeTurn)

FairSpec == Spec /\ Fairness

----------------------------------------------------------------------------
(* The values the state may take. *)
TypeOK ==
    /\ readQueue \in Seq([pkt : Reads, burst : Bursts])
    /\ respQueue \in Seq([pkt : Reads, burst : Bursts])
    /\ writeQueue \in Seq(Piece)
    /\ isInWriteQueue \subseteq Bursts
    /\ burstsServiced \in [Packets -> Nat]
    /\ {busState, busStateNext} \subseteq {"READ", "WRITE"}
    /\ writesThisTime \in 0 .. minWritesPerSwitch
    /\ {retryRdReq, retryWrReq, nextReqEvent, respondEvent, waitRetry}
          \subseteq BOOLEAN
    /\ drainState \in {"Running", "Draining", "Drained"}
    /\ refresh \in [Ranks -> {"idle", "drain", "busy"}]
    /\ pwrIdle \in [Ranks -> BOOLEAN] /\ opening \in [Ranks -> BOOLEAN]
    /\ activeRank \in Ranks
    /\ refused \in Packets \cup {None}
    /\ owed \in [Packets -> Int]

(* The asserts of addToReadQueue, addToWriteQueue, processRespondEvent and *)
(* processNextReqEvent: a queue never outgrows its buffer although a       *)
(* packet's entries are only checked as it arrives, the set of queued      *)
(* write addresses stays in step with the write queue, and respondEvent is *)
(* scheduled exactly while there is a burst to answer.                     *)
AssertsHold ==
    /\ Len(readQueue) + Len(respQueue) <= readBufferSize
    /\ Len(writeQueue) <= writeBufferSize
    /\ Len(writeQueue) = Cardinality(isInWriteQueue)
    /\ isInWriteQueue = {writeQueue[i].burst : i \in DOMAIN writeQueue}
    /\ respondEvent <=> respQueue # <<>>

(* Every burst of an accepted read is in exactly one place: in the read    *)
(* queue, in the response queue, or counted by the burst helper (covered   *)
(* by the write queue or already serviced).  An answered packet has left   *)
(* nothing behind.                                                         *)
InFlight(q, p) == Cardinality({i \in DOMAIN q : q[i].pkt = p})
BurstsAccounted ==
    \A p \in Reads :
       InFlight(readQueue, p) + InFlight(respQueue, p) + burstsServiced[p]
          = IF p \in Pending THEN Len(Pieces[p]) ELSE 0

(* No lost wakeup: when a turn would find work (a read, more writes than   *)
(* the low threshold, a refused request), the loop is scheduled or a rank  *)
(* is refreshing and will restart it; and a refused read has a response    *)
(* to come, whose event retries it.  A refused packet is owed exactly the  *)
(* retry of its own kind.                                                  *)
NoLostWakeup ==
    LET asleep == ~nextReqEvent /\ \A r \in Ranks : refresh[r] = "idle"
    IN
    /\ asleep => /\ readQueue = <<>>
                 /\ Len(writeQueue) <= writeLowThreshold
                 /\ ~retryWrReq
    /\ retryRdReq => readQueue # <<>> \/ respQueue # <<>>
    /\ waitRetry => IF refused \in Reads THEN retryRdReq ELSE retryWrReq
    /\ retryRdReq \/ retryWrReq => waitRetry

(* A write turn always has a write to issue: the loop never turns to an    *)
(* empty write queue, where it would stop without turning back.            *)
WriteTurnHasWork == busStateNext = "WRITE" => writeQueue # <<>>

(* No read is unanswered, wherever its bursts were counted, no refused     *)
(* request waits for a retry, and no queued write address or burst helper  *)
(* is left behind.                                                         *)
OwesNothing ==
    /\ Pending = {}
    /\ ~waitRetry /\ ~retryRdReq /\ ~retryWrReq
    /\ isInWriteQueue = {}
    /\ \A p \in Reads : burstsServiced[p] = 0

(* A drain is done, by drain() (mem_ctrl.cc:1608-1633) or by               *)
(* signalDrainDone() (1107), only when the controller owes nothing to      *)
(* anyone.  Both look at the queues and the ranks and at nothing else: a   *)
(* retry due then would never be sent.                                     *)
DrainedOwesNothing ==
    [][drainState' = "Drained" /\ drainState # "Drained" => OwesNothing']_vars

(* drain() says that it kicks the write queue into action; so while the    *)
(* controller drains queued writes, its loop is scheduled or restarted by  *)
(* a refresh under way.                                                    *)
DrainKicksWrites ==
    drainState = "Draining" /\ writeQueue # <<>> =>
       nextReqEvent \/ \E r \in Ranks : refresh[r] # "idle"

(* The controller implements the service: every accepted request is        *)
(* answered exactly once, and eventually.                                  *)
Service == INSTANCE MemService WITH Capacity <- readBufferSize
ServiceSpec == Service!Spec

(* A refused request is retried, as often as it takes, until accepted. *)
RefusedIsAccepted == refused # None ~> refused = None

(* A drain that never ends is one during which requests keep arriving. *)
DrainEnds ==
    <>[](drainState = "Draining") => []<><<\E p \in Packets : recvTimingReq(p)>>_vars
=============================================================================
