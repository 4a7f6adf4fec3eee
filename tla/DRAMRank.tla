------------------------------ MODULE DRAMRank ------------------------------
(***************************************************************************)
(* The ranks of a DRAM interface, gem5/src/mem/mem_interface.cc: bursts,   *)
(* activates and precharges, the refresh state machine, the power states,  *)
(* and the delays (bubbles) that the row-hammer defenses put on the bus.   *)
(*                                                                         *)
(* Everything happens in events of the simulator's queue.  Time is         *)
(* discrete and every time is relative to the current tick; an event       *)
(* scheduled for a tick goes before those already there (sim/eventq.cc),   *)
(* and much of the code relies on that.  The controller is reduced to the  *)
(* number of reads and writes that wait for each rank: module MemCtrl has  *)
(* its queues and thresholds.                                              *)
(***************************************************************************)
EXTENDS Integers, FiniteSets, SequencesExt

CONSTANTS
    numRanks, Banks,
    tCK, tRP, tRCD, tRAS, tRTP, tWR, tCL, tBURST, tRFC, tREFI, tXP, tXS,
    Slack,                     \* delays of a burst that other constraints add
    Bubbles,                   \* sizes of the defenses' bubbles, 0 among them
    bubbleLimit, bubbleCap,    \* a bubble of the limit or more is cut to the cap
    lookupBubble,              \* the bubble of two table accesses (90 ns)
    pageMgmt,                  \* "open", "close" or "adaptive"
    enableDRAMPowerdown,
    readBufferSize, writeBufferSize

Ranks == 1 .. numRanks
MaxBubble == Max(Bubbles)

ASSUME RankAssumption ==
    /\ numRanks \in Nat \ {0}
    /\ IsFiniteSet(Banks) /\ Banks # {}
    /\ {tCK, tRP, tRCD, tRAS, tRTP, tWR, tCL, tBURST, tRFC, tREFI, tXP, tXS,
        bubbleLimit, bubbleCap, lookupBubble,
        readBufferSize, writeBufferSize} \subseteq Nat
    /\ tRP < tREFI /\ tRFC + tRP < tREFI
    /\ 0 \in Slack /\ Slack \subseteq Nat /\ IsFiniteSet(Slack)
    /\ 0 \in Bubbles /\ Bubbles \subseteq Nat /\ IsFiniteSet(Bubbles)
    /\ pageMgmt \in {"open", "close", "adaptive"}
    /\ enableDRAMPowerdown \in BOOLEAN

VARIABLES
    eventq,        \* sequence of [ev, rank, at, now]: see Schedule
    rk,            \* [Ranks -> state of the Rank object]
    activeRank,    \* the rank of the last burst
    nextBurstAt,
    respQueue,     \* sequence of [rank, at]: reads on their way back
    reads, writes, \* [Ranks -> Nat]: bursts that wait in the queues
    busStateNext,
    draining       \* drainState is Draining or Drained

vars == <<eventq, rk, activeRank, nextBurstAt, respQueue, reads, writes,
          busStateNext, draining>>
ctrl == <<activeRank, nextBurstAt, respQueue, reads, writes, busStateNext,
          draining>>

Later(a, b) == IF a < b THEN b ELSE a

----------------------------------------------------------------------------
(* The event queue                                                         *)

(* An event goes before those already scheduled for its tick.  `now` marks *)
(* the ones scheduled for the current tick while it lasts: nothing from    *)
(* outside can come before them.                                           *)
Schedule(q, ev, r, at) ==
    InsertAt(q, 1 + Cardinality({i \in DOMAIN q : q[i].at < at}),
             [ev |-> ev, rank |-> r, at |-> at, now |-> at = 0])

IsEvent(e, ev, r)    == e.ev = ev /\ e.rank = r
Scheduled(q, ev, r)  == \E i \in DOMAIN q : IsEvent(q[i], ev, r)
Place(q, ev, r)      == CHOOSE i \in DOMAIN q : IsEvent(q[i], ev, r)
When(q, ev, r)       == q[Place(q, ev, r)].at
Deschedule(q, ev, r) == RemoveAt(q, Place(q, ev, r))

(* Events of the controller carry the rank 0. *)
nextReqScheduled(q) == Scheduled(q, "nextReq", 0)
KickNextReq(q) ==
    IF nextReqScheduled(q) THEN q ELSE Schedule(q, "nextReq", 0, 0)

Fire(ev, r) == eventq # <<>> /\ eventq[1].at = 0 /\ IsEvent(eventq[1], ev, r)

(* The tick is over: every event of it has fired. *)
EndOfTick == eventq # <<>> => eventq[1].at > 0

(* A step of one rank: s is the queue and the Rank object's state. *)
Step(r)   == [q |-> Tail(eventq), k |-> rk[r]]
Become(r, s) == eventq' = s.q /\ rk' = [rk EXCEPT ![r] = s.k]

----------------------------------------------------------------------------
(* The state of a rank                                                     *)

numBanksActive(k) == Cardinality({b \in Banks : k.banks[b].open})
inRefIdleState(k) == k.refreshState = "REF_IDLE"
readEntries(r, resp) ==
    reads[r] + Cardinality({i \in DOMAIN resp : resp[i].rank = r})

(* The queue of the bus's next direction holds nothing for the rank. *)
isQueueEmpty(r, resp) ==
    \/ busStateNext = "READ"  /\ readEntries(r, resp) = 0
    \/ busStateNext = "WRITE" /\ writes[r] = 0

forceSelfRefreshExit(r) ==
    \/ readEntries(r, respQueue) # 0
    \/ busStateNext = "WRITE" /\ writes[r] # 0

(* refreshDueAt starts at 0 in the code; nothing reads it before the first *)
(* refresh sets it, and here it starts as after a refresh.  The ranks      *)
(* schedule their refreshes in turn, so that the last rank's is the first. *)
Init ==
    /\ eventq = [i \in Ranks |-> [ev |-> "refresh", rank |-> numRanks + 1 - i,
                                  at |-> tREFI - tRP, now |-> FALSE]]
    /\ rk = [r \in Ranks |->
          [refreshState |-> "REF_IDLE", refreshDueAt |-> tREFI,
           pwrState |-> "IDLE", pwrStateTrans |-> "IDLE",
           pwrStatePostRefresh |-> "IDLE",
           inLowPowerState |-> FALSE, wakeUpAllowedAt |-> 0,
           outstandingEvents |-> 0,
           banks |-> [b \in Banks |->
              [open |-> FALSE, preAt |-> 0, actAt |-> 0, colAt |-> 0]]]]
    /\ activeRank = 1
    /\ nextBurstAt = tRP + tRCD
    /\ respQueue = <<>>
    /\ reads = [r \in Ranks |-> 0] /\ writes = [r \in Ranks |-> 0]
    /\ busStateNext = "READ"
    /\ draining = FALSE

----------------------------------------------------------------------------
(* Power transitions                                                       *)

schedulePowerEvent(s, r, state, at) ==
    [s EXCEPT !.q = Schedule(@, "power", r, at), !.k.pwrStateTrans = state]

(* After a refresh the low-power state is the precharge power-down. *)
powerDownSleep(s, r, state) ==
    [schedulePowerEvent(s, r, IF state = "REF" THEN "PRE_PDN" ELSE state, 0)
        EXCEPT !.k.wakeUpAllowedAt = tCK, !.k.inLowPowerState = TRUE]

scheduleWakeUpEvent(s, r, exit) ==
    LET wake   == s.k.wakeUpAllowedAt
        awake  == wake + exit
        Hold(b) == [b EXCEPT !.preAt = Later(@, awake),
                             !.actAt = Later(@, awake),
                             !.colAt = Later(@, awake)]
    IN  [s EXCEPT
           !.q = Schedule(@, "wakeUp", r, wake),
           !.k.pwrStatePostRefresh = IF s.k.refreshState = "REF_PD_EXIT"
                                     THEN s.k.pwrState ELSE "IDLE",
           !.k.banks = [b \in Banks |-> Hold(@[b])],
           !.k.inLowPowerState = FALSE]

processWakeUpEvent(r) ==
    /\ Fire("wakeUp", r)
    /\ Become(r, schedulePowerEvent(Step(r), r,
                    IF rk[r].pwrState = "ACT_PDN" THEN "ACT" ELSE "IDLE", 0))
    /\ UNCHANGED ctrl

processActivateEvent(r) ==
    /\ Fire("activate", r)
    /\ Become(r, IF rk[r].pwrState = "ACT"
                 THEN Step(r)
                 ELSE schedulePowerEvent(Step(r), r, "ACT", 0))
    /\ UNCHANGED ctrl

(* The last precharge: with nothing else to do the rank powers down. *)
processPrechargeEvent(r) ==
    LET s == [Step(r) EXCEPT !.k.outstandingEvents = @ - 1]
        sleep == /\ isQueueEmpty(r, respQueue)
                 /\ s.k.outstandingEvents = 0
                 /\ enableDRAMPowerdown
    IN
    /\ Fire("precharge", r)
    /\ Become(r, IF numBanksActive(s.k) # 0 THEN s
                 ELSE IF sleep THEN powerDownSleep(s, r, "PRE_PDN")
                 ELSE schedulePowerEvent(s, r, "IDLE", 0))
    /\ UNCHANGED ctrl

processWriteDoneEvent(r) ==
    /\ Fire("writeDone", r)
    /\ Become(r, [Step(r) EXCEPT !.k.outstandingEvents = @ - 1])
    /\ UNCHANGED ctrl

----------------------------------------------------------------------------
(* Bursts                                                                  *)

(* The precharge event stands for the last precharge scheduled. *)
PrechargeEventAt(s, r, at) ==
    IF ~Scheduled(s.q, "precharge", r)
    THEN [s EXCEPT !.q = Schedule(@, "precharge", r, at),
                   !.k.outstandingEvents = @ + 1]
    ELSE IF When(s.q, "precharge", r) < at
    THEN [s EXCEPT !.q = Schedule(Deschedule(@, "precharge", r),
                                  "precharge", r, at)]
    ELSE s

(* An automatic precharge, or an explicit one that holds up the others. *)
prechargeBank(s, r, b, at, explicit) ==
    LET Others == [c \in Banks |->
            IF c = b
            THEN [s.k.banks[b] EXCEPT !.open = FALSE, !.preAt = Later(@, at),
                                      !.actAt = Later(@, at + tRP)]
            ELSE [s.k.banks[c] EXCEPT
                    !.preAt = IF explicit THEN Later(@, at) ELSE @]]
    IN  PrechargeEventAt([s EXCEPT !.k.banks = Others], r, at + tRP)

(* The bank's row is opened at the given time. *)
Activated(bank, at) ==
    [bank EXCEPT !.open  = TRUE,
                 !.preAt = at + tRAS,
                 !.colAt = Later(@, at + tRCD)]

(* The activate event stands for the first activate scheduled. *)
activateBank(s, r, b) ==
    LET at == s.k.banks[b].actAt
        q  == IF ~Scheduled(s.q, "activate", r)
              THEN Schedule(s.q, "activate", r, at)
              ELSE IF When(s.q, "activate", r) > at
              THEN Schedule(Deschedule(s.q, "activate", r), "activate", r, at)
              ELSE s.q
    IN  [s EXCEPT !.q = q, !.k.banks[b] = Activated(@, at)]

(* The open row is the burst's, or it is closed and the burst's opened. *)
OpenRow(s, r, b, hit) ==
    IF ~s.k.banks[b].open THEN activateBank(s, r, b)
    ELSE IF hit THEN s
    ELSE activateBank(prechargeBank(s, r, b, s.k.banks[b].preAt, TRUE), r, b)

(* Seeded fault: no limit on a bubble. *)
UncappedBubble(bubble) == bubble

CappedBubble(bubble) == IF bubble >= bubbleLimit THEN bubbleCap ELSE bubble

(* When the bus takes a burst with a bubble: the bubble is added to the    *)
(* end of the last burst, however long ago that was.                       *)
BusFreeAt(bubble) ==
    nextBurstAt + CappedBubble(bubble)
       - (IF bubble = lookupBubble /\ bubble > 0 THEN tCL + tBURST ELSE 0)

WriteDoneAt(s, r, at) ==
    IF ~Scheduled(s.q, "writeDone", r)
    THEN [s EXCEPT !.q = Schedule(@, "writeDone", r, at),
                   !.k.outstandingEvents = @ + 1]
    ELSE IF When(s.q, "writeDone", r) < at
    THEN [s EXCEPT !.q = Schedule(Deschedule(@, "writeDone", r),
                                  "writeDone", r, at)]
    ELSE s

AutoPrecharge == CASE pageMgmt = "open"     -> {FALSE}
                   [] pageMgmt = "close"    -> {TRUE}
                   [] pageMgmt = "adaptive" -> BOOLEAN

Awake(s, r) == IF s.k.inLowPowerState THEN scheduleWakeUpEvent(s, r, tXP) ELSE s

(* A burst of rank r: where it starts, and the rank after it. *)
doBurstAccess(s, r, b, isRead, hit, auto, bubble, slack) ==
    LET s1     == OpenRow(Awake(s, r), r, b, hit)
        cmd_at == Later(Later(s1.k.banks[b].colAt, BusFreeAt(bubble)), 0) + slack
        ready  == cmd_at + tCL + tBURST
        s2     == [s1 EXCEPT !.k.banks[b].preAt =
                      Later(@, IF isRead THEN cmd_at + tRTP ELSE ready + tWR)]
        s3     == IF auto
                  THEN prechargeBank(s2, r, b, s2.k.banks[b].preAt, FALSE)
                  ELSE s2
    IN  [cmd_at |-> cmd_at,
         ready  |-> ready,
         s      |-> IF isRead
                    THEN [s3 EXCEPT !.k.outstandingEvents = @ + 1]
                    ELSE WriteDoneAt(s3, r, ready)]

----------------------------------------------------------------------------
(* Refresh                                                                 *)

(* A refresh is due: it first lets a burst under way to the rank go ahead. *)
BeginRefresh(s) ==
    IF s.k.refreshState \in {"REF_IDLE", "REF_SREF_EXIT"}
    THEN [s EXCEPT !.k.refreshState = "REF_DRAIN", !.k.refreshDueAt = 0,
                   !.k.outstandingEvents = @ + 1]
    ELSE s

AwaitsTurn(s, r) ==
    /\ s.k.refreshState = "REF_DRAIN"
    /\ r = activeRank /\ nextReqScheduled(s.q)

(* Seeded fault: a rank that is already idle waits for a precharge. *)
PrechargeOpenOnly(s, r) ==
    LET pre_at == Max({s.k.banks[b].preAt : b \in Banks})
    IN  IF numBanksActive(s.k) = 0 THEN s
        ELSE PrechargeEventAt(
               [s EXCEPT !.k.banks = [b \in Banks |-> [@[b] EXCEPT !.open = FALSE]]],
               r, pre_at + tRP)

(* Seeded fault: the rows that are precharged stay marked as open. *)
PrechargeLeavesOpen(s, r) ==
    IF numBanksActive(s.k) = 0 THEN schedulePowerEvent(s, r, "REF", 0)
    ELSE PrechargeEventAt(s, r, Max({s.k.banks[b].preAt : b \in Banks}) + tRP)

(* Precharge all banks, or refresh at once when the rank is idle; if not,  *)
(* a precharge or the response to a read will start the loop again.        *)
PrechargeAll(s, r) ==
    LET pre_at == Max({s.k.banks[b].preAt : b \in Banks})
        closed == [b \in Banks |->
            [s.k.banks[b] EXCEPT !.open = FALSE, !.preAt = pre_at,
                                 !.actAt = Later(@, pre_at + tRP)]]
    IN  IF numBanksActive(s.k) # 0
        THEN PrechargeEventAt([s EXCEPT !.k.banks = closed], r, pre_at + tRP)
        ELSE IF s.k.pwrState = "IDLE" /\ s.k.outstandingEvents = 1
        THEN schedulePowerEvent(s, r, "REF", 0)
        ELSE s

(* The drain, the exit from a power-down and the precharge follow each     *)
(* other in one call, unless one of them has to wait.                      *)
PrepareRefresh(s, r) ==
    IF AwaitsTurn(s, r) THEN s
    ELSE IF s.k.refreshState # "REF_PRE" /\ s.k.inLowPowerState
    THEN scheduleWakeUpEvent([s EXCEPT !.k.refreshState = "REF_PD_EXIT"], r, tXP)
    ELSE PrechargeAll([s EXCEPT !.k.refreshState = "REF_PRE"], r)

StartRefresh(s, r) ==
    [q |-> Schedule(s.q, "refresh", r, tRFC),
     k |-> [s.k EXCEPT !.refreshState = "REF_RUN",
                       !.refreshDueAt = @ + tREFI,
                       !.banks = [b \in Banks |-> [@[b] EXCEPT !.actAt = tRFC]]]]

(* The refresh is over: back to the low-power state it came from, to       *)
(* power-down if nothing waits, or to idle.                                *)
EndRefresh(s, r) ==
    LET s1 == IF draining THEN schedulePowerEvent(s, r, "IDLE", 0)
              ELSE IF s.k.pwrStatePostRefresh # "IDLE"
              THEN powerDownSleep(s, r, s.k.pwrState)
              ELSE IF isQueueEmpty(r, respQueue) /\ enableDRAMPowerdown
              THEN powerDownSleep(s, r, "PRE_PDN")
              ELSE schedulePowerEvent(s, r, "IDLE", 0)
    IN  [s1 EXCEPT !.q = Schedule(@, "refresh", r, s.k.refreshDueAt - tRP)]

processRefreshEvent(r) ==
    /\ Fire("refresh", r)
    /\ Become(r, CASE rk[r].refreshState = "REF_START" -> StartRefresh(Step(r), r)
                   [] rk[r].refreshState = "REF_RUN"   -> EndRefresh(Step(r), r)
                   [] OTHER -> PrepareRefresh(BeginRefresh(Step(r)), r))
    /\ UNCHANGED ctrl

(* Seeded fault: the loop is not started again. *)
LeaveRefreshAsleep(s) ==
    [s EXCEPT !.k.outstandingEvents = @ - 1, !.k.refreshState = "REF_IDLE"]

(* A refresh has ended: the loop of the controller is started again. *)
LeaveRefresh(s) ==
    [s EXCEPT !.k.outstandingEvents = @ - 1, !.k.refreshState = "REF_IDLE",
              !.q = KickNextReq(@)]

(* All banks are closed: what comes next for a refresh that waits. *)
EnterIdle(s, r, prev) ==
    IF prev = "SREF"
    THEN [s EXCEPT !.k.refreshState = "REF_SREF_EXIT",
                   !.q = Schedule(@, "refresh", r, tXS)]
    ELSE IF Scheduled(s.q, "activate", r) THEN s
    ELSE IF s.k.refreshState = "REF_PD_EXIT"
    THEN schedulePowerEvent(s, r, "REF", tXP)
    ELSE IF s.k.refreshState = "REF_PRE"
    THEN [s EXCEPT !.k.pwrState = "REF"]
    ELSE s

(* Seeded fault: the refresh that self-refresh replaces stays counted. *)
EnterRefCounted(s, r) ==
    IF /\ s.k.pwrStatePostRefresh = "PRE_PDN" /\ isQueueEmpty(r, respQueue)
       /\ ~draining /\ enableDRAMPowerdown
    THEN [powerDownSleep(s, r, "SREF") EXCEPT !.k.pwrState = "IDLE"]
    ELSE [s EXCEPT !.q = Schedule(@, "refresh", r, 0),
                   !.k.refreshState = "REF_START"]

(* A rank that came from the precharge power-down and has nothing to do    *)
(* enters self-refresh instead of refreshing.                              *)
EnterRef(s, r) ==
    IF /\ s.k.pwrStatePostRefresh = "PRE_PDN" /\ isQueueEmpty(r, respQueue)
       /\ ~draining /\ enableDRAMPowerdown
    THEN [powerDownSleep(s, r, "SREF") EXCEPT !.k.outstandingEvents = @ - 1,
                                              !.k.pwrState = "IDLE"]
    ELSE [s EXCEPT !.q = Schedule(@, "refresh", r, 0),
                   !.k.refreshState = "REF_START"]

processPowerEvent(r) ==
    LET prev == rk[r].pwrState
        s0   == [Step(r) EXCEPT !.k.pwrState = rk[r].pwrStateTrans]
        s1   == IF prev = "REF" THEN LeaveRefresh(s0) ELSE s0
        s2   == IF s1.k.pwrState = "ACT" /\ s1.k.refreshState = "REF_PD_EXIT"
                THEN [s1 EXCEPT !.k.refreshState = "REF_PRE",
                                !.q = Schedule(@, "refresh", r, 0)]
                ELSE IF s1.k.pwrState = "IDLE" THEN EnterIdle(s1, r, prev)
                ELSE s1
        s3   == IF s2.k.pwrState = "REF" THEN EnterRef(s2, r) ELSE s2
    IN
    /\ Fire("power", r)
    /\ Become(r, s3)
    /\ UNCHANGED ctrl

----------------------------------------------------------------------------
(* The controller's events                                                 *)

(* The read was what a refresh of its rank waited for. *)
checkRefreshState(s, r) ==
    IF s.k.refreshState = "REF_PRE" /\ ~Scheduled(s.q, "precharge", r)
    THEN [s EXCEPT !.q = Schedule(@, "refresh", r, 0)]
    ELSE s

(* Seeded fault: a rank with other events under way powers down. *)
SleepAnyway(s, r, rest) ==
    LET s1 == [s EXCEPT !.k.outstandingEvents = @ - 1]
    IN  IF isQueueEmpty(r, rest) /\ inRefIdleState(s1.k) /\ enableDRAMPowerdown
        THEN powerDownSleep(s1, r, IF s1.k.pwrState = "IDLE" THEN "PRE_PDN"
                                                             ELSE "ACT_PDN")
        ELSE s1

(* With no other work the rank powers down after the read. *)
respondEvent(s, r, rest) ==
    LET s1 == [s EXCEPT !.k.outstandingEvents = @ - 1]
    IN  IF /\ isQueueEmpty(r, rest) /\ s1.k.outstandingEvents = 0
           /\ inRefIdleState(s1.k) /\ enableDRAMPowerdown
        THEN powerDownSleep(s1, r, IF s1.k.pwrState = "IDLE" THEN "PRE_PDN"
                                                             ELSE "ACT_PDN")
        ELSE s1

processRespondEvent ==
    LET r    == Head(respQueue).rank
        rest == Tail(respQueue)
        s    == respondEvent(Step(r), r, rest)
    IN
    /\ Fire("respond", 0)
    /\ respQueue' = rest
    /\ Become(r, IF rest # <<>>
                 THEN [s EXCEPT !.q = Schedule(@, "respond", 0, rest[1].at)]
                 ELSE checkRefreshState(s, r))
    /\ UNCHANGED <<activeRank, nextBurstAt, reads, writes, busStateNext,
                   draining>>

(* A rank that waited for the turn goes on with its refresh; one in        *)
(* self-refresh with work to do wakes up.                                  *)
checkDrainDone(s, r) ==
    IF s.k.refreshState = "REF_DRAIN"
    THEN [s EXCEPT !.k.refreshState = "REF_PD_EXIT",
                   !.q = Schedule(@, "refresh", r, 0)]
    ELSE s

(* Seeded fault: a rank that is waking up is woken again. *)
WakeTwice(s, r) ==
    IF inRefIdleState(s.k) THEN s
    ELSE IF s.k.pwrState # "SREF" THEN checkDrainDone(s, r)
    ELSE IF forceSelfRefreshExit(r) THEN scheduleWakeUpEvent(s, r, tXS)
    ELSE s

CheckRank(s, r) ==
    IF inRefIdleState(s.k) THEN s
    ELSE IF s.k.pwrState # "SREF" THEN checkDrainDone(s, r)
    ELSE IF s.k.inLowPowerState /\ forceSelfRefreshExit(r)
    THEN scheduleWakeUpEvent(s, r, tXS)
    ELSE s

(* The queue and the ranks after isBusy has gone through the first n. *)
checked[n \in 0 .. numRanks] ==
    IF n = 0 THEN [q |-> Tail(eventq), rk |-> rk]
    ELSE LET a == checked[n - 1]
             s == CheckRank([q |-> a.q, k |-> a.rk[n]], n)
         IN  [q |-> s.q, rk |-> [a.rk EXCEPT ![n] = s.k]]

isBusyEffect == checked[numRanks]

AllBusy == \A r \in Ranks : ~inRefIdleState(rk[r]) /\ rk[r].pwrState # "SREF"

(* The bursts that wait, of all ranks. *)
Total(count) == Cardinality(UNION {{r} \X (1 .. count[r]) : r \in Ranks})

(* The turn ends without a burst, and without another turn. *)
StopLoop ==
    /\ Fire("nextReq", 0)
    /\ \/ AllBusy
       \/ busStateNext = "READ" /\ Total(reads) = 0
       \/ ~\E r \in Ranks : /\ inRefIdleState(rk[r])
                            /\ IF busStateNext = "READ" THEN reads[r] > 0
                                                        ELSE writes[r] > 0
    /\ eventq' = isBusyEffect.q /\ rk' = isBusyEffect.rk
    /\ UNCHANGED ctrl

(* No read waits, and there are writes enough. *)
SwitchToWrites ==
    LET t == isBusyEffect
    IN
    /\ Fire("nextReq", 0)
    /\ ~AllBusy
    /\ busStateNext = "READ" /\ Total(reads) = 0 /\ Total(writes) > 0
    /\ busStateNext' = "WRITE"
    /\ rk' = t.rk
    /\ eventq' = Schedule(t.q, "nextReq", 0, Later(nextBurstAt - tRP - tRCD, 0))
    /\ UNCHANGED <<activeRank, nextBurstAt, respQueue, reads, writes, draining>>

(* No column command of any bank before the burst's slot is over. *)
BankHeld(bank, at) == [bank EXCEPT !.colAt = Later(@, at + tBURST)]
ColumnHeld(k, at) ==
    [k EXCEPT !.banks = [b \in Banks |-> BankHeld(k.banks[b], at)]]
ColumnsHeld(ks, at) == [r \in Ranks |-> ColumnHeld(ks[r], at)]

(* One burst, to a rank that is not refreshing.  The next turn comes in    *)
(* time for the burst after it.                                            *)
IssueBurst(r, b, hit, auto, bubble, slack) ==
    LET t      == isBusyEffect
        isRead == busStateNext = "READ"
        burst  == doBurstAccess([q |-> t.q, k |-> t.rk[r]], r, b, isRead,
                                hit, auto, bubble, slack)
        respq  == IF isRead /\ respQueue = <<>>
                  THEN Schedule(burst.s.q, "respond", 0, burst.ready)
                  ELSE burst.s.q
    IN
    /\ Fire("nextReq", 0)
    /\ ~AllBusy
    /\ inRefIdleState(rk[r])
    /\ hit => rk[r].banks[b].open
    /\ nextBurstAt' = burst.cmd_at + tBURST
    /\ rk' = [ColumnsHeld(t.rk, burst.cmd_at) EXCEPT
                ![r] = ColumnHeld(burst.s.k, burst.cmd_at)]
    /\ activeRank' = r
    /\ eventq' = Schedule(respq, "nextReq", 0,
                          Later(nextBurstAt' - tRP - tRCD, 0))
    /\ \/ /\ isRead
          /\ reads[r] > 0
          /\ reads' = [reads EXCEPT ![r] = @ - 1]
          /\ respQueue' = Append(respQueue, [rank |-> r, at |-> burst.ready])
          /\ busStateNext' \in {"READ"} \cup
                               (IF Total(writes) > 0 THEN {"WRITE"} ELSE {})
          /\ UNCHANGED writes
       \/ /\ ~isRead
          /\ writes[r] > 0
          /\ writes' = [writes EXCEPT ![r] = @ - 1]
          /\ busStateNext' \in {"READ"} \cup
                               (IF Total(writes') > 0 THEN {"WRITE"} ELSE {})
          /\ UNCHANGED <<reads, respQueue>>
    /\ UNCHANGED draining

SomeBurst(r) ==
    \E b \in Banks, hit \in BOOLEAN, auto \in AutoPrecharge,
       bubble \in Bubbles, slack \in Slack :
       IssueBurst(r, b, hit, auto, bubble, slack)

(* A request for rank r arrives, in an event of its own. *)
CanArrive == eventq # <<>> => ~eventq[1].now

addToReadQueue(r) ==
    /\ CanArrive
    /\ Total(reads) + Len(respQueue) < readBufferSize
    /\ reads' = [reads EXCEPT ![r] = @ + 1]
    /\ eventq' = KickNextReq(eventq)
    /\ UNCHANGED <<rk, activeRank, nextBurstAt, respQueue, writes, busStateNext,
                   draining>>

addToWriteQueue(r) ==
    /\ CanArrive
    /\ Total(writes) < writeBufferSize
    /\ writes' = [writes EXCEPT ![r] = @ + 1]
    /\ eventq' = KickNextReq(eventq)
    /\ UNCHANGED <<rk, activeRank, nextBurstAt, respQueue, reads, busStateNext,
                   draining>>

(* Between two ticks the simulator may drain the system. *)
QueuesEmpty == Total(reads) = 0 /\ Total(writes) = 0 /\ respQueue = <<>>
allRanksDrained ==
    \A r \in Ranks : inRefIdleState(rk[r]) /\ rk[r].pwrState = "IDLE"

DrainRank(s, r) ==
    IF s.k.pwrState = "SREF" THEN scheduleWakeUpEvent(s, r, tXS) ELSE s

(* With no write to wait for, drain() starts the loop. *)
DrainKick == IF Total(writes) = 0 THEN KickNextReq(eventq) ELSE eventq

(* The queue and the ranks after drainRanks has gone through the first n. *)
drained[n \in 0 .. numRanks] ==
    IF n = 0 THEN [q |-> DrainKick, rk |-> rk]
    ELSE LET a == drained[n - 1]
             s == DrainRank([q |-> a.q, k |-> a.rk[n]], n)
         IN  [q |-> s.q, rk |-> [a.rk EXCEPT ![n] = s.k]]

drainRanks == drained[numRanks]

drain ==
    LET t == drainRanks
    IN
    /\ EndOfTick
    /\ ~draining
    /\ ~(QueuesEmpty /\ allRanksDrained)
    /\ draining' = TRUE
    /\ eventq' = t.q /\ rk' = t.rk
    /\ UNCHANGED <<activeRank, nextBurstAt, respQueue, reads, writes,
                   busStateNext>>

drainResume ==
    /\ EndOfTick
    /\ draining
    /\ QueuesEmpty /\ allRanksDrained
    /\ draining' = FALSE
    /\ UNCHANGED <<eventq, rk, activeRank, nextBurstAt, respQueue, reads,
                   writes, busStateNext>>

----------------------------------------------------------------------------
(* Time                                                                    *)

Passed(t, floor) == Later(t - 1, floor)
PassedBank(bank) == [bank EXCEPT !.preAt = Passed(@, 0),
                                 !.actAt = Passed(@, 0),
                                 !.colAt = Passed(@, 0)]
PassedRank(k) ==
    [k EXCEPT !.refreshDueAt = Passed(@, -tREFI),
              !.wakeUpAllowedAt = Passed(@, 0),
              !.banks = [b \in Banks |-> PassedBank(k.banks[b])]]

(* A tick passes.  A constraint in the past no longer constrains, a bus    *)
(* idle for longer than any bubble is idle, and a refresh overdue by an    *)
(* interval is lost: the times stop there.                                 *)
Advance ==
    /\ EndOfTick
    /\ eventq' = [i \in DOMAIN eventq |-> [eventq[i] EXCEPT !.at = @ - 1]]
    /\ respQueue' =
          [i \in DOMAIN respQueue |-> [respQueue[i] EXCEPT !.at = @ - 1]]
    /\ nextBurstAt' = Passed(nextBurstAt, -MaxBubble)
    /\ rk' = [r \in Ranks |-> PassedRank(rk[r])]
    /\ UNCHANGED <<activeRank, reads, writes, busStateNext, draining>>

FireEvent ==
    \/ \E r \in Ranks :
          \/ processActivateEvent(r) \/ processPrechargeEvent(r)
          \/ processWriteDoneEvent(r) \/ processRefreshEvent(r)
          \/ processPowerEvent(r) \/ processWakeUpEvent(r)
          \/ SomeBurst(r)
    \/ processRespondEvent
    \/ StopLoop
    \/ SwitchToWrites

Arrival == \E r \in Ranks : addToReadQueue(r) \/ addToWriteQueue(r)

Running == FireEvent \/ Arrival \/ Advance
Next == Running \/ drain \/ drainResume

Spec == Init /\ [][Next]_vars

(* The simulation between two drains. *)
RunningSpec == Init /\ [][Running]_vars

----------------------------------------------------------------------------
(* The values the state may take. *)
TypeOK ==
    /\ \A i \in DOMAIN eventq :
          /\ eventq[i].rank \in 0 .. numRanks /\ eventq[i].at \in Nat
          /\ eventq[i].ev \in {"nextReq", "respond", "refresh", "power",
                               "wakeUp", "activate", "precharge", "writeDone"}
    /\ \A r \in Ranks :
          /\ rk[r].refreshState \in {"REF_IDLE", "REF_DRAIN", "REF_PD_EXIT",
                "REF_SREF_EXIT", "REF_PRE", "REF_START", "REF_RUN"}
          /\ {rk[r].pwrState, rk[r].pwrStateTrans, rk[r].pwrStatePostRefresh}
                \subseteq {"IDLE", "REF", "SREF", "PRE_PDN", "ACT", "ACT_PDN"}
          /\ rk[r].outstandingEvents \in Nat
    /\ activeRank \in Ranks
    /\ reads \in [Ranks -> 0 .. readBufferSize]
    /\ writes \in [Ranks -> 0 .. writeBufferSize]
    /\ busStateNext \in {"READ", "WRITE"}
    /\ draining \in BOOLEAN

(* No event is scheduled while it is scheduled: the assert of the event    *)
(* queue and the panic of schedulePowerEvent.                              *)
ScheduledOnce ==
    \A i, j \in DOMAIN eventq :
       eventq[i].ev = eventq[j].ev /\ eventq[i].rank = eventq[j].rank => i = j

(* outstandingEvents counts what is under way in the rank: reads on their  *)
(* way back, the precharge and the write event, and the refresh.           *)
One(cond) == IF cond THEN 1 ELSE 0
Refreshing(k) ==
    /\ k.refreshState \in {"REF_DRAIN", "REF_PD_EXIT", "REF_PRE", "REF_START",
                           "REF_RUN"}
    /\ k.pwrState # "SREF" /\ k.pwrStateTrans # "SREF"
EventsCounted ==
    \A r \in Ranks :
       rk[r].outstandingEvents =
            Cardinality({i \in DOMAIN respQueue : respQueue[i].rank = r})
          + One(Scheduled(eventq, "precharge", r))
          + One(Scheduled(eventq, "writeDone", r))
          + One(Refreshing(rk[r]))

(* A refresh that is due starts in time: before so much of the interval    *)
(* has passed that it would end after the next one has to be prepared,     *)
(* whatever bursts, bubbles and precharges it waits for.  (Later there is  *)
(* the fatal error "Refresh was delayed so long we cannot catch up", or    *)
(* an event scheduled in the past.)                                        *)
RefreshInTime ==
    \A r \in Ranks :
       Refreshing(rk[r]) /\ rk[r].refreshState # "REF_RUN" =>
          rk[r].refreshDueAt + tREFI - tRP > tRFC

(* Every time of DDR4's tables: a read is answered before the precharge    *)
(* that may follow it is over.                                             *)
OrderedTimings == 0 < tRP /\ tCL + tBURST < tRTP + tRP

(* How long after a column command its bank may be precharged, at most.    *)
PrechargeLag == Later(Later(tRAS - tRCD, tRTP), tCL + tBURST + tWR)

(* The last column command a turn can give is due within `last`: when a    *)
(* row has to be closed and another opened first, or after the bubble.     *)
LastCommand(last) ==
    \A bubble \in Bubbles, slack \in Slack :
       /\ PrechargeLag - tBURST + 2 * (tRP + tRCD) + slack <= last
       /\ tRP + tRCD + CappedBubble(bubble) + slack <= last

(* A refresh that waits for it, and for the precharge of its bank, is      *)
(* still over before the next has to be prepared.                          *)
BubblesFit ==
    \E last \in 0 .. tREFI :
       /\ LastCommand(last)
       /\ last + PrechargeLag + tRP + tRP + tRFC < tREFI

(* Asserts of the handlers, on the event that is about to fire; the state  *)
(* has its types, so that no counter has gone below zero.  Three that hold *)
(* within a handler are not spelled out: mem_interface.cc:975-976 and 1759 *)
(* on the way to sleep, and 1402-1403, which RefreshRestarted comes near.  *)
AssertsHold ==
    /\ TypeOK
    /\ \A r \in Ranks :
          LET k == rk[r]
              closed == numBanksActive(k) = 0
          IN
          /\ Fire("refresh", r) /\ k.refreshState \in {"REF_START", "REF_RUN"} =>
                closed /\ k.pwrState = "REF"
          /\ Fire("refresh", r) /\ k.refreshState = "REF_RUN" =>
                k.outstandingEvents = 1
          /\ k.refreshState = "REF_PRE" => closed \/ Scheduled(eventq, "refresh", r)
          /\ Fire("power", r) /\ k.pwrState = "REF" =>
                /\ k.outstandingEvents = 1
                /\ k.pwrStateTrans \in {"IDLE", "PRE_PDN"}
          /\ Fire("power", r) /\ k.pwrStateTrans = "REF" =>
                k.refreshState \in {"REF_PRE", "REF_PD_EXIT"}
          /\ Fire("power", r) /\ k.refreshState = "REF_PD_EXIT"
                /\ k.pwrState # "SREF" =>
                CASE k.pwrStateTrans = "ACT" -> k.pwrState = "ACT_PDN"
                  [] k.pwrStateTrans = "IDLE" ->
                        IF Scheduled(eventq, "activate", r)
                        THEN Scheduled(eventq, "precharge", r)
                        ELSE k.pwrState = "PRE_PDN"
                  [] OTHER -> TRUE
          /\ Fire("wakeUp", r) => k.pwrState \in {"ACT_PDN", "PRE_PDN", "SREF"}
          /\ Fire("precharge", r) /\ closed /\ k.outstandingEvents = 1
                /\ isQueueEmpty(r, respQueue) /\ enableDRAMPowerdown =>
                k.pwrState = "ACT"
          /\ inRefIdleState(k) /\ k.inLowPowerState => k.pwrState # "SREF"
          /\ Fire("respond", 0) =>
                rk[Head(respQueue).rank].pwrState \notin {"SREF", "PRE_PDN", "ACT_PDN"}
          /\ respQueue # <<>> <=> Scheduled(eventq, "respond", 0)
          /\ \A i \in 1 .. Len(respQueue) - 1 : respQueue[i].at <= respQueue[i + 1].at

(* A refresh that waits for its banks will be restarted: by an event of    *)
(* its own rank, or by the response to a read of its own rank.             *)
RefreshRestarted ==
    \A r \in Ranks :
       rk[r].refreshState = "REF_PRE" =>
          \/ \E ev \in {"precharge", "power", "refresh"} : Scheduled(eventq, ev, r)
          \/ \E i \in DOMAIN respQueue : respQueue[i].rank = r

(* The ranks behave as the controller's queues assume: module RefreshCycle. *)
view ==
    [r \in Ranks |-> CASE rk[r].refreshState = "REF_IDLE"  -> "idle"
                       [] rk[r].refreshState = "REF_DRAIN" -> "drain"
                       [] OTHER -> "busy"]
loop == nextReqScheduled(eventq)
flying ==
    [r \in Ranks |-> Cardinality({i \in DOMAIN respQueue : respQueue[i].rank = r})]

Cycle == INSTANCE RefreshCycle WITH view <- view, loop <- loop, flying <- flying
CycleSpec == Cycle!Spec
=============================================================================
