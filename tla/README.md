# A verification project for the AQUA rowhammer mitigation

The repository is the artifact of AQUA, a defense of DRAM against rowhammer: a
row that is activated too often within a refresh window (64 ms) is moved to a
quarantine region. It is gem5 with four additions under `gem5/src/mem`: a
detector of aggressor rows, AQUA itself and two defenses to compare it with
(RRS, BlockHammer), and hooks in the memory controller. This project models the
additions, and the memory controller and DRAM ranks they are hooked into, in
TLA+, checks them with TLC and proves what can be proved with TLAPS.

Paths below are relative to `src/gem5/src/mem` unless they say otherwise.

## 1. Inventory

| Component | State | Operations | Talks to |
|---|---|---|---|
| Misra-Gries detector (`rowhammer_detector.*`) | per bank: `numEntries` counted rows, an index row -> entry, a spill counter | constructor, `access` (count, say whether to mitigate), `access` as functional lookup, `reset` | called by AQUA and RRS for every access; lookups by RRS when it draws rows |
| Row quarantine, AQUA (`rowhammer_mitigation.cc` 582-1077) | row -> slot and slot -> row tables, head, previous head and tail of the ring of slots, group counters (`bitvector`, `ORR_CBF`), miss count | `access` = `reset` if 64 ms have passed, detector, `addQCheckDelay`, then `quarantineRow` or, if misses call for it, `drainRow` | detector, cache; returns a `Decision` with delays |
| Functional cache (352-576) | sets of ways: valid, tag, dirty, re-reference counter | `Lookup`, `PartialLookup`, `Find_Victim`, `Fill`, `Invalidate`, `SetDirtyBit` | owned by AQUA |
| Randomized row swap, RRS (3-284) | per bank: table of row pairs (valid, locked), index row -> pair, number of pairs | `access` = `reset` (unlock) if 64 ms have passed, detector, `insertTuple` (install or reswap, then perhaps unswap), `generateRandomRowAddr` | detector |
| BlockHammer (1079-1160) | accesses per row | `access` (count, delay), `reset` | requesters, through late answers |
| Counting Bloom filter, MurmurHash3 (292-339, 1162-1305) | counters | `add`, `query`, `del` | nobody: the controller passes `filter = NULL` |
| Hooks of the defenses (`mem_ctrl.cc`, `mem_interface.cc`) | the defense's parameters, the `Decision` of a packet | size the tables (108-175), call `access` for every burst (336-356, 437-457), add the bubble (953-964; `mem_interface.cc` 508-515) and the answer's delay (634, 646) | defenses, controller, ranks |
| Memory controller (`mem_ctrl.*`) | read, write and response queues, set of queued write addresses, burst helpers of split packets, direction of the bus, retry flags, drain state | `recvTimingReq`, `addToReadQueue`, `addToWriteQueue`, `processRespondEvent`, `processNextReqEvent`, `drain`, `drainResume` | requestor (retries), ranks (which restart its loop) |
| DRAM interface (`mem_interface.*`) | per rank: refresh state, power state and the transition under way, count of outstanding events, banks with their open rows and earliest times | `doBurstAccess`, `activateBank`, `prechargeBank`, `isBusy`, `drainRanks`, and six kinds of events | controller, event queue |
| Parameters and scripts | none | | |

A defense's `access` runs inside one event of the simulator and is atomic. What is
hard there is not threads but long sequences: state kept in two or three tables
that must agree after any order of moves, evictions, drains and resets; windows
that end in the middle of a sequence, for all banks at once; rings and counters
at their limits; a budget in one component that another is sized for; and
delays that are put on one thing to slow down another.

The controller and the ranks are different: eight kinds of events interleave,
several of them at one tick, and each relies on another to start it again. A
turn of the scheduling loop that finds nothing to do stops the loop; a refresh
that finds a read under way stops and is restarted by the response. What is hard
there is that nobody forgets anybody: no lost wakeup, no event scheduled twice,
no counter of things under way that drifts, no refresh so late that the
simulator gives up. `PROJECT.json` lists these hazards line by line.

What makes each component correct:

- detector: no row is accessed `threshold` times in a window without being
  flagged, and the flags of a bank stay within the budget;
- quarantine: the tables are inverse, the filter and the cache never lie about
  a row, a flagged row stays quarantined to the end of its window, and one
  access never costs so much time that the controller cuts it;
- detector and quarantine together: no row is accessed `threshold` times in a
  window at one place;
- row swap: the pairs are an involution, a pair can always be swapped back when
  the table is full, a mitigated row stays swapped for its window, and every row
  moved is paid for;
- BlockHammer: a row whose accesses its delays hold back stays below the actual
  threshold in any 64 ms, and its delay is always defined;
- controller: every accepted request is answered exactly once, and eventually;
  refused requests get in; a drain ends, and only with nothing owed;
- ranks: the asserts of the state machine hold in every order of events, and a
  refresh that is due starts in time, whatever bubbles the defenses insert.

## 2. Modules

| Module | Models | Checked by |
|---|---|---|
| `MisraGries` | the detector, all banks | `misra_gries` |
| `MisraGriesProofs` | theorems about it | TLAPS |
| `FunctionalCache` | the cache, as operators from cache to cache | through `RowQuarantine` |
| `RowQuarantine` | AQUA with its cache, any verdicts of the detector | `quarantine_self`, and through the next two |
| `QuarantineWindows` | AQUA and a record of the window | `quarantine_windows` |
| `Aqua` | AQUA composed with the detector | `aqua` |
| `RowQuarantineProofs` | theorems about `RowQuarantine` and `QuarantineWindows` | TLAPS |
| `AquaProofs` | theorems about `Aqua` | TLAPS |
| `RowIsolation` | abstract: what moving rows promises | `aqua`, which refines it; proved in `AquaProofs` |
| `RandomizedRowSwap` | RRS, one bank | `row_swap` |
| `RandomizedRowSwapProofs` | theorems about it | TLAPS |
| `BlockHammer` | BlockHammer, its answers and any traffic | `block_hammer` |
| `BlockHammerProofs` | theorems about it | TLAPS |
| `MemCtrl` | the controller's queues, loop, retries and drain | `mem_ctrl`, `mem_ctrl_live`, `mem_ctrl_drain` |
| `MemCtrlProofs` | theorems about it | TLAPS |
| `MemService` | abstract: what the controller promises its requestor | `mem_ctrl_live`, which refines it; its safety proved in `MemCtrlProofs` |
| `DRAMRank` | ranks, banks, refresh, power states, bubbles, event queue | `dram_rank`, `dram_rank_power`, `dram_rank_bubbles` |
| `DRAMRankProofs` | theorems about it, power-down off | TLAPS |
| `RefreshCycle` | abstract: a rank as the controller sees it | `dram_rank`, which refines it; proved in `DRAMRankProofs` |
| `SetLemmas` | facts about finite sets and intervals that several proofs use | TLAPS |
| `MCMemCtrl`, `MCDRAMRank` | instances: packets and bursts; the symmetry of banks | |

Variables, constants and operators have the names of the code's fields,
parameters and functions where they stand for them. The modules of the defenses
have one action per kind of `access`, since `access` is the only entry point;
`elapsed` says whether the access finds 64 ms passed since the last reset, in
which case the reset is part of the same step, before anything else. There a
failed `assert` sets `aborted`, after which nothing happens: the simulator is
dead, and what the tables hold is no longer looked at. The modules of the
controller and the ranks have one action per event handler and port call; the
code's asserts are invariants over the state, or over the state and the event
about to fire.

Definitions marked *Seeded fault* are wrong variants of the definition that
follows. No specification uses them; each documents a plausible bug that a
property of the module catches.

**MisraGries.** `trackers[b]` is the tracker of a bank. `Access(b, r, elapsed)`
is `access()` with the `reset()` of the caller. `acts`, `since` and `flags` are
history. The number of accesses of a bank in a window is bounded by
`ActsPerWindow`, the 1360000 from which the controller computes the number of
entries: the detector promises nothing beyond. That the traffic keeps to it is
an assumption (see the hazard at `mem_ctrl.cc:342`: the code counts bursts, not
activations). `ColdStart` says whether the simulation may begin before tick
64 ms, so that `reset()` does not precede the first access; `InitialSpill` is
what the uninitialised spill counter may then hold.

**RowQuarantine.** The tables hold a value or `None` for an entry whose valid
bit is off. Delays are counted in row moves and table accesses. The miss
counter stops at the drain threshold, beyond which the code only compares it.
Any row may be flagged at any time: a superset of what the detector does.
`decision.row` is the row of the last mitigation. The statistics, the
`onlyOneRowRemapped` bit (never read) and SRAM delays (constants added) are left
out, and so is the branch for a Bloom filter, which the controller never
creates.

**QuarantineWindows** adds which slots were written and which rows flagged in
the current window, and conjoins the update of these records to `Access`.

**Aqua** puts the detector's verdict in the place of the arbitrary one. The two
number rows differently: `bankID` and `rowID` are `decodeAddr`, and a row
counted in one bank must be the row that is moved. `here` is history: accesses
of a row in this window since it came to where it is. `RowIsolation` is the
abstract specification: rows have places of their own, and an access that would
be the threshold-th at one place moves the row. Its `place` is `row_To_QR_T`.

**RandomizedRowSwap.** A random draw is any row that has no pair and is not the
one to avoid. The code also avoids the rows the detector tracks; since these are
not known here, every other eligible row may be drawn, and `NoAssertFails` asks
for more eligible rows than the detector has entries. A window has at most
`numEntries` mitigations: proved of the detector (`BudgetKept`). The rows of an
invalid pair, set to 0 by the code and never read, are `NoRow`.

**BlockHammer.** Time is explicit: `age` since the last reset, `wait[r]` until
the row's outstanding reads are answered. `access()` counts every burst queued,
reads (`mem_ctrl.cc:343`) and writes (444), but `MC_delay` reaches the answers of
reads only (634, 646; of a split read only the burst served last). A write is
answered at once (499): the `rh_SRAMDelay` set for it at 451 is never read. Nor does
anything make a requester wait for an answer before its next access of the row. So
`Read` and `Write` are enabled at any time; `Write` stands also for the other
bursts of a split read, whose delays are dropped too. `MaxLatency` bounds the time
a read takes without its delay. A failed division sets `aborted`, and the
simulation is over.

Three variables are history. `heldBack[r]` says that in this window no delay of
the row was dropped and no access of it came before the answer to the last one;
`heldBefore[r]` is its value at the end of the window before; `recent[r][k]` is the
accesses of a row in the last `k` ticks, for every `k` up to a window. What the
mitigation can promise it promises of rows held back, and so do the properties:
`DividesOnlyUnheld` says that no other row is to blame for the division by zero,
and `HeldBelowActualThreshold` is about any 64 ms, not only those between two
resets. For the rest, see disagreement (g).

The differences of `access()` are unsigned (`WordSize`; the code's 2^32 is beyond
TLC's integers, and any value above the threshold wraps in the same place). A row
is a counter, which rows of the same number in different ranks share (1119).

**MemCtrl.** A packet is a sequence of pieces, each a burst address and the
bytes of it that the packet touches: enough to tell split, merged and covered
accesses apart. The pieces that go to a queue are `Select`ed by their positions
in the packet, in order, as the loops over the bursts do. Time is abstracted: an event that is scheduled may fire at any
moment, and a refresh may come at any moment. `processNextReqEvent` is one action per
way its turn can end. Under `frfcfs` any burst to a rank that is not refreshing
may be chosen, as the open rows, which are not modelled here, decide; under
`fcfs` the first. A rank is what `isBusy` and `drain` ask of it. A burst to a rank in
`PWR_IDLE` makes it `opening`; it leaves that state only when its activate event
fires (`RankOpens`), which may be after the next turn of the loop, and a refresh
does not end before. As time is abstracted, the response to a read may come before
`RankOpens` too, which real timings exclude: a superset. `OwesNothing` and
`DrainedOwesNothing` say what a drain leaves behind; that a rank is at rest then is
not among it (disagreement (h)). The requestor,
outside the controller, keeps a refused packet and sends it again after the
retry, as gem5's port protocol demands. A packet's bursts must fit into what an
idle controller leaves free (`MemCtrlAssumption`): a write split into more
bursts than the write buffer has above its low threshold would be refused for ever.
`owed` counts for each packet acceptances less answers; it is the one variable of
`MemService`, the abstract specification.

**DRAMRank.** Time is discrete and relative: every time in the state is a
distance from the current tick, so that the state space is finite. `eventq` is
gem5's event queue with its order within a tick, last in first out
(`sim/eventq.cc`), on which the rank code relies: a power transition scheduled
for "now" goes before a turn already scheduled for the tick. One action per
handler (`processActivateEvent`, ..., `processRefreshEvent`, `processPowerEvent`,
`processWakeUpEvent`) plus a turn of the controller and a tick. The handlers are
operators on a pair of event queue and rank state, composed in the order of the
code; `checked` and `drained` are the loops of `isBusy` and `drainRanks` over the
ranks, as functions of how far the loop has come. The controller is reduced to the number of bursts that wait for each rank.
A bubble is added to the end of the last burst and cut as in `mem_ctrl.cc`
958-960; `mem_interface.cc` 508-515 takes the bubble of a table lookup back by a
burst's latency. The column command of a burst may come later than the bank and
the bus allow by any member of `Slack`, which stands for the constraints not modelled
(tRRD, tXAW, bank groups, turnaround, command bandwidth).

`RefreshCycle` is what `MemCtrl` takes a rank to be: a refresh that comes due
may wait for a pending turn, the rank then takes no burst until refreshed, by then
every read of it is answered, and the loop is running again. `DRAMRank` implements
it, so that the two models, one with queues and without time, one with time and
without queues, fit together.

## 3. Runs

| Run | Instance | Shows |
|---|---|---|
| `misra_gries` | 2 banks, 4 rows, 2 entries, threshold 2, 5 accesses a window | `NoAssertFails`, `NoMissedAggressor`, `MitigationBudget`, and `DetectorInv`, the inductive invariant of the proofs |
| `quarantine_windows` | 3 rows of one group and line, 3 slots, 1 set of 2 ways, drain after 1 miss | `TablesInverse`, `GroupCounts`, `CacheCoherent`, `VerdictsCorrect`, `NoAssertFails`, `QuarantineLasts` |
| `quarantine_self` | 6 rows, 2 slots | violation, finding 1 |
| `aqua` | 4 rows, 2 groups, 2 detector banks, 3 slots, a cache of 1 entry, tables in DRAM | `AggressorMoves`, `DelayBounded`, the refinement `IsolationSpec` |
| `row_swap` | 7 rows, room for 2 pairs in 3 tuples, 1 mitigation a window | `NoAssertFails`, `SwapsAreInvolution`, `SwapLasts`, `SwapsCharged` |
| `block_hammer` | 2 rows, window of 4 ticks, threshold 5, black list from 2, latency 0 or 1, reads and writes | `DividesOnlyUnheld`, `HeldBelowActualThreshold` |
| `mem_ctrl` | 1 rank, 5 bursts, 5 packets, read buffer 2, write buffer 5 with thresholds 3 and 4, `frfcfs` | `AssertsHold`, `BurstsAccounted`, `WriteTurnHasWork`, `DrainedOwesNothing` |
| `mem_ctrl_live` | 2 ranks, 3 packets, two of them split over both ranks, `fcfs`, fairness | `NoLostWakeup`, the refinement `ServiceSpec`, `RefusedIsAccepted`, `DrainEnds` |
| `mem_ctrl_drain` | 2 ranks, 4 packets, `frfcfs` | violation, finding 2 |
| `dram_rank` | 2 ranks of 1 bank, timings in the order of DDR4, reads and drains | `AssertsHold`, `RefreshRestarted`, the refinement `CycleSpec` |
| `dram_rank_power` | 1 rank of 2 banks, reads and writes, power-down and self-refresh | `ScheduledOnce`, `EventsCounted`, `AssertsHold` |
| `dram_rank_bubbles` | 1 rank, DDR4 timings in units of 50 ns, rounded up, bubbles of 0, 2 and 165 units | `AssertsHold`, `RefreshInTime` |

Every run of a component also checks its `TypeOK` (in `DRAMRank`, as a part of
`AssertsHold`).

Why the bounds are enough:

- 4 rows for 2 entries: two rows are always outside the table, so evictions
  chase each other and the spill counter reaches threshold - 1; the window ends
  one access after a multiple of the threshold, where one entry too few would
  show; and one bank's access ends the other's window. The theorems of section 4
  remove the bounds.
- 3 slots: head, previous head and tail may all differ, and the ring may be
  lapped. 3 rows of one group with 2 ways make partial hits, and a choice
  of victims among clean and dirty entries. In `aqua` there is one more row than
  slots, so that a slot is taken from another row, 2 rows to a group tell a partial
  hit from an exact one, and a cache of one entry forces every eviction; the bound
  of eight table accesses in `DelayBounded` is reached.
- 2 pairs with one mitigation a window are the smallest table in which a reswap
  locks everything the table is sized for and the pair to swap back is the only
  unlocked one.
- A row held back is delayed twice between the black list and the threshold, at
  every age of the window, so that the quotients also round; two rows make one
  row's access end the other's window, and let one be held back while the other
  runs into the division by zero. Every mixture of reads and writes of a row up to
  that point occurs, in parallel or one after the other, and spans that reach over
  two windows reach 2 * (threshold - 2).
- The packets of `mem_ctrl` are a read of one burst, one of two, a write of a
  part of the first burst (which covers one read and not the other), and two
  split writes; the write queue can be above the high threshold, between the two
  and below the low one, where the turnaround has its three conditions. With two
  ranks in `mem_ctrl_live` one refreshes while the other is chosen, and a packet's
  parts wait for different ranks.
- `dram_rank` and `dram_rank_power` have room for several refreshes' worth of
  bursts in an interval and let requests arrive at every tick, so that a refresh
  meets every phase of a burst, a precharge, a power transition and a drain. In
  `dram_rank_power` the banks are alike and permuted (symmetry; no temporal
  property is checked there). The drain is left out of two of the three
  (`RunningSpec`): see disagreement (c) for power-down.
- 50 ns is the largest unit that tells the 90 ns of a table lookup (2 units)
  from a burst; the other constants are rounded up to it (tREFI 7.8 us is 156,
  tRFC 350 ns is 7). tRTP is 2 units, so that the rounded timings keep the order
  of the real ones: a read's data, tCL + tBURST after the command, are there
  before the precharge that may follow tRTP after it is over, tRP later. 165 units are three row swaps of RRS at the default of 2740 ns.

No state constraint is used: all models are finite. Deadlock is checked in every
run but `block_hammer`: its system does stop, at the division by zero.

**Fairness** is assumed only in `mem_ctrl_live`. It is weak for each of the
controller's events and for the ranks, because an event of the simulator's
queue fires at its time, a refresh comes due every tREFI, and it ends
(`RefreshRestarted` and `RefreshInTime` are about that); the activate of a burst
is such an event too (`RankOpens`). It is strong
for the end of a refresh with no other under way, and for a turn of the loop with
no rank refreshing: a refresh takes tRFC, a small part of tREFI, and restarts the
loop at the tick at which it ends, so that again and again the loop has its turn
between two refreshes. Without this a model without time lets the refreshes of
two ranks alternate for ever, so that each turn finds its rank busy. The
requestor of a refused packet sends it again after the retry. Nothing else is
fair: requestors need not send, drains need not be asked for. Liveness is checked under `fcfs`. Under `frfcfs`, the default,
it does not hold and the code does not claim it: row hits are preferred
whatever their age, so that a stream of them can starve a request.

### Findings

1. A flagged row that is already in the slot at the head of the ring is thrown
   out of quarantine by its own mitigation (`rowhammer_mitigation.cc:987`, 1016):
   all three updates of `quarantineRow` concern the same slot and the last ones
   win. `QuarantineLasts` therefore excepts these rows. The region of the
   artifact is much larger than a window needs, so the head must come round
   to the slot over several windows.
2. `drain()` says that it kicks the write queue into action
   (`mem_ctrl.cc:1620-1621`), but the condition of line 1622 is
   `!totalWriteQueueSize && !nextReqEvent.scheduled()`: it starts the loop when
   there is no write. Writes at or below the low threshold wait until the next
   refresh restarts the loop, and only then leave. `DrainEnds` holds, but only
   thanks to the refreshes.

### Further disagreements

These have no run of their own; each is reproduced by changing constants of a
run as said.

- (a) `new Tracker[...]` leaves `spill_counter` uninitialised
  (`rowhammer_detector.cc:9`). If the simulation begins before tick 64 ms, so
  that no reset precedes the first access, and the counter is not 0, that access
  fails `assert(0)` (line 93). The artifact's runs start from later checkpoints.
  `MisraGries.cfg` with `ColdStart = TRUE` and without `DetectorInv` (which such
  an initial state already violates) violates `NoAssertFails`; the theorems have
  the condition `SafeStart`.
- (b) With `rh_bh_black_list_threshold` close to 100, rows held back are no
  longer safe. `BlockHammer.cfg` with `BlackListThreshold = 4` violates
  `DividesOnlyUnheld`: the first delay is already the undefined one. With 5,
  BlockHammer's unsigned difference (`rowhammer_mitigation.cc:1125`) wraps at the
  threshold, the delay nearly vanishes, and the halving of the threshold
  (`mem_ctrl.cc:162`) does not keep rows below the actual one:
  `HeldBelowActualThreshold` is violated.
- (c) `drainRanks` wakes every rank in self-refresh (`mem_interface.cc:1016`),
  also one that `isBusy` has already told to wake (917): the wake-up event is
  scheduled twice, which the event queue's assert refuses. `DRAMRankPower.cfg`
  with one bank, no writes and `SPECIFICATION Spec` violates `ScheduledOnce`.
  Power-down is off by default.
- (d) Only bubbles of 7.8 us or more are cut (`mem_ctrl.cc:958-960`). One between
  7.0 and 7.8 us is not, and can delay a refresh beyond the point at which the
  simulator gives up or schedules in the past (`mem_interface.cc:1445`, 1502).
  `DRAMRankBubbles.cfg` with `Bubbles = {0, 150}` violates `RefreshInTime`. With
  `rh_rrs_swap_delay` at 2.5 us instead of the default 2.74 us, three swaps make
  such a bubble.
- (e) The bubble is added to the end of the last burst however long ago that was
  (`mem_ctrl.cc:954`, 960): a bus that has been idle swallows a part of it or all.
  Visible in `BusFreeAt`; no property says otherwise.
- (f) `checkRefreshState` is called only for the rank of the read that empties
  the response queue (`mem_ctrl.cc:657-675`). With timings like HMC's, where a read
  is answered long after its bank could be precharged, a refresh of one rank may
  wait for a read whose response is not the last, and nobody restarts it.
  `DRAMRank.cfg` with `tRCD = 3`, `tRAS = 7`, `tCL = 3`, `tRFC = 6`, `tREFI = 32`
  violates `RefreshRestarted`; with the order of DDR4's timings it holds.
- (g) BlockHammer does not throttle writes, nor reads that are outstanding
  together (section 2). Such a row reaches `threshold - 1` accesses in a window, and
  `access()` divides by zero (`rowhammer_mitigation.cc:1124-1130`).
  `BlockHammer.cfg` with the invariant `~aborted` shows it, with four accesses of
  one row in one tick. The defense's promise therefore depends on requesters that
  read only and one at a time per row; `heldBack` is this condition, and no more
  is claimed.
- (h) `processNextReqEvent` says "not done draining until in PWR_IDLE state
  ensuring all banks are closed" (`mem_ctrl.cc:1100-1102`), but a rank leaves
  `PWR_IDLE` only when its activate event and the power event it schedules have
  fired (`mem_interface.cc:383-389`, 1251-1259). The next turn can be scheduled for
  the tick of the activate (`mem_ctrl.cc:1284-1285`) and, scheduled later, fires
  first. After a draining controller's last write this turn finds the queues empty
  and the rank idle and signals that the drain is done, with an activate pending.
  `MemCtrl.cfg` with `Packets = {"writePart", "writeTwo"}`, `Reads = {}` and the
  action property `[][drainState' = "Drained" /\ drainState # "Drained" =>
  \A r \in Ranks : ~opening'[r]]_vars` shows it, by a write, `drain`,
  `SwitchToWrites`, `IssueWrite`, `NothingToDo`. (With reads the shortest trace is
  one that real timings exclude, a response before its activate.)
  The consequence is small:
  the script asks all objects to drain again until all say that they are
  (`src/gem5/src/python/m5/simulate.py:201-219`), and `drain()` then finds the
  rank open, or simulation has gone on in the meantime.

## 4. Proofs

Every theorem holds for every value of the constants that the module's
assumption allows and that satisfy the hypotheses named here, so none depends on
the bounds of section 3. Each safety
invariant is proved from an inductive invariant of its module, which TLC checked
on the runs' instances before it was proved; each step of a proof treats one
action.

**Detector** (`MisraGriesProofs`), for any banks, rows, `ActsPerWindow` and
`threshold` with at least one entry:

- `TypeCorrect`: `TypeOK`, whatever the spill counter held;
- `EstimatesRight`, `AssertsHold`, `AggressorsFlagged`, `BudgetKept`:
  `DetectorInv`, `NoAssertFails`, `NoMissedAggressor` and `MitigationBudget`,
  under `SafeStart`: the simulation starts after 64 ms or the spill counter is 0.
  Disagreement (a) shows that the condition is needed.

`DetectorInv` is inductive: per bank,

- `IndexCorrect`: index and entries describe the same rows;
- `SlotsAhead`: no entry is behind the spill counter, unused ones are at 0;
- `NeverUnderestimates`: a row's accesses since its last flag are at most its
  count modulo the threshold if it is tracked, the spill counter if not;
- `Accounted`: the counts of the entries and the spill counter add up to the
  accesses of the window, and the open counts with `threshold` per flag too.

Sums over the entries are cardinalities of sets of tokens (`Tokens`,
`OpenTokens`), because a recursive sum would need induction over data. The
argument: `Accounted` and `SlotsAhead` give `numEntries * spill + spill <=
accesses`, so that the spill counter stays below the threshold
(`SpillBelowThreshold`). A row that returns after an eviction takes over the
spill counter's value, which is below a multiple of the threshold and not behind
the row's own accesses, so the next multiple is not jumped over.

**Quarantine** (`RowQuarantineProofs`), for any numbers of rows, slots, groups,
sets and ways, tables in SRAM or DRAM, and any verdicts of the detector:
`TypeCorrect`, `TablesAgree` (`TablesInverse`), `GroupsCounted` (`GroupCounts`),
`CacheCorrect` (`CacheCoherent`), `VerdictsHold` (`VerdictsCorrect`),
`AssertsHold` (`NoAssertFails`) and `DelayIsBounded` (`DelayBounded`). The
invariant `RQInv` is the conjunction of all but `VerdictsCorrect`: each needs
the others. That `removeRow` subtracts from a counter above 0 follows
from `GroupCounts`, and `GroupCounts` from the inverse tables (the row that
leaves was in its group); that the cache may answer for the tables needs both. The
lemmas are about one thing at a time: what a block written to the cache leaves
alone (`BlockWritten`, `InsertOK`, `RemoveOK`), what a row that joins or leaves
its group does to the counts (`JoinCounts`, `LeaveCounts`), what the two tables
are after a mitigation or a drain (`QuarantineTables`, `DrainTables`).

**Windows** (`RowQuarantineProofs`): `RowsStayQuarantined`
(`QuarantineLasts`). The invariant `WInv` adds the ring: the slots used in this
window are those from where the head was when it began (`prevQRHead_ID`) to
where it is, or all (`RingUsed`); and unless the ring has been lapped the tail
has not passed the beginning of the window (`TailBehind`), so that neither the
head nor a drain finds a slot of this window.

**AQUA** (`AquaProofs`), detector and quarantine together: `AggressorsMove`
(`AggressorMoves`), `AquaDelayIsBounded` (`DelayBounded`) and the refinement
`RowsIsolated`: `AquaSpec => IsolationSpec`. `AquaInv` joins `RQInv`, the
detector's invariant, and one bridge: a row was accessed at its place at most as
often as since its last flag (`here[r] <= since[bankID(r)][rowID(r)]`). It needs
that `decodeAddr` takes different rows to different counters (`DecodeOK`).
Every step of AQUA is an `Access` of `RowIsolation`: places stay apart because
the tables are inverse, at most one other row is sent home, and the row
accessed is below the threshold or moves.

**Row swap** (`RandomizedRowSwapProofs`), for any bank size and number of
entries: `TypeCorrect`, `Involution` (`SwapsAreInvolution`), `AssertsHold`
(`NoAssertFails`), `SwapStays` (`SwapLasts`) and the action property
`MovesCharged` (`SwapsCharged`). `RRSInv`: the table is well formed, no fuller
than its limit, the pairs locked are at most two per mitigation of the window,
and the rows mitigated are in locked pairs. Since the limit is two pairs per
entry of the detector and the detector flags at most `numEntries` rows a window
(`BudgetKept`), a table over its limit has an unlocked pair. That a row can be
drawn is a count: twice the pairs, the row itself and the detector's entries are
fewer than the rows of a bank (`RRSAssumption`).

**BlockHammer** (`BlockHammerProofs`), for any window, threshold, rows and
latency, and any reads and writes, under `EarlyBlackList`, that a row is
black-listed at least two accesses below the threshold (the default, 50 %,
satisfies this for every threshold from 3 on): `TypeCorrect`,
`DivisionOnlyUnheld` (`DividesOnlyUnheld`) and `HeldRowsBelowThreshold`
(`HeldBelowActualThreshold`). The invariant: no row passes threshold - 1, where
the division stops it; a row there is not held back, and a row held back with
threshold - 2 accesses is not answered before the window ends (`LastIsHeld`); and
the accesses of a span of ticks are those counted if the span lies within the
window, at most threshold - 2 more if it reaches back into one in which the row
was held back (`SpansTwoWindows`). Disagreement (b) is what happens without
the condition on the black list, (g) what happens to rows not held back.

**Controller** (`MemCtrlProofs`), for any packets, splits, ranks, buffer sizes,
thresholds and both scheduling policies, with `MemCtrlAssumption`:
`TypeCorrect`, `AssertsNeverFail` (`AssertsHold`), `BurstsKept`
(`BurstsAccounted`), `WritesToIssue` (`WriteTurnHasWork`), `NoWakeupLost`
(`NoLostWakeup`), the action property `DrainsSettled` (`DrainedOwesNothing`), and
`AnswersOnce`: the controller implements the safety part of `MemService`. The
invariant `Inv` has, beside the types, `QueuesOK` (buffers, and different
addresses in the write queue), `WriteTurnHasWork`, `RetriesOK` and `AnswersOK`.

- `RetriesOK` is why no wakeup is lost: a refused read leaves a read to answer,
  since otherwise it would have fitted; a refused write leaves more writes than
  the low threshold, at which the loop does not stop; and whatever stops the loop
  leaves nothing to do or a rank refreshing, which restarts it. A write turn that
  finds no write would stop the loop for good, so `WriteTurnHasWork` is part
  of the argument.
- `AnswersOK` adds to `BurstsAccounted` that a packet is owed one answer or none
  and that one that is owed an answer has a burst in a queue. So different
  packets owed an answer have different entries, and no more are held than the
  read buffer has.
- `DrainsSettled` needs both: `drain()` and `signalDrainDone()` look at queues only,
  and that empty queues leave no answer, no retry and no burst helper is what
  `AnswersOK` and `RetriesOK` add (`EmptyOwesNothing`).

**Ranks** (`DRAMRankProofs`), for any number of ranks and banks, any `Slack` and
bubbles and all three page policies: `AssertsNeverFail` (`AssertsHold`),
`NeverScheduledTwice` (`ScheduledOnce`), `CountsEvents` (`EventsCounted`),
`RefreshAlwaysRestarted` (`RefreshRestarted`), `RefreshesInTime`
(`RefreshInTime`) and the refinement `ImplementsRefreshCycle`:
`Spec => CycleSpec`. Each has three hypotheses, and disagreements (c), (d) and
(f) show that none is idle:

- power-down is off (`~enableDRAMPowerdown`), as by default;
- `OrderedTimings`: `tCL + tBURST < tRTP + tRP`, 17.5 ns against 21.7 ns in
  gem5's DDR4-2400. It makes every response come before the rank's last precharge;
- `BubblesFit`: the last column command that a turn can give before a refresh,
  put off by the largest bubble that is not cut or by a row conflict, with its
  precharge, the refresh's own and tRFC, fits in tREFI. For DDR4-2400, where
  `PrechargeLag` is 32.5 ns, that is a bubble and a slack of some 7.36 us
  together: the cap of 7 us fits, and so does every bubble below it; one
  between 7.36 and 7.8 us, which is not cut, does not.

The instances of `dram_rank` (with 8 for `last`: 8 + 3 + 2 + 2 + 4 < 20) and
`dram_rank_bubbles` (with 143: 143 + 3 + 1 + 1 + 7 < 156) satisfy both. The
second could not do with one unit more.

The inductive invariant is `Ctl /\ Times(last)`.

- `Ctl` is about order. The queue is sorted and has each event once. Whatever is
  under way in a rank (an activate, a write, a response) ends before a precharge
  that is scheduled or that an open bank will need (`AllCovered`): this is how
  the code can take the last precharge for the end of everything. A power
  transition scheduled for the current tick is at the head of the queue, so that
  nothing comes between a decision and its effect (`PowerOK`), and each phase of a
  refresh has an event that leads out of it (`PhaseOK`). `Counted` is
  `EventsCounted` with the refresh's own part.
- `Times(last)` is about how late. `last` bounds the time until the last column
  command; a refresh that waits is overdue by at most `last`, the precharge lag
  and one precharge (`RankTime`), because it takes no new burst once it is due
  and the turn it waits for is no further away than the bus is free (`BusTime`).

`Ctl` alone is not inductive: that the end of a refresh schedules the next in
the future needs `Times`. The refinement maps a rank's refresh state to `view`
(`REF_IDLE` is idle, `REF_DRAIN` drains, all else is busy), the request event to
`loop` and the responses under way to `flying`; a turn of the loop is a `Turn`, a
tick or a precharge leaves the abstract state alone.

The lemmas on the event queue (`ScheduleOK`, `RemovedOK`, `DescheduleOK`) say
what each operation does to what is scheduled and when; the handlers' lemmas use
only these. The loops over ranks are functions on `0 .. numRanks`, whose facts
(`CheckedAll`, `DrainedNone`) follow by looking at the first rank at which they
would fail.

Only model-checked:

- liveness (the fairness part of `ServiceSpec`, `RefusedIsAccepted`,
  `DrainEnds`): the prover does not handle fairness;
- the ranks with power-down on: `ScheduledOnce`, `EventsCounted` and
  `AssertsHold` in `dram_rank_power`, without drains.

## 5. Not modelled

- of the controller: NVM, QoS priorities and turnaround policies (one priority
  and none in the artifact's configurations), `recvAtomic` and `recvFunctional`
  (they bypass the queues), the change of timing mode with `suspend()`.
  `processRespondEvent` reads the rank of `mem_pkt` (`mem_ctrl.cc:669`, 673) after
  it has deleted it (654): undefined, but nothing is allocated in between, and
  the models take the value read to be the old one;
- of the DRAM interface: tRRD, tXAW, bank groups, turnaround gaps and command
  bandwidth one by one (they are `Slack`), DRAMPower, NVM;
- whether the traffic keeps to 1360000 accesses of a bank in 64 ms: it needs tRC
  over a window of 64 ms, which is out of reach of a model with ticks;
- the Bloom filter and its hash: unreachable in every configuration;
- statistics, log output and SRAM latencies: they feed no decision;
- `getRemappedAddr`: its only call is commented out (line 275);
- the rest of gem5. The repository is a copy of the whole simulator, close to a
  million lines of CPUs, instruction decoders, caches, Ruby, devices and bundled
  libraries, none of which the artifact changes or is about. The modules cover
  what it adds and what the additions act on: the share of the whole is small
  and stays so.

## 6. Plan

1. Done: detector and its proof, quarantine, cache, row swap, BlockHammer,
   controller, ranks, the composition of detector and quarantine, and the
   abstract specifications `RowIsolation`, `MemService`, `RefreshCycle`.
2. Done: proofs about the detector, the quarantine, the row swap, BlockHammer,
   the controller and the ranks without power-down, and of the refinements
   `IsolationSpec`, `CycleSpec` and, for safety, `ServiceSpec`.
3. The ranks with power-down: the same invariant with the power states, the
   transitions between them and the wake-up event in `PowerOK` and `PhaseOK`, under
   a hypothesis that excludes disagreement (c).
4. `CountingBloomFilter`: no false negatives as long as only what was added is
   deleted, should a configuration come to use it.
