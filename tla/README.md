# Verification of the sqware kernel

sqware is a RISC-V microkernel with its own user-land: a kernel of about 30 000
lines of Rust, the service programs that run on it, and the crates they share.
This directory holds TLA+ models of the kernel's concurrent core, the TLC
configurations that check them on small instances, and TLAPS proofs of the facts
that matter most, for every number of tasks, harts and teams.

Paths below are relative to `src/`; `work/` stands for `kernel/src/core/work/`.

## 1. Inventory of the system

| part | where | state | operations |
|------|-------|-------|------------|
| conductor | `work/room/conductor` | per hart: running slot, FIFO of ready tasks, ticks left | starve, advance, swap, seat, rotate, dispatch, steal, run, fetch |
| scheduler | `work/room/scheduler` | the conductors of all harts, `WAITING` bits, roster of ids | launch, kick, pick, nudge, yell, publish, muster, remove_from_starved |
| messenger: waiting | `work/room/messenger/wait` | wait sites (chain, beacon, forwards), tickets and their holders | wait, wait_until, park, wake, knock, signal, wipe, redeem, join, mail_await |
| messenger: dying | `work/room/messenger/{doom,reap}.rs` | husks, exit notes | suspend, cull, slay, doom, quit, reap, bury |
| deadlines | `work/room/deadline.rs` | heap of due ticks, per-hart timer | tock, mute, drain, beat_until |
| halt | `work/room/halt`, `work/unit/tally.rs` | barrier, `HALTING`, counters of published and buried tasks | done, halt, barrier |
| task and team | `work/unit/task`, `work/unit/team` | task axis, team stage and phase, tree of team lives, heirs, receipts | publish, embark, debark, build, spawn, slay, retire, oust |
| exit guard | `work/unit/team/exit` | dormant, armed or tripped per team, death count | guard, unguard, trip |
| mail | `work/mail` | Hole (bounded queue with reservations), Nole (one bit), Tole (group), Pole | push, pull, reserve, ring, hush, attach, detach, seal |
| pend | `work/pend` | capability (pie) tables of tasks, accords, lineage | accord, hand over, narrow, cull, forget |
| memory, flat | `kernel/src/core/memory/flat` | block and slot allocators, custody, residency | allocate, release, split, merge, transact |
| memory, nest | `kernel/src/core/memory/nest` | page tables, address space ids, shoot-down | map, unpublish, synchronize, vacate |
| locks | `kernel/src/machine/sync` | spin, reentrant and once locks with levels | lock, try_lock |
| traps, calls, boot | `kernel/src/entry` | trap frames, call decoding, boot order, hooks | timer, soft, external, envcall, start |
| shared crates | `crates/` | ipc sessions, execution, schedule, resource, mold, image, lisp | codecs, planners, client side of the calls |
| user-land | `programs/src` | system control, drivers, services, shell | message handlers |

**How the parts interact.**  A trap enters `entry`, whose call handlers drive
`unit` (tasks and teams) and `room`.  Everything in `work` that moves a task does
so under one global reentrant lock, the commit lock (`work/commit.rs`); mail and
pend reach the room through wake keys only.  A dying task runs two hooks
(`messenger::doom`, `pend::doom`), is marked reaped, signals the joins on itself
and on every team above it, becomes a husk, and is buried by whichever hart next
passes through `run`.  When every published task is buried the harts meet at the
halt barrier.

**What makes it hard** is what happens between two commit sections.

- A waiter looks for a beacon before it takes the lock.
- A reaper lets go of the lock between dooming a task, culling its
  descendants, marking it reaped, and signalling its joins; other harts spawn,
  pause, slay, join and oust meanwhile.
- Deadlines are met on any hart and may be stale.
- Pauses of a task, its team and its ancestors overlap.
- Lists of heirs are walked by index with no lock across the indices.
- An idle hart looks for work, sets its bit, sleeps and clears its interrupt
  with no lock at all, while kicks come in.
- `tally::done` reads two counters one after the other.

The hazards, each at its line and with the properties that watch it, are listed
in `PROJECT.json`.

## 2. The modules

| module | models | kind |
|--------|--------|------|
| `Room` | conductor, scheduler containers, waiting, dying, task and team states, joins | specification |
| `MCRoom` | instances of `Room`: a pair, a line of teams, a fork | TLC |
| `Idle` | the idle loop, kick, the tick budget, tally and halt, cut at every unlocked access | specification |
| `MCIdle` | instances of `Idle` | TLC |
| `RoomTypes`, `RoomTypesRun`, `RoomProofs` | type correctness of `Room` | proofs |
| `RoomContain`, `RoomSwap`, `RoomLeave` | containment of tasks in `Room` | proofs |
| `IdleProofs` | no lost wake-up, one closer | proofs |

### Room

One action is one section under the commit lock.  Code that lets go of the lock
between two sections is two actions, joined by `pc[h]` (what hart `h` is in the
middle of) or by `rite[t]` (how far the death of `t` has come) with `reaper[t]`,
the hart that carries it out.

| variables | code |
|-----------|------|
| `axis`, `hart`, `paused`, `wait`, `cause` | `TaskState` and `TaskAxis` of a task |
| `running`, `starved` | the slot and the queue of each `Conductor` |
| `held` | the pens of the teams (`team/tasks.rs`) |
| `chain`, `pend`, `timers` | `Site` chains and beacons; holders with an armed deadline |
| `rite`, `reaper`, `at`, `owed`, `todo` | the progress of `reap`, `bury`, `cull`: whose turn it is in the heir list, which keys are still to be signalled, which tasks a hart still has to suspend |
| `tally` | `PUSHED` and `REAPED` |
| `built`, `phase`, `heir` | `TeamStage`, `TeamPhase`, `Task::heir` |
| `pc`, `call` | the hart's place in the code; the key and limit of a wait between its two halves |

Choices of abstraction.

- Queues and chains are sets, so a pop returns any element; the FIFO order of
  the code is one of the orders allowed.  `Idle` keeps the order.
- Which hart `launch` picks is free.
- Which deadlines are due is free.  Ticket numbers are reused once nothing
  names them, which is harsher than the code's counter.
- Plain keys (`Slot`) are woken by anybody at any time.  Keys of tasks and
  teams are woken by reapers only.
- Whom a call may reach follows `Task::clan`: the caller's team and the teams
  below.
- `retire` may refuse at any time (`DigFail`): what makes it refuse besides live
  descendants lies in memory and is not modelled.
- The tree of teams is a constant: a team and a task have one place each and
  are built at most once.

### Idle

Here the section of a kick is itself cut, at each access to the `WAITING` bits
and to the pending software interrupts, because idle harts use both with no
lock; `lock` says which hart is inside.  `pc[h]` follows `run`, `fetch` and
`wait` line by line.  `tally::done` takes two steps, one per counter.  Queues are
FIFO sequences and `ticks` is the budget `advance` counts down.  Tasks are
blocked, queued, running, husks or buried; pauses and teams are left to `Room`.
`WfiStray` lets wfi end for any reason; `Evasive` says when `try_lock` of a
thief may miss a victim.

## 3. What is checked

All instances have two harts.  `Symmetry` permutes harts (they are
interchangeable in both specifications), and in the fork also the empty teams.
It is used with safety properties and action properties only.

| run | instance | distinct states | result |
|-----|----------|-----------------|--------|
| `room_small` | root and one task in a team below it, one plain key, two tickets | 16 204 | holds |
| `room_line` | three tasks in three teams, one below the other, one ticket | 346 920 | holds |
| `join_heard` | as the pair | | violated |
| `heirs` | the root's team with a second task; three teams under the root | | violated |
| `idle_safe` | three tasks | 169 328 | holds |
| `idle_live` | two tasks, fairness | 66 972 | holds |
| `idle_last` | two tasks | | violated |
| `early_halt` | two tasks | | violated |

The bounds: two harts are enough for every race between a caller and a reaper, a
waiter and a waker, a thief and a victim.  Two tasks let one act on the other
while it waits, runs, is queued, paused or dying; the line of three adds cascades
over two generations and a join on a team that is emptied from below; the fork
adds several heirs of one task.  Two tickets let a stale deadline meet a new
wait of the same task.  `room_small` checks for deadlock: while a hart exists
there is always a step.  The others do not, because with tickets used up
or after a reset the system may stop.  `heirs` is searched under the constraint
`Unforced` (nobody paused or slain), which only shortens the search for a
counterexample.

### Properties of Room

- `Contained`: between commits each task is in exactly the container its state
  names.  This is what the assertions of `suspend` rely on.
- `TimersCurrent`: an armed deadline belongs to the wait its task is in now.
- `BeaconOrWaiter`: no beacon stands where somebody waits; a wake in the gap of
  `block_with_call` is not lost.
- `SlotFilled`: the panics on an empty running slot are unreachable.
- `JoinOwed`: a join that would poll true is owed a signal.
- `CullComplete`: a live task of a closed team is about to be culled.
- `NoneStranded`: nobody stays parked with nobody to release it.
- `TallyExact`: the counters count what they should.
- `DeathFinal`, `CompleteStays`, `StoppedStaysOff` (action properties): the first
  cause of death stays; a closed and reaped subtree stays so; a stopped task is
  not put on a hart.

### Properties of Idle

- `NudgedOrEmpty`: a hart in wfi with work in its own queue has been or is
  about to be interrupted.
- `OneCloser`: at most one hart runs the closing hooks.
- `QuietReset`: when it does, all harts have arrived and no task is left, even
  though `done` may have sent some of them early: the hart that published the
  last task asks again after that.
- `HungryFed`: a queued task gets a hart, as long as no hart has gone to the
  barrier.
- `HaltReached`: once all tasks are buried, and nobody had gone to the barrier
  before, the machine is reset.

Fairness (`FairSpec`), per hart.  Weak for steps that need no lock or are made
under the lock: a hart executes.  Strong for steps that first take the commit
lock: it is a compare-and-swap lock without a queue
(`machine/sync/reentrant`), and that a spinning hart gets it in the end is an
assumption.  Strong for the interrupt of a hart in user code: `prepare` and
`advance` arm its timer each time.  Nothing is assumed of tasks, devices and the
timers of idle harts.

## 4. Where the code and its documents differ

- `heirs`.  `messenger::doom` and `Task::retire` walk `Task::heir` by index
  with no lock across the indices; a peer's `oust` removes an element and the
  next heir is skipped.  The counterexample buries a task while a team built
  under it is open and has a live task.  The refactoring plan
  (`docs/system-next-refactor-plan.md:403-405`) requires that child teams are
  closed before the task that holds them retires.
- `early_halt`.  `tally::done` loads `PUSHED`, then `REAPED`.  A publish and a
  burial in between make it answer true with a task alive, and `halt` does not
  return: the hart is lost to the system, and a task in its queue waits for a
  thief.  `unit/tally.rs:27` says that done means that all tasks were collected.
- `join_heard`.  A team slain or retired while it is under construction and
  empty makes a join on it Complete (`docs/driver-composition.md:148`) and
  signals nobody; a join that waits already sleeps on.
- `idle_last`.  `halt/mod.rs:40` says that the last hart closes the system; it is
  the first to swap `HALTING`.

## 5. What is proved

For all values of the constants that satisfy `TreeAssumption` and
`NameAssumption` (the teams form a tree whose sires live in the parent team;
names are distinct), respectively `IdleAssumption`:

- `TypeCorrect` (RoomProofs): `Spec => [](TypeOK /\ SlotFilled)`.  Inductive
  invariant `TypeInv`: the types, `SlotFilled`, and `CallMade` (a hart between
  the halves of a wait has a key), since a step from `"block"` or `"user"` reads
  the slot and the call.
- `Containment` (RoomLeave): `Spec => []Contained`.  `Contained` is not
  inductive: that a seat matches needs `HartNamed` (a task on
  a hart names it, one that is neither there nor doomed names none), and that
  marking a task reaped empties no seat needs `HooksOff` (a task whose hooks run
  has left its hart).  `RoomInv` is their conjunction with `TypeInv`.  One lemma
  per action; `Swapped`, `Lands` and `SwapKeeps` carry the part shared by block,
  quit, rotation, parking and the beacon.
- `NoLostWake` (IdleProofs): `Spec => [](NudgedOrEmpty /\ OneCloser)`.
  Invariant `IdleInv`: besides a weak typing, `SleepBit` (a hart between
  `idle::sleep` and `idle::wake` has its bit set, so the test of a kick sees it)
  and `Flagged` (who closes the system has set the flag).  The lemma `SoundStep`
  reduces each action to what it does to its own hart and to the harts it kicks.

Only model-checked: the other invariants and the action properties, and the
liveness properties (fairness and `ENABLED` are outside the prover's reach).

## 6. Plan

Done: `Room` and `Idle` with their runs and first proofs.  To come, in this
order.

1. `Hole` and `Tole`: reservations, pending rings, groups, seal; composed with
   the wait sites of `Room` (check, then wait, against ring and seal).  Abstract
   specification: a bounded FIFO that loses nothing it accepted; `Hole` refines
   it.
2. `ExitGuard`: arm, disarm and trip against deaths of members.
3. Receiving joins and receipts; forwarding and `mail_await`.
4. `Pend`: accords, hand-over, cull of derived capabilities.
5. `Flat` as a pure algorithm against a reference; custody transactions.
6. `Nest`: address space ids and shoot-down; with it the reasons for which
   `retire` refuses, and the liveness of burial.
7. The locks of `machine/sync`; the sessions of `crates/ipc`; the planner of
   `crates/schedule`; system control.

Proofs to come: `TimersCurrent` (tickets of waits are distinct),
`BeaconOrWaiter`, `DeathFinal`, `QuietReset`, and that `Idle` implements an
abstract scheduler in which a queued task is either queued once or running.

## 7. What is not modelled

How much is covered: the definitions map to about 2 100 lines of source.  That is
1 120 of the 2 740 lines of `work/room`, 780 of the 3 650 of `work/unit`, about
7 % of `kernel/src`, and about 1 % of all the Rust in the repository.  The results
above are about that core and say nothing of the rest.

Mail, capabilities, memory, locks, receipts, the exit guard and the user-land
are not modelled yet.  Left out for good: tracing and reports, console and
board, boot assembly, call decoding, codecs, and the halt beacon (a diagnostic).
Register contents, faults and the frames of tasks have no part in the
properties.
