# TLA+ specifications of zephyr-lang-rust

This directory holds TLA+ models of zephyr-lang-rust: the concurrent parts of
the `zephyr` crate, the code its `#[zephyr::thread]` macro generates, the
devicetree generator of `zephyr-build`, and the samples that use the library
from many threads or tasks; TLC configurations that model-check them; and TLAPS
proofs of all their safety properties and of both refinements. Paths below are
relative to the repository's root.

Run one configuration with `tlc -config <cfg> <module>` (the table under
[Runs](#runs) says which module goes with which file), and the proofs with
`tlapm <module>` for each module whose name ends in `_proofs`. The modules use the
TLA+ community modules `SequencesExt` and `FiniteSetsExt`.

## The system

The repository lets Rust programs run on the Zephyr RTOS. Most of it is a safe
face on C calls; the part worth modelling is what the Rust code adds to the
kernel's objects: ownership, lazily made state, wakers, and protocols between
threads, async tasks and interrupts.

| component | source | state | operations |
|---|---|---|---|
| blocking pool | `zephyr/src/blocking.rs` | a table of slots (state, lock, pointer to the future, runner, waker), a queue of slots, the waiting tasks, the once flag | `run`, poll and drop of its future, `claim`, `release`, `worker`, `run_op` |
| channels | `zephyr/src/sync/channel.rs`, `channel/counter.rs` | two queues of message buffers or one of boxes, two counters of handles | `send`, `try_send`, `send_timeout`, `recv`, `try_recv`, `recv_timeout`, clone, drop |
| `Mutex`, `Condvar` | `zephyr/src/sync/mutex.rs`, `sys/sync/mutex.rs` | a `k_mutex`, the `locked` flag, a `k_condvar` | `lock`, `try_lock`, guard drop, `wait`, `notify_one`, `notify_all` |
| philosophers samples | `samples/philosophers/src`, `samples/async-philosophers/src` | forks in a `Mutex`, in kernel objects, with a server thread, or in async semaphores | `phil_thread`, `take` and `release` of every `ForkSync`, `channel_thread`, `one_phil` |
| bench and embassy samples | `samples/bench/src`, `samples/embassy/src` | command channels, semaphores, a channel of results, a count of the results to come | `run`, `main_run`, the workers and their helpers, `SimpleMain::act`, `SimpleWorker::act` |
| thread pools | `zephyr/src/thread.rs`, `zephyr-macros/src/task.rs` | for each pool entry: state, arguments, `k_thread` | `acquire`, `acquire_old`, `start`, `join`, the generated startup |
| static threads | `zephyr/src/sys/thread.rs` | once flags of threads and stacks, boxed closures | `init_once`, `spawn`, `simple_spawn`, `closure::child` |
| work queues | `zephyr/src/work.rs`, `simpletls.rs` | reference counts, the kernel's queues, a table from threads to queues | `submit`, `submit_to_queue`, `handler`, `WorkQueueBuilder::start`, `get_current_workq` |
| kernel objects | `zephyr/src/object.rs` | the address an object was initialised at; a once flag | `ZephyrObject::get`, `StaticKernelObject::init_once` |
| timers | `zephyr/src/timer.rs` | the `k_timer` with its expiry function and user data, the pinned callback | `new`, `start_simple`, `start_callback`, `read_count`, `read_count_wait`, `restart`, `stop`, drop, `timer_expiry` |
| embassy support | `zephyr/src/embassy/` | a semaphore, a timer queue, a `k_timer` | `Executor::run`, `__pender`, `schedule_wake`, `check_alarm`, `set_alarm` |
| async gpio | `zephyr/src/device/gpio.rs` | installed flag, `pin_mask`, `fired`, wakers | `GpioWait::poll`, `install`, `register`, `callback_handler`, `has_fired` |
| i2c target | `zephyr/src/device/i2c/target.rs` | `registered`, the callback table | `register`, `unregister`, drop of the handle, the trampolines |
| `SpinMutex` | `zephyr/src/sync/spinmutex.rs` | a `k_spinlock`, the key of the guard | `lock`, `try_lock`, guard drop, sending of a guard |
| devicetree generator | `zephyr-build/src/devicetree.rs`, `devicetree/` | the parsed tree: paths, routes, numbers, resolved phandles and parents | `OrdMap::new`, `walk_node`, `phandle_walk`, `parent_walk`, `augment`, `RawInfo::generate`, `to_tokens` |
| everything else | see [What is not modelled](#what-is-not-modelled) | | |

How they interact. Async tasks run on the embassy executor; a task that needs
a blocking call uses the blocking pool, whose workers are threads that wait on
a kernel queue and wake the task through the executor's `__pender`. Channels,
`Mutex` and the pool's worker queue stand on `k_queue`, `k_mutex` and
`k_condvar`, all of them kernel objects that are initialised on first use by
`ZephyrObject::get`. Threads come from `zephyr::thread`'s pools or from
`sys::thread`. Timers and gpio callbacks run in interrupts and end in wakers.
The devices themselves come from functions that `zephyr-build` generates, one
module per node of the device tree. The samples put channels, threads,
executors, work queues and semaphores together.

What is hard about it:

* **Raw pointers across threads.** The pool's worker follows a pointer into a
  future its task may drop at any moment; the channel's buffers, the argument
  cells of a thread pool and the leaked `Arc`s of the work queues are shared
  the same way. Each is safe only by a protocol described in a comment.
* **Wake-ups.** Wakers are registered, consumed and overwritten while the
  event they wait for happens. A lost one is a task that sleeps for ever; a
  late one reaches a later user of the same slot or pin.
* **Cancellation and time-outs** race with completion.
* **Limits.** Slots, waiters, buffers, pool entries: what happens when the last
  one is taken, and whether it comes back.
* **Flags beside kernel objects.** `locked` is changed in a step of its own,
  before or after the `k_mutex` it belongs to.
* **Rounds.** A benchmark run must leave nobody at work and no count or result
  behind, because the next one starts by resetting what they share.
* **Generated code.** A wrong device, a call of a function that is not
  generated, or a panic of the build depends on the shape of a tree that only
  some board has.

`PROJECT.json` lists these hazards one by one, at their lines, with the
properties aimed at them.

## Modules

Conventions. One variable per field or local that another actor can see; `pc`
(`label`, `place` or `at` where modules meet in one run) says where an actor is in
a call. An action is the code between two points at
which another actor can observe or change something: an atomic access, the
taking of a lock, a critical section, one kernel call. Kernel objects are
modelled by their contract, as the code uses them. A definition whose comment
begins with "Mutant:" is a deliberately wrong variant of the definition that
follows it, is part of no specification, and shows that the properties notice
the mistake. `None`, `Nothing`, `Vacant`, `Unset` and `Nobody` stand for null
pointers, empty options and free locks.

### BlockingPool, BlockingRun

`BlockingPool` models all of `blocking.rs`. A future `f` stands for a
`BlockingFuture`, the `Shared` inside it and its closure; a task may hold
several futures, and waking it makes the executor poll any of them. `state`,
`lock`, `shared`, `runner` and `waker` are the fields of a `Slot`; `queue`,
`waiters` and `started` are `QUEUE`, `SlotPool::waiters` and `STARTED`.

| code | actions |
|---|---|
| `run`, first `poll` | `Run`, `Claim` / `ClaimFails`, `Wire`, `StartWorkersOnce`, `SpawnWorker`, `MarkQueued`, `Send` |
| later `poll` | `PollAgain`, `Register`, `CheckDone`, `TakeResult` |
| `drop`, `cancel` | `Drop`, `CancelRemove`, `CancelLock`, `CancelFinished` / `CancelOrphan` |
| `SlotPool::release` | `ReleaseStore`, `ReleaseWake` |
| `worker`, `run_op` | `Recv`, `ReadRunner`, `LockSlot`, `TakeOp`, `ExecOp`, `DiscardResult` / `WriteResult`, `PublishDone`, `Unlock`, `WakeSlot` |

The embassy wakers are external: `AtomicWaker::wake` wakes the registered task
and may or may not leave it registered; a `MultiWakerRegistration` that is full
wakes everybody before it takes a new task.

`BlockingRun` is what the documentation of `run` promises a caller, without a
slot, queue or worker: a call is made, its closure begins, returns, and the call
is answered; or it is cancelled, in which case a closure that had not begun
never does. `KeepsPromise` is the refinement. The mapping reads the caller's
view of a call from `outcome`, which changes when the fate of the call is
settled: in `TakeResult`, in the removal from the queue, or under the slot lock
in `cancel`.

### Channel, ChannelFifo

`Channel` has both flavors: `bounded` is chosen in the initial state. `free` and
`chan` hold buffers, `data` what is in them. `k_queue_append` gives the element
straight to a waiting thread if there is one (`Post`, `Return`), which is why a
message may bypass the queue. `SendTimesOut` and `RecvTimesOut` may happen
whenever the thread still waits. Clones and drops maintain `senders` and
`receivers`; the last drop on a side panics, as the code does, whatever handles
the other side has (`PanicsLast`, a finding), and that thread is then lost. `ChannelFifo` is one queue of messages with a capacity; `IsFifo`
is the refinement, with `inflight` read through the buffers in `chan`.

### SyncMutex, Philosophers

`SyncMutex` has the kernel's `k_mutex` (owner and lock count; an unlock hands it
to any of the threads that wait) under the flag `locked`. Guards are counted per
thread. Clients may lock again with a guard in hand, which panics (`lock`) or is
refused (`try_lock`); a panic ends the thread, with its guard never dropped, as
Zephyr's panic handler does not unwind. `k_condvar_wait` releases the mutex and
pends the thread in one step.

`Philosophers` is the philosophers sample: `phil_thread` over each of the
implementations of `ForkSync`, one of which (`config`) is chosen in the initial
state. `CondSync` is a client of the actions of `SyncMutex`, and shows that
`Mutex` and `Condvar` together do what a user of them expects. With `SemSync`,
`DynSemSync` and `SysMutexSync` each fork is a kernel object that a release
hands to a thread that pends on it. `ChannelSync` sends commands to a server
thread over channels that behave as `ChannelFifo`, which `Channel` is shown to
implement; the bounded ones hold one message. `async` is `one_phil` of
`async-philosophers`: a fair semaphore hands a fork to the first task that waits,
and each task ends after `EatCount` meals. In the configuration `clients` there
are no philosophers, and the threads call whatever `SyncMutex` lets them call,
re-entrantly too. The statistics of the samples are behind a second mutex that
is never held together with the first one, and are left out.

### Bench

The benchmark harnesses. `harness` is chosen in the initial state: `ThreadTests`
of `bench/src/lib.rs` (threads and unbounded results), `AsyncTests` of
`executor.rs` (tasks on three executors), `ThreadTests` of the embassy sample
(tasks on two, with one-message channels as semaphores), and `Simple` (items of
one work queue). For the first three, `Program` says what a command makes each
member of the group give and take in one iteration, with the semaphores that the
harness shares or keeps apart (`Ping`, `Pong`), and one set of actions runs the
programs:

| code | actions |
|---|---|
| `run`, `main_run` | `CallRun`, `Begin`, `SendCommand` or `Spawn`, `Collect`, `RunReturns` |
| `worker`, `low_runner`, `high_runner`, `low_worker`, `high_worker`, `low_task` | `RecvCommand`, `Operate`, `SendResult`, `TaskReturns` |
| `Simple::run`, `SimpleMain::act`, `SimpleWorker::act` | `SimpleRun`, `SimpleMainActs`, `SimpleWorkerActs` |

The caller may run any sequence of commands, of which `rust_main`'s is one.
`TaskReturns` is the end of a task after its last statement, at which embassy
frees its place in the task's pool. A task that shares main's executor
(`WithMain`) has no such step: main cannot run before it has returned. `round`
is no variable of the code; it is there to say that work and answers belong to
the current run. `MCSamples` puts `Philosophers` and `Bench` in one run.

### ThreadPool, StaticThread

`thread.rs` with the code `task.rs` generates. `FindThread` is the critical
section of `acquire`; `WriteInit`, `Create` and `Start` follow outside of it.
`Startup` and `Exit` are the new thread. No operation ever stores
`ThreadState::Running`, so the second disjunct of `Available` never holds; it
is there because the code has it.

`StaticThread` is `sys/thread.rs`. Callers race for stacks and threads, lose a
stack to a refused `init_once`, and spawn; the closure's box is followed from
`into_raw` to the child that takes it back, which may run at any time after
`k_thread_create`. `MCThreads` puts both modules, and `Channel`, in one run.

### WorkQueues

`arcs`, `strong` and `raw` are the references to a work item that clients have,
the `Arc`'s strong count, and the references that `into_raw` has leaked and
`from_raw` has not recovered. `k_work` is modelled by its contract: an item is
in one queue at most, and one that is running is queued where it runs. A queue
is named by the address of its thread, a number, because `SimpleTls` sorts its
table by address. `get_current_workq` answers `None` on the system queue, which
nobody registers. `HandlerReturns` is the drop of the handler's `Arc` together
with the return to the kernel's loop: what the kernel still does with a `k_work`
that was freed there is code of the kernel.

### KernelObject, Timer

`KernelObject` has the states of `ZephyrObject` (0, or the address at
initialisation) and of `StaticKernelObject`, with threads that race for the
first use and an owner that moves the object while nobody borrows it. The memory
model is left out but for one thing: the relaxed load of the fast path may still
read 0 after the store.

`Timer` extends it. The timer `Static` is the instance that `init_once` hands
out (`GetWrapped`), the timers in `Heap` are made by `StoppedTimer::new`. `held` is
the Rust type that has the timer, or the point its owner has reached inside
`start_callback` or `raw_stop`; `box` is the `Callback` of the live
`CallbackTimer`; `expiring` is the timer whose expiry function the interrupt is
about to call. The constant `TimerSmp` says whether that interrupt may run beside a thread;
the run is for one processor. `CallbackTimer::stop` takes the timer out of its
`Pin`, which needs unsafe code in the caller; it is modelled like the drop, which
shares `raw_stop`. A start whose first delay is `Forever` is left out.

### Embassy

The executor's loop, its semaphore with a limit of one, and the time driver.
embassy's run queue and timer queue are external and modelled by their contract.
Time passes between any two steps, also inside the driver's critical sections,
which is what the loop around `set_alarm` is for. The conversion of the alarm is
done modulo `Modulus`, twice the constant `SignBit` (2^63 in the code):
`next - now + 1` wraps, is read as signed, and a negative tick count is an
absolute time, as in Zephyr's `k_timeout_t` (`FiresAt`, external). Time begins at
tick 0, where with an empty timer queue the addition itself wraps: that is a
build without overflow checks, as the release profile is. `MCExecutors` puts
`WorkQueues` and `Embassy` in one run.

### Gpio

`GpioStatic` and one task per pin, which is what `&mut GpioPin` in
`wait_for_high` demands. `pin_mask` is neither atomic nor under a lock, so
setting a bit is a read and a write (`ReadMask`, `WriteMask`), and so is
clearing it in `callback_handler` (`DisableInterrupt`, `Unmask`). The constants
say who may interleave: `Threads` for tasks of several executors, `Smp` for a
handler that runs beside a task. The runs use one executor on one processor.

### I2cTarget

One `I2cTargetData`, threads that each have a bus and a processor, and the
interrupt of each bus, which may come on any processor that has interrupts
enabled and stops the thread there. `at` is where a thread is in `register` or
`unregister`. A callback either locks or, like the trait's defaults, just
returns. The drivers are external: both calls may fail, a failing call changes
nothing, and `i2c_target_unregister` returns when no callback of the bus runs
any more, which the comment on the callback table relies on.

The `SpinMutex` inside the target's data is that of a build for several
processors. `holder` is who has the guard and `key` what the guard's key says of
the interrupts before it was made; `masked` are the processors with interrupts
disabled; `spin` is a thread inside `k_spin_lock`, with the key it has got. A
thread may call `lock` with the guard in hand, and then spins for ever with
interrupts disabled, or `try_lock`, which is refused. `SendGuard` gives the guard
to another thread, which the type allows: interrupts stay disabled on the
processor where it was made, and its drop sets those of the processor where it
is dropped. What a key that says "disabled" does there differs between
architectures, and both ways are modelled. On one processor `k_spinlock` has
nothing to spin on, and a second `lock` is answered with a second guard; this
build is not modelled.

### Devicetree

The generator that turns `zephyr.dts` and `devicetree_generated.h` into the module
`zephyr::devicetree`. `WriteNode` and `Compiled` are the input, external: every tree
of up to `MaxNodes` nodes of the kinds below, as the device tree compiler lets it
be, with controllers that are disabled or have no label, flash controllers that
`dt-rust.yaml` does not list, and `gpios` and `reg` properties that are absent,
begin with a number or have two phandles. The passes follow as in the code:
`PathLine` and `OrdLine` (`OrdMap::new`, which relies on the order of the lines
and asserts it), `WalkNode` (paths, routes, numbers and labels), `PhandleWalk`
(by label), `ParentWalk`, and `NodeWalk`, which gives each node to each
augmentation. `pass = "panicked"` is a panic of any of them: a path without a
number, a phandle without a label, an ORD line of another node, and the unwraps
of `RawInfo::generate` (`PhandlePanics`, `ParentPanics`).

Generated code is a set of items: the functions a node's module defines, those
they call by route or through `super`, the option that gates them, and the
number of the device. `Myself`, `Phandle` and `Parent` are the three ways of
`RawInfo::generate`. Of `dt-rust.yaml` the entries for gpios, pwm-leds and flash
are there; those for led strips and i2c are more of `Myself` and are left out. A
second kind of initial state is a property's words, which `ToTokens` turns into
tokens with the lookahead of `Value::to_tokens`. Names are positions among
siblings, so equal names under different parents occur; the text of identifiers
and properties is left out.

`MCDevices` puts what has callbacks in interrupts, `Gpio`, `I2cTarget` and
`Timer`, and this generator, which devices come from, in one run.

## Runs

Every run names its properties in `PROJECT.json`. "pass" runs finish without an
error; each of their properties is violated when the mutant named for it
replaces the definition it mutates.

| run | module, cfg | bounds | shows |
|---|---|---|---|
| `blocking_ownership` | `MCBlockingPool`, `BlockingPool_ownership.cfg` | 3 calls of 2 tasks, 2 workers, 2 slots, 1 waiter | no access to a dropped future, every slot owned once, results not mixed up, no lost completion or released slot, refinement of `BlockingRun` |
| `blocking_liveness` | `MCBlockingPool`, `BlockingPool_liveness.cfg` | 3 calls of 3 tasks, 1 worker, 1 slot, 1 waiter | every call ends, every slot comes back |
| `channel_drop` | `MCChannel`, `Channel_drop.cfg` | 2 senders, 2 receivers, 1 message each | **violated**: see [Findings](#findings) |
| `samples` | `MCSamples`, `Samples.cfg` | 3 threads or philosophers, every `ForkSync`, 2 meals of the async ones; 2 workers and 2 iterations of each harness | `Mutex`: one guard, flag and `k_mutex` agree, only re-entry fails; philosophers: forks exclusive, the server never panics, no lost wake-up, somebody eats again and again, and where forks are handed over everybody does; harnesses: a run leaves nothing for the next, no panic but that of the finding, every run ends |
| `bench_tasks` | `Bench`, `Bench_tasks.cfg` | 2 workers, 2 iterations | **violated**: see [Findings](#findings) |
| `threads` | `MCThreads`, `Threads.cfg` | 2 spawners with 2 calls, 3 entries; or 2 callers, 2 static threads, 3 stacks; or 2 senders, 2 receivers, 2 buffers, 2 messages each, both flavors | entries, stacks and threads exclusive, arguments and closures delivered once, threads started from a pool can be joined; channels: refinement of `ChannelFifo`, buffers conserved, handles counted, no message returned twice, everything accepted is received |
| `executors` | `MCExecutors`, `Executors.cfg` | 2 items, 2 clients, 3 queues, 3 references each; or 2 tasks, 2 sleeps each, ticks 0 to 3, words of 4 bits | queued items not freed, counts exact, actions know their queue, every submission is followed by a run; embassy: no lost poll, alarms cover the queue and are not early, every sleep ends |
| `work_leak` | `WorkQueues`, `WorkQueues_leak.cfg` | 1 item, 1 client, 1 queue | **violated**: see [Findings](#findings) |
| `devices` | `MCDevices`, `Devices.cfg` | 2 pins, 2 waits each, re-polls and drops; or 3 threads, busses and processors; or 2 threads, 2 addresses, the static and 1 heap timer, count up to 2; or trees of 5 nodes with 2 labels, properties of 4 words and controllers of 2 cells | a sleeping task always hears of its pin; an i2c target's flag and driver agree and its callback table has one writer and then no reader; no interrupt stops a thread with a `SpinMutex` guard that it has made; objects are initialised once, never used unready or moved, and handed out once; the interrupt calls only the live callback of its timer, and no freed or stopped timer is queued; the build panics on malformed nodes and on no others, the calls of generated code resolve for the nodes and options that the tree supports and for no others, `get_instance` gets the right device, every word is in the right token |
| `gpio_storm` | `Gpio`, `Gpio_storm.cfg` | 2 pins, 2 waits each | **violated**: see [Findings](#findings) |
| `spin_sent` | `I2cTarget`, `I2cTarget_sent.cfg` | 2 threads, busses and processors | **violated**: see [Findings](#findings) |
| `dt_disabled` | `Devicetree`, `Devicetree_disabled.cfg` | trees of 4 nodes | **violated**: see [Findings](#findings) |

Modules that share no state are checked together (`MCSamples`, `MCThreads`,
`MCExecutors`, `MCDevices`): the initial state chooses one of them, and the others
stay as they begin.

Why the bounds are enough for the interesting cases:

* Blocking pool: three calls on two slots make one wait, and each slot is reused
  while the previous worker has still to wake its user; a task with two futures
  is woken for one by the other's waker; one waiter registration for three
  tasks overflows in the liveness run.
* Channel: two buffers with four messages block senders; two receivers can hold
  a message each while a third one is sent; each side can lose its last handle
  while the other has two. `MaxMsgs` bounds the messages of a sender.
* Mutex: with three threads one may own the mutex while one waits for it in
  `lock` and one on the condition variable or on its way back from it. The
  properties are proved for any number.
* Philosophers: with three, two compete for every fork, all three can wait in a
  circle (which the reversal excludes), and a bounded command channel has more
  senders than room.
* Harnesses: two workers share or do not share a semaphore, their results can
  come in any order with those of the helpers, and two iterations let one worker
  be a whole iteration ahead. All sequences of commands are covered, since a run
  ends in a state without memory of its command.
* Devicetree: five nodes hold a partition under its flash controller
  (root, controller, flash, partitions, partition), or a led and its controller on
  different levels, in either order, beside another parent with equal names; two
  labels let a phandle go to the wrong controller; four words hold two controllers with cells, or one with too few.
* Timers: `MaxStatus` lets a periodic timer fire twice before it is read. The
  heap timer's memory is used again after a drop, and each timer can go through
  its types any number of times, with a callback at a different address each
  time.
* Thread pool: two spawners with two calls each can exhaust three entries, and
  race for the last one.
* Work queues: three references allow an item in a queue, running, and on its
  way into `k_work_submit` at once. `MaxArcs` bounds `Clone`, not the
  submissions.
* Embassy: four ticks let two sleeps of each task overlap, end in the past or in
  any order, and time pass twice inside one call. `MaxNow` is below `SignBit`, as 64-bit ticks are for the life of a device, while the
  "nothing to wait for" value `Modulus - 1` wraps as in the code.
* Gpio: with two pins, one is in the mask while the other is registered, and
  one call of the handler may handle both; a second wait starts from whatever
  the first left behind.
* I2c target: with three threads one has the target, one is turned away or
  waits for the lock, and one is interrupted; a guard can be sent twice, or back
  to where it was made.
* Static threads: with more stacks than threads a caller can be refused a thread
  when it has a stack already, and loses the stack.

### Fairness

* `BlockingPool`: weak fairness of each future's steps inside a poll or drop, of
  polling a future whose task was woken (the executor's promise), and of each
  worker's steps, the end of the closure included. Nobody has to poll without a
  wake-up, cancel, or make a call. The workers are threads of one priority, and
  a blocking call that never returns would keep its worker for good, as the code
  has no way to stop it.
* `Channel`: a thread inside `send` goes on, and a receiver with a handle keeps
  calling `recv`. Senders have no fairness for starting calls, and no time-out
  has to happen. `EventuallyReceived` is conditional on the first receiver
  keeping its handle.
* `Philosophers`: each thread that can run is scheduled, the server's included,
  and both sleeps end. Sending to the server is strongly fair: a thread that
  waits for a buffer of the full command channel is served in turn with the
  others of its priority. The second half of `EatsAgain` is about the
  implementations that hand a released fork to the one who waits. With the
  condition variable all waiters are woken and race, so one philosopher may
  starve; there only the first half (somebody eats again and again) is claimed.
* `Bench`: each thread, each task and the work queue goes on when it can. The
  priorities of the harnesses do not matter for it: nobody spins, so whoever
  waits leaves the processor to the others, and a run has finitely many steps.
  Nobody has to call `run`.
* `ThreadPool`: a started thread is scheduled and its function returns; a
  spawner goes on, and joins what it started. `EventuallyJoined` excuses a
  spawner that has panicked.
* `WorkQueues`: threads of started queues are scheduled, actions return, and a
  call of `submit` reaches `k_work_submit`.
* `Embassy`: the executor, the interrupt and the waker that has queued a task go
  on, and time passes. Nobody has to wake a task: `SleepEnds` rests on the timer
  alone.

In a run of several modules the fairness of a module is that of its own steps, and
asks nothing where another one was chosen.

### Deadlock

Deadlock is checked in the blocking pool, where `Idle` is the one state in which
everything may rest. Elsewhere stopping is part of the system: threads panic by
design, a re-entrant `lock` of a `SpinMutex` spins for ever, calls and time are
bounded, or a client simply stops. In `Philosophers` a deadlock would violate
`EatsAgain`, in `Bench` `RunEnds`.

## Proofs

Each theorem holds for every value of the constants that the named assumption of
its module allows. TLC evaluates the assumptions in the runs. All proofs
have the same shape: an inductive invariant, a conjunction of named parts; one
lemma per action, with a step for each part it can disturb; `Spec => []Inv` by
PTL; and for each property a lemma that the invariant implies it.

| module | theorem | states |
|---|---|---|
| `BlockingPool_proofs` | `TypeCorrect` | type correctness (`TypeOK`, of the proofs only) |
| | `MemorySafety` | `MemorySafe`: inside the slot lock a worker reaches only the live future that owns the slot, and the runner it calls was made for that future's types |
| | `ResultIntegrity` | `OwnResult`: a future that sees Done finds the result of its own closure |
| | `SlotAccounting` | `SlotAccounted`: every slot that is not free has exactly one owner |
| | `WakesNotLost` | `NoLostWake`: no completion and no released slot passes a pending future by |
| | `PromiseKept` | `KeepsPromise`: the pool implements `BlockingRun` |
| `Channel_proofs` | `EachReturnedOnce` | `ReturnedOnce` |
| | `EverythingAccounted` | `Accounted`: buffers conserved, handles counted |
| | `ChannelIsFifo` | `IsFifo`: a channel implements `ChannelFifo` |
| `Samples_proofs` | `TypeCorrect` | type correctness (`MutexTypeOK`, of the proofs only) |
| | `MutualExclusion` | `OneGuard`: there is never more than one guard |
| | `FlagCorrect` | `FlagMeansGuard`: `locked` is set exactly while there is one |
| | `NoSpuriousFailure` | `OnlyReentryFails` |
| | `BalancedLocks` | `UnlocksBalance`: the `k_mutex` count is what its owner has still to unlock (of the proofs only) |
| | `SamplesUseMutex` | `Philosophers` implements `MutexSpec` |
| | `ForksNeverShared` | `ForksExclusive` |
| | `NoWakeupLost` | `NoLostWakeup` |
| | `RunsNeverMix` | `RunsSeparate` of `Bench`: work, results and semaphores belong to the run under way |
| | `RunNeverPanics` | `NeverPanics` of `Bench` |
| `Threads_proofs` | `EntriesExclusive`, `ArgumentsDelivered` | `EntryExclusive`, `ArgsDelivered` of `ThreadPool` |
| | `JoinSound` | `JoinMeansDone`: a join that returns Ok speaks of a function that has returned (of the proofs only) |
| | `SpawnSound` | `SpawnOwnership` of `StaticThread` |
| `WorkQueues_proofs` | `ReferencesCover` | `RawRefsCover`: counts exact, every pointer in the kernel backed by a reference |
| | `QueueKnown` | `CurrentQueueKnown` |
| `Timer_proofs` | `InitializedOnce`, `TimerInitializedOnce` | `OnlyOnce`, of `KernelObject` and with timers on top of it |
| | `QueueHoldsRunning` | `OnlyRunningQueued` |
| | `CallbackOwnership` | `OwnCallback`, on one processor |
| `Embassy_proofs` | `PollNotLost` | `NoLostPoll` |
| | `AlarmsRight` | `AlarmRight` |
| `Devices_proofs` | `WakesNotMissed` | `NoMissedWake` of `Gpio`, for one executor on one processor |
| | `RegistrationSafe` | `RegistrationSound` of `I2cTarget` |
| | `UnsentGuardMasks` | `UninterruptibleUnsent`: no interrupt stops a thread with a `SpinMutex` guard that was not sent |
| | `WordsBecomeTokens` | `TokensRight` of `Devicetree`: the lookahead makes of a property's words the tokens they mean |
| | `DeviceIsRight` | `RightDevice`: the generated functions of a node lead to the number of its device |
| | `PanicsRight` | `BuildPanics`: the build panics on trees with a malformed node, and on no others |
| | `CodeResolves` | `CallsResolve`: what generated code calls has been generated exactly where the tree supports it |

Assumptions. Nearly all of them say that `None`, `Nothing` and the like (null, an
empty option, a free lock) is not a thread, slot, number and so on. Beyond that:
slots, workers, buffers, queues, clients, pins and static threads are finitely
many where the code or a property counts them, or looks for the first;
there is at least one worker, one waiter registration and one buffer, and in
`Bench` at least one thread and one iteration; the time
stays below half of the tick counter's range. `CallbackOwnership` has the
hypothesis `~TimerSmp`, and `WakesNotMissed` has `~Smp` and `~Threads`: without them the
properties are false (see [Observations](#observations-without-a-run)). The
bounds of the models (`MaxMsgs`, `MaxSpawns`, `MaxNow`, `MaxNodes` and the like) are
arbitrary numbers in the theorems: `Devicetree`'s hold for trees of any size.

### The blocking pool

None of the first four properties is inductive alone. That the pointer
in a slot leads to a live future needs to know that the slot belongs to that
future, hence that no other future has it (`SlotAccounted`), which in turn
depends on what each label of each actor means for the state of its slot. The
inductive invariant `IInv` is the conjunction of

* `TypeOK`;
* `FutureInv`: what the pc of a future says about its slot's state, pointer,
  runner and result, and that no other future has that slot;
* `QueueInv`: the queue has no duplicates, and every slot in it is Queued, has no
  worker yet, and belongs to a future that has sent it and not removed it;
* `WorkerInv`: what the pc of a worker says about the slot it received, and that
  no other worker works on it;
* `SlotHeld`, `OrphanHeld`, `QueuedHeld`: the converse direction; a slot that is
  not free has its future, an orphaned one its worker, and a queued one is in
  the queue, with a worker or with its future;
* `OffQueue`: the slot of a cancel that is past `QUEUE.remove` is not in the
  queue;
* `OpInv`: where a closure is (in its cell, running, returned) against its
  future and its worker;
* `LockInv`: an actor inside a section that a slot lock protects holds it.

The step that carries most of the argument is `CancelOrphan`: under the lock, a
slot that is not Done and not in the queue is with exactly one worker, which is
outside its own two sections; so after the pointer is cleared and the slot
marked, that worker is the slot's only owner.

`NoLostWake` needs to know that a waker which is gone has woken its task:
`Registered` says that a future with a slot, from before it sends the slot until
it looks at the result, is registered there or woken. With it a late wake-up for
the previous user of a slot does no harm: it takes the new user's waker, but
wakes the new user.

`PromiseKept` adds `OutcomeInv` (a call is settled when its `pc` says so) and
`RunningInv` (a running closure has a worker). The limit of `BlockingRun` counts
closures that run; `RoomForOne` bounds them by an injection from them into the
workers and another into the slots, and this is where the two have to be finite.

### The channel

`ReturnedOnce` is about messages and `Accounted` about the buffers they are in.
The invariant `ChannelInv` follows both: `PlaceInv` (a buffer is in one place),
`MsgInv` (so is a message: with its sender, in a buffer of the queue, or
delivered), `CallInv` (who can have a buffer, and that no receiver waits while
there is a message, which is why a direct hand-over does not overtake the
queue), `HandleInv`. The refinement maps the queue of buffers to the messages
in them. `PostIsPut` and `TakeIsGet` are the two steps that are not stutters;
the others leave both the queue and what is in its buffers alone (`FlightKept`),
because a sender writes only into a buffer that `PlaceInv` says is not queued.

### The mutex and the philosophers

`OneGuard` and `OnlyReentryFails` are not inductive: the flag and the `k_mutex`
change in different steps, and that they agree depends on where each thread is
in its call. The inductive invariant is `MutexTypeOK`, `GuardInv` (what the pc of
a thread says about its guard), `FlagMeansGuard` and `UnlocksBalance`.
`UnlockMoves` says once what `k_mutex_unlock` does (back to the outer lock, to a
waiting thread, or to nobody) for the four actions that call it.
`UnlocksBalance` gives the mutex one owner, and a guard needs the mutex, hence
`OneGuard`.

`Philosophers` is shown to be a client of `MutexSpec` first (`SamplesUseMutex`), so
that this invariant holds there without another proof. `ForksInv` is about the
forks: `PhilInv` and `CondInv` (where a philosopher is, in which configuration),
`ServerInv`, `CommandInv` and `AnswerInv` (what a message in the command channel
says about its sender, and what has become of one that was read), and `OwnInv`:
a fork has one owner at most, and is marked free exactly when it has none.
Ownership is what makes it inductive with the server: a philosopher owns a fork
from the server's answer until the server reads the release, while it believes
to have it for a shorter time. That the server never panics rests on a fact
about numbers, `TwoUsers`: no fork has three users, so nobody can wait for a fork
in use for which another one waits already.

### The bench sample

`RunsSeparate` speaks mostly of the moments between two runs, and `NeverPanics` of
single operations that must not fail. What makes them inductive is a full
account of a run, `BenchInv`:

* `CallInv`: a run is called for, under way or about to return, never two of these.
* `RestInv`: between two runs nobody works, no result is in the channel and no
  semaphore holds anything.
* `PlaceInv`: during a run the command of a member, its work, its result in the
  channel and its answer at main are four things of which there is one at most,
  all of this run.
* `StartInv`: who has the command already, and that `msg_count` is the number of
  members whose answer is missing, so that `Collect` ends the run with the last
  answer and not before.
* `SemInv`: what the semaphores hold is told by `Progress`, how many operations
  each member has done. For the waiting commands it is what the giver has given a
  worker (`Gave`, a quotient and a remainder, since it gives in turn) less what the
  worker took. For ping-pong (`PingPongInv`) one message is under way at most; with
  a shared semaphore any worker may take the ping, so `PingOut` says only that
  some worker has it whose answer goes where the helper waits.
* `SimpleInv`, for the harness on a work queue: after `q` rounds and `r` items the
  queue, the rotated list (`Turned`) and `count` are determined by `q` and `r`.

`SemEnd` closes the circle: when all members have done everything, `SemInv`
leaves nothing in any semaphore. It is where the programs of the helpers and
of the workers have to match, for every number of threads and iterations.

### Threads, work queues, objects, timers

* `PoolInv`: an entry that a call has found is Allocated and nobody else's
  (`CallInv`), what an entry holds from first use to the end of its thread
  (`EntryInv`), and that the arguments of earlier calls are older (`FreshInv`),
  so that the arguments of one call go to one thread. It rests on a fact that
  is not in the code's comments: no state but Init and Allocated is ever stored,
  so no entry is used twice.
* `StaticInv`: `OnceOwned` (what `init_once` handed out is one caller's until its
  thread is created, then the thread's) and `BoxOwned` (the same for the boxed
  closure, whose address is free for others once the child has taken it).
* `WorkInv`: `QueueInv` (the kernel has an item in one queue, once), `StartInv`
  (`SimpleTls` is sorted and has every started queue but the system's) and
  `Covered`, which counts the references of an item. It is inductive because
  each step moves one reference from one counted set to another. `RawRefsCover`
  has >= where the leak of `NothingLeaks` would have to be excluded for =.
* `ObjectInv`: `GetInv` and `OnceInv`. A stale read of 0 leads into the critical
  section, where the second load is exact.
* `TimerInv` and `IrqInv`: what the type that has a timer says about the kernel's
  timer. `OwnerInv` needs no assumption on processors; `IrqInv` (the interrupt is at
  a timer that still is a `CallbackTimer`) does.

### Embassy, gpio, i2c target

* `EmbassyInv`: `NoLostPoll` is nearly inductive. `AlarmRight` needs `NextFirst`:
  inside the critical section the value that `next_expiration` returned stays the
  first time of the queue. `FiresThen` is the arithmetic: for a time to come the
  conversion of `set_alarm` and the kernel's cancel out, modulo any `Modulus`. The
  least element of a set of numbers exists by well-founded order (`WFMin`).
* `GpioInv` and `SleepInv`: `Serial` (one poll at a time, and the handler is not torn
  apart, which is what `~Threads` and `~Smp` give) and `PollInv` (what a poll has
  achieved at each label unless the handler has caught the pin meanwhile).
* `I2cInv`: `FlagInv` (whoever is between a claim and its end is alone, and which
  bus has the target then) and `SpinInv`. The latter is about processors: one that
  handles an interrupt has interrupts enabled, one where a thread spins or has a
  guard that was not sent has them disabled. It says nothing of the keys, and
  need not: a drop enables interrupts only where the guard is, and while it is
  there nobody else can have one.

### The devicetree generator

Tokens. `TokenInv` says that the tokens so far are those of the words up to
`iter` that begin one (`Heads`), each once, with their arguments. `NextIsHead`: the
next word begins one, because a token's lookahead has consumed exactly its
arguments; `LookaheadRight` shows that the lookahead sees a complete phandle just
where `TokensRight`, which counts the numbers after each phandle, has one.

The tree. Routes and ancestors are recursive functions, and the provers cannot
instantiate the library's theorems on them. The proofs do without: `LeastNat` gives
every nonempty set of numbers a least element, an argument about all nodes is one
about the least node for which it fails, and `RecursionExists` shows in this way
that a recursion along a decreasing map has a solution, so that the equations of
`Route` and `Ancestor` may be used (`RouteEquation`, `AncestorIs`). From them
`RouteInjective`: two nodes never have the same route, on which all the maps
that the code keys by path depend. `TreeInv` follows the passes:

* `TreeOK`, `RefsOK`: a parent comes before its children and is of the right kind,
  no label is used twice, and a phandle names a gpio controller.
* `OrdInv`: `ords` has, under the route of each node read, the position of its
  lines. `ReadyExists`: the compiler can always order the remaining lines.
* `ParseInv`, `LabelInv`, `LinkInv`: each node has the route and the number of its
  own, `labels` has every label read, and phandles and parents lead to the nodes
  they name.
* `OutInv`: the code for a node is `Expected`, which says per kind of node what
  comes of it, without the walks, and nodes already passed are not malformed.
  `PanicsIs`: what makes the generator panic on a node is that it is malformed.
  `GenerateIs` is the step from the augmentations
  to it (`CompatibleIs`, `PartOfDevice`: how many levels up the device of a part is).

### Only model-checked

* Liveness, with the fairness above, which this prover does not do:
  `EveryCallEnds`, `SlotsComeBack`, `EventuallyReceived`, `EatsAgain`, `RunEnds`,
  `EventuallyJoined`, `EventuallyActs`, `SleepEnds`; and that nothing deadlocks.
* The violations.

## Findings

* `work_leak`, `NothingLeaks` (`zephyr/src/work.rs:482`). `submit` leaks its
  `Arc` before it calls `k_work_submit`. When the item is already queued there
  is one run of the handler for two leaked references, so one of them is never
  recovered and the item is never freed. The comment at `work.rs:471-472` says
  the drop "will then run", and the module's documentation names only
  cancellation as a cause of leaks. `RawRefsCover` shows that the mistake goes in
  this direction only: nothing is freed too early.
* `gpio_storm`, `NoStorm` (`zephyr/src/device/gpio.rs:213`). A future's second
  poll can enable its interrupt after the handler has taken the pin out of the
  callback's mask. It then returns Ready with a level interrupt that stays
  enabled and that no callback will disable: the storm the comment at
  `gpio.rs:131` warns of. `NoMissedWake` holds meanwhile: no waiting task is
  forgotten.
* `bench_tasks`, `EverythingFinished` (`samples/bench/src/executor.rs:275-279`). The
  documentation of `run` (`:96`) speaks of "waiting for everything to finish".
  `main_run` waits for the results only. A task on another executor whose result
  is the last may not have returned when the next command comes, and then
  `high_worker(..)` or `low_worker(..)`, whose pools have one place, is an error that
  `unwrap` turns into a panic. The embassy sample has the same race with
  `low_task` (`samples/embassy/src/lib.rs:158`), about which no property speaks.
* `channel_drop`, `PanicsLast` (`zephyr/src/sync/channel.rs:222`, `counter.rs:73`).
  `channel.rs:34-36` says that the other end "may just block" when all senders or
  all receivers are dropped, and that the last drop of all handles panics. The
  drop of the last handle of either side panics, whatever the other side has.
  `Accounted` shows that it panics exactly then: the counters are right.
* `dt_disabled`, `DisabledNeverCalled`
  (`zephyr-build/src/devicetree/augment.rs:299`). A led or key whose controller is
  disabled gets code that calls `get_instance_raw` of the controller's module,
  where there is none: the crate does not compile. For ancestors the generator
  looks at the status, with the comment "we must not emit code that calls it"
  (`augment.rs:309-311`); for phandles it does not. `CallsResolve` tells all the
  trees and options for which generated code does not resolve (`Supported`), of
  which these are some.
* `spin_sent`, `Uninterruptible` (`zephyr/src/sync/spinmutex.rs:86`). The guard's
  `_nosend` field, "Mark as not Send", is a `PhantomData<UnsafeCell<()>>`, which is
  `Send` (the one in `sync/mutex.rs:82` is not). A guard that goes to a thread of
  another processor does not have interrupts disabled there, against `:48-49`
  ("uninterruptible, and prevents even IRQ handlers from running"), and a callback
  that locks on top of that thread spins for ever. `UninterruptibleUnsent` shows
  that nothing else leads there.

### Observations without a run

Things met while modelling. The models contain them unless the text says
otherwise; no run is there to show one.

* `blocking.rs:132` and `:134` say that a slot's pointer and runner are null
  while it is Free; `release` (`:192`) clears neither. The next user overwrites
  both before it sends the slot, and `MemorySafe` is proved without it.
* `blocking.rs:116` describes Orphaned as a drop after the worker started;
  `cancel` (`:294`) also enters it between the worker's `recv` and its first
  lock. `run_op` checks for it there.
* `sync/channel.rs:174`: `try_send` fails while a receiver holds the only free
  buffer between its `chan.recv` and `free.send`, although fewer messages than
  the capacity are queued (`:199-200`).
* `thread.rs:7-8` speaks of threads that are reused after they exit; no code
  stores `ThreadState::Running`, so no entry is (`:244`).
* `object.rs:190`: the relaxed load carries no ordering towards the writes of
  the initialisation.
* `timer.rs:342-344` says that the user data is set to null when a
  `CallbackTimer` is dropped; `raw_stop` (`:376-391`) removes the expiry function
  and leaves the user data. `OwnCallback` shows that the stale pointer is not
  followed. On several processors `k_timer_stop` does not wait for an expiry
  that is already being handled, and with `TimerSmp` set `Timer` violates
  `OwnCallback`.
* `device/i2c/target.rs:296`: an `unregister` that fails has consumed the handle,
  so nobody can try again and the target stays registered for good.
* `sync/spinmutex.rs:109`: `lock` by the thread that has the guard spins for ever on
  several processors. On one there is nothing to spin on, and it returns a second
  guard of the same data, unless the kernel validates spinlocks
  (`CONFIG_SPIN_VALIDATE`). The model has the first case only.
* `embassy/time_driver.rs:51`: with an empty timer queue `next` is `u64::MAX`
  and the tick count becomes negative, an absolute time that has passed, so the
  timer fires again and again while nothing is queued. At tick 0 the addition
  itself overflows: with `CONFIG_DEBUG` set the crate is built with overflow checks
  (`CMakeLists.txt:149-155`) and this is a panic; otherwise the count wraps to 0 and
  the timer fires at once, without harm.
* `device/gpio.rs:98` and `:107`: two threads that wait for pins of one
  controller can overwrite each other's bit of `pin_mask`. With `Threads` or
  `Smp` set, `Gpio` violates `NoMissedWake` for this reason. A comment in the
  code says that missed wakes may point to a missing barrier here.
* `device/gpio.rs:167` and `:199-200`: the `fired` bit of a dropped future ends
  the next wait at once.
* `dt-rust.yaml:35`: `gpio-keys` has no `cfg: CONFIG_GPIO`, while what it calls has:
  with a key in the tree and gpio off the crate does not compile. `Supported` says
  so.
* `dt-rust.yaml:160`: the rule for partitions does not look at the controller three
  levels up. One that is not in the list of `flash-controller` has no
  `get_instance_raw`. `Supported` says so too.
* `devicetree/augment.rs:276-287` and `:371`: a `gpios` property that is absent, begins
  with a number or has two phandles, and a partition without `reg`, end in a panic
  of the build, also when gpio or flash is off, because the options gate the
  generated text and not the generator. `BuildPanics` says on which trees.
* `devicetree.rs:144`: the test in `compatible_path` is inverted; nothing calls it.
* `samples/bench/src/executor.rs:51` says the executors have low, medium and high
  priority; `id + 5` (`:71`) makes the first one the highest, since smaller numbers
  are higher priorities in Zephyr. `Bench` does not depend on it.
* `samples/bench/src/executor.rs:74-78`: an executor that has not started after one
  millisecond is a panic.

## What is not modelled

* The raw wrappers `sys/sync/semaphore.rs` and `sys/queue.rs` have no state
  beside the kernel's; where a modelled component calls one, the call is part of
  that component's action.
* The setters of `sys::thread::Thread`, and `I2c::register_target`, which has no
  flag and is left to its unsafe caller. `SpinMutex` in a build for one processor.
* `Signal` and `WorkQueue::drop` of `work.rs`: the first is a flag and a result
  in the kernel, the second always panics. `ReadyThread::set_priority`:
  priorities are not part of the model.
* Synchronous gpio, i2c controller, flash, led and led strip drivers, the
  allocator, printk, logging, error conversion and time conversion: one call
  each, or output.
* Of `zephyr-build`: the grammar and the decoding of literals, the conversion of
  names to identifiers, property constants, `Labels`, `RawProperties`, the entries
  of `dt-rust.yaml` for led strips and i2c, and the cfg lines for cargo. `zephyr-sys` (bindings) and the syntax checks of the macros run
  at compile time.
* Of the samples: timings and operation counts, which are only printed;
  `arc_bench`, `spin_bench` and `sem_bench`, each a loop over one call; the start of
  the executors.
* What the kernel does with a `k_work` after its handler has freed it is decided
  outside this repository.
* Memory ordering weaker than interleaving, other than in `KernelObject`.

## Plan

Done: all modules of the table under [The system](#the-system), and a theorem for
each invariant and each refinement that a passing run checks.

Left, in this order:

1. `SpinMutex` for one processor; the entries of `dt-rust.yaml` for led strips and i2c.
2. `Signal` and the builder of `work.rs`, what is left of `gpio.rs`, and
   `i2c/controller.rs` (the flags that `transfer` computes).
3. The liveness properties for all values of the constants, which need a prover
   for fairness and `ENABLED`.
