# FreeRTOS add-ons in TLA+

The repository adds to FreeRTOS what its kernel does not have: in C
(`src/c/Source`) reader/writer locks, a work queue, memory pools, a zero copy
queue and the intrusive lists below them; in C++ (`src/c++/Source`) classes over
the kernel's objects and, on top of them, condition variables, work queues,
tasklets, tick hooks, memory pools and reader/writer locks. Nearly all of it is
about several tasks that meet in a few lines of code. These modules say what
those lines do, TLC checks them on small instances, and TLAPS proves the safety
of every component, and all the refinements, for any number of tasks, items,
nodes and bytes. Liveness is TLC's alone.

Everything is in this directory. `PROJECT.json` lists the components, the runs,
the line of source each definition stands for, the hazards, and the theorems.

## Inventory

| Component | State | Operations | What makes it correct |
|---|---|---|---|
| Reader/writer lock, prefer reader (`read_write_lock.c`, `cread_write_lock.cpp`) | ReadCount, mutex ReadLock, binary semaphore ResourceLock | ReaderLock/Unlock, WriterLock/Unlock | a writer is alone; readers share; the count is exact though ++ and -- are not atomic; ResourceLock, given by another task than took it, is never given twice or lost; every call returns |
| The same, prefer writer | also WriteCount, mutex WriteLock, semaphore BlockReadersLock | the same | also: a reader does not overtake a writer that is through the gate; a writer of high priority is not starved |
| Creation of these locks | semaphores created in sequence | Create..., Free... | a lock is whole or not there; a failure leaves nothing behind |
| Condition variables (`ccondition_variable.cpp`, `cthread.cpp`) | a WaitList and a mutex each; a binary semaphore per thread | Wait with a timeout, Signal, Broadcast | no wakeup is lost between the drop of the mutex and the sleep; a signal reaches a thread that waits; true means signalled |
| C work queue (`workqueue.c`) | item queue, binary Event, mutex Lock, ExitThread, the worker task | Create, QueueWorkItem, Destroy; the worker | each item runs once and is freed once; merged events lose no wakeup; deletion leaves nothing behind |
| C memory pool (`mem_pool.c`, `stack_simple.c`, `slist.c`) | a stack threaded through the free blocks, its count, a mutex | Create, Allocate, Free, AddExtraMemory, each with a static form | blocks are neither lost nor handed out twice; payloads and Next pointers do not overlap |
| C zero copy queue (`zero_copy_queue.c`) | a pool and a kernel queue of pointers | Allocate, Enqueue, Dequeue, Free | an item has one owner at a time |
| C lists, queue, stack (`slist.c`, `dlist.c`, `queue_simple.c`, `stack_simple.c`) | Next and Prev pointers, heads, counts | insert, remove, at head, tail and marker | the pointers represent a sequence |
| C++ thread (`cthread.cpp`) | handle, ThreadStarted, a static mutex | StartScheduler, Start, Run returning, Cleanup, destruction | one task per thread, deleted once; no pointer to it survives it |
| C++ work queue (`cworkqueue.cpp`) | a kernel queue, the worker thread, ThreadComplete | QueueWork, destruction | items run before destruction; the worker is gone before its object |
| C++ tasklet (`ctasklet.cpp`) | binary semaphore DtorLock, the timer task's queue | Schedule, ScheduleFromISR, CheckForSafeDelete | pending at most once; no run of a deleted tasklet; what is scheduled runs |
| C++ timer (`ctimer.cpp`) | a kernel handle | Start, Stop, Reset, SetPeriod, from tasks and interrupts, destruction | no callback on what is gone; what is destroyed is deleted |
| C++ tick hook (`ctickhook.cpp`) | list of hooks, Enabled | Register, Disable, Enable, destruction, the tick interrupt | the interrupt never walks a list in change |
| C++ memory pool (`cmem_pool.cpp`) | a `std::list` of free items, a mutex | as in C | as in C |
| C++ queue, semaphore, mutex, event group, critical section, ticks | a kernel handle, or none | one kernel call each | pass-through; conversions wrap |

Components interact in three ways. By calls: a zero copy queue calls a memory
pool, which calls the stack, which calls the list; a C++ work queue owns a
thread and a queue. By shared state under a kernel semaphore: all of them. By
callbacks: work functions run on the worker, and may call the work queue again;
tasklets and timers run on the kernel's timer task; tick hooks in an interrupt.

What is hard here: every non-atomic update between two semaphore calls; binary
semaphores that merge gives, ignore the second one, or are given by a task that
did not take them; sleep after the release of a lock; timeouts that leave
something behind; destruction while someone is still inside; and creation that
fails half way. There is no persistence, so no crash recovery; there are no
messages to lose.

## The modules

`FreeRTOSSemaphore` has the meaning of the kernel's take and give. A semaphore
that is given is *not* handed to a waiter: whoever is woken competes with every
other task. That is the kernel's behaviour, and the locks have to cope with it.

**ReadWriteLock** is the abstract lock: what each task holds, seen from outside.
**RWLockPreferReader** and **RWLockPreferWriter** are the code, one action per
semaphore call and two (load, store) for each `++` and `--`. `pc` names the call
a task is about to make: `rl_`, `ru_`, `wl_`, `wu_` for ReaderLock, ReaderUnlock,
WriterLock and WriterUnlock. A task in both Readers and Writers calls as either,
time and again. The C and the C++ lock make the same calls in the same order, so
one module stands for both.

**ConditionVariable** has Thread::Wait in five steps (take the internal mutex,
queue, drop the application's mutex, sleep, take the mutex back) and Signal and
Broadcast, which wakes one thread a step. The client is the most general one
that holds the mutex when it waits. `notified` and `expired` are history.
**BoundedQueue** is a real client: the producer/consumer demonstration programs,
composed with ConditionVariable through INSTANCE; `loop` is the thread's place in
its loop, `call` its place in the library, and the library's other variables are
the same ones.

**WorkQueue** has creation with every failure, the worker's loop, its drain and
cleanup, QueueWorkItem in its steps, DestroyWorkQueue. While the worker runs an
item without the lock it is itself a client: work functions queue and destroy.
`late` records that a task queued during or after destruction, which the code
cannot serve; it is history.

**CppWorkQueue** is the C++ work queue over a kernel queue of pointers: the
constructor, also when it throws half way or the worker does not start; the
worker, with Thread's TaskFunctionAdapter around it; QueueWork, by tasks and by
work items; and the destructor, step by step. Clients are legal ones, since a C++
object must not be used once it is being destroyed; work items may queue work
until the end. `late` records one that did so behind the NULL that stops the
worker, `deletes` the calls of vTaskDelete; both are history.

**MemoryPool** is the abstract pool: free items, items out. **MemPool** is the C
code at the level of addresses: HeadNext and the Next pointers inside the blocks,
Count, CalculateItemSize as in the source. A push and a pop are two steps each,
the read of the head and its update, so that it matters that Lock is held. A
write outside the buffer that is being added is undefined, ends the behaviour,
and sets `overrun`.

**NodeList** is the abstract list: a sequence of nodes, and what each operation
returned. **Lists** is the four C containers at the level of pointers: the single
list that ends in NULL, the double list that is a ring through its head, the
stack and the queue with their Count. A node that is added has whatever pointers
it had before. The refinement maps the nodes met from the head to the sequence,
so it says that each of the operations, at head, tail or marker, is the one on
sequences, and returns the same.

**RWLockCreate** is both creations of a reader/writer lock and its deletion, one
semaphore a step, each of which may fail; the cleanup as it is written, in builds
with and without configASSERT. It ends where RWLockPreferReader and
RWLockPreferWriter begin.

**ZeroCopyQueue** is the pool and the queue of pointers together: creation with
each failure, allocation, freeing, enqueueing, dequeueing. Its pool is an instance
of the abstract MemoryPool, which MemPool implements, so that nothing of the
blocks is repeated.

**CppMemoryPool** is a second implementation of MemoryPool: addresses in a
`std::list` outside of the items. A read of the list and its update are two steps
that Lock has to keep together; `push_back` and `new` may throw at each place.

**CppThread** is the life of a Thread: Start before and after the scheduler is
started, by several callers at once; a task that cannot be created; the return
from Run, Cleanup, and the destructor in another task. `created` and `failed` are
history: how many tasks were created of each object, and whether a creation failed;
no step reads them, `OneTaskPerThread` does. It is composed with
ConditionVariable through INSTANCE: a thread that runs uses all of it, until it
is destroyed. The use of what is gone sets `undefined`, and ends the behaviour.

**TimerDaemon** is the kernel's timer task, modelled from how the code uses it,
and marked external: a queue of commands with room for QueueLength, executed in
order, and timers that expire in between. What the daemon executes may call the
library itself, and may have to wait there, in the only task that could help.
**Tasklet**, **Timer** and **TickHook** extend it, each with the steps of its
class. A critical section keeps the interrupt and all other tasks out, and
`torn` says that a list is being changed in one. **DeferredWork** composes the
three over one queue of commands: tasks, callbacks and hooks schedule, command,
register, enable and destroy each other's objects at any time. Clients keep to
what a C++ object asks for: no call is begun on an object once its destruction
was, none is under way then, and a destructor of a tasklet calls
CheckForSafeDelete, as `tasklet.hpp` requires.

**MCObjects** puts side by side the components that share nothing (Lists,
RWLockCreate, ZeroCopyQueue, CppMemoryPool, CppThread), each in behaviours of
its own, and MCDeferredWork gives constants to DeferredWork; the other `MC...`
modules give constants to the module they are named after.

### What the modules abstract

- Handles, names, stack sizes and priorities are left out, save where a property
  assumes what a high priority brings (Fairness, below); what a work item does is
  only which calls it makes.
- In ConditionVariable and WorkQueue, what is done under a lock up to and with
  its release is one step, where no other task can see the difference. In the
  locks and in the pools it is not.
- `malloc` returns any item that is free, or fails at any time.
- In the pools memory grows from the bottom and is never returned, as in the code,
  which has no deletion; arithmetic does not overflow, and addresses are not
  aligned in absolute terms (two of the hazards listed).
- Lists, stack and queue are not protected by anything: each call is one step,
  since whoever shares one holds a lock of his own. Misuse (a node on two lists, a
  marker on none where the code does not look for it) is not followed.
- There is no time. A timeout may be over at any moment, and an active timer
  expires at some moment, so Start, Reset and SetPeriod are one command.
- What follows the use of freed memory, of a deleted task, or of a dangling
  pointer is undefined in C and C++ and is not followed: it is what the properties
  are about.

## The runs

| Run | Instance | What it shows |
|---|---|---|
| `prefer_reader` | 4 tasks, each a reader or a writer at will; 4,381 states | exact count, semaphore accounted for, readers share, implements ReadWriteLock, every call returns |
| `prefer_writer` | the same; 35,721 states | the same for two counts and two semaphores; no reader overtakes a writer; readers that never stop do not starve a writer of high priority |
| `cv` | 2 waiters, one of which notifies too, 1 notifier, timeouts, wait lists up to 3; 83,008 states | no sleeper is unlisted, Broadcast wakes all; until a Wait times out the lists are exact and each signal ends the Wait it is for |
| `cv_timeout_signal` | the same kind | **finding**: see below |
| `bounded_queue` | 2 producers, 2 consumers, 2 places; 36,029 states | the program's assertions, no lost wakeup, items flow for ever |
| `workqueue` | 3 tasks, room for 3 items; 16,531 states | items are conserved, no wakeup is lost, deletion leaves nothing behind, items run before they are freed, every item runs, destruction completes |
| `cpp_workqueue` | 3 tasks, 2 dynamic items and a static one, 3 places; 4,056 states | dynamic items are conserved, nothing is used after its deletion, the destructor returns |
| `cpp_workqueue_task` | 2 tasks | **finding**: see below |
| `mem_pool` | 2 tasks, 32 bytes, pointers of 4, two item sizes, two alignments and a bad one; 334,113 states | blocks are conserved, payloads are disjoint, implements MemoryPool |
| `mem_pool_static` | the same | **finding**: see below |
| `objects` | lists of 3 nodes; both locks' creation; a zero copy queue of 3 items and 2 tasks; a C++ pool of 8 bytes, 2 tasks; 2 threads with 3 callers; 157,356 states | the lists implement sequences; a lock is created whole or not at all; an item has one owner and always a place in the queue; C++ items are disjoint and the pool implements MemoryPool; one task per thread, none once a creation has failed, and no pointer to a thread that is gone is left on a wait list |
| `deferred_work` | a task, the daemon and the tick interrupt; one tasklet, one timer, one hook, a queue of 2 commands; 46,812 states | DtorLock is accounted for, nothing that is gone is used, what is scheduled runs and what is destroyed is deleted |

Each module also defines a type invariant, `TypeOK` or one with the prefix of the
module, which holds on the same instances; it is not among what the runs check,
because it would only repeat the declarations. It is part of every inductive
invariant below, and a theorem of its own save for RWLockCreate, for CppThread,
where `ThTyped` leaves out the handle, and for the condition variables, where
`Typed` leaves out the bound MaxWaitList, which is the model's and not the code's.

**Bounds.** Four tasks in the locks are the first number with two readers and
two writers, and hence every hand-over: reader to reader, writer to writer with
a reader in between, last reader against first. What holds there is proved for
any number, so the bound is only TLC's. Three threads at a condition variable
are a waiter, another one, and a signaller that does not wait; MaxWaitList leaves
room for the second entry that a thread gets after a timeout. The bounded queue
has as many places as a side has threads, so both sides fill it, empty it and
sleep together. Three items let one run, one wait and one be queued. The pool's
32 bytes are up to four blocks of 8, or two of 12 or 16, from up to four buffers.
MemorySize bounds the model and TLC only; the code has no such limit.
Three nodes make a list with a middle, and a node to spare while two are on it.
The C++ pool's 8 bytes, with sizes that are multiples of the alignment and sizes
that are not, are up to four items from malloc, from a buffer with a remainder,
and from both. Two threads, one of which may be listed while the other signals,
are started by the task before the scheduler and two after it; MaxWaits leaves
room for the entry that a timeout leaves behind. In `deferred_work` one task is
enough for every pair of actors, since the daemon and the interrupt are two more;
two places in the queue let a command wait behind another one, and the queue be
full. The same properties hold with two tasks (233,000 states) and with two
tasklets (309,000), which take longer than a run should.

**Deadlock** is checked save in the runs of the two work queues, since everything
may stop when the queue is gone or was not created (and in C++ when a work item
waits for a place in the full queue); in the pool's, whose behaviour ends at an
overrun; and in `objects` and `deferred_work`, where behaviours end with the last
object, at a use of what is gone, or in a daemon that waits for itself.

**Fairness.** Each task's next step inside a call is weakly fair: preemption and
time slicing are on in every `FreeRTOSConfig.h` of the repository, and a task that
can go on is run some time. Nothing is assumed of new calls, of timeouts, or of a
task whose semaphore others keep taking first: weak fairness does not promise it
the semaphore, and the kernel does not either. `WriterNotStarved` alone assumes
strong fairness, of one action, the gate, for a writer of the highest
priority: the kernel wakes it and it preempts the giver at once. So `CallsReturn`
claims only that calls return once no new ones are made, and `DestroyCompletes`
that the queue goes once items stop coming; `DestructorReturns` makes the same
assumption of the work items.

In `DeferredWork` fairness is strong, since a task is disabled by every interrupt
and every critical section of another, which end: the daemon has the highest
priority, gets what it waits for first, and looks at its queue between two
expiries. So it is in every `FreeRTOSConfig.h` of the repository but two, those of
`Linux_g++_tasklet_dtor` and its variant, where on purpose one task is above it
while it schedules a tasklet and destroys it, which the model contains. Callbacks
end. Nobody has to call, and no Timeout has to be finite. `CommandsExecuted` excludes
by name what would break it: a daemon that waits for itself (`Stuck`), and what
follows the use of a timer or hook that is gone (`Undefined`).

## Findings

- **A Wait that times out leaves its thread on the WaitList** (`cv_timeout_signal`,
  `cthread.cpp:262`). A later Signal may pop that entry, and the thread that does
  wait is not woken, though `condition_variable.hpp:92` promises to signal "a
  thread waiting on this ConditionVariable". The stray give stays in the thread's
  semaphore: its next Wait, on any condition variable, returns true at once,
  against `thread.hpp:356`. `ListedAreWaiting` and
  `NoSignalLeftOver` therefore hold until the first timeout, and say so.
  `SleepersAreListed` and `BroadcastWakesAll` hold in any case.
- **AddExtraMemoryToPoolStatic never counts down** (`mem_pool_static`,
  `mem_pool.c:297`): once a buffer has room for one block, the loop does not end
  and makes blocks of the memory behind it. CreateMemoryPoolStatic, and the C++
  AddMemory, do count down.
- **A thread whose Run returns has its task deleted twice** (`cpp_workqueue_task`,
  `cthread.cpp:189` and `:214`): once by TaskFunctionAdapter, once by the
  destructor, which `thread.hpp:283` asks for. In ~WorkQueue it depends on who is
  faster, and with a worker of higher priority it is always so.

### What else the models show

Not every weakness contradicts a line of the repository. Those below are in the
models as the code has them, and the properties name them where they limit what
can be claimed.

- *Cleanup of a lock* (`read_write_lock.c:190`): it deletes the semaphores that are
  NULL and not the others. With configASSERT a failed creation stops the program,
  without it the semaphores leak. `CreationAllOrNothing` claims what is left.
- *Cleanup of a zero copy queue* (`zero_copy_queue.c:80`) reads the handle from the
  memory it has just freed. `CreatePoolFails` leaves the queue open or deletes it.
- *Threads*: a destructor of a thread that was never started, or whose Run has
  returned, deletes by a handle that is unset or stale (`DestroyStale`). A Cleanup
  with `delete this` deletes the task that executes it before the memory is freed
  (`CleanupDeletesThis`). A Start that fails leaves ThreadStarted set, and no other
  Start can succeed, which is what "should only be called once ever" (`thread.hpp`)
  comes to (`CreateTaskFails`, the second part of `OneTaskPerThread`).
- *Threads on wait lists*: `NothingDangles` holds only until a first timeout; after
  one a Signal may follow a pointer to a thread that is gone (`SignalsDangling`).
- *Tasklets*: Schedule takes DtorLock with portMAX_DELAY, whatever its CmdTimeout
  (`ctasklet.cpp:90`), and so a Run that schedules its own tasklet, or a daemon that
  sends to its own full queue, waits for ever (`Stuck`). ScheduleFromISR gives
  DtorLock back with xSemaphoreGive, not its FromISR form (`ctasklet.cpp:127`); in the
  model it gives (`ScheduleFromISRFails`).
- *Timers*: the destructor does not wait for the command it sends, so an active
  timer may call back on what is gone. `NothingGoneIsUsed` claims that for a timer
  which was inactive, with no command on its way, this cannot happen.
- *Tick hooks*: between the derived destructor and the base's, the interrupt calls
  Run of a hook that is half destroyed, unless it was disabled first. ESP_PLATFORM
  builds take a mux on the stack in each critical section, so there nothing is
  excluded from another core; TickHook is the other builds.
- *C++ pool*: when the mutex or a list node cannot be allocated, memory obtained
  before is leaked; no item is ever in two places.

### Hazards that no property covers

`PROJECT.json` lists for each hazard the properties that would catch it going wrong.
Some have none, and a note instead, because the code itself goes wrong there, or
promises nothing: the semaphores and the queue that the two cleanups above leak or
read too late; a stray give after a timeout, and the entry it leaves listed of a
thread that is destroyed; a worker that was never started, or waits for itself; the
take without bound in Schedule; an active timer that calls back after its
destructor; a hook that removes itself in Run; and sizes, alignments and ticks at
the limits of their types. In these places the properties end, by name.

## What is proved

Every invariant that the passing runs check is proved as a theorem for all values
of the constants, and so are the action properties about safety (`ReadersShare`,
`NoReaderOvertakes`, `FreedItemsRan`) and the five refinements. In each case TLC had
found the property to hold on the run's instance. The theorems assume of the
constants only what the module declares by name: that the model values that
mean "nobody" or "nothing" are none of the others, that counts and sizes are
natural numbers, positive where the code requires it, and that a set is finite where
its size is counted (`TasksAssumption`, `BoundedQueueAssumption`, `ZcqAssumption`,
`ListsAssumption`). TLC evaluates these assumptions in the runs.

**Locks.** `RWLockPreferReader_proofs` and `RWLockPreferWriter_proofs` prove, for any
finite sets of readers and writers: type correctness, that a writer is alone
(`Exclusion`), that the counts are exact and guarded, that the binary semaphores are
accounted for, that readers share (prefer reader) or do not overtake (prefer
writer), and that each lock implements ReadWriteLock.

The properties are not inductive by themselves, because the interesting facts
live between two steps. The inductive invariant `IInv` adds:

- *LoadedCurrent*: what a task loaded for its `++` or `--` is still the count, when
  it stores it. It follows from the mutex, and `CountsExact` needs it.
- *FirstIsAlone*: while a reader waits for ResourceLock as the first one, no other
  reader is counted. This is why the test of the count after the store is right.
- *LastIsLast*: a task that found 0 still has nobody counted when it gives the
  semaphore.
- for the lock that prefers writers, the same for the writers at the gate, and
  *ReaderAloneInGate*: a reader between the gate's take and give is the only task
  that relies on the gate: no other reader, and no writer.

The counts are cardinalities, so the lemmas `ReaderEnters` and `ReaderLeaves` (and
their like for writers) turn each store into the addition or removal of one
element of a finite set; the rest is one case per action. Each theorem then
follows from `IInv` by temporal logic.

**Sequences.** `SequenceLemmas` holds what the other proofs need of sequences: what
a push and a pop do to the set of elements (`AppendSet`, `TailSet`), what an
insertion and a removal anywhere do to each index (`Inserted`, `Removed`), that each
keeps every element once, that one that is not on a list has room there, and
induction over numbers. The provers cannot use the library's induction theorem,
which takes an operator, but they can use that < is well-founded: a set of numbers
that has 0 and every successor has no least number missing (`NaturalsInductive`).

**Condition variables.** `ConditionVariable_proofs` proves, for any sets of waiters,
notifiers and condition variables, with or without timeouts, types, and
`SleepersAreListed`, `ListedAreWaiting` and `NoSignalLeftOver`, the latter two as the
runs have them, until a first timeout. The first is made inductive by looking one
step ahead: *UnsignalledAreListed* speaks also of threads that are listed and have not
yet dropped the application's mutex. The other two are inductive only together: a
thread that queues itself is waiting because no signal was left over, and a signal
ends a Wait because the front of an exact list is waiting. The actions are of three
kinds, a push, a pop, or one that leaves the lists alone.

**C work queue.** `WorkQueue_proofs` proves `ItemsConserved`, `NoLostWakeup`,
`GoneWithoutTrace` and `FreedItemsRan`. Its `IInv` adds who holds Lock and who has an
item in hand (*LockHeld*, *ItemInHand*), and then, about the wakeup, that a worker asleep
with something to do has a client at exactly the step that gives Event
(*WakeupPending*): `Event` is binary and merges gives, so it must be the presence of
the step, not the number of gives. Deletion needs *OneDestroyer* (the flag is set once,
under Lock), *Quiet* (the clients' side of the contract) and *CleanExit*: a worker
that saw the flag under Lock leaves nobody and nothing behind, unless `late`.

**C++ work queue and bounded queue** (`CppQueues_proofs`). For the first,
*Handshake* says for each step of the destructor where the worker can be, which
makes the two semaphore calls a rendezvous, and *NullIsLast* that the NULL is in the
queue once and, unless a work item came `late`, at its end; together they give
`ItemsConserved` and `NoUseAfterDelete`. The bounded queue is proved over the
invariants of ConditionVariable_proofs, by INSTANCE, without looking into the
library again: each of its steps is one of ConditionVariable, or leaves that alone.
*Loops* says that what a thread found when it looked at CurSize stays true until its
Wait drops CvLock. `NoLostWakeup` is then inductive, for any number of threads on
both sides and any MaxSize: the last of a side that falls asleep does so while
holding CvLock, with nothing left to do, and whoever changes that signals before
it lets go. `QueueAsserts` follows from the tests. `ListsHaveRoom` shows that the
bound on the wait lists there, as many as there are threads, is never in the way.

**Pools** (`MemoryPools_proofs`). The C pool is proved as it is, a linked stack in raw
bytes: there is a sequence, given by no variable of the model, such that
HeadNext and the Next pointers go through it (*Chain*), Count is its length, save
between the two steps of a pop (*CountIs*), and each block is on it, out, or in the
hands of one task (*Placed*). `DepthBound` shows that a chain of blocks that do not
overlap is not longer than memory allows, so that the walk which defines the free
blocks meets them all; this is where induction comes in. `ItemSizeFits`, over
division with remainder, shows that CalculateItemSize leaves room for the node and the
payload at every size and every alignment that is not 0. From this:
`BlocksConserved`, `PayloadsDisjoint` and that the pool implements MemoryPool. The C++
pool keeps its list outside of the memory; there *Geometry* says that items are
apart from each other and from whatever a task is still cutting up, and gives
`CppItemsDisjoint` and the same refinement.

**The other components** (`Objects_proofs`).

- Creation of the locks: for each stage, what it has done to each semaphore.
- Zero copy queue: `ItemsHaveOneOwner`; its last part, that an enqueue always finds
  a place, because queued items are distinct and one of them is in hand
  (`RoomForOne`).
- C++ thread: `OneTaskPerThread`, from *Guarded* (who is between the test and the
  store of ThreadStarted, and why alone: before the scheduler is started by being
  Main, then by the mutex) and *StartedOnce* (whoever creates has set ThreadStarted,
  it stays set, and so a creation that failed is the only one there was).
  `NothingDangles` over the invariants of
  ConditionVariable_proofs, since a thread in Run does what those are about.
- Deferred work: the three ways to stand for a taken DtorLock exclude each other
  (*OneHolder*: a caller, a command in the queue, a run), a destructor that has it is
  alone (*DyingAlone*), a timer that was quiet has no command anywhere
  (*QuietTimers*), a hook that is gone is neither registered nor in a walk
  (*HooksListed*). It gives `TaskletAccounted` and `NothingGoneIsUsed` for any number
  of tasks, tasklets, timers, hooks and places in the queue.
- Lists: the pointers represent some sequence (*Represents*), forward to the end of
  the single list, in a ring for the double one. `WalkIs` shows, by induction, that a
  walk along the pointers reads that sequence; `ForwardInserted`, `ForwardRemoved`
  and their like for Prev, that the assignments of each function make it represent
  the sequence with the node in or out at that index. Every operation at head, tail
  or marker then is the operation of NodeList, with the same result
  (`ListsRefine`).

**Only model-checked** is liveness, which needs ENABLED and is outside of what the
provers do: `CallsReturn` of both locks, `WriterNotStarved`, `BroadcastWakesAll`,
`ItemsKeepFlowing`, `EveryItemRuns`, `DestroyCompletes`, `DestructorReturns` and
`CommandsExecuted`; and the three findings, which are counterexamples.

## Plan

Of safety, what the runs check is proved. What is left:

1. More of the proofs in common: the library steps of ConditionVariable are
   matched twice, for the bounded queue and for the thread, and the two pools each
   have their own lemmas about items that are apart.
2. The steps before liveness that are safety: that no state in which a task is in a
   call is one in which every task waits for another one.

## Not modelled

- *C++ queues, semaphores, mutexes, event groups*: each method is one kernel call
  and has no state of its own. What those calls mean is in FreeRTOSSemaphore and in
  the queues of CppWorkQueue and TimerDaemon; a module per class would model the
  kernel, not this code. Of Thread the same holds for Suspend, Resume, the
  priorities, DelayUntil and EndScheduler, so the thread is listed as partly
  modelled.
- *Conversions of ticks* (`ticks.hpp`) and *critical sections* (`critical.hpp`): one
  expression or kernel call each. That the products wrap at 2^32 is listed as a
  hazard and is plain from the expression; no other component uses a result.
- *The kernel* is modelled only as far as the code uses it; its scheduler is the
  interleaving of steps, with the fairness above.
- *Demonstration programs, unit tests, headers, build files*: these are four fifths
  of the repository's lines. The tests are sequences of calls that the models
  contain, the headers are documentation and class declarations, and the programs
  are clients, of which one family is modelled, as BoundedQueue; the others show one
  kernel object each. The share of all lines that the definitions stand for is low
  for that reason; of the library's own `.c` and `.cpp` files that have state, all
  operations are modelled, save those named above.
