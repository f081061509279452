# ExMM: a verification project

ExMM lets a test program play the part of a memory-mapped device. The register
file of a simulated *controller* is mapped into the process twice. The public
mapping, which a driver uses, is protected; the private one, which the
controller's hooks use, is not. A driver's load or store faults, the library's
fault handler calls the controller's `HookRead`, opens the mapping, lets the
processor execute the one instruction under the trap flag, calls `HookWrite`
and closes the mapping again.

This directory holds TLA+ models of that machinery, TLC configurations that
check them, and proofs checked by TLAPS. Paths are those of the repository;
`src/src/...` is the library, `src/examples/...` the examples.

    tlc -workers 2 -config HookEngine_shared.cfg MCHookEngine.tla
    tlapm HookEngineSafetyProofs.tla

## 1. Inventory

| Component | State | Operations | Module |
|---|---|---|---|
| Hook engine: `platforms/posix-common.cpp`, `windows-common.cpp`, `posix-x64.cpp` (and its copies `posix-x86.cpp`, `apple-x64.cpp`), `breakpoint.hpp` | per thread: `BreakPointData`, the trap flag; per process: the disposition of SIGSEGV | `AccessViolationHandler`, `TracePointHandler`, `InstallBreakPoint`, `UninstallBreakPoint` | `HookEngine` |
| Controller: `exmm/controller.hpp` | recursive memory lock, table of interrupt handlers | `DoHookRead`, `DoHookWrite`, `TriggerInterrupt`, `ConnectInterruptHandler`, `AcquireMemoryLock`, constructor and destructor | `HookEngine`; the constructor in `Registry` |
| IoSpace: `platforms/*-iospace.cpp` | the mapping file, two areas, the protection to restore | `Initialize`, `Unprotect`, `RestoreProtection`, destructor | protection in `HookEngine`, allocation in `Registry` |
| Registry: `exmm/registry.cpp` | `ioMap`, its mutex, the flag of `InitPlatform` | `Add`, `Remove`, `FindController` | `Registry` |
| Field selector: `exmm/dsl/v1/fieldhelper.hpp` | offset and `matched` of each selector | `Case`, `CaseArray`, `Inside`, `InsideArray`, `Else` | `FieldHelper` |
| ARM32 breakpoints: `platforms/posix-arm32.cpp` | an opcode saved per thread, code shared by all, its pages | `InstallBreakPoint`, `UninstallBreakPoint`, `GetBreakPoint`, `Bkpt::Save`, `Restore` | `ArmBreakpoint` |
| Example 101, telemetry FIFO | a FIFO, status bits beside it, a telemetry thread, a mutex of its own | hooks, generator loop, routine, driver, `Guard`, destructor | `FifoTelemetry` |
| Example 102, time controller | a timer thread, its orders, shadows of control and status, a clock | hooks, timer loop, routine, constructor, destructor | `TimeController` |
| Other examples, benchmark, `ExMM::Run` | none worth a model | | not modelled |

How they interact. `ControllerBase()` calls `Registry::Add`, which registers
the signal handlers once (`InitPlatform`) and creates the IoSpace; the
destructor calls `Registry::Remove`, which deletes it. An access faults; the
handler asks `Registry::FindController` for the owner of the address, calls
`DoHookRead` (which takes the controller's memory lock for the time of the
hook), then `IoSpace::Unprotect` and `InstallBreakPoint`. After the single step
the trap handler calls `DoHookWrite` (again under the memory lock),
`UninstallBreakPoint` and `IoSpace::RestoreProtection`. Inside a hook
`SwitchField` dispatches on the offset. A device thread calls
`TriggerInterrupt`, which runs the driver's routine under the memory lock.

What is hard. Three scopes meet and do not coincide: the protection belongs to
a mapping and so to *all* threads; the breakpoint and the trap flag belong to
*one* thread; the memory lock is held only *while a hook or routine runs*, not
from the opening of the mapping to its closing. Every interleaving of two
threads between `Unprotect` and `RestoreProtection` is legal and untested.
On ARM a fourth joins them: the breakpoint is an opcode in code that *all*
threads run, what it means is known to *one*.
Beyond that: locks taken inside signal handlers (re-entrance, order, deadlock);
controllers that go away; an initialisation flag without a lock; system calls
that fail in the middle of a constructor; offsets at the edges of nested arrays.

What makes each component correct:

- *engine*: hooking survives every interleaving; a stepped access gets its
  hooks, once and from its own controller; the locks are balanced; every access
  ends; a disciplined driver sees exactly the protocol of `docs/hooking.md`;
- *controller*: hooks, routines and locked sections exclude each other, and
  nothing leaves the lock taken;
- *registry and IoSpace*: the map is guarded on every path including
  exceptions; no controller without handlers; areas never overlap; what was
  acquired is given back; a fault finds its owner;
- *ARM32 breakpoints*: code is the program again once nobody steps, whoever runs
  into whose breakpoint; each access still gets exactly its hooks;
- *telemetry FIFO*: FIFO, status bits and register agree whenever somebody looks;
  no record comes twice or out of order; no interrupt is missed; the two locks a
  `Guard` takes in the middle of everything deadlock nobody;
- *time controller*: no timer is early or forgotten, no interrupt is lost, an
  order given to the thread is carried out;
- *field selector*: each access runs exactly the callback of the element it
  touches, with the offset relative to the right structure.

The hazards, each at its line and with the properties that watch it, are in
`PROJECT.json`.

## 2. Modules

### HookEngine

One step is one effect that other threads can see. Code that only touches
thread-local state is folded into the shared step next to it. `pc[t]` follows a
thread through the handlers:

    run --Access--> instr --Perform--> run                  (no trap flag)
                      |  \--Perform--> trap                 (trap flag)
                      |Fault            |TracePoint
                    fault             writeLock -> writeHook -> close -> run
                      |FindController
                      |--(load)--> readLock -> readHook -> open
                      '--(store)-------------------------> open --Open--> instr

| Action | Code |
|---|---|
| `Perform`, `Fault` | the instruction and the MMU: it takes effect if the page allows it, otherwise SIGSEGV is delivered by its disposition |
| `FindController` | registry lookup at the start of `AccessViolationHandler`; an unknown address sets `SIG_DFL` (POSIX) or is passed on (Windows) |
| `LockForHookRead`, `HookRead` | `DoHookRead`: `lock_guard` on the memory lock, the hook, unlock |
| `Open` | `Unprotect`, `InstallBreakPoint`, return to the instruction |
| `TracePoint` | `TracePointHandler`: `GetBreakPoint` and the choice of hook |
| `LockForHookWrite`, `HookWrite` | `DoHookWrite` |
| `Close` | `UninstallBreakPoint`, `RestoreProtection`; `Unset` the breakpoint |
| `TriggerInterrupt`, `EnterRoutine`, `LeaveRoutine` | `TriggerInterrupt`: copy the handler, take the lock, run it |
| `AcquireMemoryLock`, `ReleaseMemoryLock` | `std::lock_guard guard(AcquireMemoryLock())` in user code |
| `ConnectInterruptHandler`, `Destroy` | the functions of `ControllerBase` |

`interrupts`, `held` and `isr` say which routine is connected, and whose memory
lock a thread holds through its own code or through a routine. `performed` and
`hookCalls` are history variables, read by the properties only.

The platforms differ in one point that matters: the POSIX IoSpace remembers the
protection it was created with, the Windows one lets every `VirtualProtect` of
`Unprotect` overwrite it with whatever it replaces, and in `Initialize` a local
variable shadows the member. `Platform` selects the code.

The user's discipline is a parameter, not an assumption hidden in the actions:
`Drivers[c]` (who touches `c`), `LockedAccess` (the controllers whose drivers hold the memory
lock around each access, the way interrupt routines do), `Nests[c]` (which
controllers are used while `c`'s lock is held), `Destroyable`.

`HookedAccess` is the abstract protocol of `docs/hooking.md`: hook before load,
store before hook, and no other access to the controller between an instruction
and its hook. `HookEngine!HA` maps the engine to it: `op <- access`, `hooks <-`
the number of calls, `done <- performed`; pages, locks, signals and retries
vanish. `RefinesHookedAccess` is checked, and proved, where drivers do not overlap.

### Registry

`Construct` walks through `TestFlag`, `RegisterHandlers`, `SetFlag`
(`InitPlatform`, outside of the mutex, hence three steps), `LockMap`,
`OpenFile`, `MapPrivate`, `MapPublic`, `Insert`; `Destruct` through `LockMap`,
`Remove`; the fault handler's `LookUp` through `LockMap`, `FindController`,
`Handle`. `OpenFileFails` and `MapFails` are the system calls that fail; their
exception leaves a constructor, so no destructor runs and what had been
acquired moves to `lost`. Memory is a row of pages from which `mmap` takes any
free run, and sizes are in bytes, because `FindController` compares bytes while
protection works on pages.

### FieldHelper

A stack of selectors, one for the hook and one for each structure a callback has
descended into; each runs the rest of its chain. `Layout` is any nesting of
scalars, arrays, structures and arrays of structures. The comparisons of
`SameField`, `InsideField` and the element arithmetic are operators of their own
(`SameElement`, `Index`, `InsideField`), and the properties state what must
happen in terms of the layout itself, not of those operators.

Three suppositions about layout and chains stand beside the properties, and are
hypotheses of the theorems that need them: `LaidOut` (fields do not overlap,
those of a nested structure fit in it), `OneLevel` (the fields of a nested
structure are scalar) and `ChainsComplete` (a chain has one call for each field
of its structure, in any order, and ends in `Else`). `MCFieldHelper` has TLC
check all three of its instance (`InstanceIsComplete`).

`Inside` compares the wrong way round (run `dsl_inside`), but not for every
offset: it is right about the first byte of its field and about bytes further
from it than the field is long. `Beside` names the others, and `Dispatch` and
`OffsetsRelative` say of accesses `Beside` a field nothing, of all others
everything, `Inside` on structures of any size included.

### TimeController

A user of the library: a timer thread, the hooks of a driver's accesses, an
interrupt routine that runs on the timer thread, constructor and destructor.
Hooks and the thread's work on the timers exclude each other (`memoryLock`);
an instruction and its hook do not, so a write is two actions, the store into
the register file and the hook (`WriteTriggerTimeLo`, `HookTriggerTimeLo`;
`StoreStatus`, `HookStatusWrite`), and a read of `StatusWord` the hook and the
load. `timerThreadControl` is written by everybody under no lock; a control word
with `Start` is therefore handled in two steps, the order and the rest of
`ControlChanged`. The thread is started before the members after it are
initialized, so it acts on any of `Leftovers` until `Construct` and
`Initialize`. `acknowledge` says who acknowledges in this program: the driver,
by polling, or the routine, as in the test of the example.

Every access has its hook here. That is an assumption about the program, not a
consequence of the code: it is true as long as the accesses of driver and
routine, which run in different threads, do not overlap. Run `missed` shows what
happens to one that does; `FifoTelemetry` models a program in which they may.

### ArmBreakpoint

ARM has no trap flag: `InstallBreakPoint` writes a BKPT over the instruction
behind the access, `UninstallBreakPoint` puts back what it had saved. Code is a
row of halfwords, `code` the set of those that hold a part of a breakpoint;
`layout` gives each thread its route through it, and routes may join. `pc[t]` is
the place in the route, `at[t]` the place in an instruction or a handler:

    fetch --Fetch--> access --Perform--> fetch ...
                       |Fault                  |Trap (a BKPT, own breakpoint)
                     hookRead --> install    hookWrite --> uninstall --> fetch
                                    |InstallBreakPoint
                                  patch --Patch--> fetch

A thread at a breakpoint that is not its own gets back from the trap handler
(`GetBreakPoint` finds none active) and is trapped again; that is `Trap` being
disabled, and the thread waits for the one that put the breakpoint there.
`InstallBreakPoint` and `Patch` are two steps because the opcode is saved
before it is overwritten. Save and Restore copy four bytes even if a Thumb
breakpoint has two (`SavedCells`), and `mprotect` is called for the page of the
access only (`MakeWritable`), while the breakpoint, or the second halfword
Restore writes, may be on the next one.

The breakpoint is always right behind the access, so an access must not branch:
`StraightOn`, part of the assumption, says that of the routes.

A route may take and release the memory lock of a controller (`Lock`; the release
is a case of `Run`). Who holds it follows from the places in the routes (`Held`),
and hooks wait for it (`Available`), as `DoHookRead` and `DoHookWrite` do.

Two accesses `Conflict` if they go to one register file, or if the halfwords one
of them saves and writes back are part of the other or of its breakpoint; two
threads in the same function do both. Nothing in `posix-arm32.cpp` keeps
conflicting accesses of two threads apart. `Disciplined` says of a layout that
they are made under one lock, released no earlier than behind the access: the
user's duty, and the hypothesis, written out, of every theorem of the module.
It is not fulfilled by each program of the repository: driver and routine of
examples 101 and 102 use one register file, the routine under the memory lock,
the driver without it. In layouts that are not `Disciplined`, or with
`Faulty_Available` in the place of `Available`, TLC finds:

- one register file, two threads: the second one faults between the load and the
  breakpoint of the first, or again at its own, saves the BKPT as the original
  opcode and puts it back at the end (`NoTraceLeft`, then `ThreadsEnd`);
- the same code in two threads: the same, with the other's BKPT;
- neighbouring Thumb code: Restore of one puts back the halfword behind its
  breakpoint, over the other's.

One thing `Disciplined` does not exclude: a thread that holds a lock and only
runs through the code behind another's access may be trapped at a breakpoint
whose owner waits in its hook for this lock. They wait for each other forever;
`ThreadsEnd` is checked of layouts in which no such path exists, and not proved.

Instruction fetch is taken to be coherent: a `Fetch` sees what was stored before.
The code relies on it too, as it stores breakpoints and opcodes without any
maintenance of the instruction cache (lines 26, 77 and 83).

`Reentrant` controllers have hooks that use the public mapping. In `HookRead`
that is a fault while SIGSEGV is blocked, and the process dies; in `HookWrite`
the mapping is still open and nothing happens. The code for x86 has the same
order of calls, so this holds there, too.

`ArmBreakpoint!HA` is again `HookedAccess`: the protocol of `docs/hooking.md` is
one specification, which the trap flag and the patched code both implement.

### FifoTelemetry

A program of two threads, `generator` and `driver`, whose labels follow
`GenerateTelemetry` and `FifoTelemetryReaderCase`. A record is its number, and
what the hook copies is `shadowStatus` to `word`. `word` is one word of the
register file: `Status`, `StatusFields` and `NextRecord` are a union, so a store
to `NextRecord` overwrites `StatusUsage`.

The driver and its interrupt routine, which the generator's thread runs, use the
register file with no lock in common, so an access is what it is in
`HookEngine`, a sequence of steps (`step[t]`) that the other thread's get in
between of:

    load:   Fault, HookRead, Unprotect, Retry, Restore
    store:  Fault, Unprotect, Retry, HookWrite, Restore
    either: PassThrough, while the mapping is open

`open` is the protection of the mapping, one for the process. `PassThrough` is
an access through the mapping the other thread has opened: it takes effect and
has no hook. A load then finds whatever is in `word`, and a store to
`NextRecord` latches nothing, so that the driver reads the old record again. If
the other thread's `Restore` comes between `Unprotect` and `Retry`, the access
faults again and a load has its hook twice. What the properties say of loads and
stores they say of those that have their hooks; which do is part of the state
(`step`), not of an assumption.

`Guard` takes the memory lock and a mutex with `std::lock`, here as the standard
describes it (block on one, try the other, give up the first and block on the one
that failed): `LockOne`, `TryOther`, `PrintLine`. The generator prints while it
holds the memory lock, twice when it runs the routine. All of a section under
the memory lock that neither prints nor calls is one step. `full` is set as in
the code: the wrong way round after a pop, never after a push.
`dropped`, `late`, `interrupted` and `sawEmpty` are history variables. The FIFO
is assumed to fit into `StatusUsage` (`FifoMaxSize < 2^UsageBits`, 255 and 8 in
the code) and to have room for two records at least.

### The rest

`MCHookEngine`, `MCRegistry`, `MCFieldHelper` and `MCArmBreakpoint` give values
to constants that are functions. The proofs are in `HookEngineProofs` (types,
locks, breakpoints, which hooks run), `HookEngineSafetyProofs` (protection, the
life of a controller), `HookEngineDisciplineProofs` (drivers that do not
overlap), `RegistryProofs`, `FieldHelperProofs`, `TimeControllerProofs`,
`ArmBreakpointProofs` and `FifoTelemetryProofs`. An operator `Faulty_D` is a bug that could be made in
`D`; no specification uses it. It documents what a property is there to catch:
with `Faulty_D` in the place of `D`, TLC finds the property violated.

## 3. Runs

Passing:

| Run | Instance | Shows |
|---|---|---|
| `shared` | POSIX, 2 threads use 2 controllers (ReadWrite and Write) with 2 registers without discipline, interrupt routines and locked sections of one use the other, one is destroyed, 2 operations each | whatever two unsynchronised drivers do: a mapping is protected again when nobody steps (`QuiescentProtected`), locks are balanced under re-entrance, a breakpoint belongs to the thread's current access even after repeated faults and never outlives its IoSpace, an access that was stepped has had its hooks, the process dies only by an access to a dead controller, and with an order of the locks everything that starts ends |
| `disciplined` | Windows, a Read controller shared under its lock, a Write controller driven by one thread, which may be destroyed; loads, stores and load-modify-stores; 3 operations each | `ExactlyOnce`, no hook runs that was not asked for, the retried instruction does not fault, the engine implements `HookedAccess`, and saving the protection at each `Unprotect` is sound as long as accesses do not overlap |
| `life` | 2 threads, 2 controllers with register files of 2 bytes on pages of 3, 1 failing system call | the registry's invariants, also after an exception out of `Add`; register files are smaller than a page, and a fault on a page finds its owner if it is in the register file and nobody on the rest of the page |
| `dsl` | all 32 bytes, all orders of a chain of `Case`, `CaseArray`, `Inside`, `InsideArray`, `Else`, with holes and tails; `Inside` on structures of one and of four bytes | exactly one callback, the right one, but for accesses beside a field reached with `Inside` |
| `timer` | 2 timers, a driver that polls or one with a routine, any control words, any leftover order, 2 operations and 2 ticks | a timer is raised only when it is active and due, an interrupt stays until it was read, an enabled one is acknowledged, a due timer is noticed, and the destructor returns unless its `Abort` meets a restart under way |
| `arm` | 2 threads that join in code after accesses of their own, or run the same accesses to one register file under its lock; loads and stores, 3 controllers, 2 of them re-entrant; ARM and Thumb code with every mix of sizes the routes have, placed so that the page ends at any halfword of it | with conflicting accesses under one lock (`Disciplined`), the code is the program and the breakpoints of those that step, and nothing else; the protocol of `HookedAccess`; nobody is trapped forever; the process dies of two causes only, an access at the end of a page of code and a `HookRead` that uses the public mapping |
| `fifo` | a FIFO of 7, 8 reads, up to 10 records | whichever accesses pass without hooks: usage and half-full follow the FIFO, the driver times out only when there was nothing to wait for, records are latched in order and only dropped ones are missing, and the driver ends through all the Guards; a load of the routine that has its hook sees the FIFO it was called for, a store of the driver that has its hook gives a new record |

Violated, each a disagreement between the code and what its documentation says
(the quotes are in `PROJECT.json`, `findings`):

| Run | Property | The counterexample |
|---|---|---|
| `missed` | `NoHookMissed` | thread 1 opens the mapping, thread 2's load passes through it without `HookRead` |
| `lost` | `QuiescentProtected` | Windows: the second of two overlapping `Unprotect` saves "read-write" as the original protection; hooking is off for good |
| `rmw` | `EveryLoadHooked` | `registers->x++` compiled to one instruction faults as a store; the value it loads was not prepared by `HookRead` |
| `restart` | `EveryStartRestarts` | the driver writes `Start` again while the thread is in `Restart`; the thread then stores `Running` over it. By the same store the destructor's `Abort` can be lost, and `join` waits forever |
| `dsl_inside` | `InsideReachesField` | `Inside` on a structure with two registers misses the second one, and takes bytes before the structure for its first |

`NoHookMissed` has a counterpart that needs no run of its own: in `disciplined`
the instruction that is run again never faults (`RetrySucceeds`), without the
lock it does, because the other thread's `RestoreProtection` comes in between; a
load then has its `HookRead` twice. That this cannot go on forever is
`EveryOperationEnds` in `shared`.

Two facts about `Registry` need no run, as nothing documented contradicts them.
`InitPlatform` tests its flag without a lock: if two threads construct their
first controllers at once, both register the handlers, and on Windows
`previousFilter` becomes the filter itself. And a register file that is not a
whole number of pages, as none of the repository's is, leaves a protected rest
of its last page: an access there faults, `FindController` gives nobody, and the
handler sets `SIG_DFL`. `FaultFindsOwner` says so of both parts of the page.

`NoInterruptLost` holds in `timer` because only one of driver and routine
acknowledges. With `Programs = {{"driver", "routine"}}`, one timer and
`MaxOps = 4`, TLC finds it violated: the driver stores to `StatusWord`, the
routine acknowledges the same bit, the timer, started again, raises it, and only
then the hook of the driver's store resets it. `InterruptsAreNotLost` is proved
for programs that do not have both (`OneAcknowledges`).

### Bounds, and why they are enough

- *Two threads.* What can go wrong in the engine happens between the `Unprotect`
  and the `RestoreProtection` of one thread; a second thread reaches every page
  state there, and a third only repeats the second. The theorems below hold for
  any number.
- *One or two controllers.* Two are needed for lock order, for breakpoints that
  name the wrong controller, and for overlapping areas.
- *`MaxOps` (1 to 3 operations a thread, 1 only where a violation is shown)* lets
  a thread access, be interrupted and access again, so that state left over from
  one access meets the next. In `disciplined` a locked access costs two
  operations.
- *`MaxFailures = 1`*: any system call of the instance may be the one.
  *`PageCount`* leaves a page free beyond what the controllers need (`life`), so
  that placement is a choice and something can be lost. `PageSize = 3` with
  register files of 2 bytes has each page end in a byte that is nobody's.
- *`timer`: `MaxOps = 2`, `MaxTime = 2`, `Base = 2`.* One control word can start
  the clock and both timers, so two operations set a timer and start, or start
  and acknowledge, or start twice; two ticks carry the lower word of the time
  into the upper one, and `LoTimes` is out of range.
- *`arm`: most layouts run each route twice*, so that a breakpoint meets code
  that was restored, and a page that is writable already; in those with locks
  one thread passes the common code after the other, or after code of its own.
  `PageSize = 16` with 16 places to begin at puts the end of a page between, and
  inside of, any two instructions.
- *`fifo`: `FifoMaxSize = 7`* is odd, as in the code half of it is rounded down,
  and fills `UsageBits = 3`, as the 255 of the code fill its 8 bits. `Records = 8` and `MaxCounter = 10`
  let the FIFO fill up, be emptied, and drop records in between; all of
  `TimeoutJustified`'s disjuncts are reached. Loads and stores of both threads
  pass through the mapping the other has opened.
- *Layout of 32 bytes*: every kind of field next to every kind of gap, and
  element sizes that differ.

### Fairness

`FairSpec` has weak fairness of `Continue(t)` for each thread: the operating
system goes on running a thread that can run. It is never required to start an
operation. A thread that waits for a memory lock is disabled while another holds
it, and weak fairness alone promises nothing to a thread that could be
overtaken forever; a `std::recursive_mutex` indeed promises nothing. Liveness is
therefore a statement about programs with a bounded number of operations
(`MaxOps`), in which overtaking ends; the statement is that no deadlock and no
endless cycle of faults remains, not that the mutex is fair. `Registry` states
no liveness.

In `TimeController` both threads have weak fairness: the timer thread, which is a
loop that never returns to its caller, and the driver inside an access or the
destructor (`DriverContinues`), but not its starting one. The memory lock is
never contended forever, as the driver has `MaxOps` operations and the thread
leaves it free while it sleeps for 200 ms.

In `FifoTelemetry` both threads have weak fairness. The generator could take the
memory lock in front of the driver each time; `MaxCounter` bounds this, and in
the program the generator sleeps between records with the lock free. In
`ArmBreakpoint` each thread has weak fairness: a thread that is trapped at
another's breakpoint takes no step of the model, and the other is run. Nor does
one that waits for a memory lock; routes are finite, so nobody is overtaken
forever.

## 4. Proofs

All theorems are about `Spec`, for any number of threads, controllers,
registers, pages or fields, any hook types and any bound. What a theorem assumes
beyond the `ASSUME` of its module it says in its statement. Every type
invariant, safety invariant and action property that a passing run checks is
the conclusion of a theorem.

### Any drivers

`HookEngineProofs` proves `Inv == TypeOK /\ Control /\ Saved /\ LockBalanced /\
LockFree` inductive, where

- `Control` ties `pc[t]` to the thread's private state: where the trap flag and
  the breakpoint are set, that an active breakpoint is the one of the current
  access. Without it the trap handler could unlock or close anything;
- `Saved` says what `oldProtection` can hold;
- `LockBalanced` is the property, and `LockFree` (a lock without an owner has
  depth 0) says from which depth a thread that takes it starts to count.

It yields `TypeCorrect`, `LockIsBalanced` and `BreakPointIsCurrent`.

The module goes on to prove `SteppedAccessIsHooked` and
`OnlyRequestedHooksRun`. The invariant counts the hooks an access has had by the
label the thread is at (`HooksSoFar`), and needs `PagesKnown`, that a page has
its initial protection or is open, on both platforms: a load reaches
`DoHookRead` only through a fault, and only a page of a controller that hooks
loads can refuse one.

`HookEngineSafetyProofs` proves three things.

- `HookingSurvives`: on POSIX, `Spec => []QuiescentProtected`. The invariant
  adds that the saved protection is the initial one, always, and that an open
  mapping has a thread between `Open` and `Close`; the difficult step is `Close`
  of one thread while another is still stepping, which leaves the mapping closed
  (not open) and so satisfies the invariant at once. The same statement for
  Windows is false: that is run `lost`.
- `BreakPointsDoNotDangle`: `Found`, that the controller of an access exists
  from the lookup on, is kept by `Destroy` because a destructor may not run
  while a thread is inside the controller. This is the user's duty under the
  rules of C++, not something the library enforces.
- `OnlyStrayAccessesKill`: once SIGSEGV has its default action, some thread is
  `Doomed`, at an instruction whose controller is gone; its next step is the
  only one that kills.

### Drivers that do not overlap

`HookEngineDisciplineProofs` assumes `Disciplined`: each controller is either in
`LockedAccess` or driven by one thread. Everything in it holds on both
platforms. The argument has four layers.

1. `Entitled`: a thread inside an access is a driver of its controller and, if
   the controller is one of `LockedAccess`, holds its memory lock. With
   `LockBalanced` two threads are never inside accesses to one controller
   (`Apart`).
2. `Steady`: the protection follows the one access that may be stepping over a
   mapping, so what Windows saves in `Unprotect` is the initial protection, and
   `Close` puts it back. This gives `NoSecondFault` (`RetrySucceeds`) and
   `HookingSurvivesDisciplined` (`QuiescentProtected`).
3. `Exact`: the counts of `HooksSoFar` become exact, since no access is repeated
   and one that does not fault needs no hook (`DirectAccess`). This gives
   `HookedExactlyOnce` (`ExactlyOnce`).
4. Each step of the engine is a step of `HookedAccess` or a stutter:
   `Access` is `Begin`, `HookRead` and `HookWrite` are `Hook`, `Perform` is
   `Perform`, and a thread that is half done is inside its handlers, so `Apart`
   is what `Alone` asks for. This gives `ImplementsHookedAccess`
   (`RefinesHookedAccess`).

### Registry

`RegistryProofs` is one argument in four layers.

1. `MapIsGuarded` and `HandlersComeFirst`. `InitPlatform` is not synchronised;
   the invariant `Registered` says that whoever is past it has seen the handlers
   registered, by itself or by the thread that set the flag, and that nobody
   ever takes them away.
2. `TypeCorrect`, with `Subjects`: a controller is under construction, or
   destruction, by one thread, whose label tells on which side of the map it is.
3. `SpacesFollow` and `NothingLostBefore`, with `Owned`: each stage of a
   constructor has acquired exactly the areas it has passed, what is unused
   holds nothing, and all areas are disjoint, those that an exception lost
   included.
4. `LookupFindsOwner`, for register files of any size. `SpacesFollow` makes the
   controller behind a page unique; on this page the comparison by bytes finds
   it for an address in the structure, and no other controller for the rest.

### Field selector

`FieldHelperProofs` has two invariants.

- `GoodFrames` with the property itself: every selector on the stack is well
  formed, what is left of its chain included, and its base plus its offset is
  the address of the access unless the way to it led past an `Inside` it lay
  `Beside`. For `InsideArray` this rests on division with remainder. It gives
  `OffsetsStayRelative`, for every layout and every chain, and, with the fields'
  places in each other (`LaidOut`), `TypeCorrect`.
- `Undecided \/ Decided`. As long as nothing has been called, the innermost
  selector has not matched and still has before it the call for every field that
  its offset hits (`Live`), the ones below it have matched and are left with
  calls for fields their offset does not hit (`Idle`), and the innermost one
  decides for the whole register file (`Decides`). From the callback on all are
  `Idle`. That at most one field is hit follows from `LaidOut`, that one call is
  left for it from `ChainsComplete`. This gives `DispatchesOnce`: for any layout
  and chains that satisfy `LaidOut`, `OneLevel` and `ChainsComplete`, and any
  access that is not `Beside` a field reached with `Inside`, one callback runs
  and it is that of the element the access starts at, or `Else`.

### Time controller

- `TypeCorrect`. What is not obvious are the times: the lower word stays below
  `Base`, and a clock is never read that was started in the future.
- `InterruptsAreNotLost`, from `Reading`: for each label between the load of
  `StatusWord`, the store back and its hook, the bits about to be reset have
  been read and are still pending (`ReadPending`), by the driver's account if it
  acknowledges and by the routine's if not. A bit that is read and pending
  cannot become unread again, because only one that is not pending is raised.
  `OneAcknowledges` is needed (section 3), and `Polling` is what a program
  without a routine gives: no interrupt is enabled.
- `TimersAreNotEarly`, from `TimeTaken`: a time taken since the clocks were
  initialized has not been overtaken by the controller's clock, so a timer that
  is due by it is due.

### ARM32 breakpoints

`ArmBreakpointProofs` has an invariant of two halves, which end with the process
(the step that kills it leaves a store undone). `Stage(t)` says of a thread
whether it is `Fresh` or how far its access is: what is done, how often the hook
ran, what exactly its breakpoint is. `Shared` says of the code and the mappings
that they are what the breakpoints of all threads make of them. `Exclusive` says
that a memory lock has one owner.

A thread inside an access is at its access or right behind it (`StraightOn` puts
it at its own breakpoint), where it holds all the locks it made the access
under (`InsidePlace`, from `HeldNext`). So two threads that are inside accesses
do not conflict: with `Disciplined` they would hold one lock (`NoConflict`).
Hence the cells they save and write are disjoint, what `Save` finds is the
program, and `Restore` takes away nobody else's breakpoint. A thread that waits
for a lock, or runs into another's breakpoint, is where it was.

It gives, each of the form `Disciplined(layout) /\ Spec => ...`, `TypeCorrect`,
`NoTraceIsLeft`, `OnlyKnownCausesKill` and `ImplementsHookedAccess`: `Fetch` is `Begin`, `HookRead` and `HookWrite` are
`Hook`, `Perform` is `Perform`, and everything else, traps and writes to code
included, is a stutter.

### Telemetry FIFO

`FifoTelemetryProofs` proves one invariant of seven parts beside the types:
`Places` (which thread can be where), `Locking` (who is inside holds the memory
lock, and a `Guard` what it says it holds), `Stepped` (only accesses are stepped
over, and a mapping is open because of one that is), `Following` (usage and
half-full are those of the FIFO, and there is room for the record that is about
to be pushed), `Interrupting` (a FIFO that is half full while the driver waits
has the routine running or the flag set), `Seen` (what the bits in the register
file and those that were read tell about the FIFO now: only the driver takes
records, so it does not become empty behind its back) and `Numbered` (the
records in the FIFO ascend, and every number between the last one latched and
the next one to be generated is in the FIFO or was dropped).

`Seen` and `Following` carry the claims about hooked accesses past the other
thread. After the `HookRead` of the routine's load no latch can follow until the
routine is over, as the memory lock is held; the driver's own `HookRead` copies
the same bits again, and its store changes only the usage. A store's `HookWrite`
finds a byte that is not 0: what alone may have overwritten it is the hook of
the routine's load, with the usage of a FIFO that is half full.

From it follow `TypeCorrect`, `StatusAlwaysTracksFifo`,
`RoutineAlwaysSeesHalfFull`, `NoInterruptIsMissed`, `LatchedRecordsAreFresh` and
`RecordsAreConsecutive`. The provers know nothing of powers, hence
`2^UsageBits \in Nat` in `FifoAssumption`.

### Only model-checked

Liveness, which needs fairness and `ENABLED`: `EveryOperationEnds`,
`ThreadsEnd`, `DriverEnds`, `DestructorReturns`, `InterruptsDelivered` and
`TimersElapse`; and the absence of deadlock, which the runs of `HookEngine`,
`Registry` and `FieldHelper` check (the programs of the other modules may stop
for good, their liveness properties say where). That the violated properties are
violated is TLC's counterexample.

## 5. Not modelled

- *What hooks and routines compute.* They are the user's. In `HookEngine` a hook
  uses the private mapping it is given, as every example does; one that uses the
  public mapping is in `ArmBreakpoint`.
- *Instructions with operands in two register files* (the second fault overwrites
  the first breakpoint): planned.
- *`RegisterHandlers` failing, `mprotect` failing* on a mapping that exists.
  Planned for the latter.
- *Which routine runs* after `ConnectInterruptHandler` replaced one: there is one
  routine per controller. Planned.
- *On ARM, instructions that branch on what they load*: the breakpoint is behind
  the access, where such an instruction never arrives.
- *Instruction caches*: a store of a breakpoint is seen by the next fetch, as the
  code takes for granted.
- *`ExMM::Run`* only calls its argument, or wraps it in `__try`.
- *Example 101*: the full interrupt, which no FIFO ever reaches (a full FIFO is
  more than half full, and the branches exclude each other), and the variables
  the routine captures, which go before the controller does.
- *Example 102*: the latch of `CurrentTimeHi` and `CurrentTimeLo`, and the data
  race of its hook with `Restart` on `whenStarted`.
- *Examples 000 to 007 and 200, the benchmark, build files*: sequential uses of
  the library of a few lines, or no behaviour. Example 005 has a thread, whose
  test of `Active` and count are not one step; it has no other state.

## 6. Plan

Models:

1. `HookEngine`: instructions with two operands, partial failure of `mprotect`,
   routines with an identity (which one runs after it was replaced?). All three
   add a variable or a disjunct to a module with proofs, and belong with the
   next change to these.
2. `LatchedTime` (examples 007 and 102): a pair of registers read by two accesses.

Proofs:

1. `EveryStartRestarts` and `NoHookMissed` are false of the code; what holds
   instead (a restart ordered while none is under way is carried out; an access
   through a mapping another thread has opened is the only one without its
   hook) can be stated and proved from the invariants there are.
2. `LaidOut` lets structures nest one level deep, as `ElementStarts` does. The
   offsets are proved for any depth; `Dispatch` would need elements defined by
   recursion on the depth, about which nothing can be proved by induction here.
