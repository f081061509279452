----------------------------- MODULE HookEngine -----------------------------
(***************************************************************************)
(* How ExMM turns a plain load or store into a call of a controller hook.  *)
(*                                                                         *)
(* The register file of a controller is mapped twice.  The public mapping  *)
(* is protected, so that a driver's access faults.  The fault handler      *)
(* calls HookRead (loads), opens the whole mapping and sets the trap flag; *)
(* the instruction is run again; the trap handler calls HookWrite (stores) *)
(* and closes the mapping.  The protection belongs to the mapping and is   *)
(* shared by all threads, the breakpoint and the trap flag belong to one   *)
(* thread, and the memory lock (a recursive mutex per controller) is held  *)
(* only while a hook or an interrupt routine runs: everything that can go  *)
(* wrong comes from these three having different scopes.                   *)
(*                                                                         *)
(* Sources: platforms/posix-common.cpp, platforms/windows-common.cpp (the  *)
(* handlers), platforms/breakpoint.hpp and platforms/posix-x64.cpp (the    *)
(* breakpoint), platforms/*-iospace.cpp (the protection),                  *)
(* exmm/controller.hpp (the memory lock, hooks and interrupts).            *)
(*                                                                         *)
(* A step is one effect that other threads can see; code that touches      *)
(* thread-local state only (the breakpoint, the saved flags) is folded     *)
(* into the shared step next to it.  Hook bodies use the private mapping   *)
(* and so do not fault.                                                    *)
(*                                                                         *)
(* A definition Faulty_D is D with a plausible bug.  The specification     *)
(* does not use it: put in the place of D it must break a property.        *)
(***************************************************************************)
EXTENDS Naturals

CONSTANTS
  Threads,        \* threads of the process
  Controllers,    \* controller objects, one register file each
  Offsets,        \* offsets of registers inside a register file
  Kinds,          \* instructions drivers use: "read", "write", "rmw"
  HookType,       \* [Controllers -> HookTypes], the template argument
  Platform,       \* "posix" or "windows": how IoSpace saves the protection
  Drivers,        \* Drivers[c]: the threads that touch c's public mapping
  LockedAccess,   \* controllers whose drivers lock its memory for an access
  Nests,          \* Nests[c]: controllers used while c's memory lock is held
  Destroyable,    \* controllers that may be destroyed while the program runs
  MaxOps,         \* bound: operations a thread starts
  NoThread, NoController, NoAccess

HookTypes == {"None", "Read", "Write", "ReadWrite"}

Accesses == [c : Controllers, offset : Offsets, kind : Kinds]

ASSUME ConstantsAssumption ==
  /\ Kinds \subseteq {"read", "write", "rmw"}
  /\ Offsets \subseteq Nat
  /\ HookType \in [Controllers -> HookTypes]
  /\ Platform \in {"posix", "windows"}
  /\ Drivers \in [Controllers -> SUBSET Threads]
  /\ LockedAccess \subseteq Controllers
  /\ Nests \in [Controllers -> SUBSET Controllers]
  /\ Destroyable \subseteq Controllers
  /\ MaxOps \in Nat
  /\ NoThread \notin Threads
  /\ NoController \notin Controllers
  /\ NoAccess \notin Accesses

VARIABLES
  \* Shared by the whole process.
  ioMap,          \* controllers in the registry, their mappings alive
  prot,           \* protection of the public mapping: "none", "read", "rw"
  oldProtection,  \* what IoSpace::RestoreProtection will put back
  lockOwner,      \* owner of memoryLockMutex
  lockDepth,      \* times its owner has locked it
  interrupts,     \* handler at vector 0: "absent", "empty", "routine"
  sigAction,      \* disposition of SIGSEGV: "ExMM", "SIG_DFL"; "killed"
  \* One per thread.
  pc,             \* where the thread is
  access,         \* its current, or last, register access
  bp,             \* its thread_local BreakPointData
  tf,             \* the trap flag in its saved flags register
  held,           \* controller whose memory lock its code took explicitly
  isr,            \* controller whose interrupt routine it runs, or waits for
  ops,            \* operations it may still start
  \* History, read by the properties only.
  performed,      \* has the instruction of access taken effect?
  hookCalls       \* hooks called for access so far

shared == <<ioMap, prot, oldProtection, lockOwner, lockDepth, interrupts,
            sigAction>>
locks  == <<lockOwner, lockDepth>>
pages  == <<prot, oldProtection>>
trace  == <<bp, tf>>
ghosts == <<performed, hookCalls>>
vars   == <<ioMap, prot, oldProtection, lockOwner, lockDepth, interrupts,
            sigAction, pc, access, bp, tf, held, isr, ops, performed,
            hookCalls>>

Labels == {"run",       \* in the driver's, the device's or a routine's code
           "instr",     \* at an instruction that touches a register
           "fault",     \* the access was refused, the handler is entered
           "readLock",  \* DoHookRead waits for the memory lock
           "readHook",  \* HookRead runs
           "open",      \* about to Unprotect and InstallBreakPoint
           "trap",      \* the instruction was single-stepped
           "writeLock", \* DoHookWrite waits for the memory lock
           "writeHook", \* HookWrite runs
           "close",     \* about to UninstallBreakPoint, RestoreProtection
           "isrLock"}   \* TriggerInterrupt waits for the memory lock

-----------------------------------------------------------------------------
(* Hook types, instructions and page protection. *)

HooksRead(c)  == HookType[c] \in {"Read", "ReadWrite"}
HooksWrite(c) == HookType[c] \in {"Write", "ReadWrite"}

\* The access error code has its write bit set for a load-modify-store too.
IsMemoryWriteAccess(a) == a.kind \in {"write", "rmw"}

Allows(p, kind) == p = "rw" \/ (p = "read" /\ kind = "read")

InitialProtection(c) ==
  IF HookType[c] = "None" THEN "rw"
  ELSE IF HooksRead(c) THEN "none" ELSE "read"

Faulty_InitialOldProtection(c) == "unset"

\* On Windows a local of the same name shadows the member in Initialize.
InitialOldProtection(c) ==
  IF Platform = "posix" THEN InitialProtection(c) ELSE "unset"

Faulty_SavedProtection(c) == prot[c]

\* VirtualProtect stores the protection it replaces into the member.
SavedProtection(c) ==
  IF Platform = "posix" THEN oldProtection[c] ELSE prot[c]

Faulty_Unprotect(c) == UNCHANGED pages

Unprotect(c) ==
  /\ oldProtection' = [oldProtection EXCEPT ![c] = SavedProtection(c)]
  /\ prot' = [prot EXCEPT ![c] = "rw"]

Faulty_RestoreProtection(c) == UNCHANGED pages

RestoreProtection(c) ==
  /\ prot' = [prot EXCEPT ![c] = oldProtection[c]]
  /\ UNCHANGED oldProtection

-----------------------------------------------------------------------------
(* The thread's breakpoint. *)

NoBreakPoint ==
  [active |-> FALSE, ioSpace |-> NoController, controller |-> NoController,
   offset |-> 0]

\* A load is stepped over with Set(ioSpace), a store with all three fields.
BreakPointFor(a) ==
  IF IsMemoryWriteAccess(a)
  THEN [active |-> TRUE, ioSpace |-> a.c, controller |-> a.c,
        offset |-> a.offset]
  ELSE [active |-> TRUE, ioSpace |-> a.c, controller |-> NoController,
        offset |-> 0]

InstallBreakPoint(t) ==
  /\ bp' = [bp EXCEPT ![t] = BreakPointFor(access[t])]
  /\ tf' = [tf EXCEPT ![t] = TRUE]

Faulty_UninstallBreakPoint(t) ==
  /\ UNCHANGED bp
  /\ tf' = [tf EXCEPT ![t] = FALSE]

UninstallBreakPoint(t) ==
  /\ bp' = [bp EXCEPT ![t] = NoBreakPoint]
  /\ tf' = [tf EXCEPT ![t] = FALSE]

Faulty_CallsHookWrite(b) == b.controller # NoController

Faulty2_CallsHookWrite(b) ==
  b.controller # NoController /\ HookType[b.controller] = "Write"

\* controller && (controller->GetHookTypes() & HookTypes::Write)
CallsHookWrite(b) == b.controller # NoController /\ HooksWrite(b.controller)

-----------------------------------------------------------------------------
(* The controller's recursive memory lock. *)

Faulty_CanLock(t, c) == TRUE

CanLock(t, c) == lockOwner[c] \in {NoThread, t}

Lock(t, c) ==
  /\ CanLock(t, c)
  /\ lockOwner' = [lockOwner EXCEPT ![c] = t]
  /\ lockDepth' = [lockDepth EXCEPT ![c] = @ + 1]

Faulty_Unlock(c) ==
  /\ lockDepth' = [lockDepth EXCEPT ![c] = @ - 1]
  /\ lockOwner' = [lockOwner EXCEPT ![c] = NoThread]

Unlock(c) ==
  /\ lockDepth' = [lockDepth EXCEPT ![c] = @ - 1]
  /\ lockOwner' = [lockOwner EXCEPT ![c] =
                     IF lockDepth[c] = 1 THEN NoThread ELSE @]

\* The controllers whose memory lock thread t holds, or waits for, outside
\* of the hooks: a lock_guard on AcquireMemoryLock(), or TriggerInterrupt.
LocksOf(t) == {c \in Controllers : held[t] = c \/ isr[t] = c}

MayEnter(t, c) == \A d \in LocksOf(t) : c \in Nests[d]

-----------------------------------------------------------------------------
(* What the program's own code does: driver, device thread or routine.     *)
(* Each of these starts an operation and is bounded by MaxOps.             *)

\* t runs its own code and may start another operation.
Starts(t) ==
  /\ pc[t] = "run"
  /\ sigAction # "killed"
  /\ ops[t] > 0
  /\ ops' = [ops EXCEPT ![t] = @ - 1]

Goto(t, label) == pc' = [pc EXCEPT ![t] = label]

\* The driver reaches an instruction that touches a register of c.  It keeps
\* the pointer GetIoArea() gave it, so c may be gone by now.
Access(t, a) ==
  /\ Starts(t)
  /\ t \in Drivers[a.c]
  /\ MayEnter(t, a.c)
  /\ a.c \in LockedAccess => a.c \in LocksOf(t)
  /\ access' = [access EXCEPT ![t] = a]
  /\ performed' = [performed EXCEPT ![t] = FALSE]
  /\ hookCalls' = [hookCalls EXCEPT ![t] = [read |-> 0, write |-> 0]]
  /\ Goto(t, "instr")
  /\ UNCHANGED <<shared, trace, held, isr>>

\* std::lock_guard guard(AcquireMemoryLock()), outside interrupt routines.
AcquireMemoryLock(t, c) ==
  /\ Starts(t)
  /\ c \in ioMap
  /\ LocksOf(t) = {}
  /\ Lock(t, c)
  /\ held' = [held EXCEPT ![t] = c]
  /\ UNCHANGED <<ioMap, pages, interrupts, sigAction, pc, access, trace, isr,
                 ghosts>>

ReleaseMemoryLock(t) ==
  /\ pc[t] = "run"
  /\ sigAction # "killed"
  /\ held[t] # NoController
  /\ isr[t] = NoController
  /\ Unlock(held[t])
  /\ held' = [held EXCEPT ![t] = NoController]
  /\ UNCHANGED <<ioMap, pages, interrupts, sigAction, pc, access, trace, isr,
                 ops, ghosts>>

\* The handler may be an empty std::function.
ConnectInterruptHandler(t, c, handler) ==
  /\ Starts(t)
  /\ c \in ioMap
  /\ interrupts' = [interrupts EXCEPT ![c] = handler]
  /\ UNCHANGED <<ioMap, prot, oldProtection, locks, sigAction, pc, access,
                 trace, held, isr, ghosts>>

\* TriggerInterrupt copies the handler under interruptsMutex; when there is
\* one it goes on to take the memory lock.
TriggerInterrupt(t, c) ==
  /\ Starts(t)
  /\ c \in ioMap
  /\ isr[t] = NoController
  /\ MayEnter(t, c)
  /\ \/ /\ interrupts[c] = "routine"
        /\ isr' = [isr EXCEPT ![t] = c]
        /\ Goto(t, "isrLock")
     \/ /\ interrupts[c] # "routine"
        /\ UNCHANGED <<isr, pc>>
  /\ UNCHANGED <<shared, access, trace, held, ghosts>>

EnterRoutine(t) ==
  /\ pc[t] = "isrLock"
  /\ sigAction # "killed"
  /\ Lock(t, isr[t])
  /\ Goto(t, "run")
  /\ UNCHANGED <<ioMap, pages, interrupts, sigAction, access, trace, held,
                 isr, ops, ghosts>>

LeaveRoutine(t) ==
  /\ pc[t] = "run"
  /\ sigAction # "killed"
  /\ isr[t] # NoController
  /\ Unlock(isr[t])
  /\ isr' = [isr EXCEPT ![t] = NoController]
  /\ UNCHANGED <<ioMap, pages, interrupts, sigAction, pc, access, trace,
                 held, ops, ghosts>>

\* t is between an access to c and the return to its own code.
Accessing(t, c) ==
  /\ pc[t] \notin {"run", "isrLock"}
  /\ access[t] # NoAccess
  /\ access[t].c = c

\* ~ControllerBase calls Registry::Remove, which deletes the IoSpace.  As the
\* lifetime rules of C++ require, no thread is inside the controller then.
Destroy(t, c) ==
  /\ Starts(t)
  /\ c \in Destroyable \cap ioMap
  /\ \A u \in Threads : ~Accessing(u, c) /\ c \notin LocksOf(u)
  /\ ioMap' = ioMap \ {c}
  /\ UNCHANGED <<pages, locks, interrupts, sigAction, pc, access, trace,
                 held, isr, ghosts>>

-----------------------------------------------------------------------------
(* The instruction and the two signal handlers. *)

\* t, in its signal handlers or at an instruction, is at this label.
At(t, label) == pc[t] = label /\ sigAction # "killed"

Permitted(a) == a.c \in ioMap /\ Allows(prot[a.c], a.kind)

\* The instruction takes effect; with the trap flag set a trap follows it.
Perform(t) ==
  /\ At(t, "instr")
  /\ Permitted(access[t])
  /\ performed' = [performed EXCEPT ![t] = TRUE]
  /\ Goto(t, IF tf[t] THEN "trap" ELSE "run")
  /\ UNCHANGED <<shared, access, trace, held, isr, ops, hookCalls>>

Faulty_Fault(t) ==
  /\ At(t, "instr")
  /\ ~Permitted(access[t])
  /\ \/ sigAction = "ExMM" /\ Goto(t, "fault") /\ sigAction' = "SIG_DFL"
     \/ sigAction = "SIG_DFL" /\ UNCHANGED pc /\ sigAction' = "killed"
  /\ UNCHANGED <<ioMap, pages, locks, interrupts, access, trace, held, isr,
                 ops, ghosts>>

\* The MMU refuses the access: SIGSEGV, EXCEPTION_ACCESS_VIOLATION.
Fault(t) ==
  /\ At(t, "instr")
  /\ ~Permitted(access[t])
  /\ \/ sigAction = "ExMM" /\ Goto(t, "fault") /\ UNCHANGED sigAction
     \/ sigAction = "SIG_DFL" /\ UNCHANGED pc /\ sigAction' = "killed"
  /\ UNCHANGED <<ioMap, pages, locks, interrupts, access, trace, held, isr,
                 ops, ghosts>>

Faulty_HandlerFor(a) == "open"

\* A load is hooked before the instruction, a store after it.
HandlerFor(a) == IF IsMemoryWriteAccess(a) THEN "open" ELSE "readLock"

\* The handler looks the address up in the registry.  If no controller owns
\* it the handler gives SIGSEGV its default action and returns to the
\* instruction; the Windows filter passes the exception on, which is fatal.
FindController(t) ==
  /\ At(t, "fault")
  /\ \/ /\ access[t].c \in ioMap
        /\ Goto(t, HandlerFor(access[t]))
        /\ UNCHANGED sigAction
     \/ /\ access[t].c \notin ioMap
        /\ Platform = "posix"
        /\ Goto(t, "instr")
        /\ sigAction' = "SIG_DFL"
     \/ /\ access[t].c \notin ioMap
        /\ Platform = "windows"
        /\ sigAction' = "killed"
        /\ UNCHANGED pc
  /\ UNCHANGED <<ioMap, pages, locks, interrupts, access, trace, held, isr,
                 ops, ghosts>>

CountCall(t, hook) == hookCalls' = [hookCalls EXCEPT ![t][hook] = @ + 1]

\* DoHookRead takes the memory lock ...
LockForHookRead(t) ==
  /\ At(t, "readLock")
  /\ Lock(t, access[t].c)
  /\ Goto(t, "readHook")
  /\ UNCHANGED <<ioMap, pages, interrupts, sigAction, access, trace, held,
                 isr, ops, ghosts>>

\* ... and HookRead runs.
HookRead(t) ==
  /\ At(t, "readHook")
  /\ CountCall(t, "read")
  /\ Unlock(access[t].c)
  /\ Goto(t, "open")
  /\ UNCHANGED <<ioMap, pages, interrupts, sigAction, access, trace, held,
                 isr, ops, performed>>

\* Unprotect, InstallBreakPoint, return to the instruction.
Open(t) ==
  /\ At(t, "open")
  /\ Unprotect(access[t].c)
  /\ InstallBreakPoint(t)
  /\ Goto(t, "instr")
  /\ UNCHANGED <<ioMap, locks, interrupts, sigAction, access, held, isr, ops,
                 ghosts>>

\* SIGTRAP, EXCEPTION_SINGLE_STEP: GetBreakPoint and the choice of the hook.
TracePoint(t) ==
  /\ At(t, "trap")
  /\ Goto(t, IF ~bp[t].active THEN "run"
             ELSE IF CallsHookWrite(bp[t]) THEN "writeLock"
             ELSE "close")
  /\ UNCHANGED <<shared, access, trace, held, isr, ops, ghosts>>

LockForHookWrite(t) ==
  /\ At(t, "writeLock")
  /\ Lock(t, bp[t].controller)
  /\ Goto(t, "writeHook")
  /\ UNCHANGED <<ioMap, pages, interrupts, sigAction, access, trace, held,
                 isr, ops, ghosts>>

HookWrite(t) ==
  /\ At(t, "writeHook")
  /\ CountCall(t, "write")
  /\ Unlock(bp[t].controller)
  /\ Goto(t, "close")
  /\ UNCHANGED <<ioMap, pages, interrupts, sigAction, access, trace, held,
                 isr, ops, performed>>

\* UninstallBreakPoint, RestoreProtection, return behind the instruction.
Close(t) ==
  /\ At(t, "close")
  /\ RestoreProtection(bp[t].ioSpace)
  /\ UninstallBreakPoint(t)
  /\ Goto(t, "run")
  /\ UNCHANGED <<ioMap, locks, interrupts, sigAction, access, held, isr, ops,
                 ghosts>>

-----------------------------------------------------------------------------
Init ==
  /\ ioMap = Controllers
  /\ prot = [c \in Controllers |-> InitialProtection(c)]
  /\ oldProtection = [c \in Controllers |-> InitialOldProtection(c)]
  /\ lockOwner = [c \in Controllers |-> NoThread]
  /\ lockDepth = [c \in Controllers |-> 0]
  /\ interrupts = [c \in Controllers |-> "absent"]
  /\ sigAction = "ExMM"
  /\ pc = [t \in Threads |-> "run"]
  /\ access = [t \in Threads |-> NoAccess]
  /\ bp = [t \in Threads |-> NoBreakPoint]
  /\ tf = [t \in Threads |-> FALSE]
  /\ held = [t \in Threads |-> NoController]
  /\ isr = [t \in Threads |-> NoController]
  /\ ops = [t \in Threads |-> MaxOps]
  /\ performed = [t \in Threads |-> FALSE]
  /\ hookCalls = [t \in Threads |-> [read |-> 0, write |-> 0]]

\* Steps a thread takes on its own once it has begun something.
Continue(t) ==
  \/ Perform(t) \/ Fault(t) \/ FindController(t)
  \/ LockForHookRead(t) \/ HookRead(t) \/ Open(t)
  \/ TracePoint(t) \/ LockForHookWrite(t) \/ HookWrite(t) \/ Close(t)
  \/ EnterRoutine(t) \/ LeaveRoutine(t) \/ ReleaseMemoryLock(t)

\* Operations the program may or may not start.
Start(t) ==
  \/ \E a \in Accesses : Access(t, a)
  \/ \E c \in Controllers :
       \/ AcquireMemoryLock(t, c)
       \/ \E handler \in {"empty", "routine"} :
            ConnectInterruptHandler(t, c, handler)
       \/ TriggerInterrupt(t, c)
       \/ Destroy(t, c)

\* The program is over: every thread is idle, or the process was killed.
Over ==
  \/ sigAction = "killed"
  \/ \A t \in Threads : pc[t] = "run" /\ LocksOf(t) = {}

Terminated == Over /\ UNCHANGED vars

Next == Terminated \/ \E t \in Threads : Start(t) \/ Continue(t)

\* The operating system keeps running every thread that can run.
Fairness == \A t \in Threads : WF_vars(Continue(t))

Spec == Init /\ [][Next]_vars

FairSpec == Spec /\ Fairness

-----------------------------------------------------------------------------
(* Properties. *)

\* Every variable holds a value of its type.
TypeOK ==
  /\ ioMap \in SUBSET Controllers
  /\ prot \in [Controllers -> {"none", "read", "rw"}]
  /\ oldProtection \in [Controllers -> {"unset", "none", "read", "rw"}]
  /\ lockOwner \in [Controllers -> Threads \cup {NoThread}]
  /\ lockDepth \in [Controllers -> Nat]
  /\ interrupts \in [Controllers -> {"absent", "empty", "routine"}]
  /\ sigAction \in {"ExMM", "SIG_DFL", "killed"}
  /\ pc \in [Threads -> Labels]
  /\ access \in [Threads -> Accesses \cup {NoAccess}]
  /\ bp \in [Threads -> [active : BOOLEAN,
                         ioSpace : Controllers \cup {NoController},
                         controller : Controllers \cup {NoController},
                         offset : Nat]]
  /\ tf \in [Threads -> BOOLEAN]
  /\ held \in [Threads -> Controllers \cup {NoController}]
  /\ isr \in [Threads -> Controllers \cup {NoController}]
  /\ ops \in [Threads -> 0 .. MaxOps]
  /\ performed \in [Threads -> BOOLEAN]
  /\ hookCalls \in [Threads -> [read : Nat, write : Nat]]

\* t has opened the mapping of c and has not closed it yet.
Stepping(t, c) ==
  /\ bp[t].active
  /\ bp[t].ioSpace = c
  /\ pc[t] \in {"instr", "trap", "writeLock", "writeHook", "close"}

\* Once no thread is stepping over an access to c, the mapping of c has the
\* protection it was created with: however the Unprotect and
\* RestoreProtection calls of several threads interleave, hooking survives.
QuiescentProtected ==
  \A c \in ioMap :
    prot[c] = InitialProtection(c) \/ \E t \in Threads : Stepping(t, c)

\* How often t has the memory lock of c locked: by its own lock_guard, by
\* TriggerInterrupt, and by DoHookRead or DoHookWrite.
HoldsByCode(t, c)    == held[t] = c
HoldsByRoutine(t, c) == isr[t] = c /\ pc[t] # "isrLock"
HoldsByHook(t, c)    ==
  pc[t] \in {"readHook", "writeHook"} /\ access[t].c = c

Count(b) == IF b THEN 1 ELSE 0

Holds(t, c) == Count(HoldsByCode(t, c)) + Count(HoldsByRoutine(t, c))
                 + Count(HoldsByHook(t, c))

\* The recursive lock is balanced: its depth is the number of places its
\* owner holds it from.  So a hook, an interrupt routine and a lock_guard of
\* the same controller never run in two threads at once, and no path through
\* the signal handlers leaves the lock taken.
LockBalanced ==
  \A c \in Controllers, t \in Threads :
    IF lockOwner[c] = t THEN lockDepth[c] = Holds(t, c) /\ Holds(t, c) > 0
                        ELSE Holds(t, c) = 0

\* A trap is about the access that was stepped over: the breakpoint names
\* the register file, and for a store the controller and the offset, of the
\* thread's current access, however often that access faulted again.
BreakPointMatches ==
  \A t \in Threads : bp[t].active => bp[t] = BreakPointFor(access[t])

\* A hook runs only if the controller asked for it, whatever the mix of
\* hook types: a load on a Write controller or a store on a Read controller
\* may be stepped over but reaches no hook.
OnlyRequestedHooks ==
  \A t \in Threads :
    /\ hookCalls[t].read > 0 => HooksRead(access[t].c)
    /\ hookCalls[t].write > 0 => HooksWrite(access[t].c)

\* An access that was single-stepped has had its hook when the handler is
\* about to close the mapping, even if other threads made it fault several
\* times: at least one HookRead for a load, one HookWrite for a store that
\* the controller hooks, in both cases with the instruction performed.
SteppedAccessHooked ==
  \A t \in Threads : pc[t] = "close" =>
    /\ performed[t]
    /\ IF IsMemoryWriteAccess(access[t])
       THEN /\ hookCalls[t].read = 0
            /\ hookCalls[t].write = Count(HookType[access[t].c] \in
                                            {"Write", "ReadWrite"})
       ELSE hookCalls[t].read > 0 /\ hookCalls[t].write = 0

\* The hooks an access is to have: one for what the controller asked for.  A
\* load-modify-store counts as a store here; EveryLoadHooked is about its load.
Expected(a) ==
  [read  |-> Count(a.kind = "read" /\ HooksRead(a.c)),
   write |-> Count(IsMemoryWriteAccess(a)
                     /\ HookType[a.c] \in {"Write", "ReadWrite"})]

\* Every finished access took effect and had exactly the hooks the
\* controller asked for, no hook missing and none called twice.
ExactlyOnce ==
  \A t \in Threads : pc[t] = "run" /\ access[t] # NoAccess =>
    performed[t] /\ hookCalls[t] = Expected(access[t])

\* What the engine implements for drivers that do not get in each other's
\* way: the protocol of HookedAccess.
HA == INSTANCE HookedAccess WITH
        HookedLoads  <- {a \in Accesses : a.kind = "read" /\ HooksRead(a.c)},
        HookedStores <- {a \in Accesses :
                           IsMemoryWriteAccess(a) /\ HooksWrite(a.c)},
        op    <- access,
        hooks <- [t \in Threads |-> hookCalls[t].read + hookCalls[t].write],
        done  <- performed

\* Every behaviour of the engine is one of the abstract protocol.
RefinesHookedAccess == HA!Spec

\* No breakpoint refers to an IoSpace that the registry has deleted, so a
\* trap handler never works on a freed object, as long as no controller is
\* destroyed while a thread is inside it (the guard of Destroy).
NoDanglingBreakPoint == \A t \in Threads : bp[t].active => bp[t].ioSpace \in ioMap

\* The library kills the process only by an access to the register file of a
\* controller that no longer exists: some thread's access, the current one or
\* the last, is to such a register file.
KilledOnlyByStrayAccess ==
  sigAction # "ExMM" =>
    \E t \in Threads : access[t] # NoAccess /\ access[t].c \notin ioMap

\* An access that was started ends, and so does the wait for an interrupt
\* routine, unless the process is killed: no thread waits forever for a
\* memory lock, and no access faults forever because other threads keep
\* closing the mapping.
EveryOperationEnds ==
  \A t \in Threads : pc[t] # "run" ~> pc[t] = "run" \/ sigAction = "killed"

\* A load of a register, alone or as part of an instruction that also
\* stores, has called HookRead on a controller that hooks loads.
EveryLoadHooked ==
  \A t \in Threads : pc[t] = "run" /\ access[t] # NoAccess =>
    (access[t].kind \in {"read", "rmw"} /\ HooksRead(access[t].c)
       => hookCalls[t].read > 0)

\* When a thread is back in its own code no hook of its access is missing.
NoHookMissed ==
  \A t \in Threads : pc[t] = "run" /\ access[t] # NoAccess =>
    /\ hookCalls[t].read >= Expected(access[t]).read
    /\ hookCalls[t].write >= Expected(access[t]).write

\* The instruction that is run again after the mapping was opened does not
\* fault again.
RetrySucceeds ==
  [][\A t \in Threads : ~(pc[t] = "instr" /\ bp[t].active /\ pc'[t] = "fault")]_vars
=============================================================================
