----------------------- MODULE HookEngineSafetyProofs -----------------------
(***************************************************************************)
(* The protection of the public mapping and the life of a controller: what *)
(* holds for drivers that share a register file without any discipline.    *)
(* Inv of HookEngineProofs is used as a known invariant.                   *)
(***************************************************************************)
EXTENDS HookEngineProofs

(***************************************************************************)
(* Protection, on POSIX.  QuiescentProtected alone is not inductive: the   *)
(* thread that keeps a mapping open must not leave its window by a fault,  *)
(* which takes that an open mapping is open for everything, and what it    *)
(* puts back at the end must be the initial protection.                    *)
(***************************************************************************)
ProtectionKnown ==
  \A c \in Controllers :
    /\ oldProtection[c] = InitialProtection(c)
    /\ prot[c] \in {InitialProtection(c), "rw"}

ProtInv == ProtectionKnown /\ QuiescentProtected

LEMMA ProtInit ==
  ASSUME Init, Platform = "posix"
  PROVE  ProtInv
BY DEF Init, ProtInv, ProtectionKnown, QuiescentProtected,
       InitialOldProtection

\* A step that leaves the mappings and the windows of all threads alone.
LEMMA ProtKept ==
  ASSUME ProtInv, UNCHANGED pages, ioMap' \subseteq ioMap,
         \A u \in Threads, c \in Controllers :
           c \in ioMap' /\ prot[c] # InitialProtection(c) /\ Stepping(u, c)
             => Stepping(u, c)',
         ioMap \subseteq Controllers
  PROVE  ProtInv'
<1>1. prot' = prot /\ oldProtection' = oldProtection
  BY DEF pages
<1>2. ProtectionKnown'
  BY <1>1 DEF ProtInv, ProtectionKnown
<1>3. ASSUME NEW c \in ioMap'
      PROVE  prot'[c] = InitialProtection(c)
               \/ \E u \in Threads : Stepping(u, c)'
  <2>1. CASE prot[c] = InitialProtection(c)
    BY <1>1, <2>1
  <2>2. CASE prot[c] # InitialProtection(c)
    <3>1. PICK u \in Threads : Stepping(u, c)
      BY <1>3, <2>2 DEF ProtInv, QuiescentProtected
    <3>2. Stepping(u, c)'
      BY <1>3, <2>2, <3>1
    <3>3. QED
      BY <3>2
  <2>3. QED
    BY <2>1, <2>2
<1>4. QED
  BY <1>2, <1>3 DEF ProtInv, QuiescentProtected

\* The driver's own code: no thread that runs it has a window open.
LEMMA ProtStart ==
  ASSUME Inv, ProtInv, NEW t \in Threads, Start(t)
  PROVE  ProtInv'
<1>1. UNCHANGED pages /\ bp' = bp /\ ioMap' \subseteq ioMap
  BY DEF Start, Access, AcquireMemoryLock, ConnectInterruptHandler,
         TriggerInterrupt, Destroy, shared, pages, trace
<1>2. pc[t] = "run" /\ \A u \in Threads \ {t} : pc'[u] = pc[u]
  <2>1. CASE \E a \in Accesses : Access(t, a)
    BY <2>1 DEF Inv, TypeOK, Access, Starts, Goto
  <2>2. CASE \E c \in Controllers : TriggerInterrupt(t, c)
    BY <2>2 DEF Inv, TypeOK, TriggerInterrupt, Starts, Goto
  <2>3. CASE \E c \in Controllers : AcquireMemoryLock(t, c) \/ Destroy(t, c)
    BY <2>3 DEF AcquireMemoryLock, Destroy, Starts
  <2>4. CASE \E c \in Controllers, h \in {"empty", "routine"} :
               ConnectInterruptHandler(t, c, h)
    BY <2>4 DEF ConnectInterruptHandler, Starts
  <2>5. QED
    BY <2>1, <2>2, <2>3, <2>4 DEF Start
<1>3. ASSUME NEW u \in Threads, NEW c \in Controllers, Stepping(u, c)
      PROVE  Stepping(u, c)'
  BY <1>1, <1>2, <1>3 DEF Stepping
<1>4. QED
  BY <1>1, <1>3, ProtKept DEF Inv, TypeOK

\* A thread leaves its window by Close only: Fault is not possible there.
LEMMA ProtMove ==
  ASSUME Inv, ProtInv, NEW t \in Threads,
         \/ Perform(t) \/ Fault(t) \/ FindController(t)
         \/ LockForHookRead(t) \/ HookRead(t)
         \/ TracePoint(t) \/ LockForHookWrite(t) \/ HookWrite(t)
         \/ EnterRoutine(t) \/ LeaveRoutine(t) \/ ReleaseMemoryLock(t)
  PROVE  ProtInv'
<1>1. UNCHANGED pages /\ bp' = bp /\ ioMap' = ioMap
  BY DEF Perform, Fault, FindController, LockForHookRead, HookRead,
         TracePoint, LockForHookWrite, HookWrite, EnterRoutine, LeaveRoutine,
         ReleaseMemoryLock, shared, pages, trace
<1>2. \A u \in Threads \ {t} : pc'[u] = pc[u]
  <2>1. CASE Perform(t) \/ Fault(t) \/ FindController(t) \/ TracePoint(t)
    BY <2>1 DEF Inv, TypeOK, Perform, Fault, FindController, TracePoint, Goto
  <2>2. CASE LockForHookRead(t) \/ HookRead(t) \/ EnterRoutine(t)
    BY <2>2 DEF Inv, TypeOK, LockForHookRead, HookRead, EnterRoutine, Goto
  <2>3. CASE LockForHookWrite(t) \/ HookWrite(t)
    BY <2>3 DEF Inv, TypeOK, LockForHookWrite, HookWrite, Goto
  <2>4. CASE LeaveRoutine(t) \/ ReleaseMemoryLock(t)
    BY <2>4 DEF LeaveRoutine, ReleaseMemoryLock
  <2>5. QED
    BY <2>1, <2>2, <2>3, <2>4
<1>3. ASSUME NEW c \in Controllers, c \in ioMap,
             prot[c] # InitialProtection(c), Stepping(t, c)
      PROVE  Stepping(t, c)'
  <2>1. prot[c] = "rw" /\ access[t].c = c /\ tf[t]
    <3>1. prot[c] = "rw"
      BY <1>3 DEF ProtInv, ProtectionKnown
    <3>2. bp[t] = BreakPointFor(access[t]) /\ tf[t]
      BY <1>3 DEF Inv, TypeOK, Control, ThreadControl, Stepping
    <3>3. access[t].c = c
      BY <1>3, <3>2 DEF Stepping, BreakPointFor
    <3>4. QED
      BY <3>1, <3>2, <3>3
  <2>2. ~Fault(t)
    BY <1>3, <2>1 DEF Fault, Permitted, Allows
  <2>3. CASE Perform(t)
    BY <1>1, <1>3, <2>1, <2>3 DEF Inv, TypeOK, Perform, Goto, Stepping
  <2>4. CASE TracePoint(t)
    BY <1>1, <1>3, <2>4 DEF Inv, TypeOK, TracePoint, Goto, Stepping
  <2>5. CASE LockForHookWrite(t) \/ HookWrite(t)
    BY <1>1, <1>3, <2>5
    DEF Inv, TypeOK, LockForHookWrite, HookWrite, Goto, Stepping
  <2>6. CASE LeaveRoutine(t) \/ ReleaseMemoryLock(t)
    BY <1>3, <2>6 DEF LeaveRoutine, ReleaseMemoryLock, Stepping
  <2>7. CASE \/ FindController(t) \/ LockForHookRead(t) \/ HookRead(t)
             \/ EnterRoutine(t)
    BY <1>3, <2>7
    DEF FindController, LockForHookRead, HookRead, EnterRoutine, At, Stepping
  <2>8. QED
    BY <2>2, <2>3, <2>4, <2>5, <2>6, <2>7
<1>4. ASSUME NEW u \in Threads, u # t, NEW c \in Controllers, Stepping(u, c)
      PROVE  Stepping(u, c)'
  BY <1>1, <1>2, <1>4 DEF Stepping
<1>5. QED
  BY <1>1, <1>3, <1>4, ProtKept DEF Inv, TypeOK

LEMMA ProtOpen ==
  ASSUME Inv, ProtInv, Platform = "posix", NEW t \in Threads, Open(t)
  PROVE  ProtInv'
<1> DEFINE d == access[t].c
<1>1. d \in Controllers
  BY DEF Inv, Control, ThreadControl, InHandler, Accesses, Open, At
<1>2. /\ prot' = [prot EXCEPT ![d] = "rw"]
      /\ oldProtection' = [oldProtection EXCEPT ![d] = oldProtection[d]]
      /\ ioMap' = ioMap
  BY DEF Open, Unprotect, SavedProtection
<1>3. ProtectionKnown'
  BY <1>1, <1>2 DEF ProtInv, ProtectionKnown, Inv, TypeOK
<1>4. Stepping(t, d)'
  BY DEF Inv, TypeOK, Stepping, Open, InstallBreakPoint, BreakPointFor, Goto
<1>5. ASSUME NEW u \in Threads, u # t, NEW c \in Controllers, Stepping(u, c)
      PROVE  Stepping(u, c)'
  BY <1>5 DEF Inv, TypeOK, Stepping, Open, InstallBreakPoint, Goto
<1>6. ASSUME NEW c \in Controllers PROVE ~Stepping(t, c)
  BY DEF Stepping, Open, At
<1>7. ASSUME NEW c \in ioMap'
      PROVE  prot'[c] = InitialProtection(c)
               \/ \E u \in Threads : Stepping(u, c)'
  <2>1. CASE c = d
    BY <1>4, <2>1 DEF Stepping, Open
  <2>2. CASE c # d
    BY <1>2, <1>5, <1>6, <1>7, <2>2
    DEF Inv, TypeOK, ProtInv, QuiescentProtected
  <2>3. QED
    BY <2>1, <2>2
<1>8. QED
  BY <1>3, <1>7 DEF ProtInv, QuiescentProtected

LEMMA ProtClose ==
  ASSUME Inv, ProtInv, NEW t \in Threads, Close(t)
  PROVE  ProtInv'
<1> DEFINE d == bp[t].ioSpace
<1>1. d \in Controllers
  <2>1. access[t] \in Accesses /\ bp[t] = BreakPointFor(access[t])
    BY DEF Inv, Control, ThreadControl, InHandler, Close, At
  <2>2. QED
    BY <2>1 DEF BreakPointFor, Accesses
<1>2. /\ prot' = [prot EXCEPT ![d] = InitialProtection(d)]
      /\ oldProtection' = oldProtection
      /\ ioMap' = ioMap
  BY <1>1 DEF Close, RestoreProtection, ProtInv, ProtectionKnown
<1>3. ProtectionKnown'
  BY <1>1, <1>2 DEF ProtInv, ProtectionKnown, Inv, TypeOK
<1>4. ASSUME NEW u \in Threads, u # t, NEW c \in Controllers, Stepping(u, c)
      PROVE  Stepping(u, c)'
  BY <1>4 DEF Inv, TypeOK, Stepping, Close, UninstallBreakPoint, Goto
<1>5. ASSUME NEW c \in ioMap'
      PROVE  prot'[c] = InitialProtection(c)
               \/ \E u \in Threads : Stepping(u, c)'
  <2>1. CASE c = d
    BY <1>1, <1>2, <2>1 DEF Inv, TypeOK
  <2>2. CASE c # d
    <3>1. ~Stepping(t, c) /\ c \in Controllers
      BY <1>2, <1>5, <2>2 DEF Stepping, Inv, TypeOK
    <3>2. QED
      BY <1>2, <1>4, <1>5, <2>2, <3>1
      DEF Inv, TypeOK, ProtInv, QuiescentProtected
  <2>3. QED
    BY <2>1, <2>2
<1>6. QED
  BY <1>3, <1>5 DEF ProtInv, QuiescentProtected

\* On POSIX hooking survives every interleaving: when no thread is stepping
\* over an access to a register file, its mapping is protected as
\* IoSpace::Initialize left it, for any number of unsynchronised drivers.
THEOREM HookingSurvives ==
  ASSUME Platform = "posix"
  PROVE  Spec => []QuiescentProtected
<1>1. Init => ProtInv
  BY ProtInit
<1>2. Inv /\ ProtInv /\ [Next]_vars => ProtInv'
  <2> SUFFICES ASSUME Inv, ProtInv, [Next]_vars PROVE ProtInv'
    OBVIOUS
  <2>1. CASE UNCHANGED vars
    <3>1. UNCHANGED pages /\ ioMap' = ioMap
      BY <2>1 DEF vars, pages
    <3>2. \A u \in Threads, c \in Controllers : Stepping(u, c) => Stepping(u, c)'
      BY <2>1 DEF vars, Stepping
    <3>3. QED
      BY <3>1, <3>2, ProtKept DEF Inv, TypeOK
  <2>2. ASSUME NEW t \in Threads, Start(t) PROVE ProtInv'
    BY <2>2, ProtStart
  <2>3. ASSUME NEW t \in Threads, Continue(t) PROVE ProtInv'
    BY <2>3, ProtMove, ProtOpen, ProtClose DEF Continue
  <2>4. QED
    BY <2>1, <2>2, <2>3 DEF Next, Terminated
<1>3. ProtInv => QuiescentProtected
  BY DEF ProtInv
<1>4. QED
  BY <1>1, <1>2, <1>3, InvHolds, PTL DEF Spec

(***************************************************************************)
(* The life of a controller.  From the lookup on, an access belongs to a   *)
(* controller that exists.  Once SIGSEGV has its default action some       *)
(* thread is at an instruction that can only kill the process.             *)
(***************************************************************************)
Found(t) ==
  pc[t] \in {"readLock", "readHook", "open"} \/ bp[t].active
    => access[t].c \in ioMap

Doomed(t) == pc[t] = "instr" /\ access[t].c \notin ioMap

Strayed(t) == access[t] # NoAccess /\ access[t].c \notin ioMap

LifeInv ==
  /\ \A t \in Threads : Found(t)
  /\ sigAction = "SIG_DFL" => \E t \in Threads : Doomed(t)
  /\ sigAction = "killed" => \E t \in Threads : Strayed(t)

LEMMA LifeInit == Init => LifeInv
BY DEF Init, LifeInv, Found, NoBreakPoint

\* What a destructor does to the accesses of all threads: nothing.
LEMMA FoundStep ==
  ASSUME Inv, LifeInv, NEW t \in Threads, Start(t) \/ Continue(t),
         NEW u \in Threads
  PROVE  Found(u)'
<1>1. CASE \E c \in Controllers : Destroy(t, c)
  <2>1. PICK c \in Controllers : Destroy(t, c)
    BY <1>1
  <2>2. /\ ioMap' = ioMap \ {c} /\ UNCHANGED <<pc, access, bp>>
        /\ ~Accessing(u, c)
    BY <2>1 DEF Destroy, trace
  <2>3. ThreadControl(u) /\ Found(u)
    BY DEF Inv, Control, LifeInv
  <2>4. CASE pc[u] \in {"readLock", "readHook", "open"} \/ bp[u].active
    <3>1. access[u].c \in ioMap /\ pc[u] \notin {"run", "isrLock"}
      BY <2>3, <2>4 DEF Found, ThreadControl
    <3>2. access[u] # NoAccess
      <4>1. pc[u] \in InHandler
        BY <3>1 DEF Inv, TypeOK, Labels, InHandler
      <4>2. QED
        BY <2>3, <4>1, ConstantsAssumption DEF ThreadControl
    <3>3. access[u].c # c
      BY <2>2, <3>1, <3>2 DEF Accessing
    <3>4. QED
      BY <2>2, <3>1, <3>3 DEF Found
  <2>5. QED
    BY <2>2, <2>4 DEF Found
<1>2. CASE ~ \E c \in Controllers : Destroy(t, c)
  <2>1. ioMap' = ioMap
    BY <1>2 DEF Start, Continue, Access, AcquireMemoryLock,
       ConnectInterruptHandler, TriggerInterrupt, Perform, Fault,
       FindController, LockForHookRead, HookRead, Open, TracePoint,
       LockForHookWrite, HookWrite, Close, EnterRoutine, LeaveRoutine,
       ReleaseMemoryLock, shared
  <2>2. CASE u # t
    BY <2>1, <2>2, OthersKeep DEF SameFor, LifeInv, Found
  <2>3. CASE u = t
    <3>1. Found(t) /\ ThreadControl(t)
      BY DEF LifeInv, Inv, Control
    <3>2. CASE Start(t)
      BY <1>2, <2>1, <2>3, <3>1, <3>2
      DEF Start, Starts, Access, AcquireMemoryLock, ConnectInterruptHandler,
          TriggerInterrupt, Found, ThreadControl, Goto, trace, Inv, TypeOK
    <3>3. CASE FindController(t) \/ TracePoint(t)
      BY <2>1, <2>3, <3>1, <3>3
      DEF FindController, TracePoint, HandlerFor, Found, At, Goto, trace,
          Inv, TypeOK
    <3>4. CASE Perform(t) \/ Fault(t)
      BY <2>1, <2>3, <3>1, <3>4
      DEF Perform, Fault, Permitted, Found, At, Goto, trace, Inv, TypeOK
    <3>5. CASE LockForHookRead(t) \/ HookRead(t)
      BY <2>1, <2>3, <3>1, <3>5
      DEF LockForHookRead, HookRead, Found, At, Goto, trace, Inv, TypeOK
    <3>6. CASE Open(t)
      BY <2>1, <2>3, <3>1, <3>6 DEF Open, Found, At, Goto
    <3>7. CASE Close(t)
      <4>1. ~bp'[t].active /\ pc'[t] = "run"
        BY <3>7 DEF Close, UninstallBreakPoint, NoBreakPoint, Goto, Inv, TypeOK
      <4>2. QED
        BY <2>3, <4>1 DEF Found
    <3>8. CASE LockForHookWrite(t) \/ HookWrite(t)
      BY <2>1, <2>3, <3>1, <3>8
      DEF LockForHookWrite, HookWrite, Found, At, Goto, trace, Inv, TypeOK
    <3>9. CASE EnterRoutine(t) \/ LeaveRoutine(t) \/ ReleaseMemoryLock(t)
      BY <2>1, <2>3, <3>1, <3>9
      DEF EnterRoutine, LeaveRoutine, ReleaseMemoryLock, Found, Goto, trace,
          Inv, TypeOK
    <3>10. QED
      BY <3>2, <3>3, <3>4, <3>5, <3>6, <3>7, <3>8, <3>9 DEF Continue
  <2>4. QED
    BY <2>2, <2>3
<1>3. QED
  BY <1>1, <1>2

LEMMA DoomedStrays ==
  ASSUME Inv, NEW t \in Threads, Doomed(t)
  PROVE  Strayed(t)
<1>1. access[t] \in Accesses
  BY DEF Inv, Control, ThreadControl, InHandler, Doomed
<1>2. QED
  BY <1>1, ConstantsAssumption DEF Doomed, Strayed

\* Only the signal handlers and the kernel touch the disposition.
LEMMA SigActionStep ==
  ASSUME NEW t \in Threads, Start(t) \/ Continue(t)
  PROVE  /\ sigAction # "killed"
         /\ \/ UNCHANGED sigAction
            \/ FindController(t) /\ access[t].c \notin ioMap
            \/ Fault(t) /\ sigAction = "SIG_DFL" /\ sigAction' = "killed"
BY DEF Start, Starts, Continue, Access, AcquireMemoryLock, TriggerInterrupt,
   ConnectInterruptHandler, Destroy, Perform, Fault, FindController,
   LockForHookRead, HookRead, Open, TracePoint, LockForHookWrite, HookWrite,
   Close, EnterRoutine, LeaveRoutine, ReleaseMemoryLock, At, shared

LEMMA DoomedStep ==
  ASSUME Inv, LifeInv, NEW t \in Threads, Start(t) \/ Continue(t)
  PROVE  /\ sigAction' = "SIG_DFL" => \E u \in Threads : Doomed(u)'
         /\ sigAction' = "killed" => \E u \in Threads : Strayed(u)'
<1>1. CASE FindController(t) /\ access[t].c \notin ioMap
  <2>1. access[t] \in Accesses /\ access[t] # NoAccess
    BY <1>1, ConstantsAssumption
    DEF FindController, At, Inv, Control, ThreadControl, InHandler
  <2>2. UNCHANGED <<access, ioMap>>
    BY <1>1 DEF FindController
  <2>3. sigAction' = "SIG_DFL" => pc'[t] = "instr"
    BY <1>1 DEF FindController, Goto, Inv, TypeOK
  <2>4. QED
    BY <1>1, <2>1, <2>2, <2>3 DEF Doomed, Strayed
<1>2. CASE Fault(t) /\ sigAction = "SIG_DFL" /\ sigAction' = "killed"
  <2>1. PICK u \in Threads : Doomed(u)
    BY <1>2 DEF LifeInv
  <2>2. Strayed(u)
    BY <2>1, DoomedStrays
  <2>3. Strayed(u)'
    BY <1>2, <2>2 DEF Fault, Strayed
  <2>4. QED
    BY <1>2, <2>3
<1>3. CASE sigAction' = sigAction /\ sigAction = "SIG_DFL"
  <2>1. PICK u \in Threads : Doomed(u)
    BY <1>3 DEF LifeInv
  <2>2. u # t
    BY <1>3, <2>1
    DEF Doomed, Start, Starts, Continue, Access, AcquireMemoryLock,
        TriggerInterrupt, ConnectInterruptHandler, Destroy, Perform,
        Permitted, Fault, FindController, LockForHookRead, HookRead, Open,
        TracePoint, LockForHookWrite, HookWrite, Close, EnterRoutine,
        LeaveRoutine, ReleaseMemoryLock, At
  <2>3. Doomed(u)'
    BY <2>1, <2>2, OthersKeep DEF SameFor, Doomed
  <2>4. QED
    BY <1>3, <2>3
<1>4. QED
  BY <1>1, <1>2, <1>3, SigActionStep DEF Inv, TypeOK

LEMMA LifeInvAlways == Spec => []LifeInv
<1>1. Inv /\ LifeInv /\ [Next]_vars => LifeInv'
  <2> SUFFICES ASSUME Inv, LifeInv, [Next]_vars PROVE LifeInv'
    OBVIOUS
  <2>1. CASE UNCHANGED vars
    BY <2>1 DEF vars, LifeInv, Found, Doomed, Strayed
  <2>2. ASSUME NEW t \in Threads, Start(t) \/ Continue(t) PROVE LifeInv'
    BY <2>2, FoundStep, DoomedStep DEF LifeInv
  <2>3. QED
    BY <2>1, <2>2 DEF Next, Terminated
<1>2. QED
  BY <1>1, LifeInit, InvHolds, PTL DEF Spec

\* While a thread has a breakpoint the IoSpace it names is in the registry:
\* the trap handler never works on one that Registry::Remove has deleted, as
\* long as no controller is destroyed while a thread is inside it.
THEOREM BreakPointsDoNotDangle == Spec => []NoDanglingBreakPoint
<1>1. Inv /\ LifeInv => NoDanglingBreakPoint
  <2> SUFFICES ASSUME Inv, LifeInv, NEW t \in Threads, bp[t].active
               PROVE  bp[t].ioSpace \in ioMap
    BY DEF NoDanglingBreakPoint
  <2>1. Found(t) /\ bp[t] = BreakPointFor(access[t])
    BY DEF LifeInv, Inv, Control, ThreadControl
  <2>2. QED
    BY <2>1 DEF Found, BreakPointFor
<1>2. QED
  BY <1>1, LifeInvAlways, InvHolds, PTL

\* The process dies of SIGSEGV only if a thread touched the register file of
\* a controller that no longer exists.
THEOREM OnlyStrayAccessesKill == Spec => []KilledOnlyByStrayAccess
<1>1. Inv /\ LifeInv => KilledOnlyByStrayAccess
  BY DoomedStrays DEF LifeInv, Inv, TypeOK, Strayed, KilledOnlyByStrayAccess
<1>2. QED
  BY <1>1, LifeInvAlways, InvHolds, PTL
=============================================================================
