--------------------- MODULE HookEngineDisciplineProofs ---------------------
(***************************************************************************)
(* What drivers get that do not overlap: each register file is touched by  *)
(* one thread, or by threads that hold the controller's memory lock for    *)
(* every access.  Then, on both platforms, the guarantees are exact.       *)
(***************************************************************************)
EXTENDS HookEngineSafetyProofs

Disciplined ==
  \A c \in Controllers :
    c \in LockedAccess \/ \A t, u \in Drivers[c] : t = u

(***************************************************************************)
(* First, the discipline keeps the accesses to a controller apart.         *)
(***************************************************************************)
Entitled(t) ==
  pc[t] \in InHandler =>
    /\ t \in Drivers[access[t].c]
    /\ access[t].c \in LockedAccess => access[t].c \in LocksOf(t)

LEMMA Apart ==
  ASSUME Inv, Disciplined, NEW t \in Threads, NEW u \in Threads,
         Entitled(t), Entitled(u),
         pc[t] \in InHandler, pc[u] \in InHandler, access[t].c = access[u].c
  PROVE  t = u
<1> DEFINE c == access[t].c
<1>1. access[t] \in Accesses /\ c \in Controllers
  BY DEF Inv, Control, ThreadControl, Accesses
<1>2. CASE c \notin LockedAccess
  BY <1>1, <1>2 DEF Entitled, Disciplined
<1>3. CASE c \in LockedAccess
  <2>1. ASSUME NEW v \in Threads, pc[v] \in InHandler, c \in LocksOf(v)
        PROVE  lockOwner[c] = v
    <3>1. HoldsByCode(v, c) \/ HoldsByRoutine(v, c)
      BY <2>1 DEF LocksOf, HoldsByCode, HoldsByRoutine, InHandler
    <3>2. Holds(v, c) # 0
      BY <3>1 DEF Holds, Count
    <3>3. QED
      BY <1>1, <3>2 DEF Inv, LockBalanced
  <2>2. c \in LocksOf(t) /\ c \in LocksOf(u)
    BY <1>3 DEF Entitled
  <2>3. QED
    BY <2>1, <2>2
<1>4. QED
  BY <1>2, <1>3

LEMMA EntitledStep ==
  ASSUME Inv, NEW t \in Threads, Start(t) \/ Continue(t),
         NEW u \in Threads, Entitled(u)
  PROVE  Entitled(u)'
<1>1. CASE u # t
  BY <1>1, OthersKeep DEF SameFor, Entitled, LocksOf
<1>2. CASE u = t /\ \E a \in Accesses : Access(t, a)
  BY <1>2 DEF Access, Starts, Goto, LocksOf, Entitled, Inv, TypeOK, InHandler
<1>3. CASE u = t /\ pc[t] \in InHandler /\ Continue(t)
  <2>1. UNCHANGED <<access, held, isr>>
    BY <1>3 DEF Continue, InHandler, Perform, Fault, FindController,
       LockForHookRead, HookRead, Open, TracePoint, LockForHookWrite,
       HookWrite, Close, EnterRoutine, LeaveRoutine, ReleaseMemoryLock
  <2>2. QED
    BY <1>2, <1>3, <2>1 DEF Entitled, LocksOf
<1>4. CASE u = t /\ pc[t] \notin InHandler /\ ~ \E a \in Accesses : Access(t, a)
  <2>1. pc'[t] \notin InHandler
    BY <1>4
    DEF Start, Continue, InHandler, AcquireMemoryLock, TriggerInterrupt,
        ConnectInterruptHandler, Destroy, Perform, Fault, FindController,
        LockForHookRead, HookRead, Open, TracePoint, LockForHookWrite,
        HookWrite, Close, EnterRoutine, LeaveRoutine, ReleaseMemoryLock,
        At, Goto, Inv, TypeOK
  <2>2. QED
    BY <1>4, <2>1 DEF Entitled
<1>5. CASE u = t /\ pc[t] \in InHandler /\ Start(t)
  BY <1>5 DEF Start, Starts, Access, AcquireMemoryLock, TriggerInterrupt,
              ConnectInterruptHandler, Destroy, InHandler
<1>6. QED
  BY <1>1, <1>2, <1>3, <1>4, <1>5

(***************************************************************************)
(* Second, the protection of a register file follows the one access that   *)
(* may be stepping over it, so that on Windows too what Unprotect saves is *)
(* the initial protection, and the instruction that is run again does not  *)
(* fault.                                                                  *)
(***************************************************************************)
PagesFollow ==
  \A c \in Controllers :
    /\ Platform = "posix" => oldProtection[c] = InitialProtection(c)
    /\ \/ /\ prot[c] = "rw"
          /\ oldProtection[c] = InitialProtection(c)
          /\ \E t \in Threads : Stepping(t, c)
       \/ /\ prot[c] = InitialProtection(c)
          /\ \A t \in Threads : ~Stepping(t, c)

\* A thread that has a breakpoint has its mapping open.
Opened(t) ==
  bp[t].active => pc[t] \in {"instr", "trap", "writeLock", "writeHook", "close"}

Steady == /\ PagesFollow
          /\ \A t \in Threads : Entitled(t) /\ Opened(t)

LEMMA SteadyInit == Init => Steady
BY DEF Init, Steady, PagesFollow, Entitled, Opened, Stepping, NoBreakPoint,
       InitialOldProtection, InHandler

LEMMA RetryPermitted ==
  ASSUME Inv, LifeInv, Steady, NEW t \in Threads, pc[t] = "instr",
         bp[t].active
  PROVE  Permitted(access[t])
<1>1. /\ access[t] \in Accesses /\ bp[t] = BreakPointFor(access[t])
      /\ access[t].c \in ioMap
  BY DEF Inv, Control, ThreadControl, InHandler, LifeInv, Found
<1>2. access[t].c \in Controllers /\ Stepping(t, access[t].c)
  BY <1>1 DEF Accesses, Stepping, BreakPointFor
<1>3. prot[access[t].c] = "rw"
  BY <1>2 DEF Steady, PagesFollow
<1>4. QED
  BY <1>1, <1>3 DEF Permitted, Allows

\* A step that neither opens nor closes a mapping.
LEMMA PagesStay ==
  ASSUME PagesFollow, UNCHANGED pages,
         \A u \in Threads, c \in Controllers : Stepping(u, c)' = Stepping(u, c)
  PROVE  PagesFollow'
BY DEF PagesFollow, pages

LEMMA SteppingOthers ==
  ASSUME Inv, NEW t \in Threads, Start(t) \/ Continue(t),
         NEW u \in Threads, u # t, NEW c \in Controllers
  PROVE  Stepping(u, c)' = Stepping(u, c)
BY OthersKeep DEF SameFor, Stepping

\* Nobody steps over c while t is about to open it, t alone when it closes.
LEMMA StepsAlone ==
  ASSUME Inv, Disciplined, Steady, NEW t \in Threads, pc[t] \in InHandler,
         NEW u \in Threads, Stepping(u, access[t].c)
  PROVE  u = t
<1>1. /\ pc[u] \in InHandler /\ bp[u] = BreakPointFor(access[u])
      /\ bp[u].ioSpace = access[t].c
  BY DEF Stepping, InHandler, Inv, Control, ThreadControl
<1>2. access[u].c = access[t].c
  BY <1>1 DEF BreakPointFor
<1>3. QED
  BY <1>1, <1>2, Apart DEF Steady

LEMMA OpenSteady ==
  ASSUME Inv, Disciplined, Steady, NEW t \in Threads, Open(t)
  PROVE  PagesFollow'
<1>1. PICK c \in Controllers : c = access[t].c
  BY DEF Open, At, Inv, Control, ThreadControl, InHandler, Accesses
<1>2. pc[t] = "open"
  BY DEF Open, At
<1>3. \A u \in Threads : ~Stepping(u, c)
  BY <1>1, <1>2, StepsAlone DEF Stepping, InHandler
<1>4. prot[c] = InitialProtection(c) /\ SavedProtection(c) = InitialProtection(c)
  BY <1>3, ConstantsAssumption DEF Steady, PagesFollow, SavedProtection
<1>5. /\ prot' = [prot EXCEPT ![c] = "rw"]
      /\ oldProtection' = [oldProtection EXCEPT ![c] = InitialProtection(c)]
  BY <1>1, <1>4 DEF Open, Unprotect
<1>6. /\ bp'[t] = BreakPointFor(access[t])
      /\ pc'[t] = "instr"
  BY DEF Open, InstallBreakPoint, Goto, Inv, TypeOK
<1>7. \A d \in Controllers : Stepping(t, d)' <=> d = c
  BY <1>1, <1>6 DEF BreakPointFor, Stepping
<1>8. \A u \in Threads, d \in Controllers :
        d # c => Stepping(u, d)' = Stepping(u, d)
  <2>1. \A d \in Controllers : d # c => Stepping(t, d)' = Stepping(t, d)
    BY <1>2, <1>7 DEF Stepping
  <2>2. QED
    BY <2>1, SteppingOthers DEF Continue
<1>9. ASSUME NEW d \in Controllers, d # c
      PROVE  prot'[d] = prot[d] /\ oldProtection'[d] = oldProtection[d]
  BY <1>5, <1>9 DEF Inv, TypeOK
<1>10. prot'[c] = "rw" /\ oldProtection'[c] = InitialProtection(c)
  BY <1>5 DEF Inv, TypeOK
<1>11. QED
  BY <1>7, <1>8, <1>9, <1>10 DEF Steady, PagesFollow

LEMMA CloseSteady ==
  ASSUME Inv, Disciplined, Steady, NEW t \in Threads, Close(t)
  PROVE  PagesFollow'
<1>1. PICK c \in Controllers : c = access[t].c /\ c = bp[t].ioSpace
  <2>1. access[t] \in Accesses /\ bp[t] = BreakPointFor(access[t])
    BY DEF Close, At, Inv, Control, ThreadControl, InHandler
  <2>2. QED
    BY <2>1 DEF BreakPointFor, Accesses
<1>2. pc[t] = "close" /\ bp[t].active
  BY DEF Close, At, Inv, Control, ThreadControl
<1>3. Stepping(t, c)
  BY <1>1, <1>2 DEF Stepping
<1>4. /\ oldProtection[c] = InitialProtection(c)
      /\ prot' = [prot EXCEPT ![c] = InitialProtection(c)]
      /\ oldProtection' = oldProtection
  BY <1>1, <1>3 DEF Steady, PagesFollow, Close, RestoreProtection
<1>5. \A d \in Controllers : ~Stepping(t, d)'
  BY DEF Close, UninstallBreakPoint, NoBreakPoint, Stepping, Inv, TypeOK
<1>6. \A u \in Threads : ~Stepping(u, c)'
  BY <1>1, <1>2, <1>5, StepsAlone, SteppingOthers DEF Continue, InHandler
<1>7. \A u \in Threads, d \in Controllers :
        d # c => Stepping(u, d)' = Stepping(u, d)
  BY <1>1, <1>5, SteppingOthers DEF Continue, Stepping
<1>8. QED
  BY <1>1, <1>4, <1>6, <1>7 DEF Steady, PagesFollow, Inv, TypeOK

LEMMA SteadyStep ==
  ASSUME Inv, LifeInv, Disciplined, Steady, NEW t \in Threads,
         Start(t) \/ Continue(t)
  PROVE  Steady'
<1>1. \A u \in Threads : Entitled(u)'
  BY EntitledStep DEF Steady
<1>2. ~(Fault(t) /\ bp[t].active)
  BY RetryPermitted DEF Fault, At
<1>3. ASSUME NEW u \in Threads, u # t PROVE Opened(u)'
  BY <1>3, OthersKeep DEF SameFor, Steady, Opened
<1>4. Opened(t)'
  <2>1. CASE Open(t)
    <3>1. pc'[t] = "instr"
      BY <2>1 DEF Open, Goto, Inv, TypeOK
    <3>2. QED
      BY <3>1 DEF Opened
  <2>2. CASE Close(t)
    <3>1. ~bp'[t].active
      BY <2>2 DEF Close, UninstallBreakPoint, NoBreakPoint, Inv, TypeOK
    <3>2. QED
      BY <3>1 DEF Opened
  <2>3. CASE bp' = bp /\ ~bp[t].active
    BY <2>3 DEF Opened
  <2>4. CASE bp[t].active /\ ~Open(t) /\ ~Close(t)
    <3>1. pc[t] \in {"instr", "trap", "writeLock", "writeHook", "close"}
      BY <2>4 DEF Steady, Opened
    <3>2. pc[t] = "instr" => Perform(t) \/ Fault(t)
      BY <2>4
      DEF Start, Starts, Access, AcquireMemoryLock, TriggerInterrupt,
          ConnectInterruptHandler, Destroy, Continue, FindController,
          LockForHookRead, HookRead, TracePoint, LockForHookWrite, HookWrite,
          EnterRoutine, LeaveRoutine, ReleaseMemoryLock, At
    <3>3. pc[t] # "instr"
            => TracePoint(t) \/ LockForHookWrite(t) \/ HookWrite(t)
      BY <2>4, <3>1
      DEF Start, Starts, Access, AcquireMemoryLock, TriggerInterrupt,
          ConnectInterruptHandler, Destroy, Continue, Perform, Fault,
          FindController, LockForHookRead, HookRead,
          EnterRoutine, LeaveRoutine, ReleaseMemoryLock, At
    <3>4. CASE Perform(t)
      <4>1. tf[t]
        BY <2>4 DEF Inv, Control, ThreadControl
      <4>2. pc'[t] = "trap"
        BY <3>4, <4>1 DEF Perform, Goto, Inv, TypeOK
      <4>3. QED
        BY <4>2 DEF Opened
    <3>5. CASE TracePoint(t)
      <4>1. pc'[t] \in {"writeLock", "close"}
        BY <2>4, <3>5 DEF TracePoint, Goto, Inv, TypeOK
      <4>2. QED
        BY <4>1 DEF Opened
    <3>6. CASE LockForHookWrite(t) \/ HookWrite(t)
      <4>1. pc'[t] \in {"writeHook", "close"}
        BY <3>6 DEF LockForHookWrite, HookWrite, Goto, Inv, TypeOK
      <4>2. QED
        BY <4>1 DEF Opened
    <3>7. QED
      BY <1>2, <2>4, <3>2, <3>3, <3>4, <3>5, <3>6
  <2>5. bp' = bp \/ Open(t) \/ Close(t)
    BY DEF Start, Access, AcquireMemoryLock, TriggerInterrupt,
       ConnectInterruptHandler, Destroy, Continue, Perform, Fault,
       FindController, LockForHookRead, HookRead, TracePoint,
       LockForHookWrite, HookWrite, EnterRoutine, LeaveRoutine,
       ReleaseMemoryLock, trace
  <2>6. QED
    BY <2>1, <2>2, <2>3, <2>4, <2>5
<1>5. PagesFollow'
  <2>1. CASE Open(t)
    BY <2>1, OpenSteady
  <2>2. CASE Close(t)
    BY <2>2, CloseSteady
  <2>3. CASE ~Open(t) /\ ~Close(t)
    <3>1. UNCHANGED pages /\ bp' = bp
      BY <2>3 DEF Start, Access, AcquireMemoryLock, TriggerInterrupt,
         ConnectInterruptHandler, Destroy, Continue, Perform, Fault,
         FindController, LockForHookRead, HookRead, TracePoint,
         LockForHookWrite, HookWrite, EnterRoutine, LeaveRoutine,
         ReleaseMemoryLock, trace, shared, pages
    <3>2. \A u \in Threads, c \in Controllers :
            Stepping(u, c) <=> bp[u].active /\ bp[u].ioSpace = c
      BY DEF Steady, Opened, Stepping
    <3>3. \A u \in Threads, c \in Controllers :
            Stepping(u, c)' <=> bp'[u].active /\ bp'[u].ioSpace = c
      BY <1>3, <1>4 DEF Opened, Stepping
    <3>4. \A u \in Threads, c \in Controllers :
            Stepping(u, c)' = Stepping(u, c)
      BY <3>1, <3>2, <3>3 DEF Stepping
    <3>5. QED
      BY <3>1, <3>4, PagesStay DEF Steady
  <2>4. QED
    BY <2>1, <2>2, <2>3
<1>6. QED
  BY <1>1, <1>3, <1>4, <1>5 DEF Steady

LEMMA SteadyAlways == Disciplined /\ Spec => []Steady
<1>1. SUFFICES ASSUME Disciplined PROVE Spec => []Steady
  OBVIOUS
<1>2. Inv /\ LifeInv /\ Steady /\ [Next]_vars => Steady'
  <2> SUFFICES ASSUME Inv, LifeInv, Steady, [Next]_vars PROVE Steady'
    OBVIOUS
  <2>1. CASE UNCHANGED vars
    BY <2>1 DEF vars, Steady, PagesFollow, Entitled, Opened, Stepping, LocksOf
  <2>2. ASSUME NEW t \in Threads, Start(t) \/ Continue(t) PROVE Steady'
    BY <1>1, <2>2, SteadyStep
  <2>3. QED
    BY <2>1, <2>2 DEF Next, Terminated
<1>3. QED
  BY <1>2, SteadyInit, InvHolds, LifeInvAlways, PTL DEF Spec

\* Under the discipline no thread faults again on the instruction for which
\* its handler has just opened the mapping: no other thread closes it first.
THEOREM NoSecondFault ==
  ASSUME Disciplined
  PROVE  Spec => RetrySucceeds
<1>1. Inv /\ LifeInv /\ Steady /\ [Next]_vars
        => [\A t \in Threads :
              ~(pc[t] = "instr" /\ bp[t].active /\ pc'[t] = "fault")]_vars
  <2> SUFFICES ASSUME Inv, LifeInv, Steady, Next, NEW t \in Threads,
                      pc[t] = "instr", bp[t].active, pc'[t] = "fault"
               PROVE  UNCHANGED vars
    OBVIOUS
  <2>1. Permitted(access[t])
    BY RetryPermitted
  <2>2. ASSUME NEW u \in Threads, Start(u) \/ Continue(u) PROVE FALSE
    <3>1. u = t
      BY <2>2, OthersKeep DEF SameFor
    <3>2. Perform(t)
      BY <2>1, <2>2, <3>1
      DEF Start, Starts, Access, AcquireMemoryLock, TriggerInterrupt,
          ConnectInterruptHandler, Destroy, Continue, Fault, FindController,
          LockForHookRead, HookRead, Open, TracePoint, LockForHookWrite,
          HookWrite, Close, EnterRoutine, LeaveRoutine, ReleaseMemoryLock, At
    <3>3. QED
      BY <3>2 DEF Perform, Goto, Inv, TypeOK
  <2>3. QED
    BY <2>2 DEF Next, Terminated
<1>2. QED
  BY <1>1, InvHolds, LifeInvAlways, SteadyAlways, PTL DEF Spec, RetrySucceeds

\* Under the discipline the protection is back in place whenever nobody is
\* inside an access, on Windows too, where Unprotect saves what it finds.
THEOREM HookingSurvivesDisciplined ==
  ASSUME Disciplined
  PROVE  Spec => []QuiescentProtected
<1>1. Inv /\ Steady => QuiescentProtected
  BY DEF Inv, TypeOK, Steady, PagesFollow, QuiescentProtected
<1>2. QED
  BY <1>1, InvHolds, SteadyAlways, PTL

(***************************************************************************)
(* Third, the count of the hooks.  HooksSoFar and Requested already bound  *)
(* it for interfering threads; the discipline makes it exact.              *)
(***************************************************************************)
Finished(t) == performed[t] /\ hookCalls[t] = Expected(access[t])

Exact(t) ==
  /\ pc[t] \in {"instr", "fault", "readLock", "readHook", "open"}
       => ~performed[t]
  /\ pc[t] \in {"instr", "fault", "readLock", "readHook"} /\ ~bp[t].active
       => hookCalls[t].read = 0
  /\ pc[t] = "open" \/ bp[t].active => hookCalls[t].read <= 1
  /\ pc[t] \in {"run", "isrLock"} /\ access[t] # NoAccess => Finished(t)

AllExact == \A t \in Threads : Exact(t)

LEMMA ExactInit == Init => AllExact
<1> SUFFICES ASSUME Init, NEW t \in Threads PROVE Exact(t)
  BY DEF AllExact
<1>1. pc[t] = "run" /\ access[t] = NoAccess /\ ~bp[t].active
  BY DEF Init, NoBreakPoint
<1>2. QED
  BY <1>1 DEF Exact

LEMMA ExactKept ==
  ASSUME NEW u, SameFor(u), Exact(u)
  PROVE  Exact(u)'
BY DEF SameFor, Exact, Finished, Expected

\* An access that does not fault is to have no hook.
LEMMA DirectAccess ==
  ASSUME Inv, Disciplined, Steady, NEW t \in Threads, pc[t] = "instr",
         ~bp[t].active, Permitted(access[t])
  PROVE  Expected(access[t]) = [read |-> 0, write |-> 0]
<1>1. access[t] \in Accesses /\ pc[t] \in InHandler
  BY DEF Inv, Control, ThreadControl, InHandler
<1>2. PICK c \in Controllers : c = access[t].c
  BY <1>1 DEF Accesses
<1>3. access[t].kind \in {"read", "write", "rmw"}
  BY <1>1, ConstantsAssumption DEF Accesses
<1>4. \A u \in Threads : ~Stepping(u, c)
  BY <1>1, <1>2, StepsAlone DEF Stepping
<1>5. prot[c] = InitialProtection(c)
  BY <1>4 DEF Steady, PagesFollow
<1>6. CASE access[t].kind = "read"
  <2>1. ~HooksRead(c)
    BY <1>2, <1>5, <1>6
    DEF Permitted, Allows, InitialProtection, HooksRead
  <2>2. QED
    BY <1>2, <1>6, <2>1 DEF Expected, IsMemoryWriteAccess, Count
<1>7. CASE access[t].kind # "read"
  <2>1. InitialProtection(c) = "rw"
    BY <1>2, <1>3, <1>5, <1>7 DEF Permitted, Allows
  <2>2. HookType[c] = "None"
    BY <2>1 DEF InitialProtection
  <2>3. QED
    BY <1>2, <1>7, <2>2 DEF Expected, Count
<1>8. QED
  BY <1>6, <1>7

\* A step that leaves the history alone and stays before, or outside of, the
\* access.
LEMMA ExactSame ==
  ASSUME NEW t \in Threads, Exact(t), UNCHANGED <<access, ghosts>>,
         bp'[t] = bp[t],
         \/ pc'[t] = pc[t]
         \/ pc[t] \in {"run", "isrLock"} /\ pc'[t] \in {"run", "isrLock"}
              /\ ~bp[t].active
         \/ pc'[t] \in {"trap", "writeLock", "writeHook", "close"}
              /\ bp[t].active
  PROVE  Exact(t)'
BY DEF Exact, Finished, Expected, ghosts

LEMMA StartExact ==
  ASSUME Inv, AllExact, NEW t \in Threads, Start(t)
  PROVE  Exact(t)'
<1>1. /\ Exact(t)
      /\ pc[t] = "run"
      /\ ~bp[t].active
  BY DEF AllExact, Inv, Control, ThreadControl, Start, Starts, Access,
         AcquireMemoryLock, TriggerInterrupt, ConnectInterruptHandler, Destroy
<1>2. CASE \E a \in Accesses : Access(t, a)
  <2>1. /\ pc'[t] = "instr"
        /\ ~performed'[t]
        /\ hookCalls'[t].read = 0
        /\ bp' = bp
    BY <1>2 DEF Access, Goto, trace, Inv, TypeOK
  <2>2. QED
    BY <1>1, <2>1 DEF Exact
<1>3. CASE ~ \E a \in Accesses : Access(t, a)
  <2>1. /\ UNCHANGED <<access, ghosts>>
        /\ bp' = bp
        /\ pc'[t] \in {"run", "isrLock"}
    BY <1>1, <1>3
    DEF Start, AcquireMemoryLock, TriggerInterrupt, ConnectInterruptHandler,
        Destroy, Goto, trace, Inv, TypeOK
  <2>2. QED
    BY <1>1, <2>1, ExactSame
<1>4. QED
  BY <1>2, <1>3

LEMMA ContinueExact ==
  ASSUME Inv, LifeInv, HookInv, Disciplined, Steady, AllExact,
         NEW t \in Threads, Continue(t)
  PROVE  Exact(t)'
<1>1. /\ Exact(t)
      /\ HooksSoFar(t)
      /\ Requested(t)
      /\ Opened(t)
      /\ ThreadControl(t)
      /\ hookCalls[t] \in [read : Nat, write : Nat]
  BY DEF AllExact, HookInv, Progress, Steady, Inv, Control, TypeOK
<1>2. CASE Perform(t)
  <2>1. /\ pc[t] = "instr" /\ pc'[t] = IF tf[t] THEN "trap" ELSE "run"
        /\ performed'[t]
        /\ UNCHANGED <<access, bp, hookCalls>>
    BY <1>2 DEF Perform, At, Goto, trace, Inv, TypeOK
  <2>2. CASE bp[t].active
    <3>1. pc'[t] = "trap"
      BY <1>1, <2>1, <2>2 DEF ThreadControl
    <3>2. QED
      BY <1>1, <2>1, <2>2, <3>1 DEF Exact
  <2>3. CASE ~bp[t].active
    <3>1. pc'[t] = "run"
      BY <1>1, <2>1, <2>3 DEF ThreadControl
    <3>2. Expected(access[t]) = [read |-> 0, write |-> 0]
      BY <1>2, <2>1, <2>3, DirectAccess DEF Perform
    <3>3. hookCalls[t].read = 0 /\ hookCalls[t].write = 0
      BY <1>1, <2>1, <2>3 DEF Exact, HooksSoFar, InHandler
    <3>4. hookCalls[t] = [read |-> 0, write |-> 0]
      BY <1>1, <3>3
    <3>5. Finished(t)'
      BY <2>1, <3>2, <3>4 DEF Finished, Expected
    <3>6. QED
      BY <2>1, <2>3, <3>1, <3>5 DEF Exact
  <2>4. QED
    BY <2>2, <2>3
<1>3. CASE Fault(t)
  <2>1. pc[t] = "instr" /\ ~bp[t].active
    BY <1>3, RetryPermitted DEF Fault, At
  <2>2. /\ pc'[t] \in {"instr", "fault"}
        /\ UNCHANGED <<access, bp, performed, hookCalls>>
    BY <1>3, <2>1 DEF Fault, Goto, trace, ghosts, Inv, TypeOK
  <2>3. QED
    BY <1>1, <2>1, <2>2 DEF Exact
<1>4. CASE FindController(t)
  <2>1. pc[t] = "fault" /\ ~bp[t].active
    BY <1>1, <1>4 DEF FindController, At, Opened
  <2>2. /\ pc'[t] \in {"readLock", "open", "instr", "fault"}
        /\ UNCHANGED <<access, bp, performed, hookCalls>>
    BY <1>4, <2>1
    DEF FindController, HandlerFor, Goto, trace, ghosts, Inv, TypeOK
  <2>3. QED
    BY <1>1, <2>1, <2>2 DEF Exact
<1>5. CASE LockForHookRead(t)
  <2>1. pc[t] = "readLock" /\ ~bp[t].active
    BY <1>1, <1>5 DEF LockForHookRead, At, Opened
  <2>2. /\ pc'[t] = "readHook"
        /\ UNCHANGED <<access, bp, performed, hookCalls>>
    BY <1>5 DEF LockForHookRead, Goto, trace, ghosts, Inv, TypeOK
  <2>3. QED
    BY <1>1, <2>1, <2>2 DEF Exact
<1>6. CASE HookRead(t)
  <2>1. pc[t] = "readHook" /\ ~bp[t].active
    BY <1>1, <1>6 DEF HookRead, At, Opened
  <2>2. /\ pc'[t] = "open"
        /\ hookCalls'[t].read = hookCalls[t].read + 1
        /\ UNCHANGED <<access, bp, performed>>
    BY <1>6 DEF HookRead, CountCall, Goto, trace, Inv, TypeOK
  <2>3. QED
    BY <1>1, <2>1, <2>2 DEF Exact
<1>7. CASE Open(t)
  <2>1. /\ pc[t] = "open" /\ pc'[t] = "instr"
        /\ bp'[t].active
        /\ UNCHANGED <<performed, hookCalls>>
    BY <1>7 DEF Open, At, InstallBreakPoint, BreakPointFor, Goto, ghosts, Inv,
                TypeOK
  <2>2. QED
    BY <1>1, <2>1 DEF Exact
<1>8. CASE TracePoint(t) \/ LockForHookWrite(t)
  <2>1. bp[t].active
    BY <1>1, <1>8 DEF TracePoint, LockForHookWrite, At, ThreadControl
  <2>2. /\ pc'[t] \in {"writeLock", "writeHook", "close"}
        /\ UNCHANGED <<access, ghosts, bp>>
    BY <1>8, <2>1 DEF TracePoint, LockForHookWrite, Goto, trace, Inv, TypeOK
  <2>3. QED
    BY <1>1, <2>1, <2>2, ExactSame
<1>9. CASE HookWrite(t)
  <2>1. pc[t] = "writeHook" /\ bp[t].active
    BY <1>1, <1>9 DEF HookWrite, At, ThreadControl
  <2>2. /\ pc'[t] = "close"
        /\ hookCalls'[t].read = hookCalls[t].read
        /\ UNCHANGED bp
    BY <1>9 DEF HookWrite, CountCall, Goto, trace, Inv, TypeOK
  <2>3. QED
    BY <1>1, <2>1, <2>2 DEF Exact
<1>10. CASE Close(t)
  <2>1. /\ pc[t] = "close" /\ pc'[t] = "run"
        /\ ~bp'[t].active
        /\ UNCHANGED <<access, performed, hookCalls>>
    BY <1>10 DEF Close, At, UninstallBreakPoint, NoBreakPoint, Goto, ghosts,
                 Inv, TypeOK
  <2>2. bp[t].active /\ access[t] \in Accesses /\ performed[t]
    BY <1>1, <2>1 DEF ThreadControl, HooksSoFar, InHandler
  <2>3. access[t].kind \in {"read", "write", "rmw"}
    BY <2>2, ConstantsAssumption DEF Accesses
  <2>4. hookCalls[t].write = Expected(access[t]).write
    BY <1>1, <2>1 DEF HooksSoFar, Expected, HooksWrite
  <2>5. hookCalls[t].read = Expected(access[t]).read
    <3>1. CASE IsMemoryWriteAccess(access[t])
      BY <1>1, <2>1, <3>1
      DEF HooksSoFar, InHandler, IsMemoryWriteAccess, Expected, Count
    <3>2. CASE ~IsMemoryWriteAccess(access[t])
      <4>1. hookCalls[t].read > 0 /\ hookCalls[t].read <= 1
        BY <1>1, <2>2, <3>2 DEF HooksSoFar, Exact
      <4>2. access[t].kind = "read" /\ HooksRead(access[t].c)
        BY <1>1, <2>3, <3>2, <4>1 DEF Requested, IsMemoryWriteAccess
      <4>3. QED
        BY <1>1, <4>1, <4>2 DEF Expected, Count
    <3>3. QED
      BY <3>1, <3>2
  <2>6. hookCalls[t] = Expected(access[t])
    BY <1>1, <2>4, <2>5 DEF Expected
  <2>7. Finished(t)'
    BY <2>1, <2>2, <2>6 DEF Finished, Expected
  <2>8. QED
    BY <2>1, <2>7 DEF Exact
<1>11. CASE EnterRoutine(t) \/ LeaveRoutine(t) \/ ReleaseMemoryLock(t)
  <2>1. pc[t] \in {"run", "isrLock"} /\ ~bp[t].active
    BY <1>1, <1>11
    DEF EnterRoutine, LeaveRoutine, ReleaseMemoryLock, ThreadControl
  <2>2. /\ pc'[t] \in {"run", "isrLock"}
        /\ UNCHANGED <<access, ghosts, bp>>
    BY <1>11, <2>1
    DEF EnterRoutine, LeaveRoutine, ReleaseMemoryLock, Goto, trace, Inv, TypeOK
  <2>3. QED
    BY <1>1, <2>1, <2>2, ExactSame
<1>12. QED
  BY <1>2, <1>3, <1>4, <1>5, <1>6, <1>7, <1>8, <1>9, <1>10, <1>11
  DEF Continue

LEMMA ExactAlways == Disciplined /\ Spec => []AllExact
<1>1. SUFFICES ASSUME Disciplined PROVE Spec => []AllExact
  OBVIOUS
<1>2. Inv /\ LifeInv /\ HookInv /\ Steady /\ AllExact /\ [Next]_vars
        => AllExact'
  <2> SUFFICES ASSUME Inv, LifeInv, HookInv, Steady, AllExact, [Next]_vars
               PROVE  AllExact'
    OBVIOUS
  <2>1. CASE UNCHANGED vars
    BY <2>1 DEF vars, AllExact, Exact, Finished, Expected
  <2>2. ASSUME NEW t \in Threads, Start(t) \/ Continue(t) PROVE AllExact'
    <3>1. ASSUME NEW u \in Threads, u # t PROVE Exact(u)'
      BY <2>2, <3>1, OthersKeep, ExactKept DEF AllExact
    <3>2. Exact(t)'
      BY <1>1, <2>2, StartExact, ContinueExact
    <3>3. QED
      BY <3>1, <3>2 DEF AllExact
  <2>3. QED
    BY <2>1, <2>2 DEF Next, Terminated
<1>3. QED
  BY <1>1, <1>2, ExactInit, InvHolds, LifeInvAlways, HookInvHolds,
     SteadyAlways, PTL DEF Spec

\* Under the discipline an access that is over took effect and had exactly
\* the hooks its controller asked for: none missing, none called twice, on
\* POSIX and on Windows.
THEOREM HookedExactlyOnce ==
  ASSUME Disciplined
  PROVE  Spec => []ExactlyOnce
<1>1. AllExact => ExactlyOnce
  BY DEF AllExact, Exact, Finished, ExactlyOnce
<1>2. QED
  BY <1>1, ExactAlways, PTL

(***************************************************************************)
(* Fourth, the engine implements HookedAccess: for drivers that do not get *)
(* in each other's way, pages, signals and locks are invisible.            *)
(***************************************************************************)
InvAll == Inv /\ HookInv /\ Steady /\ AllExact

\* What a thread has half done it does from within its handlers.
LEMMA HalfDoneInHandler ==
  ASSUME InvAll, NEW u \in Threads, HA!HalfDone(u)
  PROVE  pc[u] \in InHandler
<1>1. /\ access[u] \in Accesses /\ access[u] # NoAccess
      /\ hookCalls[u] \in [read : Nat, write : Nat]
      /\ pc[u] \in Labels
  BY ConstantsAssumption DEF HA!HalfDone, InvAll, Inv, TypeOK
<1>2. ASSUME pc[u] \in {"run", "isrLock"} PROVE FALSE
  <2>1. performed[u] /\ hookCalls[u] = Expected(access[u])
    BY <1>1, <1>2 DEF InvAll, AllExact, Exact, Finished
  <2>2. /\ IsMemoryWriteAccess(access[u]) /\ HooksWrite(access[u].c)
        /\ hookCalls[u].read + hookCalls[u].write = 0
    BY <2>1 DEF HA!HalfDone
  <2>3. hookCalls[u].write = 1
    BY <2>1, <2>2 DEF Expected, Count, HooksWrite
  <2>4. QED
    BY <1>1, <2>2, <2>3
<1>3. QED
  BY <1>1, <1>2 DEF Labels, InHandler

LEMMA IsAlone ==
  ASSUME InvAll, Disciplined, NEW t \in Threads, pc[t] \in InHandler
  PROVE  HA!Alone(t)
<1> SUFFICES ASSUME NEW u \in Threads \ {t}, HA!HalfDone(u)
             PROVE  access[u].c # access[t].c
  BY DEF HA!Alone
<1>1. pc[u] \in InHandler
  BY HalfDoneInHandler
<1>2. QED
  BY <1>1, Apart DEF InvAll, Steady

LEMMA HooksBecome ==
  ASSUME NEW t \in Threads, NEW n \in Nat,
         \A u \in Threads \ {t} : hookCalls'[u] = hookCalls[u],
         hookCalls'[t].read + hookCalls'[t].write = n
  PROVE  [u \in Threads |-> hookCalls[u].read + hookCalls[u].write]'
           = [[u \in Threads |-> hookCalls[u].read + hookCalls[u].write]
                EXCEPT ![t] = n]
OBVIOUS

LEMMA AbstractBegin ==
  ASSUME InvAll, NEW t \in Threads, NEW a \in Accesses, Access(t, a)
  PROVE  HA!Begin(t, a)
<1>1. HA!Finished(t)
  <2>1. CASE access[t] = NoAccess
    BY <2>1 DEF HA!Finished
  <2>2. CASE access[t] # NoAccess
    <3>1. performed[t] /\ hookCalls[t] = Expected(access[t])
      BY <2>2 DEF Access, Starts, InvAll, AllExact, Exact, Finished
    <3>2. ASSUME IsMemoryWriteAccess(access[t]), HooksWrite(access[t].c)
          PROVE  hookCalls[t].read + hookCalls[t].write = 1
      BY <3>1, <3>2
      DEF Expected, Count, HooksWrite, IsMemoryWriteAccess
    <3>3. QED
      BY <3>1, <3>2 DEF HA!Finished
  <2>3. QED
    BY <2>1, <2>2
<1>2. /\ access' = [access EXCEPT ![t] = a]
      /\ performed' = [performed EXCEPT ![t] = FALSE]
      /\ hookCalls' = [hookCalls EXCEPT ![t] = [read |-> 0, write |-> 0]]
  BY DEF Access
<1>3. [u \in Threads |-> hookCalls[u].read + hookCalls[u].write]'
        = [[u \in Threads |-> hookCalls[u].read + hookCalls[u].write]
             EXCEPT ![t] = 0]
  <2>1. \A u \in Threads \ {t} : hookCalls'[u] = hookCalls[u]
    BY <1>2 DEF InvAll, Inv, TypeOK
  <2>2. hookCalls'[t].read = 0 /\ hookCalls'[t].write = 0
    BY <1>2 DEF InvAll, Inv, TypeOK
  <2>3. QED
    BY <2>1, <2>2, HooksBecome
<1>4. QED
  BY <1>1, <1>2, <1>3 DEF HA!Begin

LEMMA AbstractHook ==
  ASSUME InvAll, Disciplined, NEW t \in Threads, HookRead(t) \/ HookWrite(t)
  PROVE  HA!Hook(t)
<1>1. /\ pc[t] \in InHandler /\ access[t] \in Accesses
      /\ hookCalls[t] \in [read : Nat, write : Nat]
      /\ Exact(t) /\ HooksSoFar(t) /\ Requested(t) /\ Opened(t)
      /\ ThreadControl(t)
  BY DEF InvAll, Inv, TypeOK, Control, ThreadControl, AllExact, HookInv,
         Progress, Steady, HookRead, HookWrite, At, InHandler
<1>2. access[t].kind \in {"read", "write", "rmw"}
  BY <1>1, ConstantsAssumption DEF Accesses
<1>3. UNCHANGED <<access, performed>>
  BY DEF HookRead, HookWrite
<1>4. CASE HookRead(t)
  <2>1. pc[t] = "readHook"
    BY <1>4 DEF HookRead, At
  <2>2. ~performed[t] /\ hookCalls[t].read + hookCalls[t].write = 0
    BY <1>1, <2>1 DEF Exact, HooksSoFar, Opened, InHandler
  <2>3. access[t].kind = "read" /\ HooksRead(access[t].c)
    BY <1>1, <1>2, <2>1 DEF Requested, ThreadControl, IsMemoryWriteAccess
  <2>4. [u \in Threads |-> hookCalls[u].read + hookCalls[u].write]'
          = [[u \in Threads |-> hookCalls[u].read + hookCalls[u].write]
               EXCEPT ![t] = 1]
    <3>1. \A u \in Threads \ {t} : hookCalls'[u] = hookCalls[u]
      BY <1>4 DEF HookRead, CountCall, InvAll, Inv, TypeOK
    <3>2. /\ hookCalls'[t].read = hookCalls[t].read + 1
          /\ hookCalls'[t].write = hookCalls[t].write
      BY <1>4 DEF HookRead, CountCall, InvAll, Inv, TypeOK
    <3>3. QED
      BY <1>1, <2>2, <3>1, <3>2, HooksBecome
  <2>5. QED
    BY <1>1, <1>3, <2>2, <2>3, <2>4, IsAlone DEF HA!Hook
<1>5. CASE HookWrite(t)
  <2>1. pc[t] = "writeHook" /\ bp[t] = BreakPointFor(access[t])
    BY <1>1, <1>5 DEF HookWrite, At, ThreadControl
  <2>2. IsMemoryWriteAccess(access[t]) /\ HooksWrite(access[t].c)
    BY <1>1, <2>1, ConstantsAssumption
    DEF ThreadControl, CallsHookWrite, BreakPointFor
  <2>3. performed[t] /\ hookCalls[t].read + hookCalls[t].write = 0
    BY <1>1, <2>1, <2>2 DEF HooksSoFar, InHandler
  <2>4. [u \in Threads |-> hookCalls[u].read + hookCalls[u].write]'
          = [[u \in Threads |-> hookCalls[u].read + hookCalls[u].write]
               EXCEPT ![t] = 1]
    <3>1. \A u \in Threads \ {t} : hookCalls'[u] = hookCalls[u]
      BY <1>5 DEF HookWrite, CountCall, InvAll, Inv, TypeOK
    <3>2. /\ hookCalls'[t].write = hookCalls[t].write + 1
          /\ hookCalls'[t].read = hookCalls[t].read
      BY <1>5 DEF HookWrite, CountCall, InvAll, Inv, TypeOK
    <3>3. QED
      BY <1>1, <2>3, <3>1, <3>2, HooksBecome
  <2>5. QED
    BY <1>1, <1>3, <2>2, <2>3, <2>4, IsAlone DEF HA!Hook
<1>6. QED
  BY <1>4, <1>5

LEMMA AbstractPerform ==
  ASSUME InvAll, Disciplined, NEW t \in Threads, Perform(t)
  PROVE  HA!Perform(t)
<1>1. /\ pc[t] = "instr" /\ pc[t] \in InHandler /\ access[t] \in Accesses
      /\ hookCalls[t] \in [read : Nat, write : Nat]
      /\ Exact(t) /\ HooksSoFar(t)
      /\ Permitted(access[t])
  BY DEF InvAll, Inv, TypeOK, Control, ThreadControl, AllExact, HookInv,
         Progress, Perform, At, InHandler
<1>2. access[t] # NoAccess /\ ~performed[t]
  BY <1>1, ConstantsAssumption DEF Exact
<1>3. ASSUME access[t].kind = "read", HooksRead(access[t].c)
      PROVE  hookCalls[t].read + hookCalls[t].write = 1
  <2>1. bp[t].active
    <3>1. Expected(access[t]).read = 1
      BY <1>3 DEF Expected, Count
    <3>2. QED
      BY <1>1, <3>1, DirectAccess DEF InvAll
  <2>2. hookCalls[t].read > 0 /\ hookCalls[t].read <= 1
    BY <1>1, <1>3, <2>1 DEF HooksSoFar, Exact, IsMemoryWriteAccess
  <2>3. hookCalls[t].write = 0
    BY <1>1 DEF HooksSoFar
  <2>4. QED
    BY <1>1, <2>2, <2>3
<1>4. /\ performed' = [performed EXCEPT ![t] = TRUE]
      /\ UNCHANGED <<access, hookCalls>>
  BY DEF Perform
<1>5. QED
  BY <1>1, <1>2, <1>3, <1>4, IsAlone DEF HA!Perform

LEMMA AbstractStep ==
  ASSUME InvAll, Disciplined, [Next]_vars
  PROVE  [HA!Next]_(HA!vars)
<1>1. CASE UNCHANGED <<access, performed, hookCalls>>
  BY <1>1 DEF HA!vars
<1>2. CASE \E t \in Threads : Start(t) \/ Continue(t)
  <2>1. PICK t \in Threads : Start(t) \/ Continue(t)
    BY <1>2
  <2>2. CASE \E a \in Accesses : Access(t, a)
    BY <2>2, AbstractBegin DEF HA!Next
  <2>3. CASE HookRead(t) \/ HookWrite(t)
    BY <2>3, AbstractHook DEF HA!Next
  <2>4. CASE Perform(t)
    BY <2>4, AbstractPerform DEF HA!Next
  <2>5. CASE /\ ~ \E a \in Accesses : Access(t, a)
             /\ ~HookRead(t) /\ ~HookWrite(t) /\ ~Perform(t)
    BY <1>1, <2>1, <2>5
    DEF Start, Continue, AcquireMemoryLock, TriggerInterrupt,
        ConnectInterruptHandler, Destroy, Fault, FindController,
        LockForHookRead, Open, TracePoint, LockForHookWrite, Close,
        EnterRoutine, LeaveRoutine, ReleaseMemoryLock, ghosts
  <2>6. QED
    BY <2>2, <2>3, <2>4, <2>5
<1>3. QED
  BY <1>1, <1>2 DEF Next, Terminated, vars

\* Under the discipline every behaviour of the engine is one of the protocol
\* that docs/hooking.md describes: a hooked load is preceded by one HookRead,
\* a hooked store followed by one HookWrite, and no other access to the same
\* controller comes between a hook and its instruction.
THEOREM ImplementsHookedAccess ==
  ASSUME Disciplined
  PROVE  Spec => RefinesHookedAccess
<1>1. Init => HA!Init
  BY DEF Init, HA!Init
<1>2. InvAll /\ [Next]_vars => [HA!Next]_(HA!vars)
  BY AbstractStep
<1>3. Spec => []InvAll
  BY InvHolds, HookInvHolds, SteadyAlways, ExactAlways, PTL DEF InvAll
<1>4. QED
  BY <1>1, <1>2, <1>3, PTL DEF Spec, RefinesHookedAccess, HA!Spec
=============================================================================
