-------------------------- MODULE HookEngineProofs --------------------------
(***************************************************************************)
(* Theorems about HookEngine, for every set of threads and controllers,    *)
(* every assignment of hook types and every bound.                         *)
(***************************************************************************)
EXTENDS HookEngine, TLAPS

(***************************************************************************)
(* The strengthening.  Control says what a thread's label tells about its  *)
(* breakpoint and its access.  LockFree completes LockBalanced for a lock  *)
(* nobody owns: without it the depth of a lock that is taken is unknown.   *)
(***************************************************************************)
InHandler == {"instr", "fault", "readLock", "readHook", "open", "trap",
              "writeLock", "writeHook", "close"}

ThreadControl(t) ==
  /\ pc[t] \in InHandler => access[t] \in Accesses
  /\ pc[t] = "isrLock" => isr[t] # NoController
  /\ pc[t] \in {"run", "isrLock"} => ~bp[t].active
  /\ tf[t] = bp[t].active
  /\ pc[t] \in {"readLock", "readHook"} => ~IsMemoryWriteAccess(access[t])
  /\ pc[t] \in {"trap", "writeLock", "writeHook", "close"} => bp[t].active
  /\ pc[t] \in {"writeLock", "writeHook"} => CallsHookWrite(bp[t])
  /\ bp[t].active => /\ bp[t] = BreakPointFor(access[t])
                    /\ oldProtection[bp[t].ioSpace] # "unset"

Control == \A t \in Threads : ThreadControl(t)

LockFree == \A c \in Controllers : lockOwner[c] = NoThread => lockDepth[c] = 0

\* On POSIX the protection to restore is known from the start; on Windows,
\* by ThreadControl, once the mapping has been opened.
Saved == Platform = "posix" => \A c \in Controllers : oldProtection[c] # "unset"

Inv == TypeOK /\ Control /\ Saved /\ LockBalanced /\ LockFree

(***************************************************************************)
(* The recursive lock.  When a step adds one to Holds(t, c) it must be a   *)
(* Lock, when it takes one away it must be an Unlock; the rest of the      *)
(* table stays.  HoldsChange(t, c, n) says that.                           *)
(***************************************************************************)
SameHolds ==
  \A u \in Threads, c \in Controllers : Holds(u, c)' = Holds(u, c)

OneMore(t, c) ==
  \A u \in Threads, d \in Controllers :
    Holds(u, d)' = IF u = t /\ d = c THEN Holds(u, d) + 1 ELSE Holds(u, d)

OneLess(t, c) ==
  \A u \in Threads, d \in Controllers :
    Holds(u, d)' = IF u = t /\ d = c THEN Holds(u, d) - 1 ELSE Holds(u, d)

LEMMA HoldsNat ==
  ASSUME NEW t, NEW c
  PROVE  Holds(t, c) \in Nat
BY DEF Holds, Count

\* A step that leaves the locks and the places that hold them alone.
LEMMA BalanceKept ==
  ASSUME Inv, SameHolds, UNCHANGED locks
  PROVE  LockBalanced' /\ LockFree'
BY DEF Inv, SameHolds, locks, LockBalanced, LockFree

\* Taking the lock once more.
LEMMA BalanceAfterLock ==
  ASSUME Inv, NEW t \in Threads, NEW c \in Controllers,
         Lock(t, c), OneMore(t, c)
  PROVE  /\ LockBalanced' /\ LockFree'
         /\ lockOwner' \in [Controllers -> Threads \cup {NoThread}]
         /\ lockDepth' \in [Controllers -> Nat]
<1> USE ConstantsAssumption, HoldsNat
<1>1. /\ lockOwner' \in [Controllers -> Threads \cup {NoThread}]
      /\ lockDepth' \in [Controllers -> Nat]
  BY DEF Inv, TypeOK, Lock
<1>2. LockFree'
  BY DEF Inv, TypeOK, Lock, LockFree
<1>3. LockBalanced'
  BY DEF Inv, TypeOK, Lock, CanLock, LockFree, LockBalanced, OneMore
<1>4. QED
  BY <1>1, <1>2, <1>3

\* Giving it back once, from a place that held it.
LEMMA BalanceAfterUnlock ==
  ASSUME Inv, NEW t \in Threads, NEW c \in Controllers,
         Unlock(c), OneLess(t, c), Holds(t, c) > 0
  PROVE  /\ LockBalanced' /\ LockFree'
         /\ lockOwner' \in [Controllers -> Threads \cup {NoThread}]
         /\ lockDepth' \in [Controllers -> Nat]
<1> USE ConstantsAssumption, HoldsNat
<1>1. lockOwner[c] = t /\ lockDepth[c] = Holds(t, c)
  BY DEF Inv, LockBalanced
<1>2. /\ lockOwner' \in [Controllers -> Threads \cup {NoThread}]
      /\ lockDepth' \in [Controllers -> Nat]
  BY <1>1 DEF Inv, TypeOK, Unlock
<1>3. LockFree'
  BY <1>1 DEF Inv, TypeOK, Unlock, LockFree
<1>4. LockBalanced'
  BY <1>1 DEF Inv, TypeOK, Unlock, LockBalanced, OneLess
<1>5. QED
  BY <1>2, <1>3, <1>4

(***************************************************************************)
(* One lemma per action.                                                   *)
(***************************************************************************)
LEMMA InitInv == Init => Inv
<1> SUFFICES ASSUME Init PROVE Inv
  OBVIOUS
<1> USE ConstantsAssumption DEF Init
<1>1. TypeOK
  BY DEF TypeOK, NoBreakPoint, InitialProtection, InitialOldProtection, Labels,
         HooksRead
<1>2. Control /\ Saved
  BY DEF Control, ThreadControl, Saved, NoBreakPoint, InHandler,
         InitialOldProtection, InitialProtection
<1>3. LockBalanced /\ LockFree
  BY DEF LockBalanced, LockFree, Holds, HoldsByCode, HoldsByRoutine,
         HoldsByHook, Count
<1>4. QED
  BY <1>1, <1>2, <1>3 DEF Inv

LEMMA AccessInv ==
  ASSUME Inv, NEW t \in Threads, NEW a \in Accesses, Access(t, a)
  PROVE  Inv'
<1> USE ConstantsAssumption DEF Access, Starts, Goto, shared, trace
<1>1. TypeOK'
  BY DEF Inv, TypeOK, Labels
<1>2. Control' /\ Saved'
  BY DEF Inv, TypeOK, Control, ThreadControl, Saved, BreakPointFor,
         NoBreakPoint, InHandler
<1>3. SameHolds /\ UNCHANGED locks
  BY DEF Inv, TypeOK, SameHolds, Holds, HoldsByCode, HoldsByRoutine,
         HoldsByHook, locks
<1>4. QED
  BY <1>1, <1>2, <1>3, BalanceKept DEF Inv

LEMMA ConnectInterruptHandlerInv ==
  ASSUME Inv, NEW t \in Threads, NEW c \in Controllers, NEW handler \in {"empty", "routine"},
         ConnectInterruptHandler(t, c, handler)
  PROVE  Inv'
<1> USE ConstantsAssumption DEF ConnectInterruptHandler, Starts, locks, trace, ghosts
<1>1. TypeOK'
  BY DEF Inv, TypeOK, Labels
<1>2. Control' /\ Saved'
  BY DEF Inv, TypeOK, Control, ThreadControl, Saved, BreakPointFor,
         NoBreakPoint, InHandler
<1>3. SameHolds /\ UNCHANGED locks
  BY DEF Inv, TypeOK, SameHolds, Holds, HoldsByCode, HoldsByRoutine,
         HoldsByHook, locks
<1>4. QED
  BY <1>1, <1>2, <1>3, BalanceKept DEF Inv

LEMMA TriggerInterruptInv ==
  ASSUME Inv, NEW t \in Threads, NEW c \in Controllers, TriggerInterrupt(t, c)
  PROVE  Inv'
<1>1. TypeOK'
  <2>1. pc' \in [Threads -> Labels]
    BY DEF Inv, TypeOK, TriggerInterrupt, Goto, Labels
  <2>2. isr' \in [Threads -> Controllers \cup {NoController}]
    BY DEF Inv, TypeOK, TriggerInterrupt
  <2>3. ops' \in [Threads -> 0 .. MaxOps]
    BY ConstantsAssumption DEF Inv, TypeOK, TriggerInterrupt, Starts
  <2>4. QED
    BY <2>1, <2>2, <2>3
    DEF Inv, TypeOK, TriggerInterrupt, shared, trace, ghosts
<1>2. Control' /\ Saved'
  <2>1. ASSUME NEW u \in Threads PROVE ThreadControl(u)'
    BY ConstantsAssumption
    DEF Inv, TypeOK, Control, ThreadControl, InHandler, TriggerInterrupt,
        Starts, Goto, shared, trace
  <2>2. QED
    BY <2>1 DEF Inv, Control, Saved, TriggerInterrupt, shared
<1>3. SameHolds /\ UNCHANGED locks
  BY ConstantsAssumption
  DEF Inv, TypeOK, SameHolds, Holds, HoldsByCode, HoldsByRoutine,
      HoldsByHook, TriggerInterrupt, Starts, Goto, shared, locks
<1>4. QED
  BY <1>1, <1>2, <1>3, BalanceKept DEF Inv

LEMMA DestroyInv ==
  ASSUME Inv, NEW t \in Threads, NEW c \in Controllers, Destroy(t, c)
  PROVE  Inv'
<1> USE ConstantsAssumption DEF Destroy, Starts, pages, locks, trace, ghosts
<1>1. TypeOK'
  BY DEF Inv, TypeOK, Labels
<1>2. Control' /\ Saved'
  BY DEF Inv, TypeOK, Control, ThreadControl, Saved, BreakPointFor,
         NoBreakPoint, InHandler
<1>3. SameHolds /\ UNCHANGED locks
  BY DEF Inv, TypeOK, SameHolds, Holds, HoldsByCode, HoldsByRoutine,
         HoldsByHook, locks
<1>4. QED
  BY <1>1, <1>2, <1>3, BalanceKept DEF Inv

LEMMA PerformInv ==
  ASSUME Inv, NEW t \in Threads, Perform(t)
  PROVE  Inv'
<1> USE ConstantsAssumption DEF Perform, At, Goto, shared, trace
<1>1. TypeOK'
  BY DEF Inv, TypeOK, Labels
<1>2. Control' /\ Saved'
  BY DEF Inv, TypeOK, Control, ThreadControl, Saved, BreakPointFor,
         NoBreakPoint, InHandler
<1>3. SameHolds /\ UNCHANGED locks
  BY DEF Inv, TypeOK, SameHolds, Holds, HoldsByCode, HoldsByRoutine,
         HoldsByHook, locks
<1>4. QED
  BY <1>1, <1>2, <1>3, BalanceKept DEF Inv

LEMMA FaultInv ==
  ASSUME Inv, NEW t \in Threads, Fault(t)
  PROVE  Inv'
<1> USE ConstantsAssumption DEF Fault, At, Goto, pages, locks, trace, ghosts
<1>1. TypeOK'
  BY DEF Inv, TypeOK, Labels
<1>2. Control' /\ Saved'
  BY DEF Inv, TypeOK, Control, ThreadControl, Saved, BreakPointFor,
         NoBreakPoint, InHandler
<1>3. SameHolds /\ UNCHANGED locks
  BY DEF Inv, TypeOK, SameHolds, Holds, HoldsByCode, HoldsByRoutine,
         HoldsByHook, locks
<1>4. QED
  BY <1>1, <1>2, <1>3, BalanceKept DEF Inv

LEMMA FindControllerInv ==
  ASSUME Inv, NEW t \in Threads, FindController(t)
  PROVE  Inv'
<1>1. TypeOK'
  <2>1. pc' \in [Threads -> Labels]
    BY DEF Inv, TypeOK, FindController, HandlerFor, Goto, Labels
  <2>2. sigAction' \in {"ExMM", "SIG_DFL", "killed"}
    BY DEF Inv, TypeOK, FindController
  <2>3. QED
    BY <2>1, <2>2
    DEF Inv, TypeOK, FindController, pages, locks, trace, ghosts
<1>2. Control' /\ Saved'
  <2>1. ASSUME NEW u \in Threads PROVE ThreadControl(u)'
    BY DEF Inv, TypeOK, Control, ThreadControl, InHandler, FindController,
           HandlerFor, At, Goto, pages, trace
  <2>2. QED
    BY <2>1 DEF Inv, Control, Saved, FindController, pages
<1>3. SameHolds /\ UNCHANGED locks
  BY DEF Inv, TypeOK, SameHolds, Holds, HoldsByCode, HoldsByRoutine,
         HoldsByHook, FindController, HandlerFor, At, Goto, locks
<1>4. QED
  BY <1>1, <1>2, <1>3, BalanceKept DEF Inv

LEMMA OpenInv ==
  ASSUME Inv, NEW t \in Threads, Open(t)
  PROVE  Inv'
<1>1. /\ access[t] \in Accesses
      /\ access[t].c \in Controllers
      /\ BreakPointFor(access[t]).ioSpace = access[t].c
      /\ BreakPointFor(access[t]).active
      /\ BreakPointFor(access[t]) \in
           [active : BOOLEAN, ioSpace : Controllers \cup {NoController},
            controller : Controllers \cup {NoController}, offset : Nat]
  BY ConstantsAssumption
  DEF Inv, Control, ThreadControl, InHandler, Open, At, Accesses,
      BreakPointFor
<1>2. oldProtection'[access[t].c] \in {"none", "read", "rw"}
  BY <1>1, ConstantsAssumption
  DEF Inv, TypeOK, Saved, Open, Unprotect, SavedProtection
<1>3. TypeOK'
  <2>1. prot' \in [Controllers -> {"none", "read", "rw"}]
    BY DEF Inv, TypeOK, Open, Unprotect
  <2>2. oldProtection' \in [Controllers -> {"unset", "none", "read", "rw"}]
    BY <1>1, <1>2 DEF Inv, TypeOK, Open, Unprotect
  <2>3. bp' \in [Threads -> [active : BOOLEAN,
                   ioSpace : Controllers \cup {NoController},
                   controller : Controllers \cup {NoController},
                   offset : Nat]]
    BY <1>1 DEF Inv, TypeOK, Open, InstallBreakPoint
  <2>4. tf' \in [Threads -> BOOLEAN] /\ pc' \in [Threads -> Labels]
    BY DEF Inv, TypeOK, Open, InstallBreakPoint, Goto, Labels
  <2>5. QED
    BY <2>1, <2>2, <2>3, <2>4 DEF Inv, TypeOK, Open, locks, ghosts
<1>4. Control' /\ Saved'
  <2>1. ThreadControl(t)'
    BY <1>1, <1>2
    DEF Inv, TypeOK, ThreadControl, InHandler, Open, InstallBreakPoint, Goto
  <2>2. ASSUME NEW u \in Threads, u # t PROVE ThreadControl(u)'
    BY <1>1, <1>2, <2>2
    DEF Inv, TypeOK, Control, ThreadControl, Open, Unprotect,
        InstallBreakPoint, Goto
  <2>3. Saved'
    BY <1>1, <1>2 DEF Inv, TypeOK, Saved, Open, Unprotect
  <2>4. QED
    BY <2>1, <2>2, <2>3 DEF Control
<1>5. SameHolds /\ UNCHANGED locks
  BY DEF Inv, TypeOK, SameHolds, Holds, HoldsByCode, HoldsByRoutine,
         HoldsByHook, Open, At, Goto, locks
<1>6. QED
  BY <1>3, <1>4, <1>5, BalanceKept DEF Inv

LEMMA TracePointInv ==
  ASSUME Inv, NEW t \in Threads, TracePoint(t)
  PROVE  Inv'
<1> USE ConstantsAssumption DEF TracePoint, At, Goto, shared, trace, ghosts
<1>1. TypeOK'
  BY DEF Inv, TypeOK, Labels
<1>2. Control' /\ Saved'
  BY DEF Inv, TypeOK, Control, ThreadControl, Saved, BreakPointFor,
         NoBreakPoint, InHandler
<1>3. SameHolds /\ UNCHANGED locks
  BY DEF Inv, TypeOK, SameHolds, Holds, HoldsByCode, HoldsByRoutine,
         HoldsByHook, locks
<1>4. QED
  BY <1>1, <1>2, <1>3, BalanceKept DEF Inv

LEMMA CloseInv ==
  ASSUME Inv, NEW t \in Threads, Close(t)
  PROVE  Inv'
<1> USE ConstantsAssumption DEF Close, RestoreProtection, UninstallBreakPoint, At, Goto, locks,
        ghosts
<1>1. TypeOK'
  <2>1. bp[t].ioSpace \in Controllers
    <3>1. access[t] \in Accesses /\ bp[t] = BreakPointFor(access[t])
      BY DEF Inv, Control, ThreadControl, InHandler
    <3>2. QED
      BY <3>1 DEF BreakPointFor, Accesses
  <2>2. QED
    <3>1. prot' \in [Controllers -> {"none", "read", "rw"}]
      BY <2>1 DEF Inv, TypeOK, Control, ThreadControl
    <3>2. bp' \in [Threads -> [active : BOOLEAN,
                         ioSpace : Controllers \cup {NoController},
                         controller : Controllers \cup {NoController},
                         offset : Nat]]
      BY DEF Inv, TypeOK, NoBreakPoint
    <3>3. tf' \in [Threads -> BOOLEAN]
      BY DEF Inv, TypeOK
    <3>4. pc' \in [Threads -> Labels]
      BY DEF Inv, TypeOK, Labels
    <3>5. QED
      BY <3>1, <3>2, <3>3, <3>4 DEF Inv, TypeOK
<1>2. Control' /\ Saved'
  <2>1. ASSUME NEW u \in Threads PROVE ThreadControl(u)'
    <3>1. CASE u = t
      BY <3>1 DEF Inv, TypeOK, Control, ThreadControl, Saved, BreakPointFor,
         NoBreakPoint, InHandler
    <3>2. CASE u # t
      BY <3>2 DEF Inv, TypeOK, Control, ThreadControl, Saved, BreakPointFor,
         NoBreakPoint, InHandler
    <3>3. QED
      BY <3>1, <3>2
  <2>2. Saved'
    BY DEF Inv, TypeOK, Saved
  <2>3. QED
    BY <2>1, <2>2 DEF Control
<1>3. SameHolds /\ UNCHANGED locks
  BY DEF Inv, TypeOK, SameHolds, Holds, HoldsByCode, HoldsByRoutine,
         HoldsByHook, locks
<1>4. QED
  BY <1>1, <1>2, <1>3, BalanceKept DEF Inv

LEMMA AcquireMemoryLockInv ==
  ASSUME Inv, NEW t \in Threads, NEW c \in Controllers, AcquireMemoryLock(t, c)
  PROVE  Inv'
<1>1. OneMore(t, c)
  BY ConstantsAssumption
  DEF Inv, TypeOK, OneMore, Holds, HoldsByCode, HoldsByRoutine, HoldsByHook,
      Count, AcquireMemoryLock, LocksOf
<1>2. Lock(t, c)
  BY DEF AcquireMemoryLock
<1>3. TypeOK'
  <2>1. ops' \in [Threads -> 0 .. MaxOps]
    BY ConstantsAssumption DEF Inv, TypeOK, AcquireMemoryLock, Starts
  <2>2. held' \in [Threads -> Controllers \cup {NoController}]
    BY DEF Inv, TypeOK, AcquireMemoryLock
  <2>3. QED
    BY <1>1, <1>2, <2>1, <2>2, BalanceAfterLock
    DEF Inv, TypeOK, AcquireMemoryLock, pages, trace, ghosts
<1>4. Control' /\ Saved'
  BY DEF Inv, Control, ThreadControl, Saved, AcquireMemoryLock, pages, trace
<1>5. QED
  BY <1>1, <1>2, <1>3, <1>4, BalanceAfterLock DEF Inv

LEMMA ReleaseMemoryLockInv ==
  ASSUME Inv, NEW t \in Threads, ReleaseMemoryLock(t)
  PROVE  Inv'
<1> DEFINE c == held[t]
<1>1. c \in Controllers
  BY DEF Inv, TypeOK, ReleaseMemoryLock
<1>2. Unlock(c)
  BY DEF ReleaseMemoryLock
<1>3. OneLess(t, c) /\ Holds(t, c) > 0
  BY ConstantsAssumption
  DEF Inv, TypeOK, OneLess, Holds, HoldsByCode, HoldsByRoutine, HoldsByHook,
      Count, ReleaseMemoryLock
<1>4. TypeOK'
  <2>1. held' \in [Threads -> Controllers \cup {NoController}]
    BY DEF Inv, TypeOK, ReleaseMemoryLock
  <2>2. QED
    BY <1>1, <1>2, <1>3, <2>1, BalanceAfterUnlock
    DEF Inv, TypeOK, ReleaseMemoryLock, pages, trace, ghosts
<1>5. Control' /\ Saved'
  BY DEF Inv, Control, ThreadControl, Saved, ReleaseMemoryLock, pages, trace
<1>6. QED
  BY <1>1, <1>2, <1>3, <1>4, <1>5, BalanceAfterUnlock DEF Inv

LEMMA EnterRoutineInv ==
  ASSUME Inv, NEW t \in Threads, EnterRoutine(t)
  PROVE  Inv'
<1> DEFINE c == isr[t]
<1>1. c \in Controllers
  BY DEF Inv, TypeOK, Control, ThreadControl, EnterRoutine
<1>2. Lock(t, c)
  BY DEF EnterRoutine
<1>3. OneMore(t, c)
  BY DEF Inv, TypeOK, OneMore, Holds, HoldsByCode, HoldsByRoutine,
         HoldsByHook, Count, EnterRoutine, Goto
<1>4. TypeOK'
  <2>1. pc' \in [Threads -> Labels]
    BY DEF Inv, TypeOK, EnterRoutine, Goto, Labels
  <2>2. QED
    BY <1>1, <1>2, <1>3, <2>1, BalanceAfterLock
    DEF Inv, TypeOK, EnterRoutine, pages, trace, ghosts
<1>5. Control' /\ Saved'
  BY DEF Inv, TypeOK, Control, ThreadControl, InHandler, Saved, EnterRoutine,
         Goto, pages, trace
<1>6. QED
  BY <1>1, <1>2, <1>3, <1>4, <1>5, BalanceAfterLock DEF Inv

LEMMA LeaveRoutineInv ==
  ASSUME Inv, NEW t \in Threads, LeaveRoutine(t)
  PROVE  Inv'
<1> DEFINE c == isr[t]
<1>1. c \in Controllers
  BY DEF Inv, TypeOK, LeaveRoutine
<1>2. Unlock(c)
  BY DEF LeaveRoutine
<1>3. OneLess(t, c) /\ Holds(t, c) > 0
  BY ConstantsAssumption
  DEF Inv, TypeOK, OneLess, Holds, HoldsByCode, HoldsByRoutine, HoldsByHook,
      Count, LeaveRoutine
<1>4. TypeOK'
  <2>1. isr' \in [Threads -> Controllers \cup {NoController}]
    BY DEF Inv, TypeOK, LeaveRoutine
  <2>2. QED
    BY <1>1, <1>2, <1>3, <2>1, BalanceAfterUnlock
    DEF Inv, TypeOK, LeaveRoutine, pages, trace, ghosts
<1>5. Control' /\ Saved'
  BY DEF Inv, TypeOK, Control, ThreadControl, Saved, LeaveRoutine, pages,
         trace
<1>6. QED
  BY <1>1, <1>2, <1>3, <1>4, <1>5, BalanceAfterUnlock DEF Inv

LEMMA LockForHookReadInv ==
  ASSUME Inv, NEW t \in Threads, LockForHookRead(t)
  PROVE  Inv'
<1> DEFINE c == access[t].c
<1>1. c \in Controllers
  BY ConstantsAssumption
  DEF Inv, Control, ThreadControl, InHandler, Accesses, LockForHookRead, At
<1>2. Lock(t, c)
  BY DEF LockForHookRead
<1>3. OneMore(t, c)
  BY <1>1
  DEF Inv, TypeOK, OneMore, Holds, HoldsByCode, HoldsByRoutine, HoldsByHook,
      Count, LockForHookRead, At, Goto
<1>4. TypeOK'
  <2>1. pc' \in [Threads -> Labels]
    BY DEF Inv, TypeOK, LockForHookRead, Goto, Labels
  <2>2. QED
    BY <1>1, <1>2, <1>3, <2>1, BalanceAfterLock
    DEF Inv, TypeOK, LockForHookRead, pages, trace, ghosts
<1>5. Control' /\ Saved'
  BY DEF Inv, TypeOK, Control, ThreadControl, InHandler, Saved, LockForHookRead,
         At, Goto, pages, trace
<1>6. QED
  BY <1>1, <1>2, <1>3, <1>4, <1>5, BalanceAfterLock DEF Inv

LEMMA HookReadInv ==
  ASSUME Inv, NEW t \in Threads, HookRead(t)
  PROVE  Inv'
<1> DEFINE c == access[t].c
<1>1. c \in Controllers
  BY ConstantsAssumption
  DEF Inv, Control, ThreadControl, InHandler, Accesses, HookRead, At
<1>2. Unlock(c)
  BY DEF HookRead
<1>3. OneLess(t, c) /\ Holds(t, c) > 0
  BY <1>1
  DEF Inv, TypeOK, OneLess, Holds, HoldsByCode, HoldsByRoutine, HoldsByHook,
      Count, HookRead, At, Goto
<1>4. TypeOK'
  <2>1. pc' \in [Threads -> Labels]
    BY DEF Inv, TypeOK, HookRead, Goto, Labels
  <2>2. hookCalls' \in [Threads -> [read : Nat, write : Nat]]
    BY DEF Inv, TypeOK, HookRead, CountCall
  <2>3. QED
    BY <1>1, <1>2, <1>3, <2>1, <2>2, BalanceAfterUnlock
    DEF Inv, TypeOK, HookRead, pages, trace, ghosts
<1>5. Control' /\ Saved'
  BY DEF Inv, TypeOK, Control, ThreadControl, InHandler, Saved, HookRead,
         At, Goto, pages, trace
<1>6. QED
  BY <1>1, <1>2, <1>3, <1>4, <1>5, BalanceAfterUnlock DEF Inv

LEMMA LockForHookWriteInv ==
  ASSUME Inv, NEW t \in Threads, LockForHookWrite(t)
  PROVE  Inv'
<1> DEFINE c == bp[t].controller
<1>1. c \in Controllers /\ access[t].c = c
  <2>1. /\ access[t] \in Accesses
        /\ bp[t] = BreakPointFor(access[t])
        /\ c # NoController
    BY DEF Inv, Control, ThreadControl, InHandler, CallsHookWrite, LockForHookWrite, At
  <2>2. QED
    BY <2>1 DEF Accesses, BreakPointFor
<1>2. Lock(t, c)
  BY DEF LockForHookWrite
<1>3. OneMore(t, c)
  BY <1>1
  DEF Inv, TypeOK, OneMore, Holds, HoldsByCode, HoldsByRoutine, HoldsByHook,
      Count, LockForHookWrite, At, Goto
<1>4. TypeOK'
  <2>1. pc' \in [Threads -> Labels]
    BY DEF Inv, TypeOK, LockForHookWrite, Goto, Labels
  <2>2. QED
    BY <1>1, <1>2, <1>3, <2>1, BalanceAfterLock
    DEF Inv, TypeOK, LockForHookWrite, pages, trace, ghosts
<1>5. Control' /\ Saved'
  BY DEF Inv, TypeOK, Control, ThreadControl, InHandler, Saved, LockForHookWrite,
         At, Goto, pages, trace
<1>6. QED
  BY <1>1, <1>2, <1>3, <1>4, <1>5, BalanceAfterLock DEF Inv

LEMMA HookWriteInv ==
  ASSUME Inv, NEW t \in Threads, HookWrite(t)
  PROVE  Inv'
<1> DEFINE c == bp[t].controller
<1>1. c \in Controllers /\ access[t].c = c
  <2>1. /\ access[t] \in Accesses
        /\ bp[t] = BreakPointFor(access[t])
        /\ c # NoController
    BY DEF Inv, Control, ThreadControl, InHandler, CallsHookWrite, HookWrite, At
  <2>2. QED
    BY <2>1 DEF Accesses, BreakPointFor
<1>2. Unlock(c)
  BY DEF HookWrite
<1>3. OneLess(t, c) /\ Holds(t, c) > 0
  BY <1>1
  DEF Inv, TypeOK, OneLess, Holds, HoldsByCode, HoldsByRoutine, HoldsByHook,
      Count, HookWrite, At, Goto
<1>4. TypeOK'
  <2>1. pc' \in [Threads -> Labels]
    BY DEF Inv, TypeOK, HookWrite, Goto, Labels
  <2>2. hookCalls' \in [Threads -> [read : Nat, write : Nat]]
    BY DEF Inv, TypeOK, HookWrite, CountCall
  <2>3. QED
    BY <1>1, <1>2, <1>3, <2>1, <2>2, BalanceAfterUnlock
    DEF Inv, TypeOK, HookWrite, pages, trace, ghosts
<1>5. Control' /\ Saved'
  BY DEF Inv, TypeOK, Control, ThreadControl, InHandler, Saved, HookWrite,
         At, Goto, pages, trace
<1>6. QED
  BY <1>1, <1>2, <1>3, <1>4, <1>5, BalanceAfterUnlock DEF Inv

(***************************************************************************)
(* The invariant, and the properties it implies.                           *)
(***************************************************************************)
LEMMA NextInv ==
  ASSUME Inv, [Next]_vars
  PROVE  Inv'
<1>1. CASE UNCHANGED vars
  <2>1. TypeOK' /\ Control' /\ Saved'
    BY <1>1 DEF Inv, TypeOK, Control, ThreadControl, Saved, vars
  <2>2. SameHolds /\ UNCHANGED locks
    BY <1>1 DEF SameHolds, Holds, HoldsByCode, HoldsByRoutine, HoldsByHook,
                locks, vars
  <2>3. QED
    BY <2>1, <2>2, BalanceKept DEF Inv
<1>2. ASSUME NEW t \in Threads, Start(t)
      PROVE  Inv'
  BY <1>2, AccessInv, AcquireMemoryLockInv, ConnectInterruptHandlerInv,
     TriggerInterruptInv, DestroyInv DEF Start
<1>3. ASSUME NEW t \in Threads, Continue(t)
      PROVE  Inv'
  BY <1>3, PerformInv, FaultInv, FindControllerInv, LockForHookReadInv,
     HookReadInv, OpenInv, TracePointInv, LockForHookWriteInv, HookWriteInv,
     CloseInv, EnterRoutineInv, LeaveRoutineInv, ReleaseMemoryLockInv
  DEF Continue
<1>4. QED
  BY <1>1, <1>2, <1>3 DEF Next, Terminated

THEOREM InvHolds == Spec => []Inv
<1>1. Init => Inv
  BY InitInv
<1>2. Inv /\ [Next]_vars => Inv'
  BY NextInv
<1>3. QED
  BY <1>1, <1>2, PTL DEF Spec

\* Every variable of the engine keeps its type, for any number of threads
\* and controllers, any discipline of the drivers, on both platforms.
THEOREM TypeCorrect == Spec => []TypeOK
<1>1. Inv => TypeOK
  BY DEF Inv
<1>2. QED
  BY <1>1, InvHolds, PTL

\* The memory lock of a controller (controller.hpp, memoryLockMutex) is
\* locked exactly as often as its owner's lock_guards are alive: never two
\* hooks or routines of one controller at once, no lock left taken.
THEOREM LockIsBalanced == Spec => []LockBalanced
<1>1. Inv => LockBalanced
  BY DEF Inv
<1>2. QED
  BY <1>1, InvHolds, PTL

\* The BreakPointData a trap handler works with belongs to the access that
\* its thread has just made, however often that access faulted.
THEOREM BreakPointIsCurrent == Spec => []BreakPointMatches
<1>1. Inv => BreakPointMatches
  BY DEF Inv, Control, ThreadControl, BreakPointMatches
<1>2. QED
  BY <1>1, InvHolds, PTL

(***************************************************************************)
(* A step of one thread leaves the private state of the others alone.      *)
(***************************************************************************)
SameFor(u) ==
  /\ pc'[u] = pc[u]
  /\ access'[u] = access[u]
  /\ bp'[u] = bp[u]
  /\ performed'[u] = performed[u]
  /\ hookCalls'[u] = hookCalls[u]
  /\ held'[u] = held[u]
  /\ isr'[u] = isr[u]

LEMMA OthersKeep ==
  ASSUME Inv, NEW t \in Threads, Start(t) \/ Continue(t)
  PROVE  /\ \A u \in Threads \ {t} : SameFor(u)
         /\ ioMap' \subseteq ioMap
<1>1. CASE Start(t)
  <2>1. CASE \E a \in Accesses : Access(t, a)
    BY <2>1 DEF Inv, TypeOK, Access, Goto, SameFor, shared, trace
  <2>2. CASE \E c \in Controllers : TriggerInterrupt(t, c)
    BY <2>2 DEF Inv, TypeOK, TriggerInterrupt, Goto, SameFor, shared, trace,
                ghosts
  <2>3. CASE \E c \in Controllers : AcquireMemoryLock(t, c) \/ Destroy(t, c)
    BY <2>3 DEF Inv, TypeOK, AcquireMemoryLock, Destroy, SameFor, trace, ghosts
  <2>4. CASE \E c \in Controllers, h \in {"empty", "routine"} :
               ConnectInterruptHandler(t, c, h)
    BY <2>4 DEF ConnectInterruptHandler, SameFor, trace, ghosts
  <2>5. QED
    BY <1>1, <2>1, <2>2, <2>3, <2>4 DEF Start
<1>2. CASE Perform(t) \/ Fault(t) \/ FindController(t) \/ TracePoint(t)
  BY <1>2 DEF Inv, TypeOK, Perform, Fault, FindController, TracePoint, Goto,
              SameFor, shared, trace, ghosts
<1>3. CASE LockForHookRead(t) \/ LockForHookWrite(t) \/ EnterRoutine(t)
  BY <1>3 DEF Inv, TypeOK, LockForHookRead, LockForHookWrite, EnterRoutine,
              Goto, SameFor, trace, ghosts
<1>4. CASE HookRead(t) \/ HookWrite(t)
  BY <1>4 DEF Inv, TypeOK, HookRead, HookWrite, CountCall, Goto, SameFor,
              trace
<1>5. CASE Open(t) \/ Close(t)
  BY <1>5 DEF Inv, TypeOK, Open, Close, InstallBreakPoint,
              UninstallBreakPoint, Goto, SameFor, ghosts
<1>6. CASE LeaveRoutine(t) \/ ReleaseMemoryLock(t)
  BY <1>6 DEF Inv, TypeOK, LeaveRoutine, ReleaseMemoryLock, SameFor, trace,
              ghosts
<1>7. QED
  BY <1>1, <1>2, <1>3, <1>4, <1>5, <1>6 DEF Continue

-----------------------------------------------------------------------------
(***************************************************************************)
(* Which hooks an access gets, however other threads interfere with it, on *)
(* both platforms.  Inv, from above, is used as a known invariant.          *)
(***************************************************************************)

(***************************************************************************)
(* What the label of a thread tells about the hooks of its access.  A load *)
(* reaches DoHookRead only through a fault, so the mapping must have been  *)
(* unreadable: PagesKnown carries that from the fault to the hook.         *)
(***************************************************************************)
PagesKnown ==
  \A c \in Controllers :
    /\ prot[c] \in {InitialProtection(c), "rw"}
    /\ oldProtection[c] \in {"unset", InitialProtection(c), "rw"}

HooksSoFar(t) ==
  /\ pc[t] \in {"trap", "writeLock", "writeHook", "close"} => performed[t]
  /\ pc[t] \in InHandler \ {"close"} => hookCalls[t].write = 0
  /\ pc[t] = "close" =>
       hookCalls[t].write =
         Count(IsMemoryWriteAccess(access[t]) /\ HooksWrite(access[t].c))
  /\ pc[t] \in InHandler /\ IsMemoryWriteAccess(access[t])
       => hookCalls[t].read = 0
  /\ ~IsMemoryWriteAccess(access[t]) /\ (pc[t] = "open" \/ bp[t].active)
       => hookCalls[t].read > 0

Requested(t) ==
  /\ /\ pc[t] = "fault"
     /\ access[t].c \in ioMap
     /\ ~IsMemoryWriteAccess(access[t])
     => HooksRead(access[t].c)
  /\ pc[t] \in {"readLock", "readHook"} => HooksRead(access[t].c)
  /\ hookCalls[t].read > 0 => HooksRead(access[t].c)
  /\ hookCalls[t].write > 0 => HooksWrite(access[t].c)

Progress(t) == HooksSoFar(t) /\ Requested(t)

HookInv == PagesKnown /\ \A t \in Threads : Progress(t)

LEMMA HookInit == Init => HookInv
BY DEF Init, HookInv, PagesKnown, Progress, HooksSoFar, Requested, InHandler,
       InitialOldProtection, NoBreakPoint

LEMMA ProgressKept ==
  ASSUME NEW u, SameFor(u), ioMap' \subseteq ioMap, Progress(u)
  PROVE  Progress(u)'
BY DEF SameFor, Progress, HooksSoFar, Requested

(***************************************************************************)
(* The protection takes its initial value, or is open, on either platform. *)
(***************************************************************************)
LEMMA PagesKept ==
  ASSUME Inv, PagesKnown, NEW t \in Threads, Start(t) \/ Continue(t)
  PROVE  PagesKnown'
<1>1. CASE UNCHANGED pages
  BY <1>1 DEF PagesKnown, pages
<1>2. CASE Open(t)
  <2>1. access[t].c \in Controllers
    BY <1>2 DEF Inv, Control, ThreadControl, InHandler, Accesses, Open, At
  <2>2. QED
    BY <1>2, <2>1
    DEF Inv, TypeOK, PagesKnown, Open, Unprotect, SavedProtection
<1>3. CASE Close(t)
  <2>1. /\ access[t] \in Accesses
        /\ bp[t] = BreakPointFor(access[t])
        /\ oldProtection[bp[t].ioSpace] # "unset"
    BY <1>3 DEF Inv, Control, ThreadControl, InHandler, Close, At
  <2>2. bp[t].ioSpace \in Controllers
    BY <2>1 DEF BreakPointFor, Accesses
  <2>3. QED
    BY <1>3, <2>1, <2>2 DEF Inv, TypeOK, PagesKnown, Close, RestoreProtection
<1>4. CASE Start(t)
  BY <1>1, <1>4
  DEF Start, Access, AcquireMemoryLock, ConnectInterruptHandler,
      TriggerInterrupt, Destroy, shared, pages
<1>5. QED
  BY <1>1, <1>2, <1>3, <1>4
  DEF Continue, Perform, Fault, FindController, LockForHookRead, HookRead,
      TracePoint, LockForHookWrite, HookWrite, EnterRoutine, LeaveRoutine,
      ReleaseMemoryLock, shared, pages

(***************************************************************************)
(* The step of the thread itself, one lemma per phase of an access.        *)
(***************************************************************************)
LEMMA StartProgress ==
  ASSUME Inv, HookInv, NEW t \in Threads, Start(t)
  PROVE  Progress(t)'
<1>1. CASE \E a \in Accesses : Access(t, a)
  BY <1>1 DEF Inv, TypeOK, Control, ThreadControl, Access, Starts, Goto,
              Progress, HooksSoFar, Requested, InHandler, trace
<1>2. CASE \E c \in Controllers : TriggerInterrupt(t, c)
  BY <1>2 DEF Inv, TypeOK, HookInv, TriggerInterrupt, Starts, Goto, Progress,
              HooksSoFar, Requested, InHandler, shared, trace, ghosts
<1>3. CASE \E c \in Controllers : AcquireMemoryLock(t, c) \/ Destroy(t, c)
  BY <1>3 DEF HookInv, AcquireMemoryLock, Destroy, Progress, HooksSoFar,
              Requested, trace, ghosts
<1>4. CASE \E c \in Controllers, h \in {"empty", "routine"} :
             ConnectInterruptHandler(t, c, h)
  BY <1>4, ProgressKept DEF HookInv, ConnectInterruptHandler, SameFor, trace,
                            ghosts
<1>5. QED
  BY <1>1, <1>2, <1>3, <1>4 DEF Start

LEMMA FaultProgress ==
  ASSUME Inv, HookInv, NEW t \in Threads, Fault(t)
  PROVE  Progress(t)'
<1>1. access[t] \in Accesses /\ Progress(t) /\ pc[t] = "instr"
  BY DEF Inv, Control, ThreadControl, InHandler, HookInv, Fault, At
<1>2. UNCHANGED <<ioMap, access, bp, performed, hookCalls>>
  BY DEF Fault, trace, ghosts
<1>3. access[t].c \in ioMap /\ ~IsMemoryWriteAccess(access[t])
        => HooksRead(access[t].c)
  <2> SUFFICES ASSUME access[t].c \in ioMap,
                      ~IsMemoryWriteAccess(access[t])
               PROVE  HooksRead(access[t].c)
    OBVIOUS
  <2>1. access[t].c \in Controllers /\ access[t].kind = "read"
    BY <1>1, ConstantsAssumption DEF Accesses, IsMemoryWriteAccess
  <2>2. prot[access[t].c] \notin {"read", "rw"}
    BY <2>1 DEF Fault, Permitted, Allows
  <2>3. QED
    BY <2>1, <2>2 DEF HookInv, PagesKnown, InitialProtection
<1>4. pc'[t] \in {"instr", "fault"}
  BY <1>1 DEF Inv, TypeOK, Fault, Goto
<1>5. QED
  BY <1>1, <1>2, <1>3, <1>4 DEF Progress, HooksSoFar, Requested, InHandler

LEMMA HandlerProgress ==
  ASSUME Inv, HookInv, NEW t \in Threads, FindController(t)
  PROVE  Progress(t)'
<1>1. Progress(t) /\ pc[t] = "fault" /\ access[t] \in Accesses
  BY DEF HookInv, FindController, At, Inv, Control, ThreadControl, InHandler
<1>2. UNCHANGED <<ioMap, access, bp, performed, hookCalls>>
  BY DEF FindController, trace, ghosts
<1>3. CASE access[t].c \in ioMap
  <2>1. pc'[t] = HandlerFor(access[t])
    BY <1>3 DEF Inv, TypeOK, FindController, Goto
  <2>2. QED
    BY <1>1, <1>2, <1>3, <2>1
    DEF HandlerFor, Progress, HooksSoFar, Requested, InHandler
<1>4. CASE access[t].c \notin ioMap
  <2>1. pc'[t] \in {"instr", "fault"}
    BY <1>1, <1>4 DEF Inv, TypeOK, FindController, Goto
  <2>2. QED
    BY <1>1, <1>2, <1>4, <2>1 DEF Progress, HooksSoFar, Requested, InHandler
<1>5. QED
  BY <1>3, <1>4

LEMMA ReadProgress ==
  ASSUME Inv, HookInv, NEW t \in Threads, LockForHookRead(t) \/ HookRead(t)
  PROVE  Progress(t)'
<1>1. /\ Progress(t)
      /\ ~IsMemoryWriteAccess(access[t])
      /\ hookCalls[t] \in [read : Nat, write : Nat]
      /\ pc[t] \in InHandler
  BY DEF HookInv, LockForHookRead, HookRead, At, Inv, TypeOK, Control,
         ThreadControl, InHandler
<1>2. UNCHANGED <<ioMap, access, bp, performed>>
  BY DEF LockForHookRead, HookRead, trace, ghosts
<1>3. CASE LockForHookRead(t)
  <2>1. pc[t] = "readLock" /\ pc'[t] = "readHook" /\ hookCalls' = hookCalls
    BY <1>3 DEF Inv, TypeOK, LockForHookRead, At, Goto, ghosts
  <2>2. QED
    BY <1>1, <1>2, <2>1 DEF Progress, HooksSoFar, Requested, InHandler
<1>4. CASE HookRead(t)
  <2>1. /\ pc[t] = "readHook" /\ pc'[t] = "open"
        /\ hookCalls'[t].read = hookCalls[t].read + 1
        /\ hookCalls'[t].write = hookCalls[t].write
    BY <1>1, <1>4 DEF Inv, TypeOK, HookRead, At, Goto, CountCall
  <2>2. QED
    BY <1>1, <1>2, <2>1 DEF Progress, HooksSoFar, Requested, InHandler
<1>5. QED
  BY <1>3, <1>4

LEMMA StepProgress ==
  ASSUME Inv, HookInv, NEW t \in Threads, Open(t) \/ Perform(t)
  PROVE  Progress(t)'
<1>1. Progress(t) /\ ThreadControl(t) /\ pc[t] \in InHandler
  BY DEF HookInv, Inv, Control, Open, Perform, At, InHandler
<1>2. UNCHANGED <<ioMap, access, hookCalls>>
  BY DEF Open, Perform, shared, ghosts
<1>3. CASE Open(t)
  <2>1. pc[t] = "open" /\ pc'[t] = "instr" /\ performed' = performed
    BY <1>3 DEF Inv, TypeOK, Open, At, Goto, ghosts
  <2>2. QED
    BY <1>1, <1>2, <2>1 DEF Progress, HooksSoFar, Requested, InHandler
<1>4. CASE Perform(t)
  <2>1. /\ pc[t] = "instr" /\ pc'[t] \in {"trap", "run"}
        /\ performed'[t]
        /\ bp' = bp
    BY <1>4 DEF Inv, TypeOK, Perform, At, Goto, trace
  <2>2. QED
    BY <1>1, <1>2, <2>1 DEF Progress, HooksSoFar, Requested, InHandler
<1>5. QED
  BY <1>3, <1>4

LEMMA TrapProgress ==
  ASSUME Inv, HookInv, NEW t \in Threads,
         TracePoint(t) \/ LockForHookWrite(t) \/ HookWrite(t) \/ Close(t)
  PROVE  Progress(t)'
<1>1. /\ Progress(t)
      /\ access[t] \in Accesses /\ pc[t] \in InHandler
      /\ bp[t].active /\ bp[t] = BreakPointFor(access[t])
      /\ hookCalls[t] \in [read : Nat, write : Nat]
  BY DEF HookInv, Inv, TypeOK, Control, ThreadControl, TracePoint,
         LockForHookWrite, HookWrite, Close, At, InHandler
<1>2. CallsHookWrite(bp[t])
        <=> IsMemoryWriteAccess(access[t]) /\ HooksWrite(access[t].c)
  BY <1>1, ConstantsAssumption DEF CallsHookWrite, BreakPointFor, Accesses
<1>3. UNCHANGED <<ioMap, access, performed>>
  BY DEF TracePoint, LockForHookWrite, HookWrite, Close, shared, ghosts
<1>4. CASE TracePoint(t)
  <2>1. /\ pc[t] = "trap"
        /\ pc'[t] = IF CallsHookWrite(bp[t]) THEN "writeLock" ELSE "close"
        /\ bp' = bp /\ hookCalls' = hookCalls
    BY <1>1, <1>4 DEF Inv, TypeOK, TracePoint, At, Goto, trace, ghosts
  <2>2. QED
    BY <1>1, <1>2, <1>3, <2>1
    DEF Progress, HooksSoFar, Requested, InHandler, Count
<1>5. CASE LockForHookWrite(t)
  <2>1. /\ pc[t] = "writeLock" /\ pc'[t] = "writeHook"
        /\ bp' = bp /\ hookCalls' = hookCalls
    BY <1>5 DEF Inv, TypeOK, LockForHookWrite, At, Goto, trace, ghosts
  <2>2. QED
    BY <1>1, <1>3, <2>1 DEF Progress, HooksSoFar, Requested, InHandler
<1>6. CASE HookWrite(t)
  <2>1. /\ pc[t] = "writeHook" /\ pc'[t] = "close" /\ bp' = bp
        /\ hookCalls'[t].read = hookCalls[t].read
        /\ hookCalls'[t].write = hookCalls[t].write + 1
    BY <1>1, <1>6 DEF Inv, TypeOK, HookWrite, At, Goto, CountCall, trace
  <2>2. IsMemoryWriteAccess(access[t]) /\ HooksWrite(access[t].c)
    BY <1>2, <2>1 DEF Inv, Control, ThreadControl
  <2>3. QED
    BY <1>1, <1>3, <2>1, <2>2
    DEF Progress, HooksSoFar, Requested, InHandler, Count
<1>7. CASE Close(t)
  <2>1. pc'[t] = "run" /\ ~bp'[t].active /\ hookCalls' = hookCalls
    BY <1>7 DEF Inv, TypeOK, Close, UninstallBreakPoint, NoBreakPoint, Goto,
                ghosts
  <2>2. QED
    BY <1>1, <1>3, <2>1 DEF Progress, HooksSoFar, Requested, InHandler
<1>8. QED
  BY <1>4, <1>5, <1>6, <1>7

LEMMA RoutineProgress ==
  ASSUME Inv, HookInv, NEW t \in Threads,
         EnterRoutine(t) \/ LeaveRoutine(t) \/ ReleaseMemoryLock(t)
  PROVE  Progress(t)'
<1>1. /\ pc'[t] = "run"
      /\ UNCHANGED <<ioMap, access, bp, performed, hookCalls>>
  BY DEF Inv, TypeOK, EnterRoutine, LeaveRoutine, ReleaseMemoryLock, Goto,
         trace, ghosts
<1>2. ~bp[t].active
  BY DEF Inv, Control, ThreadControl, EnterRoutine, LeaveRoutine,
         ReleaseMemoryLock
<1>3. QED
  BY <1>1, <1>2 DEF HookInv, Progress, HooksSoFar, Requested, InHandler

LEMMA HookNext ==
  ASSUME Inv, HookInv, [Next]_vars
  PROVE  HookInv'
<1>1. CASE UNCHANGED vars
  BY <1>1 DEF vars, HookInv, PagesKnown, Progress, HooksSoFar, Requested
<1>2. ASSUME NEW t \in Threads, Start(t) \/ Continue(t)
      PROVE  HookInv'
  <2>1. PagesKnown'
    BY <1>2, PagesKept DEF HookInv
  <2>2. ASSUME NEW u \in Threads, u # t PROVE Progress(u)'
    BY <1>2, <2>2, OthersKeep, ProgressKept DEF HookInv
  <2>3. Progress(t)'
    BY <1>2, StartProgress, FaultProgress, HandlerProgress, ReadProgress,
       StepProgress, TrapProgress, RoutineProgress DEF Continue
  <2>4. QED
    BY <2>1, <2>2, <2>3 DEF HookInv
<1>3. QED
  BY <1>1, <1>2 DEF Next, Terminated

THEOREM HookInvHolds == Spec => []HookInv
<1>1. Inv /\ HookInv /\ [Next]_vars => HookInv'
  BY HookNext
<1>2. QED
  BY <1>1, HookInit, InvHolds, PTL DEF Spec

\* An access that was single-stepped has had its hook, and took effect,
\* before the mapping is closed behind it, whatever the other threads did to
\* the mapping in between.
THEOREM SteppedAccessIsHooked == Spec => []SteppedAccessHooked
<1>1. Inv /\ HookInv => SteppedAccessHooked
  <2> SUFFICES ASSUME Inv, HookInv, NEW t \in Threads, pc[t] = "close"
               PROVE  /\ performed[t]
                      /\ IF IsMemoryWriteAccess(access[t])
                         THEN /\ hookCalls[t].read = 0
                              /\ hookCalls[t].write =
                                   Count(HookType[access[t].c] \in
                                           {"Write", "ReadWrite"})
                         ELSE /\ hookCalls[t].read > 0
                              /\ hookCalls[t].write = 0
    BY DEF SteppedAccessHooked
  <2>1. HooksSoFar(t) /\ bp[t].active
    BY DEF HookInv, Progress, Inv, Control, ThreadControl
  <2>2. QED
    BY <2>1 DEF HooksSoFar, HooksWrite, InHandler, Count
<1>2. QED
  BY <1>1, HookInvHolds, InvHolds, PTL

\* No hook runs on a controller whose HookTypes do not ask for it.
THEOREM OnlyRequestedHooksRun == Spec => []OnlyRequestedHooks
<1>1. HookInv => OnlyRequestedHooks
  BY DEF HookInv, Progress, Requested, OnlyRequestedHooks
<1>2. QED
  BY <1>1, HookInvHolds, PTL
=============================================================================
