------------------------ MODULE FifoTelemetryProofs ------------------------
(***************************************************************************)
(* What holds of FifoTelemetry for a FIFO of any size that StatusUsage can *)
(* hold, however many records are generated and latched, and whatever the  *)
(* two threads do between each other's steps, those of an access included. *)
(*                                                                         *)
(* The invariant, Inv, has six parts beside the types: who holds the locks *)
(* (Locking), how far accesses have come (Stepped), that the status bits   *)
(* follow the FIFO (Following), that an interrupt is on its way when it    *)
(* has to be (Interrupting), what the driver may conclude from a bit it    *)
(* has seen (Seen), and that numbers are in order and not lost (Numbered). *)
(***************************************************************************)
EXTENDS FifoTelemetry, TLAPS

\* Where the generator holds the memory lock.
Inside == {"printGenerated", "push", "routine", "handled", "printRoutine",
           "unlock"}

\* Where the driver may be before it has read a record.
Waiting == {"status", "printStatus", "exchange"}

InRoutine == pc["generator"] \in {"routine", "handled"}

Places ==
  /\ pc["generator"] \in Inside \cup {"while", "lock", "exited"}
  /\ pc["driver"] \in Waiting \cup
       {"connect", "before", "printTimeout", "loop", "check", "branch",
        "printEmpty", "next", "telemetry", "printRecord", "destroy", "join",
        "gone"}

Locking ==
  /\ pc["generator"] \in Inside => owner["memory"] = "generator"
  /\ \A t \in Threads : \A m \in guard[t].holds : owner[m] = t
  /\ \A t \in Threads : ~Printing(t) => guard[t] = NewGuard

\* Only accesses are stepped, only stores have a HookWrite, and a mapping is
\* open because an access that opened it is not over.
Stepped ==
  /\ \A t \in Threads : step[t] # "none" => pc[t] \in DOMAIN AfterAccess
  /\ \A t \in Threads : step[t] = "hookWrite" => IsStore(t)
  /\ open => \E t \in Threads : step[t] \in {"stepping", "hookWrite", "close"}

Following ==
  /\ StatusTracksFifo
  /\ Len(fifo) <= FifoMaxSize
  /\ pc["generator"] \in {"printGenerated", "push"} => HasRoom
  /\ InRoutine => Len(fifo) = Half
  /\ RoutineSeesHalfFull

Interrupting ==
  /\ connected <=> pc["driver"] # "connect"
  /\ pc["driver"] \in Waiting /\ ~late /\ Len(fifo) >= Half
       => InRoutine \/ interruptHandled

\* Where the word holds the bit a load copied there: the hook of the routine's
\* load is followed by no latch until the routine is over, and that of the
\* driver's, at "check", by none before the driver's own.  Where the driver
\* has the bit.
Copied ==
  \/ step["generator"] \in {"unprotect", "stepping", "close"}
  \/ pc["driver"] = "check" /\ step["driver"] \in {"unprotect", "stepping"}

Looked ==
  \/ pc["driver"] \in {"branch", "printEmpty"}
  \/ pc["driver"] = "check" /\ step["driver"] = "close"
  \/ pc["driver"] = "next" /\ step["driver"] # "close"

Seen ==
  /\ shadowRecord # NoRecord /\ ~shadowStatus.empty => fifo # <<>>
  /\ shadowRecord = NoRecord /\ interrupted => fifo # <<>>
  /\ Copied => (word.empty <=> shadowStatus.empty)
  /\ Looked /\ ~sawEmpty => ~shadowStatus.empty
  /\ step["driver"] = "hookWrite" => word.usage # 0

\* The number that is to be latched next, unless it is dropped, and the one
\* that is to be generated next.
First == IF shadowRecord = NoRecord THEN 0 ELSE shadowRecord + 1

End == IF pc["generator"] \in Inside \ {"printGenerated", "push"}
       THEN counter + 1 ELSE counter

Numbered ==
  /\ pc["generator"] \in Inside \cup {"lock"} => counter < MaxCounter
  /\ First <= End
  /\ \A j, k \in DOMAIN fifo : j < k => fifo[j] < fifo[k]
  /\ \A k \in DOMAIN fifo : First <= fifo[k] /\ fifo[k] < End
  /\ \A n \in First .. End - 1 :
       n \in dropped \/ \E k \in DOMAIN fifo : fifo[k] = n

Inv == /\ TypeOK /\ Places /\ Locking /\ Stepped /\ Following
       /\ Interrupting /\ Seen /\ Numbered
-----------------------------------------------------------------------------
(***************************************************************************)
(* Constants.                                                              *)
(***************************************************************************)
LEMMA Sizes ==
  /\ FifoMaxSize \in Nat /\ FifoMaxSize >= 2
  /\ Half \in Nat /\ Half >= 1
  /\ \A n \in Nat :
       n <= FifoMaxSize => Usage(n) = n /\ n \in 0 .. 2^UsageBits - 1
  /\ \A n \in Nat : Usage(n) \in 0 .. 2^UsageBits - 1
<1> DEFINE P == 2^UsageBits
<1>1. P \in Nat /\ FifoMaxSize \in 2 .. P - 1
  BY FifoAssumption
<1>2. \A n \in Nat : Usage(n) = n % P
  BY DEF Usage
<1> HIDE DEF P
<1>3. FifoMaxSize \in Nat /\ FifoMaxSize >= 2 /\ P > 2
  BY <1>1
<1>4. Half \in Nat /\ Half >= 1
  BY <1>3 DEF Half
<1>5. \A n \in Nat : (n % P) \in 0 .. P - 1
  BY <1>1, <1>3
<1>6. ASSUME NEW n \in Nat, n <= FifoMaxSize
      PROVE  n % P = n /\ n \in 0 .. P - 1
  BY <1>1, <1>3, <1>6
<1>7. QED
  BY <1>2, <1>3, <1>4, <1>5, <1>6 DEF P

LEMMA PrintPlaces ==
  /\ DOMAIN AfterPrint = {"printGenerated", "printRoutine", "printStatus",
                          "printTimeout", "printEmpty", "printRecord"}
  /\ AfterPrint["printGenerated"] = "push"
  /\ AfterPrint["printRoutine"] = "unlock"
  /\ AfterPrint["printStatus"] = "exchange"
  /\ AfterPrint["printTimeout"] = "destroy"
  /\ AfterPrint["printEmpty"] = "next"
  /\ AfterPrint["printRecord"] = "loop"
BY DEF AfterPrint

LEMMA AccessPlaces ==
  /\ DOMAIN AfterAccess = {"status", "before", "check", "telemetry", "next",
                           "routine"}
  /\ AfterAccess["status"] = "printStatus"
  /\ AfterAccess["before"] = "loop"
  /\ AfterAccess["check"] = "branch"
  /\ AfterAccess["telemetry"] = "printRecord"
  /\ AfterAccess["next"] = "telemetry"
  /\ AfterAccess["routine"] = "handled"
BY DEF AfterAccess

LEMMA OtherMutex == Other("memory") = "cout" /\ Other("cout") = "memory"
<1>1. \A n \in Mutexes : n # "memory" <=> n = "cout"
  BY DEF Mutexes
<1>2. \A n \in Mutexes : n # "cout" <=> n = "memory"
  BY DEF Mutexes
<1>3. QED
  BY <1>1, <1>2 DEF Other, Mutexes

-----------------------------------------------------------------------------
(***************************************************************************)
(* Where the threads are.                                                  *)
(***************************************************************************)
Labels == DOMAIN AfterPrint \cup DOMAIN AfterAccess \cup
            {"while", "lock", "push", "handled", "unlock", "exited",
             "connect", "exchange", "loop", "branch", "destroy", "join",
             "gone"}

Guards(t) == LockOne(t) \/ TryOther(t) \/ PrintLine(t)

Accesses(t) == \/ PassThrough(t) \/ Fault(t) \/ HookRead(t) \/ Unprotect(t)
               \/ Retry(t) \/ Restore(t)

\* The step of one thread.
Moves(t, from, label) ==
  /\ pc[t] = from /\ pc'[t] = label
  /\ \A u \in Threads \ {t} : pc'[u] = pc[u]

LEMMA GotoMoves ==
  ASSUME TypeOK, NEW t \in Threads, NEW from, NEW label, Goto(t, from, label)
  PROVE  /\ Moves(t, from, label)
         /\ label \in Labels => pc' \in [Threads -> Labels]
BY DEF Goto, Moves, TypeOK, Labels

LEMMA PrintMoves ==
  ASSUME TypeOK, NEW t \in Threads, PrintLine(t)
  PROVE  /\ Moves(t, pc[t], AfterPrint[pc[t]])
         /\ pc' \in [Threads -> Labels]
<1>1. AfterPrint[pc[t]] \in Labels
  <2>1. AfterPrint[pc[t]] \in DOMAIN AfterAccess \cup DOMAIN AfterPrint \cup
          {"push", "unlock", "exchange", "destroy", "loop"}
    BY PrintPlaces, AccessPlaces DEF PrintLine, Printing
  <2>2. QED
    BY <2>1 DEF Labels
<1>2. pc' = [pc EXCEPT ![t] = AfterPrint[pc[t]]]
  BY DEF PrintLine
<1>3. QED
  BY <1>1, <1>2 DEF Moves, TypeOK, Labels

LEMMA AccessMoves ==
  ASSUME TypeOK, NEW t \in Threads, Accesses(t)
  PROVE  /\ pc[t] \in DOMAIN AfterAccess
         /\ UNCHANGED <<locks, device, thread, program, dropped, late,
                        interrupted>>
         /\ \A u \in Threads \ {t} : step'[u] = step[u]
         /\ UNCHANGED pc \/ Moves(t, pc[t], AfterAccess[pc[t]])
         /\ pc' \in [Threads -> Labels]
<1>1. /\ pc[t] \in DOMAIN AfterAccess
      /\ UNCHANGED <<locks, device, thread, program, dropped, late,
                     interrupted>>
  BY DEF Accesses, PassThrough, Fault, HookRead, Unprotect, Retry, Restore,
         Accessing, Stepping, Access, history
<1>2. \A u \in Threads \ {t} : step'[u] = step[u]
  BY DEF Accesses, PassThrough, Fault, HookRead, Unprotect, Retry, Restore,
         Stepping, TypeOK
<1>3. UNCHANGED pc \/ pc' = [pc EXCEPT ![t] = AfterAccess[pc[t]]]
  BY DEF Accesses, PassThrough, Fault, HookRead, Unprotect, Retry, Restore
<1>4. AfterAccess[pc[t]] \in Labels
  BY <1>1, AccessPlaces, PrintPlaces DEF Labels
<1>5. pc \in [Threads -> Labels]
  BY DEF TypeOK, Labels
<1>6. QED
  BY <1>1, <1>2, <1>3, <1>4, <1>5 DEF Moves
-----------------------------------------------------------------------------
(***************************************************************************)
(* Types.                                                                  *)
(***************************************************************************)
LocksTyped ==
  /\ owner \in [Mutexes -> Threads \cup {Free}]
  /\ guard \in [Threads -> [next : SUBSET Mutexes, holds : SUBSET Mutexes]]

Steps == {"none", "hookRead", "unprotect", "stepping", "hookWrite", "close"}

EngineTyped == open \in BOOLEAN /\ step \in [Threads -> Steps]

DeviceTyped ==
  /\ fifo \in Seq(0 .. MaxCounter - 1) /\ Len(fifo) <= FifoMaxSize
  /\ shadowStatus \in Statuses
  /\ shadowRecord \in 0 .. MaxCounter

RestTyped ==
  /\ word \in Statuses
  /\ counter \in 0 .. MaxCounter
  /\ left \in 0 .. Records
  /\ stopTmGenerator \in BOOLEAN
  /\ connected \in BOOLEAN /\ interruptHandled \in BOOLEAN
  /\ late \in BOOLEAN /\ interrupted \in BOOLEAN /\ sawEmpty \in BOOLEAN
  /\ dropped \subseteq 0 .. MaxCounter - 1

Parts == LocksTyped /\ EngineTyped /\ DeviceTyped /\ RestTyped

LEMMA TypesInParts ==
  /\ TypeOK => pc \in [Threads -> Labels] /\ Parts
  /\ pc' \in [Threads -> Labels] /\ Parts' => TypeOK'
BY DEF TypeOK, Labels, Parts, LocksTyped, EngineTyped, DeviceTyped, RestTyped,
       Steps, Statuses, AfterPrint, AfterAccess

\* Guard changes its locks, and the place of its thread.
LEMMA GuardTypes ==
  ASSUME TypeOK, NEW t \in Threads, Guards(t)
  PROVE  TypeOK' /\ UNCHANGED data
<1>1. pc \in [Threads -> Labels] /\ Parts
  BY TypesInParts
<1>2. UNCHANGED data
  BY DEF Guards, LockOne, TryOther, PrintLine
<1>3. EngineTyped' /\ DeviceTyped' /\ RestTyped'
  BY <1>1, <1>2 DEF Parts, EngineTyped, DeviceTyped, RestTyped, data, engine,
                    device, thread, program, history
<1>4. pc' \in [Threads -> Labels]
  BY <1>1, PrintMoves DEF Guards, LockOne, TryOther
<1>5. \A m \in Mutexes : OwnerWithout(t, m) \in Threads \cup {Free}
  BY DEF OwnerWithout
<1>6. \A m \in Mutexes : Other(m) \in Mutexes
  BY OtherMutex DEF Mutexes
<1>7. LocksTyped'
  <2>1. CASE LockOne(t)
    BY <1>1, <2>1 DEF Parts, LockOne, LocksTyped
  <2>2. CASE TryOther(t)
    BY <1>1, <1>5, <1>6, <2>2 DEF Parts, TryOther, LocksTyped
  <2>3. CASE PrintLine(t)
    BY <1>1, <1>5, <2>3 DEF Parts, PrintLine, LocksTyped, NewGuard
  <2>4. QED
    BY <2>1, <2>2, <2>3 DEF Guards
<1>8. QED
  BY <1>2, <1>3, <1>4, <1>7, TypesInParts DEF Parts

\* An access changes how far it has come, the mapping, the word and the bit
\* the driver has seen.
LEMMA AccessTypes ==
  ASSUME TypeOK, NEW t \in Threads, Accesses(t)
  PROVE  TypeOK'
<1>1. Parts
  BY TypesInParts
<1>2. pc' \in [Threads -> Labels]
  BY AccessMoves
<1>3. LocksTyped' /\ DeviceTyped'
  BY <1>1, AccessMoves DEF Parts, LocksTyped, DeviceTyped, locks, device
<1>4. EngineTyped'
  BY <1>1 DEF Parts, EngineTyped, Steps, Accesses, PassThrough, Fault,
              HookRead, Unprotect, Retry, Restore, Stepping, Access
<1>5. word' \in Statuses /\ sawEmpty' \in BOOLEAN
  <2>1. /\ word \in Statuses /\ shadowStatus \in Statuses
        /\ sawEmpty \in BOOLEAN /\ word.empty \in BOOLEAN
    BY <1>1 DEF Parts, RestTyped, DeviceTyped, Statuses
  <2>2. [word EXCEPT !.usage = 1] \in Statuses
    <3>1. 1 \in 0 .. 2^UsageBits - 1
      BY FifoAssumption
    <3>2. QED
      BY <2>1, <3>1 DEF Statuses
  <2>3. word' \in {word, shadowStatus, [word EXCEPT !.usage = 1]}
    BY DEF Accesses, PassThrough, Fault, HookRead, Unprotect, Retry, Restore,
           Access
  <2>4. sawEmpty' \in {sawEmpty, word.empty}
    BY DEF Accesses, PassThrough, Fault, HookRead, Unprotect, Retry, Restore,
           Access, history
  <2>5. QED
    BY <2>1, <2>2, <2>3, <2>4
<1>6. RestTyped'
  BY <1>1, <1>5, AccessMoves DEF Parts, RestTyped, thread, program
<1>7. QED
  BY <1>2, <1>3, <1>4, <1>6, TypesInParts DEF Parts

LEMMA GeneratorTypes ==
  ASSUME Inv, Generator
  PROVE  TypeOK'
<1>1. TypeOK /\ pc \in [Threads -> Labels] /\ Parts /\ "generator" \in Threads
  BY TypesInParts DEF Inv, Threads
<1>2. LocksTyped /\ EngineTyped /\ DeviceTyped /\ RestTyped
  BY <1>1 DEF Parts
<1>3. CASE Common("generator")
  BY <1>1, <1>3, GuardTypes, AccessTypes DEF Common, Guards, Accesses
<1>4. CASE ~Common("generator")
  <2>1. pc' \in [Threads -> Labels]
    <3>1. PICK from, label : Goto("generator", from, label) /\ label \in Labels
      BY <1>4 DEF Generator, TestStop, AcquireMemoryLock, Push,
                  SetInterruptHandled, ReleaseMemoryLock, Labels, AfterPrint,
                  AfterAccess
    <3>2. QED
      BY <1>1, <3>1, GotoMoves
  <2>2. EngineTyped'
    BY <1>2, <1>4
       DEF Generator, TestStop, AcquireMemoryLock, Push, SetInterruptHandled,
           ReleaseMemoryLock, data, engine, EngineTyped
  <2>3. CASE TestStop
    BY <1>2, <2>1, <2>2, <2>3, TypesInParts
       DEF TestStop, Parts, locks, data, LocksTyped, DeviceTyped, RestTyped,
           device, thread, program, history
  <2>4. CASE AcquireMemoryLock
    <3>1. counter \in 0 .. MaxCounter - 1
      BY <1>2, <2>4, FifoAssumption
         DEF AcquireMemoryLock, Goto, Inv, Numbered, RestTyped
    <3>2. dropped' \subseteq 0 .. MaxCounter - 1
      <4>1. dropped \subseteq 0 .. MaxCounter - 1
        BY <1>2 DEF RestTyped
      <4>2. dropped' = dropped \/ dropped' = dropped \cup {counter}
        BY <2>4 DEF AcquireMemoryLock
      <4>3. QED
        BY <3>1, <4>1, <4>2
    <3>3. LocksTyped'
      BY <1>1, <1>2, <2>4 DEF AcquireMemoryLock, LocksTyped
    <3>4. QED
      BY <1>2, <2>1, <2>2, <2>4, <3>2, <3>3, TypesInParts
         DEF AcquireMemoryLock, Parts, DeviceTyped, RestTyped, device, thread,
             program
  <2>5. CASE Push
    <3>1. counter \in 0 .. MaxCounter - 1
      BY <1>2, <2>5, FifoAssumption
         DEF Push, Goto, Inv, Numbered, RestTyped, Inside
    <3>2. Len(fifo) \in Nat /\ Len(fifo) + 1 <= FifoMaxSize
      BY <1>2, <2>5, Sizes
         DEF Push, Goto, Inv, Following, HasRoom, DeviceTyped
    <3>3. fifo' \in Seq(0 .. MaxCounter - 1) /\ Len(fifo') = Len(fifo) + 1
      BY <1>2, <2>5, <3>1 DEF Push, DeviceTyped
    <3>4. shadowStatus' \in Statuses
      <4>1. Usage(Len(fifo) + 1) \in 0 .. 2^UsageBits - 1
        BY <3>2, Sizes
      <4>2. shadowStatus' = StatusAfterPush(Len(fifo) + 1)
        BY <2>5 DEF Push
      <4>3. (shadowStatus.half \/ Len(fifo) + 1 >= Half) \in BOOLEAN
        OBVIOUS
      <4>4. QED
        BY <1>2, <4>1, <4>2, <4>3 DEF StatusAfterPush, Statuses, DeviceTyped
    <3>5. DeviceTyped'
      BY <1>2, <2>5, <3>2, <3>3, <3>4 DEF Push, DeviceTyped
    <3>6. LocksTyped' /\ RestTyped'
      BY <1>2, <2>5
         DEF Push, LocksTyped, RestTyped, locks, thread, program, history
    <3>7. QED
      BY <2>1, <2>2, <3>5, <3>6, TypesInParts DEF Parts
  <2>6. CASE SetInterruptHandled
    BY <1>2, <2>1, <2>2, <2>6, TypesInParts
       DEF SetInterruptHandled, Parts, locks, LocksTyped, DeviceTyped,
           RestTyped, device, thread
  <2>7. CASE ReleaseMemoryLock
    <3>1. counter' \in 0 .. MaxCounter
      BY <1>2, <2>7, FifoAssumption
         DEF ReleaseMemoryLock, Goto, Inv, Numbered, RestTyped, Inside
    <3>2. LocksTyped'
      BY <1>2, <2>7 DEF ReleaseMemoryLock, LocksTyped
    <3>3. QED
      BY <1>2, <2>1, <2>2, <2>7, <3>1, <3>2, TypesInParts
         DEF ReleaseMemoryLock, Parts, DeviceTyped, RestTyped, device,
             program, history
  <2>8. QED
    BY <1>4, <2>3, <2>4, <2>5, <2>6, <2>7 DEF Generator
<1>5. QED
  BY <1>3, <1>4

\* What a pop does to the FIFO and the bits.
LEMMA LatchTypes ==
  ASSUME TypeOK, fifo # <<>>, Latch
  PROVE  /\ DeviceTyped'
         /\ Len(fifo) \in Nat \ {0} /\ Len(fifo') = Len(fifo) - 1
         /\ shadowRecord' = fifo[1]
         /\ \A k \in 1 .. Len(fifo) - 1 : fifo'[k] = fifo[k + 1]
         /\ shadowStatus'.usage = Usage(Len(fifo'))
         /\ shadowStatus'.empty = (Len(fifo') = 0)
         /\ shadowStatus'.half = (Len(fifo') >= Half)
<1> DEFINE S == 0 .. MaxCounter - 1
           size == Len(fifo) - 1
<1>1. fifo \in Seq(S) /\ Len(fifo) <= FifoMaxSize
  BY DEF TypeOK
<1> HIDE DEF S
<1>2. /\ Len(fifo) \in Nat \ {0}
      /\ Tail(fifo) \in Seq(S) /\ Len(Tail(fifo)) = Len(fifo) - 1
      /\ Head(fifo) = fifo[1] /\ fifo[1] \in S
      /\ \A k \in 1 .. Len(fifo) - 1 : Tail(fifo)[k] = fifo[k + 1]
  BY <1>1
<1>3. /\ shadowRecord' = fifo[1] /\ fifo' = Tail(fifo)
      /\ shadowStatus' = [usage |-> Usage(size), empty |-> size = 0,
                          full |-> size < FifoMaxSize,
                          half |-> size >= Half]
  BY <1>2 DEF Latch
<1>4. size \in Nat /\ Len(fifo') = size
  BY <1>2, <1>3
<1>5. Usage(size) \in 0 .. 2^UsageBits - 1
  BY <1>4, Sizes
<1>6. shadowStatus' \in Statuses
  BY <1>3, <1>5 DEF Statuses
<1>7. fifo' \in Seq(S) /\ Len(fifo') <= FifoMaxSize
  BY <1>1, <1>2, <1>3, Sizes
<1>8. shadowRecord' \in 0 .. MaxCounter
  BY <1>2, <1>3, FifoAssumption DEF S
<1>9. DeviceTyped'
  BY <1>6, <1>7, <1>8 DEF DeviceTyped, S
<1>10. /\ shadowStatus'.usage = Usage(Len(fifo'))
       /\ shadowStatus'.empty = (Len(fifo') = 0)
       /\ shadowStatus'.half = (Len(fifo') >= Half)
  BY <1>3, <1>4
<1>11. QED
  BY <1>2, <1>3, <1>9, <1>10

LEMMA DriverTypes ==
  ASSUME Inv, Driver
  PROVE  TypeOK'
<1>1. TypeOK /\ pc \in [Threads -> Labels] /\ Parts /\ "driver" \in Threads
  BY TypesInParts DEF Inv, Threads
<1>2. LocksTyped /\ EngineTyped /\ DeviceTyped /\ RestTyped
  BY <1>1 DEF Parts
<1>3. CASE Common("driver")
  BY <1>1, <1>3, GuardTypes, AccessTypes DEF Common, Guards, Accesses
<1>4. CASE HookWrite
  <2>1. DeviceTyped'
    BY <1>1, <1>2, <1>4, LatchTypes DEF HookWrite, DeviceTyped, device
  <2>2. LocksTyped' /\ RestTyped'
    BY <1>2, <1>4
       DEF HookWrite, LocksTyped, RestTyped, locks, thread, program, history
  <2>3. EngineTyped'
    BY <1>1, <1>2, <1>4 DEF HookWrite, Stepping, EngineTyped, Steps
  <2>4. QED
    BY <1>1, <1>4, <2>1, <2>2, <2>3, TypesInParts DEF HookWrite, Parts
<1>5. CASE ~Common("driver") /\ ~HookWrite
  <2>1. pc' \in [Threads -> Labels]
    <3>1. PICK from, label : Goto("driver", from, label) /\ label \in Labels
      BY <1>5 DEF Driver, ConnectInterruptHandler, Exchange, Loop, Branch,
                  Destroy, Join, Labels, AfterPrint, AfterAccess
    <3>2. QED
      BY <1>1, <3>1, GotoMoves
  <2>2. LocksTyped' /\ EngineTyped' /\ DeviceTyped'
    BY <1>2, <1>5
       DEF Driver, ConnectInterruptHandler, Exchange, Loop, Branch, Destroy,
           Join, data, locks, engine, device, LocksTyped, EngineTyped,
           DeviceTyped
  <2>3. RestTyped'
    <3>1. CASE Loop
      <4>1. left' \in 0 .. Records
        BY <1>2, <3>1, FifoAssumption DEF Loop, RestTyped
      <4>2. QED
        BY <1>2, <3>1, <4>1 DEF Loop, RestTyped, thread, history
    <3>2. CASE ConnectInterruptHandler \/ Exchange \/ Destroy
      <4>1. (Len(fifo) >= Half) \in BOOLEAN
        OBVIOUS
      <4>2. QED
        BY <1>2, <3>2, <4>1
           DEF ConnectInterruptHandler, Exchange, Destroy, RestTyped, thread,
               program, history
    <3>3. CASE Branch \/ Join
      BY <1>2, <3>3
         DEF Branch, Join, data, RestTyped, thread, program, history
    <3>4. QED
      BY <1>5, <3>1, <3>2, <3>3 DEF Driver
  <2>4. QED
    BY <2>1, <2>2, <2>3, TypesInParts DEF Parts
<1>6. QED
  BY <1>3, <1>4, <1>5

LEMMA TypesNext ==
  ASSUME Inv, [Next]_vars
  PROVE  TypeOK'
<1>1. CASE UNCHANGED vars
  BY <1>1, TypesInParts
     DEF Inv, vars, locks, data, Parts, LocksTyped, EngineTyped, DeviceTyped,
         RestTyped, engine, device, thread, program, history
<1>2. QED
  BY <1>1, GeneratorTypes, DriverTypes DEF Next

-----------------------------------------------------------------------------
(***************************************************************************)
(* Where the threads are, who holds the locks, and how far accesses are.   *)
(***************************************************************************)
LEMMA Together ==
  /\ Threads = {"generator", "driver"} /\ Mutexes = {"memory", "cout"}
  /\ Free \notin Threads
BY DEF Threads, Mutexes, Free

\* What each step does to the places of the threads.
LEMMA GeneratorMoves ==
  ASSUME TypeOK, Places, Generator
  PROVE  /\ pc'["driver"] = pc["driver"]
         /\ step'["driver"] = step["driver"]
         /\ \/ pc'["generator"] = pc["generator"]
            \/ <<pc["generator"], pc'["generator"]>> \in
                 {<<"while", "lock">>, <<"while", "exited">>,
                  <<"lock", "printGenerated">>, <<"lock", "unlock">>,
                  <<"printGenerated", "push">>, <<"push", "routine">>,
                  <<"push", "unlock">>, <<"routine", "handled">>,
                  <<"handled", "printRoutine">>,
                  <<"printRoutine", "unlock">>, <<"unlock", "while">>}
<1>1. "generator" \in Threads /\ "driver" \in Threads \ {"generator"}
  BY Together
<1>2. CASE LockOne("generator") \/ TryOther("generator")
  BY <1>2 DEF LockOne, TryOther, data, engine
<1>3. CASE PrintLine("generator")
  <2>1. pc["generator"] \in {"printGenerated", "printRoutine"}
    BY <1>3, PrintPlaces DEF PrintLine, Printing, Places, Inside
  <2>2. step' = step
    BY <1>3 DEF PrintLine, data, engine
  <2>3. QED
    BY <1>1, <1>3, <2>1, <2>2, PrintMoves, PrintPlaces DEF Moves
<1>4. CASE Accesses("generator")
  <2>1. pc["generator"] = "routine"
    BY <1>1, <1>4, AccessMoves, AccessPlaces DEF Places, Inside
  <2>2. QED
    BY <1>1, <1>4, <2>1, AccessMoves, AccessPlaces DEF Moves
<1>5. CASE ~Common("generator")
  <2>1. PICK from, label :
          /\ Goto("generator", from, label)
          /\ <<from, label>> \in
               {<<"while", "lock">>, <<"while", "exited">>,
                <<"lock", "printGenerated">>, <<"lock", "unlock">>,
                <<"push", "routine">>, <<"push", "unlock">>,
                <<"handled", "printRoutine">>, <<"unlock", "while">>}
    BY <1>5 DEF Generator, TestStop, AcquireMemoryLock, Push,
                SetInterruptHandled, ReleaseMemoryLock
  <2>2. Moves("generator", from, label)
    BY <1>1, <2>1, GotoMoves
  <2>3. step' = step
    BY <1>5 DEF Generator, TestStop, AcquireMemoryLock, Push,
                SetInterruptHandled, ReleaseMemoryLock, data, engine
  <2>4. QED
    BY <1>1, <2>1, <2>2, <2>3 DEF Moves
<1>6. QED
  BY <1>2, <1>3, <1>4, <1>5 DEF Generator, Common, Accesses

LEMMA DriverMoves ==
  ASSUME TypeOK, Places, Driver
  PROVE  /\ pc'["generator"] = pc["generator"]
         /\ step'["generator"] = step["generator"]
         /\ \/ pc'["driver"] = pc["driver"]
            \/ <<pc["driver"], pc'["driver"]>> \in
                 {<<"connect", "status">>, <<"status", "printStatus">>,
                  <<"printStatus", "exchange">>, <<"exchange", "before">>,
                  <<"exchange", "printTimeout">>, <<"before", "loop">>,
                  <<"printTimeout", "destroy">>, <<"loop", "check">>,
                  <<"loop", "destroy">>, <<"check", "branch">>,
                  <<"branch", "printEmpty">>, <<"branch", "next">>,
                  <<"printEmpty", "next">>, <<"next", "telemetry">>,
                  <<"telemetry", "printRecord">>, <<"printRecord", "loop">>,
                  <<"destroy", "join">>, <<"join", "gone">>}
<1>1. "driver" \in Threads /\ "generator" \in Threads \ {"driver"}
  BY Together
<1>2. CASE LockOne("driver") \/ TryOther("driver")
  BY <1>2 DEF LockOne, TryOther, data, engine
<1>3. CASE PrintLine("driver")
  <2>1. pc["driver"] \in {"printStatus", "printTimeout", "printEmpty",
                          "printRecord"}
    BY <1>3, PrintPlaces DEF PrintLine, Printing, Places, Waiting
  <2>2. step' = step
    BY <1>3 DEF PrintLine, data, engine
  <2>3. QED
    BY <1>1, <1>3, <2>1, <2>2, PrintMoves, PrintPlaces DEF Moves
<1>4. CASE Accesses("driver")
  <2>1. pc["driver"] \in {"status", "before", "check", "telemetry", "next"}
    BY <1>1, <1>4, AccessMoves, AccessPlaces DEF Places, Waiting
  <2>2. QED
    BY <1>1, <1>4, <2>1, AccessMoves, AccessPlaces DEF Moves
<1>5. CASE HookWrite
  BY <1>5, Together DEF HookWrite, Stepping, TypeOK
<1>6. CASE ~Common("driver") /\ ~HookWrite
  <2>1. PICK from, label :
          /\ Goto("driver", from, label)
          /\ <<from, label>> \in
               {<<"connect", "status">>, <<"exchange", "before">>,
                <<"exchange", "printTimeout">>, <<"loop", "check">>,
                <<"loop", "destroy">>, <<"branch", "printEmpty">>,
                <<"branch", "next">>, <<"destroy", "join">>,
                <<"join", "gone">>}
    BY <1>6 DEF Driver, ConnectInterruptHandler, Exchange, Loop, Branch,
                Destroy, Join
  <2>2. Moves("driver", from, label)
    BY <1>1, <2>1, GotoMoves
  <2>3. step' = step
    BY <1>6 DEF Driver, ConnectInterruptHandler, Exchange, Loop, Branch,
                Destroy, Join, data, engine
  <2>4. QED
    BY <1>1, <2>1, <2>2, <2>3 DEF Moves
<1>7. QED
  BY <1>2, <1>3, <1>4, <1>5, <1>6 DEF Driver, Common, Accesses

LEMMA PlacesNext ==
  ASSUME TypeOK, Places, [Next]_vars
  PROVE  Places'
<1>1. CASE UNCHANGED vars
  BY <1>1 DEF vars, Places
<1>2. CASE Generator
  BY <1>2, GeneratorMoves DEF Places, Inside
<1>3. CASE Driver
  BY <1>3, DriverMoves DEF Places, Waiting
<1>4. QED
  BY <1>1, <1>2, <1>3 DEF Next

\* Guard's part in Locking: a thread gives up only what it holds, and the
\* generator keeps the memory lock it held before.
LEMMA LockingGuard ==
  ASSUME TypeOK, Places, Locking, NEW t \in Threads,
         LockOne(t) \/ TryOther(t) \/ PrintLine(t)
  PROVE  Locking'
<1>1. /\ owner \in [Mutexes -> Threads \cup {Free}]
      /\ guard \in [Threads -> [next : SUBSET Mutexes, holds : SUBSET Mutexes]]
  BY DEF TypeOK
<1>2. PICK u \in Threads \ {t} : Threads = {t, u}
  BY Together
<1>3. pc'[u] = pc[u] /\ guard'[u] = guard[u]
  BY <1>1, <1>2, PrintMoves DEF LockOne, TryOther, PrintLine, Moves
<1>4. \A m \in Mutexes : owner[m] = u => owner'[m] = u
  <2>1. CASE LockOne(t)
    BY <1>1, <1>2, <2>1, Together DEF LockOne, CanLock
  <2>2. CASE TryOther(t)
    <3>1. PICK m \in Mutexes :
            /\ guard[t].holds = {m}
            /\ \/ /\ CanLock(t, Other(m))
                  /\ owner' = [owner EXCEPT ![Other(m)] = t]
               \/ owner' = [owner EXCEPT ![m] = OwnerWithout(t, m)]
      BY <2>2 DEF TryOther
    <3>2. owner[m] = t
      BY <3>1 DEF Locking
    <3>3. QED
      BY <1>1, <1>2, <3>1, <3>2, Together DEF CanLock
  <2>3. CASE PrintLine(t)
    <3>1. \A m \in Mutexes : owner[m] = t
      BY <2>3 DEF PrintLine, Locking
    <3>2. QED
      BY <1>2, <3>1
  <2>4. QED
    BY <2>1, <2>2, <2>3
<1>5. t = "generator" /\ owner["memory"] = t => owner'["memory"] = t
  <2> SUFFICES ASSUME t = "generator", owner["memory"] = t
               PROVE  owner'["memory"] = t
    OBVIOUS
  <2>1. OwnerWithout(t, "memory") = t /\ "memory" \in Mutexes
    BY Together DEF OwnerWithout
  <2>2. QED
    BY <1>1, <2>1 DEF LockOne, TryOther, PrintLine
<1>6. \A m \in guard'[t].holds : owner'[m] = t
  <2>1. CASE LockOne(t)
    BY <1>1, <2>1 DEF LockOne
  <2>2. CASE TryOther(t)
    <3>1. PICK m \in Mutexes :
            /\ guard[t].holds = {m}
            /\ \/ /\ owner' = [owner EXCEPT ![Other(m)] = t]
                  /\ guard' = [guard EXCEPT ![t].holds = Mutexes]
               \/ guard' = [guard EXCEPT ![t] =
                              [next |-> {Other(m)}, holds |-> {}]]
      BY <2>2 DEF TryOther
    <3>2. owner[m] = t /\ Mutexes = {m, Other(m)}
      BY <3>1, Together, OtherMutex DEF Locking
    <3>3. QED
      BY <1>1, <3>1, <3>2
  <2>3. CASE PrintLine(t)
    BY <1>1, <2>3 DEF PrintLine, NewGuard
  <2>4. QED
    BY <2>1, <2>2, <2>3
<1>7. ~Printing(t)' => guard'[t] = NewGuard
  <2>1. CASE LockOne(t) \/ TryOther(t)
    BY <2>1 DEF LockOne, TryOther, Printing
  <2>2. CASE PrintLine(t)
    BY <1>1, <2>2 DEF PrintLine
  <2>3. QED
    BY <2>1, <2>2
<1>8. pc'["generator"] \in Inside => pc["generator"] \in Inside
  <2>1. CASE LockOne(t) \/ TryOther(t)
    BY <2>1 DEF LockOne, TryOther
  <2>2. CASE PrintLine(t)
    <3>1. CASE t = "generator"
      BY <2>2, <3>1, PrintPlaces DEF PrintLine, Printing, Places, Inside
    <3>2. CASE t = "driver"
      BY <1>2, <1>3, <3>2, Together
    <3>3. QED
      BY <3>1, <3>2, Together
  <2>3. QED
    BY <2>1, <2>2
<1>9. NewGuard' = NewGuard
  BY DEF NewGuard
<1>10. pc'["generator"] \in Inside => owner'["memory"] = "generator"
  BY <1>2, <1>4, <1>5, <1>8, Together DEF Locking
<1>11. \A v \in Threads : \A m \in guard'[v].holds : owner'[m] = v
  BY <1>1, <1>2, <1>3, <1>4, <1>6 DEF Locking
<1>12. \A v \in Threads : ~Printing(v)' => guard'[v] = NewGuard
  BY <1>2, <1>3, <1>7 DEF Locking, Printing
<1>13. QED
  BY <1>9, <1>10, <1>11, <1>12 DEF Locking

\* What the other steps do to the guards: nothing, and no thread leaves the
\* place at which it prints.
LEMMA OtherSteps ==
  ASSUME TypeOK, Next, \A t \in Threads : ~Guards(t)
  PROVE  /\ guard' = guard
         /\ \A t \in Threads : pc'[t] # pc[t] => ~Printing(t)
         /\ owner' # owner => AcquireMemoryLock \/ ReleaseMemoryLock
<1>1. CASE \E t \in Threads : Accesses(t)
  <2>1. PICK t \in Threads : Accesses(t)
    BY <1>1
  <2>2. /\ UNCHANGED locks /\ pc[t] \notin DOMAIN AfterPrint
        /\ \A u \in Threads \ {t} : pc'[u] = pc[u]
    BY <2>1, AccessMoves, AccessPlaces, PrintPlaces DEF Moves
  <2>3. QED
    BY <2>2 DEF locks, Printing
<1>2. CASE HookWrite
  BY <1>2 DEF HookWrite, locks
<1>3. CASE ~HookWrite /\ \A t \in Threads : ~Accesses(t)
  <2>1. PICK t, from, label :
          /\ t \in Threads
          /\ Goto(t, from, label) /\ from \notin DOMAIN AfterPrint
    BY <1>3, PrintPlaces, Together
       DEF Next, Generator, Driver, Common, Guards, Accesses, TestStop,
           AcquireMemoryLock, Push, SetInterruptHandled, ReleaseMemoryLock,
           ConnectInterruptHandler, Exchange, Loop, Branch, Destroy, Join
  <2>2. \A u \in Threads : pc'[u] # pc[u] => ~Printing(u)
    BY <2>1, GotoMoves DEF Moves, Printing
  <2>3. guard' = guard
    BY <1>3, Together
       DEF Next, Generator, Driver, Common, Guards, Accesses, TestStop,
           AcquireMemoryLock, Push, SetInterruptHandled, ReleaseMemoryLock,
           ConnectInterruptHandler, Exchange, Loop, Branch, Destroy, Join,
           locks
  <2>4. owner' # owner => AcquireMemoryLock \/ ReleaseMemoryLock
    BY <1>3, Together
       DEF Next, Generator, Driver, Common, Guards, Accesses, TestStop, Push,
           SetInterruptHandled, ConnectInterruptHandler, Exchange, Loop,
           Branch, Destroy, Join, locks
  <2>5. QED
    BY <2>2, <2>3, <2>4
<1>4. QED
  BY <1>1, <1>2, <1>3

\* The generator's lock_guard: no guard has the memory lock when it takes it,
\* and its own has let go of everything when it gives it back.
LEMMA LockingNext ==
  ASSUME TypeOK, Places, Locking, [Next]_vars
  PROVE  Locking'
<1>1. CASE UNCHANGED vars
  BY <1>1 DEF vars, locks, Locking, Printing, NewGuard
<1>2. CASE \E t \in Threads : Guards(t)
  BY <1>2, LockingGuard DEF Guards
<1>3. CASE Next /\ \A t \in Threads : ~Guards(t)
  <2>1. /\ guard' = guard
        /\ \A t \in Threads : pc'[t] # pc[t] => ~Printing(t)
        /\ owner' # owner => AcquireMemoryLock \/ ReleaseMemoryLock
    BY <1>3, OtherSteps
  <2>2. \A t \in Threads : ~Printing(t)' => guard'[t] = NewGuard
    BY <2>1 DEF Locking, Printing
  <2>3. /\ pc'["generator"] \in Inside => owner'["memory"] = "generator"
        /\ \A t \in Threads : \A m \in guard'[t].holds : owner'[m] = t
    <3>1. CASE AcquireMemoryLock
      <4>1. \A t \in Threads : \A m \in guard[t].holds : m # "memory"
        BY <3>1, Together DEF AcquireMemoryLock, Locking
      <4>2. /\ owner'["memory"] = "generator"
            /\ \A m \in Mutexes \ {"memory"} : owner'[m] = owner[m]
        BY <3>1, Together DEF AcquireMemoryLock, TypeOK
      <4>3. \A t \in Threads : guard[t].holds \subseteq Mutexes
        BY DEF TypeOK
      <4>4. QED
        BY <2>1, <4>1, <4>2, <4>3 DEF Locking
    <3>2. CASE ReleaseMemoryLock
      <4>1. /\ pc["generator"] = "unlock" /\ pc'["generator"] = "while"
            /\ \A m \in Mutexes \ {"memory"} : owner'[m] = owner[m]
        BY <3>2, Together DEF ReleaseMemoryLock, Goto, TypeOK
      <4>2. owner["memory"] = "generator" /\ guard["generator"].holds = {}
        BY <4>1, PrintPlaces, Together
           DEF Locking, Inside, Printing, NewGuard
      <4>3. \A t \in Threads : \A m \in guard[t].holds : m # "memory"
        BY <4>2, Together DEF Locking
      <4>4. \A t \in Threads : guard[t].holds \subseteq Mutexes
        BY DEF TypeOK
      <4>5. QED
        BY <2>1, <4>1, <4>3, <4>4 DEF Locking, Inside
    <3>3. CASE owner' = owner
      <4>1. pc'["generator"] \in Inside => pc["generator"] \in Inside
        <5>1. CASE Generator
          <6>1. ~AcquireMemoryLock
            BY <3>3, Together
               DEF AcquireMemoryLock, TypeOK, Free
          <6>2. pc["generator"] # "lock" \/ pc'["generator"] = "lock"
            <7>1. CASE Accesses("generator")
              BY <7>1, AccessMoves, AccessPlaces, Together
            <7>2. CASE ~Accesses("generator")
              BY <1>3, <5>1, <6>1, <7>2, Together
                 DEF Generator, Common, Guards, Accesses, TestStop, Push,
                     SetInterruptHandled, ReleaseMemoryLock, Goto
            <7>3. QED
              BY <7>1, <7>2
          <6>3. QED
            BY <5>1, <6>2, GeneratorMoves DEF Inside
        <5>2. CASE Driver
          BY <5>2, DriverMoves
        <5>3. QED
          BY <1>3, <5>1, <5>2 DEF Next
      <4>2. QED
        BY <2>1, <3>3, <4>1 DEF Locking
    <3>4. QED
      BY <2>1, <3>1, <3>2, <3>3
  <2>4. QED
    BY <2>2, <2>3 DEF Locking, NewGuard
<1>4. QED
  BY <1>1, <1>2, <1>3

\* No other step is one of an access, or leaves the place of one.
LEMMA StillEngine ==
  ASSUME TypeOK, Next, ~HookWrite, \A t \in Threads : ~Accesses(t)
  PROVE  /\ UNCHANGED engine
         /\ \A t \in Threads : pc'[t] # pc[t] => pc[t] \notin DOMAIN AfterAccess
<1>1. CASE \E t \in Threads : Guards(t)
  <2>1. PICK t \in Threads : Guards(t)
    BY <1>1
  <2>2. UNCHANGED data
    BY <2>1, GuardTypes
  <2>3. pc[t] \notin DOMAIN AfterAccess
    BY <2>1, AccessPlaces, PrintPlaces
       DEF Guards, LockOne, TryOther, PrintLine, Printing
  <2>4. \A u \in Threads \ {t} : pc'[u] = pc[u]
    BY <2>1, PrintMoves DEF Guards, LockOne, TryOther, Moves
  <2>5. QED
    BY <2>2, <2>3, <2>4 DEF data
<1>2. CASE \A t \in Threads : ~Guards(t)
  <2>1. PICK t, from, label :
          /\ t \in Threads
          /\ Goto(t, from, label) /\ from \notin DOMAIN AfterAccess
    BY <1>2, AccessPlaces, Together
       DEF Next, Generator, Driver, Common, Guards, Accesses, TestStop,
           AcquireMemoryLock, Push, SetInterruptHandled, ReleaseMemoryLock,
           ConnectInterruptHandler, Exchange, Loop, Branch, Destroy, Join
  <2>2. \A u \in Threads : pc'[u] # pc[u] => pc[u] \notin DOMAIN AfterAccess
    BY <2>1, GotoMoves DEF Moves
  <2>3. UNCHANGED engine
    BY <1>2, Together
       DEF Next, Generator, Driver, Common, Guards, Accesses, TestStop,
           AcquireMemoryLock, Push, SetInterruptHandled, ReleaseMemoryLock,
           ConnectInterruptHandler, Exchange, Loop, Branch, Destroy, Join,
           data
  <2>4. QED
    BY <2>2, <2>3
<1>3. QED
  BY <1>1, <1>2

LEMMA SteppedNext ==
  ASSUME TypeOK, Stepped, [Next]_vars
  PROVE  Stepped'
<1>1. CASE UNCHANGED vars
  BY <1>1 DEF vars, data, engine, Stepped, IsStore, AfterAccess
<1>2. DOMAIN AfterAccess' = DOMAIN AfterAccess
  BY DEF AfterAccess
<1>3. CASE \E t \in Threads : Accesses(t)
  <2>1. PICK t \in Threads : Accesses(t)
    BY <1>3
  <2>2. /\ pc[t] \in DOMAIN AfterAccess
        /\ \A u \in Threads \ {t} : pc'[u] = pc[u] /\ step'[u] = step[u]
        /\ step \in [Threads -> Steps]
    BY <2>1, AccessMoves DEF Moves, TypeOK, Steps
  <2>3. step'[t] # "none" => pc'[t] = pc[t]
    BY <2>1, <2>2
       DEF Accesses, PassThrough, Fault, HookRead, Unprotect, Retry, Restore,
           Stepping, Accessing
  <2>4. step'[t] = "hookWrite" => IsStore(t)
    BY <2>1, <2>2
       DEF Accesses, PassThrough, Fault, HookRead, Unprotect, Retry, Restore,
           Stepping, Accessing
  <2>5. open' => \E u \in Threads :
                   step'[u] \in {"stepping", "hookWrite", "close"}
    <3>1. CASE Fault(t) \/ Restore(t)
      BY <3>1 DEF Fault, Restore
    <3>2. CASE Unprotect(t)
      BY <2>2, <3>2 DEF Unprotect, Stepping
    <3>3. CASE Retry(t)
      BY <2>2, <3>3 DEF Retry, Stepping
    <3>4. CASE PassThrough(t) \/ HookRead(t)
      <4>1. /\ open' = open
            /\ step[t] \notin {"stepping", "hookWrite", "close"}
        BY <3>4
           DEF PassThrough, HookRead, Access, Stepping, Accessing
      <4>2. QED
        BY <2>2, <4>1 DEF Stepped
    <3>5. QED
      BY <2>1, <3>1, <3>2, <3>3, <3>4 DEF Accesses
  <2>6. QED
    BY <1>2, <2>2, <2>3, <2>4, <2>5 DEF Stepped, IsStore
<1>4. CASE HookWrite
  <2>1. /\ step' = [step EXCEPT !["driver"] = "close"]
        /\ UNCHANGED <<pc, open>> /\ step["driver"] = "hookWrite"
        /\ step \in [Threads -> Steps]
    BY <1>4 DEF HookWrite, Stepping, Accessing, TypeOK, Steps
  <2>2. \A t \in Threads : step'[t] # step[t] => t = "driver"
    BY <2>1
  <2>3. step'["driver"] = "close" /\ "driver" \in Threads
    BY <2>1, Together
  <2>4. QED
    BY <1>2, <2>1, <2>2, <2>3 DEF Stepped, IsStore
<1>5. CASE Next /\ ~HookWrite /\ \A t \in Threads : ~Accesses(t)
  <2>1. /\ UNCHANGED engine
        /\ \A t \in Threads : pc'[t] # pc[t] => pc[t] \notin DOMAIN AfterAccess
    BY <1>5, StillEngine
  <2>2. QED
    BY <1>2, <2>1, AccessPlaces DEF Stepped, IsStore, engine
<1>6. QED
  BY <1>1, <1>3, <1>4, <1>5

-----------------------------------------------------------------------------
(***************************************************************************)
(* The FIFO and its status.                                                *)
(***************************************************************************)
\* Which steps change what.
LEMMA Changes ==
  ASSUME TypeOK, Next
  PROVE  /\ UNCHANGED device \/ Push \/ HookWrite
         /\ UNCHANGED word \/ \E t \in Threads : Accesses(t)
         /\ UNCHANGED counter \/ ReleaseMemoryLock
         /\ UNCHANGED connected \/ ConnectInterruptHandler
         /\ UNCHANGED interruptHandled \/ SetInterruptHandled \/ Exchange
         /\ UNCHANGED dropped \/ AcquireMemoryLock
         /\ UNCHANGED late \/ ConnectInterruptHandler
         /\ UNCHANGED interrupted \/ SetInterruptHandled
         /\ UNCHANGED sawEmpty \/ \E t \in Threads : Accesses(t)
<1>1. CASE \E t \in Threads : Guards(t)
  BY <1>1, GuardTypes DEF data, device, thread, program, history
<1>2. CASE \E t \in Threads : Accesses(t)
  BY <1>2, AccessMoves DEF device, thread, program
<1>3. CASE TestStop \/ AcquireMemoryLock \/ Push \/ SetInterruptHandled
           \/ ReleaseMemoryLock
  BY <1>3 DEF TestStop, AcquireMemoryLock, Push, SetInterruptHandled,
              ReleaseMemoryLock, data, device, thread, program, history
<1>4. CASE \/ ConnectInterruptHandler \/ Exchange \/ Loop \/ Branch
           \/ HookWrite \/ Destroy \/ Join
  BY <1>4 DEF ConnectInterruptHandler, Exchange, Loop, Branch, HookWrite,
              Destroy, Join, data, device, thread, program, history
<1>5. QED
  BY <1>1, <1>2, <1>3, <1>4, Together
     DEF Next, Generator, Driver, Common, Guards, Accesses

\* A push finds room, and leaves the status right.
LEMMA Pushes ==
  ASSUME TypeOK, Following, Push
  PROVE  /\ pc["generator"] = "push"
         /\ pc'["generator"] \in {"routine", "unlock"}
         /\ pc'["generator"] = "routine"
              <=> connected /\ Len(fifo') = Half
         /\ pc'["driver"] = pc["driver"]
         /\ Len(fifo) \in Nat
         /\ Len(fifo') = Len(fifo) + 1 /\ Len(fifo') <= FifoMaxSize
         /\ fifo'[Len(fifo) + 1] = counter
         /\ \A k \in 1 .. Len(fifo) : fifo'[k] = fifo[k]
         /\ shadowStatus'.usage = Len(fifo')
         /\ shadowStatus'.half = (Len(fifo') >= Half)
         /\ shadowStatus'.empty = shadowStatus.empty
<1> DEFINE S == 0 .. MaxCounter - 1
           size == Len(fifo) + 1
<1>1. fifo \in Seq(S) /\ counter \in Nat /\ shadowStatus \in Statuses
  BY DEF TypeOK
<1> HIDE DEF S
<1>2. /\ Goto("generator", "push",
              IF Interrupts(size) THEN "routine" ELSE "unlock")
      /\ fifo' = Append(fifo, counter)
      /\ shadowStatus' = StatusAfterPush(size)
  BY DEF Push
<1>3. /\ Len(fifo) \in Nat /\ Len(fifo') = size
      /\ fifo'[size] = counter
      /\ \A k \in 1 .. Len(fifo) : fifo'[k] = fifo[k]
  BY <1>1, <1>2
<1>4. Len(fifo) < FifoMaxSize
  BY <1>2 DEF Goto, Following, HasRoom
<1>5. size \in Nat /\ size <= FifoMaxSize
  BY <1>3, <1>4, Sizes
<1>6. Usage(size) = size
  BY <1>5, Sizes
<1>7. /\ shadowStatus'.usage = size
      /\ shadowStatus'.empty = shadowStatus.empty
      /\ shadowStatus'.half = (shadowStatus.half \/ size >= Half)
  BY <1>1, <1>2, <1>6 DEF StatusAfterPush, Statuses
<1>8. shadowStatus.half => size >= Half
  <2>1. shadowStatus.half => Len(fifo) >= Half
    BY DEF Following, StatusTracksFifo
  <2>2. Len(fifo) >= Half => size >= Half
    BY <1>3, Sizes
  <2>3. QED
    BY <2>1, <2>2
<1>9. shadowStatus'.half = (size >= Half)
  BY <1>7, <1>8
<1>10. /\ pc["generator"] = "push"
       /\ pc'["generator"] = IF Interrupts(size) THEN "routine" ELSE "unlock"
       /\ pc'["driver"] = pc["driver"]
  BY <1>2, Together, GotoMoves DEF Goto, TypeOK
<1>11. QED
  BY <1>3, <1>5, <1>7, <1>9, <1>10 DEF Interrupts

\* A latch has the generator outside, and leaves the status right.
LEMMA Pops ==
  ASSUME TypeOK, Locking, Stepped, HookWrite
  PROVE  /\ pc["generator"] \notin Inside
         /\ UNCHANGED pc /\ pc["driver"] = "next"
         /\ step["driver"] = "hookWrite" /\ step'["driver"] = "close"
         /\ \/ UNCHANGED device
            \/ /\ fifo # <<>>
               /\ Len(fifo) \in Nat \ {0} /\ Len(fifo') = Len(fifo) - 1
               /\ shadowRecord' = fifo[1]
               /\ \A k \in 1 .. Len(fifo) - 1 : fifo'[k] = fifo[k + 1]
               /\ shadowStatus'.usage = Len(fifo')
               /\ shadowStatus'.half = (Len(fifo') >= Half)
               /\ shadowStatus'.empty = (Len(fifo') = 0)
<1>1. Free # "generator"
  BY DEF Free
<1>2. pc["generator"] \notin Inside
  BY <1>1 DEF HookWrite, Locking
<1>3. /\ UNCHANGED pc /\ pc["driver"] = "next"
      /\ step["driver"] = "hookWrite" /\ step'["driver"] = "close"
  BY Together DEF HookWrite, Stepping, Accessing, Stepped, IsStore, TypeOK
<1>4. UNCHANGED device \/ (fifo # <<>> /\ Latch)
  BY DEF HookWrite
<1>5. ASSUME fifo # <<>>, Latch
      PROVE  /\ fifo # <<>>
             /\ Len(fifo) \in Nat \ {0} /\ Len(fifo') = Len(fifo) - 1
             /\ shadowRecord' = fifo[1]
             /\ \A k \in 1 .. Len(fifo) - 1 : fifo'[k] = fifo[k + 1]
             /\ shadowStatus'.usage = Len(fifo')
             /\ shadowStatus'.half = (Len(fifo') >= Half)
             /\ shadowStatus'.empty = (Len(fifo') = 0)
  <2>1. /\ Len(fifo) \in Nat \ {0} /\ Len(fifo') = Len(fifo) - 1
        /\ shadowRecord' = fifo[1]
        /\ \A k \in 1 .. Len(fifo) - 1 : fifo'[k] = fifo[k + 1]
        /\ shadowStatus'.usage = Usage(Len(fifo'))
        /\ shadowStatus'.half = (Len(fifo') >= Half)
        /\ shadowStatus'.empty = (Len(fifo') = 0)
    BY <1>5, LatchTypes
  <2>2. Len(fifo') \in Nat /\ Len(fifo') <= FifoMaxSize
    <3>1. Len(fifo) <= FifoMaxSize
      BY DEF TypeOK
    <3>2. QED
      BY <2>1, <3>1, Sizes
  <2>3. Usage(Len(fifo')) = Len(fifo')
    BY <2>2, Sizes
  <2>4. QED
    BY <1>5, <2>1, <2>3
<1>6. QED
  BY <1>2, <1>3, <1>4, <1>5

\* Everything that moves the FIFO or its bits does so under the memory lock,
\* so that the routine finds what it was called for.
\* Which step leaves a place that is no access's and no print's.
LEMMA Leaves ==
  ASSUME TypeOK, Next
  PROVE  /\ pc'["generator"] # pc["generator"] =>
              /\ pc["generator"] = "while" => TestStop
              /\ pc["generator"] = "lock" => AcquireMemoryLock
              /\ pc["generator"] = "push" => Push
              /\ pc["generator"] = "handled" => SetInterruptHandled
              /\ pc["generator"] = "unlock" => ReleaseMemoryLock
         /\ pc'["driver"] # pc["driver"] =>
              /\ pc["driver"] = "connect" => ConnectInterruptHandler
              /\ pc["driver"] = "exchange" => Exchange
<1> DEFINE Own == {"while", "lock", "push", "handled", "unlock", "connect",
                   "exchange"}
<1>1. CASE \E t \in Threads : Guards(t)
  <2>1. PICK t \in Threads : Guards(t)
    BY <1>1
  <2>2. pc[t] \notin Own
    BY <2>1, PrintPlaces DEF Guards, LockOne, TryOther, PrintLine, Printing
  <2>3. \A u \in Threads \ {t} : pc'[u] = pc[u]
    BY <2>1, PrintMoves DEF Guards, LockOne, TryOther, Moves
  <2>4. QED
    BY <2>2, <2>3, Together
<1>2. CASE \E t \in Threads : Accesses(t)
  <2>1. PICK t \in Threads : Accesses(t)
    BY <1>2
  <2>2. pc[t] \notin Own
    BY <2>1, AccessMoves, AccessPlaces
  <2>3. \A u \in Threads \ {t} : pc'[u] = pc[u]
    BY <2>1, AccessMoves DEF Moves
  <2>4. QED
    BY <2>2, <2>3, Together
<1>3. CASE \/ TestStop \/ AcquireMemoryLock \/ Push \/ SetInterruptHandled
           \/ ReleaseMemoryLock \/ ConnectInterruptHandler \/ Exchange \/ Loop
           \/ Branch \/ Destroy \/ Join
  <2>1. PICK t, from, label : t \in Threads /\ Goto(t, from, label)
    BY <1>3, Together
       DEF TestStop, AcquireMemoryLock, Push, SetInterruptHandled,
           ReleaseMemoryLock, ConnectInterruptHandler, Exchange, Loop, Branch,
           Destroy, Join
  <2>2. CASE TestStop \/ AcquireMemoryLock \/ Push \/ SetInterruptHandled
             \/ ReleaseMemoryLock
    BY <2>2, Together
       DEF TestStop, AcquireMemoryLock, Push, SetInterruptHandled,
           ReleaseMemoryLock, Goto, TypeOK
  <2>3. CASE \/ ConnectInterruptHandler \/ Exchange \/ Loop \/ Branch
             \/ Destroy \/ Join
    BY <2>3, Together
       DEF ConnectInterruptHandler, Exchange, Loop, Branch, Destroy, Join,
           Goto, TypeOK
  <2>4. QED
    BY <1>3, <2>2, <2>3
<1>4. CASE HookWrite
  BY <1>4 DEF HookWrite
<1>5. QED
  BY <1>1, <1>2, <1>3, <1>4, Together
     DEF Next, Generator, Driver, Common, Guards, Accesses

\* The routine's load: its hook copies the bits of a FIFO that is half full,
\* and no hook of the driver's comes before it is over.
LEMMA LoadNext ==
  ASSUME TypeOK, Places, Locking, Stepped, Following, Next, ~Push, ~HookWrite
  PROVE  RoutineSeesHalfFull'
<1> SUFFICES ASSUME pc'["generator"] = "routine",
                    step'["generator"] \in {"unprotect", "stepping"}
             PROVE  word'.half /\ word'.usage \in {Half, 1}
  BY DEF RoutineSeesHalfFull, Half
<1>0. pc["generator"] = "routine" /\ ~IsStore("generator")
  <2>1. pc["generator"] = "routine"
    BY GeneratorMoves, DriverMoves, Leaves DEF Next
  <2>2. QED
    BY <2>1 DEF IsStore
<1>1. CASE Accesses("generator")
  <2>1. "generator" \in Threads /\ step \in [Threads -> Steps]
    BY Together DEF TypeOK, Steps
  <2>2. HookRead("generator") \/ Unprotect("generator")
    <3>1. ~PassThrough("generator") /\ ~Restore("generator")
      BY <1>0, <2>1, AccessPlaces DEF PassThrough, Restore, TypeOK
    <3>2. ~Fault("generator") /\ ~Retry("generator")
      BY <1>0, <2>1 DEF Fault, Retry, Stepping
    <3>3. QED
      BY <1>1, <3>1, <3>2 DEF Accesses
  <2>3. CASE HookRead("generator")
    <3>1. word' = shadowStatus /\ Len(fifo) = Half
      BY <1>0, <2>3 DEF HookRead, Following, InRoutine
    <3>2. shadowStatus.usage = Half /\ shadowStatus.half = (Len(fifo) >= Half)
      BY <3>1 DEF Following, StatusTracksFifo
    <3>3. Len(fifo) >= Half
      BY <3>1, Sizes
    <3>4. QED
      BY <3>1, <3>2, <3>3
  <2>4. CASE Unprotect("generator")
    BY <1>0, <2>4
       DEF Unprotect, Stepping, Accessing, Following, RoutineSeesHalfFull
  <2>5. QED
    BY <2>2, <2>3, <2>4
<1>2. CASE Accesses("driver")
  <2>1. step["generator"] = step'["generator"]
    BY <1>2, AccessMoves, Together
  <2>2. word.half /\ word.usage \in {Half, 1}
    BY <1>0, <2>1 DEF Following, RoutineSeesHalfFull
  <2>3. ~HookRead("driver")
    <3>1. owner["memory"] = "generator"
      BY <1>0 DEF Locking, Inside
    <3>2. QED
      BY <3>1 DEF HookRead, CanLock, Free
  <2>4. word' \in {word, [word EXCEPT !.usage = 1]}
    BY <1>2, <2>3 DEF Accesses, PassThrough, Fault, Unprotect, Retry, Restore,
                      Access
  <2>5. word \in Statuses
    BY DEF TypeOK
  <2>6. QED
    BY <2>2, <2>4, <2>5 DEF Statuses
<1>3. CASE \A t \in Threads : ~Accesses(t)
  <2>1. UNCHANGED engine /\ UNCHANGED word
    BY <1>3, StillEngine, Changes
  <2>2. QED
    BY <1>0, <2>1 DEF engine, Following, RoutineSeesHalfFull
<1>4. QED
  BY <1>1, <1>2, <1>3, Together

\* Everything that moves the FIFO or its bits does so under the memory lock,
\* so that the routine finds what it was called for.
LEMMA FollowingNext ==
  ASSUME TypeOK, Places, Locking, Stepped, Following, [Next]_vars
  PROVE  Following'
<1>1. CASE UNCHANGED vars
  BY <1>1
     DEF vars, data, engine, device, Following, StatusTracksFifo, HasRoom,
         InRoutine, RoutineSeesHalfFull, Half
<1>2. CASE Push
  <2>1. /\ StatusTracksFifo' /\ Len(fifo') <= FifoMaxSize
        /\ pc'["generator"] \in {"routine", "unlock"}
        /\ pc'["generator"] = "routine" => Len(fifo') = Half
    BY <1>2, Pushes DEF StatusTracksFifo, Half
  <2>2. step["generator"] = "none" /\ UNCHANGED engine
    BY <1>2, Together, AccessPlaces DEF Push, Goto, Stepped
  <2>3. QED
    BY <2>1, <2>2
       DEF engine, Following, InRoutine, RoutineSeesHalfFull, Half
<1>3. CASE HookWrite
  <2>1. StatusTracksFifo' /\ Len(fifo') <= FifoMaxSize
    <3>1. CASE UNCHANGED device
      BY <3>1 DEF device, Following, StatusTracksFifo, Half
    <3>2. CASE ~UNCHANGED device
      <4>1. /\ Len(fifo) \in Nat \ {0} /\ Len(fifo') = Len(fifo) - 1
            /\ shadowStatus'.usage = Len(fifo')
            /\ shadowStatus'.half = (Len(fifo') >= Half)
        BY <1>3, <3>2, Pops
      <4>2. StatusTracksFifo'
        BY <4>1 DEF StatusTracksFifo, Half
      <4>3. Len(fifo) <= FifoMaxSize
        BY DEF Following
      <4>4. QED
        BY <4>1, <4>2, <4>3, Sizes
    <3>3. QED
      BY <3>1, <3>2
  <2>2. pc'["generator"] \notin Inside
    BY <1>3, Pops
  <2>3. QED
    BY <2>1, <2>2 DEF Following, InRoutine, RoutineSeesHalfFull, Inside
<1>4. CASE Next /\ ~Push /\ ~HookWrite
  <2>1. UNCHANGED device
    BY <1>4, Changes
  <2>2. StatusTracksFifo' /\ Len(fifo') <= FifoMaxSize
    BY <2>1 DEF device, Following, StatusTracksFifo, Half
  <2>3. /\ InRoutine' => InRoutine
        /\ pc'["generator"] = "push"
             => pc["generator"] \in {"push", "printGenerated"}
    BY <1>4, GeneratorMoves, DriverMoves, Leaves DEF Next, InRoutine
  <2>4. pc'["generator"] = "printGenerated" => HasRoom
    <3>1. CASE AcquireMemoryLock
      BY <3>1, Together DEF AcquireMemoryLock, Goto, TypeOK
    <3>2. CASE ~AcquireMemoryLock
      <4>1. pc'["generator"] = "printGenerated"
              => pc["generator"] = "printGenerated"
        BY <1>4, <3>2, GeneratorMoves, DriverMoves, Leaves DEF Next
      <4>2. QED
        BY <4>1 DEF Following
    <3>3. QED
      BY <3>1, <3>2
  <2>5. RoutineSeesHalfFull'
    BY <1>4, LoadNext
  <2>6. QED
    BY <2>1, <2>2, <2>3, <2>4, <2>5 DEF device, Following, Half, HasRoom
<1>5. QED
  BY <1>1, <1>2, <1>3, <1>4

-----------------------------------------------------------------------------
(***************************************************************************)
(* The interrupt: the routine is left by what tells the driver, and        *)
(* entered by a push.                                                      *)
(***************************************************************************)
LEMMA InterruptingNext ==
  ASSUME TypeOK, Places, Locking, Stepped, Following, Interrupting,
         [Next]_vars
  PROVE  Interrupting'
<1>1. CASE UNCHANGED vars
  BY <1>1 DEF vars, data, device, program, history, Interrupting, InRoutine,
              Half
<1>2. CASE Push
  <2>1. /\ UNCHANGED <<connected, late, interruptHandled>>
        /\ pc'["driver"] = pc["driver"] /\ ~InRoutine
        /\ Len(fifo) \in Nat /\ Len(fifo') = Len(fifo) + 1
        /\ connected /\ Len(fifo') = Half => InRoutine'
    BY <1>2, Pushes DEF Push, program, history, InRoutine
  <2>2. Len(fifo') >= Half /\ Len(fifo') # Half => Len(fifo) >= Half
    BY <2>1, Sizes
  <2>3. pc["driver"] \in Waiting => connected
    BY DEF Interrupting, Waiting
  <2>4. QED
    BY <2>1, <2>2, <2>3 DEF Interrupting, Half
<1>3. CASE HookWrite
  <2>1. pc["driver"] = "next" /\ UNCHANGED <<pc, connected>>
    BY <1>3, Pops DEF HookWrite, program
  <2>2. QED
    BY <2>1 DEF Interrupting, Waiting
<1>4. CASE ConnectInterruptHandler
  <2>1. pc'["driver"] = "status" /\ connected' = TRUE
        /\ late' = (Len(fifo) >= Half) /\ UNCHANGED fifo
    BY <1>4, Together DEF ConnectInterruptHandler, Goto, TypeOK, device
  <2>2. QED
    BY <2>1 DEF Interrupting, Half
<1>5. CASE SetInterruptHandled
  <2>1. interruptHandled' = TRUE /\ UNCHANGED connected
    BY <1>5 DEF SetInterruptHandled
  <2>2. pc'["driver"] = pc["driver"]
    BY <1>5, Together DEF SetInterruptHandled, Goto, TypeOK
  <2>3. QED
    BY <2>1, <2>2 DEF Interrupting
<1>6. CASE Exchange
  <2>1. /\ pc["driver"] = "exchange"
        /\ pc'["driver"] \in {"before", "printTimeout"}
        /\ UNCHANGED connected
    BY <1>6, Together DEF Exchange, Goto, TypeOK
  <2>2. QED
    BY <2>1 DEF Interrupting, Waiting
<1>7. CASE /\ Next /\ ~Push /\ ~HookWrite /\ ~SetInterruptHandled
           /\ ~ConnectInterruptHandler /\ ~Exchange
  <2>1. UNCHANGED <<fifo, connected, late, interruptHandled>>
    BY <1>7, Changes DEF device
  <2>2. CASE Generator
    <3>1. pc'["driver"] = pc["driver"] /\ (InRoutine => InRoutine')
      BY <1>7, <2>2, GeneratorMoves, Leaves DEF InRoutine
    <3>2. QED
      BY <2>1, <3>1 DEF Interrupting, Half
  <2>3. CASE Driver
    <3>1. pc'["generator"] = pc["generator"]
      BY <2>3, DriverMoves
    <3>2. pc["driver"] = "connect" => pc'["driver"] = "connect"
      BY <1>7, Leaves
    <3>3. /\ pc'["driver"] = "connect" => pc["driver"] = "connect"
          /\ pc'["driver"] \in Waiting
               => pc["driver"] \in Waiting \cup {"connect"}
      BY <2>3, DriverMoves DEF Waiting
    <3>4. pc'["driver"] \in Waiting => pc["driver"] \in Waiting
      BY <3>2, <3>3 DEF Waiting
    <3>5. QED
      BY <2>1, <3>1, <3>2, <3>3, <3>4 DEF Interrupting, InRoutine, Half
  <2>4. QED
    BY <1>7, <2>2, <2>3 DEF Next
<1>8. QED
  BY <1>1, <1>2, <1>3, <1>4, <1>5, <1>6, <1>7

-----------------------------------------------------------------------------
(***************************************************************************)
(* What the driver has seen.                                               *)
(***************************************************************************)
\* A load finds the bit its hook copied, or that of the other thread's load
\* whose mapping it passes through.
LEMMA LoadCopied ==
  ASSUME TypeOK, Places, Stepped, Seen,
         PassThrough("driver") \/ Retry("driver"), pc["driver"] = "check"
  PROVE  sawEmpty' = word.empty /\ (word.empty <=> shadowStatus.empty)
<1>1. sawEmpty' = word.empty
  BY DEF PassThrough, Retry, Access
<1>2. Copied
  <2>1. CASE PassThrough("driver")
    <3>1. /\ step["driver"] = "none"
          /\ \E t \in Threads : step[t] \in {"stepping", "hookWrite", "close"}
      BY <2>1 DEF PassThrough, Accessing, Stepped
    <3>2. step["generator"] \in {"stepping", "hookWrite", "close"}
      BY <3>1, Together
    <3>3. step["generator"] # "hookWrite"
      BY Together DEF Stepped, IsStore, Places, Inside
    <3>4. QED
      BY <3>2, <3>3 DEF Copied
  <2>2. CASE Retry("driver")
    BY <2>2 DEF Retry, Stepping, Accessing, Copied
  <2>3. QED
    BY <2>1, <2>2
<1>3. QED
  BY <1>1, <1>2 DEF Seen

\* The steps of an access keep what Seen says of the word ...
LEMMA CopiedNext ==
  ASSUME TypeOK, Places, Locking, Stepped, Following, Seen,
         NEW t \in Threads, Accesses(t)
  PROVE  /\ Copied' => (word'.empty <=> shadowStatus'.empty)
         /\ step'["driver"] = "hookWrite" => word'.usage # 0
<1>1. /\ shadowStatus' = shadowStatus /\ step \in [Threads -> Steps]
      /\ word \in Statuses
      /\ \A u \in Threads \ {t} : pc'[u] = pc[u] /\ step'[u] = step[u]
  BY AccessMoves DEF device, TypeOK, Steps, Moves
<1>2. pc["generator"] # "next" /\ pc["generator"] # "check"
  BY DEF Places, Inside
<1>3. CASE HookRead(t) /\ pc[t] \in {"status", "check", "routine"}
  <2>1. word' = shadowStatus
    BY <1>3 DEF HookRead
  <2>2. step'["driver"] # "hookWrite" \/ t = "generator"
    BY <1>1, <1>3, Together DEF HookRead, Stepping
  <2>3. t = "generator" => shadowStatus.usage = Half
    BY <1>3, AccessPlaces
       DEF Following, StatusTracksFifo, InRoutine, Places, Inside
  <2>4. QED
    BY <1>1, <2>1, <2>2, <2>3, Sizes
<1>4. CASE ~(HookRead(t) /\ pc[t] \in {"status", "check", "routine"})
  <2>1. word' = word \/ word' = [word EXCEPT !.usage = 1]
    BY <1>4 DEF Accesses, PassThrough, Fault, HookRead, Unprotect, Retry,
                Restore, Access
  <2>2. word'.empty = word.empty
    BY <1>1, <2>1 DEF Statuses
  <2>3. Copied' => Copied
    <3>1. CASE t = "generator"
      <4>1. pc[t] = "routine" /\ pc'["driver"] = pc["driver"]
            /\ step'["driver"] = step["driver"]
        BY <1>1, <3>1, AccessMoves, AccessPlaces, Together DEF Places, Inside
      <4>2. step'[t] \in {"unprotect", "stepping", "close"}
              => step[t] \in {"unprotect", "stepping", "close"}
        BY <1>1, <1>4, <4>1
           DEF Accesses, PassThrough, Fault, HookRead, Unprotect, Retry,
               Restore, Stepping, Accessing, IsStore
      <4>3. QED
        BY <3>1, <4>1, <4>2 DEF Copied
    <3>2. CASE t = "driver"
      <4>1. step'["generator"] = step["generator"]
        BY <1>1, <3>2, Together
      <4>2. ASSUME pc'[t] = "check", step'[t] \in {"unprotect", "stepping"}
            PROVE  pc[t] = "check" /\ step[t] \in {"unprotect", "stepping"}
        <5>1. pc[t] = "check"
          BY <3>2, <4>2, AccessMoves, AccessPlaces DEF Moves
        <5>2. ~Fault(t) /\ ~HookRead(t)
          BY <1>1, <1>4, <4>2, <5>1 DEF Fault, Stepping, IsStore
        <5>3. QED
          BY <1>1, <4>2, <5>1, <5>2
             DEF Accesses, PassThrough, Unprotect, Retry, Restore, Stepping,
                 Accessing
      <4>3. QED
        BY <3>2, <4>1, <4>2 DEF Copied
    <3>3. QED
      BY <3>1, <3>2, Together
  <2>4. step'["driver"] = "hookWrite" => word'.usage # 0
    <3>1. CASE Retry(t) /\ IsStore(t)
      BY <1>1, <3>1 DEF Retry, Access, Statuses
    <3>2. CASE ~(Retry(t) /\ IsStore(t))
      <4>1. step'["driver"] = "hookWrite" => step["driver"] = "hookWrite"
        BY <1>1, <3>2, Together
           DEF Accesses, PassThrough, Fault, HookRead, Unprotect, Retry,
               Restore, Stepping, Accessing
      <4>2. word.usage # 0 => word'.usage # 0
        BY <1>1, <2>1 DEF Statuses
      <4>3. QED
        BY <4>1, <4>2 DEF Seen
    <3>3. QED
      BY <3>1, <3>2
  <2>5. QED
    BY <1>1, <2>2, <2>3, <2>4 DEF Seen
<1>5. QED
  BY <1>3, <1>4

\* ... and of what the driver has read from it.
LEMMA LookedNext ==
  ASSUME TypeOK, Places, Stepped, Seen, NEW t \in Threads, Accesses(t)
  PROVE  Looked' /\ ~sawEmpty' => ~shadowStatus'.empty
<1>1. /\ shadowStatus' = shadowStatus /\ step \in [Threads -> Steps]
      /\ \A u \in Threads \ {t} : pc'[u] = pc[u] /\ step'[u] = step[u]
  BY AccessMoves DEF device, TypeOK, Steps, Moves
<1>2. CASE t = "generator"
  <2>1. sawEmpty' = sawEmpty
    BY <1>2 DEF Places, Inside, Accesses, PassThrough, Fault, HookRead,
                Unprotect, Retry, Restore, Access, history
  <2>2. Looked' => Looked
    BY <1>1, <1>2, Together DEF Looked
  <2>3. QED
    BY <1>1, <2>1, <2>2 DEF Seen
<1>3. CASE t = "driver" /\ pc[t] = "check" /\ (PassThrough(t) \/ Retry(t))
  BY <1>1, <1>3, LoadCopied
<1>4. CASE t = "driver" /\ ~(pc[t] = "check" /\ (PassThrough(t) \/ Retry(t)))
  <2>1. sawEmpty' = sawEmpty
    BY <1>4 DEF Accesses, PassThrough, Fault, HookRead, Unprotect, Retry,
                Restore, Access, history
  <2>2. Looked' => Looked
    <3>1. CASE UNCHANGED pc
      <4>1. CASE pc[t] = "check"
        <5>1. step'[t] # "close"
          BY <1>1, <1>4, <3>1, <4>1, AccessPlaces
             DEF Accesses, PassThrough, Fault, HookRead, Unprotect, Retry,
                 Restore, Stepping, IsStore, TypeOK
        <5>2. QED
          BY <1>4, <3>1, <4>1, <5>1 DEF Looked
      <4>2. CASE pc[t] = "next"
        <5>1. step[t] # "close"
          BY <1>1, <1>4, <3>1, <4>2, AccessPlaces
             DEF Accesses, PassThrough, Fault, HookRead, Unprotect, Retry,
                 Restore, Stepping, Accessing, TypeOK
        <5>2. QED
          BY <1>4, <4>2, <5>1 DEF Looked
      <4>3. CASE pc[t] \notin {"check", "next"}
        BY <1>4, <3>1, <4>3, AccessMoves, AccessPlaces DEF Looked
      <4>4. QED
        BY <4>1, <4>2, <4>3
    <3>2. CASE ~UNCHANGED pc
      <4>1. Restore(t) \/ PassThrough(t)
        BY <3>2 DEF Accesses, Fault, HookRead, Unprotect, Retry
      <4>2. pc'[t] = AfterAccess[pc[t]] /\ pc[t] \in DOMAIN AfterAccess
        BY <3>2, AccessMoves DEF Moves
      <4>3. pc[t] = "check" => step[t] = "close"
        BY <1>4, <4>1 DEF Restore, Stepping, Accessing
      <4>4. QED
        BY <1>4, <4>2, <4>3, AccessPlaces DEF Looked
    <3>3. QED
      BY <3>1, <3>2
  <2>3. QED
    BY <1>1, <2>1, <2>2 DEF Seen
<1>5. QED
  BY <1>2, <1>3, <1>4, Together

LEMMA SeenNext ==
  ASSUME TypeOK, Places, Locking, Stepped, Following, Seen, [Next]_vars
  PROVE  Seen'
<1>0. /\ fifo \in Seq(0 .. MaxCounter - 1) /\ word \in Statuses
      /\ "generator" \in Threads /\ "driver" \in Threads
  BY Together DEF TypeOK
<1>1. CASE UNCHANGED vars
  BY <1>1 DEF vars, data, engine, device, history, Seen, Copied, Looked,
              NoRecord
<1>2. CASE Push
  <2>1. /\ fifo' # <<>> /\ shadowStatus'.empty = shadowStatus.empty
        /\ UNCHANGED <<word, sawEmpty, step>>
        /\ pc'["driver"] = pc["driver"]
    BY <1>0, <1>2, Pushes DEF Push, history, engine
  <2>2. QED
    BY <2>1 DEF Seen, Copied, Looked
<1>3. CASE HookWrite
  <2>1. /\ pc["driver"] = "next" /\ step'["driver"] = "close"
        /\ UNCHANGED <<pc, interrupted>>
    BY <1>3, Pops DEF HookWrite, history
  <2>2. step'["generator"] = "none"
    <3>1. /\ pc["generator"] \notin Inside
          /\ pc["generator"] \notin DOMAIN AfterAccess
      BY <1>3, Pops, AccessPlaces DEF Places, Inside
    <3>2. step["generator"] = "none"
      BY <1>0, <3>1 DEF Stepped
    <3>3. QED
      BY <1>0, <1>3, <3>2 DEF HookWrite, Stepping, TypeOK
  <2>3. ~Copied' /\ ~Looked' /\ step'["driver"] # "hookWrite"
    BY <2>1, <2>2 DEF Copied, Looked
  <2>4. CASE UNCHANGED device
    BY <2>1, <2>3, <2>4 DEF Seen, device, NoRecord
  <2>5. CASE ~UNCHANGED device
    <3>1. /\ fifo # <<>> /\ shadowRecord' = fifo[1]
          /\ shadowStatus'.empty = (Len(fifo') = 0)
      BY <1>3, <2>5, Pops
    <3>2. fifo[1] # NoRecord
      BY <1>0, <3>1, FifoAssumption DEF NoRecord
    <3>3. Len(fifo') # 0 => fifo' # <<>>
      OBVIOUS
    <3>4. QED
      BY <2>3, <3>1, <3>2, <3>3 DEF Seen, NoRecord
  <2>6. QED
    BY <2>4, <2>5
<1>4. CASE \E t \in Threads : Accesses(t)
  <2>1. PICK t \in Threads : Accesses(t)
    BY <1>4
  <2>2. UNCHANGED <<device, interrupted>>
    BY <2>1, AccessMoves
  <2>3. QED
    BY <2>1, <2>2, CopiedNext, LookedNext DEF Seen, device, NoRecord
<1>5. CASE /\ Next /\ ~Push /\ ~HookWrite
           /\ \A t \in Threads : ~Accesses(t)
  <2>1. UNCHANGED <<device, word, sawEmpty, engine>>
    BY <1>5, Changes, StillEngine
  <2>2. interrupted' => interrupted \/ fifo # <<>>
    <3>1. CASE SetInterruptHandled
      <4>1. Len(fifo) = Half
        BY <3>1 DEF SetInterruptHandled, Goto, Following, InRoutine
      <4>2. QED
        BY <4>1, Sizes
    <3>2. CASE ~SetInterruptHandled
      BY <1>5, <3>2, Changes
    <3>3. QED
      BY <3>1, <3>2
  <2>3. \A t \in Threads : pc'[t] # pc[t] => pc[t] \notin DOMAIN AfterAccess
    BY <1>5, StillEngine
  <2>4. Copied' => Copied
    BY <1>0, <2>1, <2>3 DEF engine, Copied, Stepped
  <2>5. Looked' => Looked
    <3>1. CASE pc'["driver"] = pc["driver"]
      BY <2>1, <3>1 DEF engine, Looked
    <3>2. CASE pc'["driver"] # pc["driver"]
      <4>1. Driver /\ pc["driver"] # "check" /\ step["driver"] = "none"
        BY <1>0, <1>5, <2>3, <3>2, GeneratorMoves, AccessPlaces
           DEF Next, Stepped
      <4>2. QED
        BY <2>1, <3>2, <4>1, DriverMoves DEF engine, Looked
    <3>3. QED
      BY <3>1, <3>2
  <2>6. QED
    BY <2>1, <2>2, <2>4, <2>5 DEF Seen, device, engine, NoRecord
<1>6. QED
  BY <1>1, <1>2, <1>3, <1>4, <1>5

-----------------------------------------------------------------------------
(***************************************************************************)
(* The numbers of the records.                                             *)
(***************************************************************************)
\* The parts of Numbered: the places at which a number is left, and the
\* numbers themselves.
Bounded ==
  pc["generator"] \in Inside \cup {"lock"} => counter < MaxCounter

Ordered(first, end, seq, missing) ==
  /\ first <= end
  /\ \A j, k \in DOMAIN seq : j < k => seq[j] < seq[k]
  /\ \A k \in DOMAIN seq : first <= seq[k] /\ seq[k] < end
  /\ \A n \in first .. end - 1 :
       n \in missing \/ \E k \in DOMAIN seq : seq[k] = n

LEMMA NumberedInParts ==
  /\ Numbered <=> Bounded /\ Ordered(First, End, fifo, dropped)
  /\ Numbered' <=> Bounded' /\ Ordered(First', End', fifo', dropped')
BY DEF Numbered, Bounded, Ordered

LEMMA Numbers ==
  ASSUME TypeOK
  PROVE  First \in Nat /\ counter \in Nat
BY FifoAssumption DEF TypeOK, First

LEMMA BoundedNext ==
  ASSUME TypeOK, Places, Bounded, [Next]_vars
  PROVE  Bounded'
<1>1. CASE UNCHANGED vars
  BY <1>1 DEF vars, data, thread, Bounded
<1>2. CASE TestStop
  <2>1. /\ counter < MaxCounter \/ stopTmGenerator
        /\ pc'["generator"] = IF stopTmGenerator THEN "exited" ELSE "lock"
        /\ UNCHANGED counter
    BY <1>2, Together DEF TestStop, Goto, TypeOK, data, thread
  <2>2. QED
    BY <2>1 DEF Bounded, Inside
<1>3. CASE ReleaseMemoryLock
  BY <1>3, Together DEF ReleaseMemoryLock, Goto, TypeOK, Bounded, Inside
<1>4. CASE Next /\ ~TestStop /\ ~ReleaseMemoryLock
  <2>1. UNCHANGED counter
    BY <1>4, Changes
  <2>2. pc["generator"] # "while" \/ pc'["generator"] = "while"
    BY <1>4, Leaves
  <2>3. QED
    BY <1>4, <2>1, <2>2, GeneratorMoves, DriverMoves DEF Next, Bounded, Inside
<1>5. QED
  BY <1>1, <1>2, <1>3, <1>4

\* The end moves when a number is pushed or dropped.
LEMMA EndNext ==
  ASSUME TypeOK, Places, Locking, Stepped, Following, [Next]_vars
  PROVE  \/ End' = End /\ UNCHANGED dropped /\ ~Push
         \/ End = counter /\ End' = counter + 1 /\ UNCHANGED dropped /\ Push
         \/ /\ End = counter /\ End' = counter + 1
            /\ dropped' = dropped \cup {counter} /\ UNCHANGED device
<1>1. CASE UNCHANGED vars
  BY <1>1, Sizes
     DEF vars, data, device, history, thread, End, Push, Goto, Inside
<1>2. CASE Push
  <2>1. /\ pc["generator"] = "push"
        /\ pc'["generator"] \in {"routine", "unlock"}
        /\ UNCHANGED <<counter, dropped>>
    BY <1>2, Pushes DEF Push, thread, history
  <2>2. QED
    BY <1>2, <2>1 DEF End, Inside
<1>3. CASE AcquireMemoryLock
  <2>1. /\ pc["generator"] = "lock" /\ UNCHANGED <<device, counter>>
        /\ pc'["generator"] = IF HasRoom THEN "printGenerated" ELSE "unlock"
        /\ dropped' = IF HasRoom THEN dropped ELSE dropped \cup {counter}
    BY <1>3, Together DEF AcquireMemoryLock, Goto, TypeOK, thread
  <2>2. ~Push
    BY <2>1 DEF Push, Goto
  <2>3. CASE HasRoom
    BY <2>1, <2>2, <2>3 DEF End, Inside
  <2>4. CASE ~HasRoom
    BY <2>1, <2>4 DEF End, Inside
  <2>5. QED
    BY <2>3, <2>4
<1>4. CASE ReleaseMemoryLock
  <2>1. /\ pc["generator"] = "unlock" /\ pc'["generator"] = "while"
        /\ counter' = counter + 1 /\ UNCHANGED dropped
    BY <1>4, Together DEF ReleaseMemoryLock, Goto, TypeOK, history
  <2>2. QED
    BY <2>1 DEF End, Inside, Push, Goto
<1>5. CASE Next /\ ~Push /\ ~AcquireMemoryLock /\ ~ReleaseMemoryLock
  <2>1. UNCHANGED <<counter, dropped>>
    BY <1>5, Changes
  <2>2. \/ pc'["generator"] = pc["generator"]
        \/ <<pc["generator"], pc'["generator"]>> \in
             {<<"while", "lock">>, <<"while", "exited">>,
              <<"printGenerated", "push">>, <<"routine", "handled">>,
              <<"handled", "printRoutine">>, <<"printRoutine", "unlock">>}
    BY <1>5, Leaves, GeneratorMoves, DriverMoves DEF Next
  <2>3. QED
    BY <1>5, <2>1, <2>2 DEF End, Inside
<1>6. QED
  BY <1>1, <1>2, <1>3, <1>4, <1>5

\* Order is kept by each of the three: a push, a drop and a pop.
LEMMA OrderedPush ==
  ASSUME NEW first \in Nat, NEW end \in Nat, NEW missing,
         NEW seq \in Seq(Nat), NEW longer \in Seq(Nat),
         Ordered(first, end, seq, missing),
         Len(longer) = Len(seq) + 1, longer[Len(seq) + 1] = end,
         \A k \in 1 .. Len(seq) : longer[k] = seq[k]
  PROVE  Ordered(first, end + 1, longer, missing)
<1>1. /\ DOMAIN seq = 1 .. Len(seq) /\ Len(seq) \in Nat
      /\ DOMAIN longer = 1 .. Len(seq) + 1
      /\ \A k \in 1 .. Len(seq) : seq[k] \in Nat
  OBVIOUS
<1>2. \A j, k \in DOMAIN longer : j < k => longer[j] < longer[k]
  <2> SUFFICES ASSUME NEW j \in DOMAIN longer, NEW k \in DOMAIN longer, j < k
               PROVE  longer[j] < longer[k]
    OBVIOUS
  <2>1. j \in 1 .. Len(seq) /\ longer[j] = seq[j] /\ seq[j] < end
    BY <1>1 DEF Ordered
  <2>2. CASE k \in 1 .. Len(seq)
    BY <1>1, <2>1, <2>2 DEF Ordered
  <2>3. CASE k = Len(seq) + 1
    BY <2>1, <2>3
  <2>4. QED
    BY <1>1, <2>2, <2>3
<1>3. \A k \in DOMAIN longer : first <= longer[k] /\ longer[k] < end + 1
  <2> SUFFICES ASSUME NEW k \in DOMAIN longer
               PROVE  first <= longer[k] /\ longer[k] < end + 1
    OBVIOUS
  <2>1. CASE k \in 1 .. Len(seq)
    BY <1>1, <2>1 DEF Ordered
  <2>2. CASE k = Len(seq) + 1
    BY <2>2 DEF Ordered
  <2>3. QED
    BY <1>1, <2>1, <2>2
<1>4. \A n \in first .. (end + 1) - 1 :
        n \in missing \/ \E k \in DOMAIN longer : longer[k] = n
  <2> SUFFICES ASSUME NEW n \in first .. (end + 1) - 1
               PROVE  n \in missing \/ \E k \in DOMAIN longer : longer[k] = n
    OBVIOUS
  <2>1. CASE n = end
    BY <1>1, <2>1
  <2>2. CASE n \in first .. end - 1
    BY <1>1, <2>2 DEF Ordered
  <2>3. QED
    BY <2>1, <2>2
<1>5. QED
  BY <1>2, <1>3, <1>4 DEF Ordered

LEMMA OrderedDrop ==
  ASSUME NEW first \in Nat, NEW end \in Nat, NEW missing, NEW seq \in Seq(Nat),
         Ordered(first, end, seq, missing)
  PROVE  Ordered(first, end + 1, seq, missing \cup {end})
<1>1. \A n \in first .. (end + 1) - 1 : n = end \/ n \in first .. end - 1
  OBVIOUS
<1>2. \A k \in DOMAIN seq : seq[k] \in Nat
  OBVIOUS
<1>3. QED
  BY <1>1, <1>2 DEF Ordered

LEMMA NextPlace ==
  ASSUME NEW n \in Nat, NEW k \in 1 .. n - 1
  PROVE  /\ k + 1 \in 2 .. n /\ k + 1 \in 1 .. n
         /\ \A j \in 1 .. n - 1 : j < k => j + 1 < k + 1
OBVIOUS

LEMMA OrderedPop ==
  ASSUME NEW first \in Nat, NEW end \in Nat, NEW missing,
         NEW seq \in Seq(Nat), NEW shorter \in Seq(Nat),
         Ordered(first, end, seq, missing),
         Len(seq) \in Nat \ {0}, Len(shorter) = Len(seq) - 1,
         \A k \in 1 .. Len(seq) - 1 : shorter[k] = seq[k + 1]
  PROVE  /\ seq[1] \in Nat /\ first <= seq[1]
         /\ first .. seq[1] - 1 \subseteq missing
         /\ Ordered(seq[1] + 1, end, shorter, missing)
<1>0. PICK N \in Nat \ {0} : N = Len(seq)
  OBVIOUS
<1>1. /\ DOMAIN seq = 1 .. N /\ DOMAIN shorter = 1 .. N - 1
      /\ \A k \in 1 .. N : seq[k] \in Nat
      /\ \A k \in 1 .. N - 1 : shorter[k] = seq[k + 1]
      /\ 1 \in DOMAIN seq
  <2>1. DOMAIN seq = 1 .. N
    BY <1>0
  <2>2. DOMAIN shorter = 1 .. N - 1
    <3>1. DOMAIN shorter = 1 .. Len(shorter)
      OBVIOUS
    <3>2. QED
      BY <1>0, <3>1
  <2>3. \A k \in 1 .. N : seq[k] \in Nat
    BY <1>0
  <2>4. \A k \in 1 .. N - 1 : shorter[k] = seq[k + 1]
    BY <1>0
  <2>5. 1 \in DOMAIN seq
    BY <2>1
  <2>6. QED
    BY <2>1, <2>2, <2>3, <2>4, <2>5
<1>2. seq[1] \in Nat /\ first <= seq[1] /\ seq[1] < end
  BY <1>0, <1>1 DEF Ordered
<1>3. \A k \in 2 .. N : seq[1] < seq[k]
  <2> SUFFICES ASSUME NEW k \in 2 .. N
               PROVE  seq[1] < seq[k]
    OBVIOUS
  <2>1. k \in DOMAIN seq /\ 1 < k
    BY <1>0, <1>1
  <2>2. QED
    BY <1>0, <1>1, <2>1 DEF Ordered
<1>4. first .. seq[1] - 1 \subseteq missing
  <2> SUFFICES ASSUME NEW n \in first .. seq[1] - 1
               PROVE  n \in missing
    OBVIOUS
  <2>1. n \in first .. end - 1 /\ n < seq[1]
    BY <1>2
  <2>2. ASSUME NEW k \in DOMAIN seq
        PROVE  seq[k] # n
    <3>1. k = 1 \/ k \in 2 .. N
      BY <1>0, <1>1
    <3>2. QED
      BY <1>0, <1>1, <1>2, <1>3, <2>1, <3>1
  <2>3. QED
    BY <2>1, <2>2 DEF Ordered
<1>5. \A j, k \in DOMAIN shorter : j < k => shorter[j] < shorter[k]
  <2> SUFFICES ASSUME NEW j \in DOMAIN shorter, NEW k \in DOMAIN shorter,
                      j < k
               PROVE  shorter[j] < shorter[k]
    OBVIOUS
  <2>1. j \in 1 .. N - 1 /\ k \in 1 .. N - 1
    BY <1>1
  <2>2. /\ j + 1 \in 1 .. N /\ k + 1 \in 1 .. N /\ j + 1 < k + 1
    BY <1>0, <2>1, NextPlace
  <2>3. seq[j + 1] < seq[k + 1]
    BY <1>1, <2>2 DEF Ordered
  <2>4. QED
    BY <1>1, <2>1, <2>3
<1>6. \A k \in DOMAIN shorter : seq[1] + 1 <= shorter[k] /\ shorter[k] < end
  <2> SUFFICES ASSUME NEW k \in DOMAIN shorter
               PROVE  seq[1] + 1 <= shorter[k] /\ shorter[k] < end
    OBVIOUS
  <2>1. k \in 1 .. N - 1
    BY <1>1
  <2>2. k + 1 \in 2 .. N /\ k + 1 \in 1 .. N
    BY <1>0, <2>1, NextPlace
  <2>3. seq[k + 1] \in Nat /\ seq[1] < seq[k + 1] /\ seq[k + 1] < end
    BY <1>1, <1>3, <2>2 DEF Ordered
  <2>4. shorter[k] = seq[k + 1]
    BY <1>1, <2>1
  <2>5. QED
    BY <1>2, <2>3, <2>4
<1>7. \A n \in seq[1] + 1 .. end - 1 :
        n \in missing \/ \E k \in DOMAIN shorter : shorter[k] = n
  <2> SUFFICES ASSUME NEW n \in seq[1] + 1 .. end - 1, n \notin missing
               PROVE  \E k \in DOMAIN shorter : shorter[k] = n
    OBVIOUS
  <2>1. n \in first .. end - 1 /\ n # seq[1]
    BY <1>2
  <2>2. PICK k \in DOMAIN seq : seq[k] = n
    BY <2>1 DEF Ordered
  <2>3. k # 1
    BY <2>1, <2>2
  <2>4. PICK j \in 1 .. N - 1 : k = j + 1
    <3>1. k \in 1 .. N
      BY <1>1
    <3>2. k - 1 \in 1 .. N - 1 /\ k = (k - 1) + 1
      BY <1>0, <2>3, <3>1
    <3>3. QED
      BY <3>2
  <2>5. j \in DOMAIN shorter /\ shorter[j] = n
    BY <1>1, <2>2, <2>4
  <2>6. QED
    BY <2>5
<1>8. seq[1] + 1 <= end
  BY <1>2
<1>9. QED
  BY <1>2, <1>4, <1>5, <1>6, <1>7, <1>8 DEF Ordered

\* A latch takes the first number that is left, and none but dropped numbers
\* come before it.
LEMMA LatchesInOrder ==
  ASSUME TypeOK, Locking, Stepped, Numbered, TypeOK', HookWrite,
         ~UNCHANGED device
  PROVE  /\ shadowRecord' = fifo[1] /\ fifo[1] # NoRecord
         /\ First \in Nat /\ fifo[1] \in Nat /\ First <= fifo[1]
         /\ First .. fifo[1] - 1 \subseteq dropped
         /\ Ordered(fifo[1] + 1, End, fifo', dropped)
<1>1. /\ Len(fifo) \in Nat \ {0} /\ Len(fifo') = Len(fifo) - 1
      /\ shadowRecord' = fifo[1]
      /\ \A k \in 1 .. Len(fifo) - 1 : fifo'[k] = fifo[k + 1]
  BY Pops
<1>2. /\ fifo \in Seq(0 .. MaxCounter - 1)
      /\ fifo' \in Seq(0 .. MaxCounter - 1)
  BY DEF TypeOK
<1>3. fifo \in Seq(Nat) /\ fifo' \in Seq(Nat) /\ fifo[1] # NoRecord
  BY <1>1, <1>2, FifoAssumption DEF NoRecord
<1>4. First \in Nat /\ End \in Nat
  BY Numbers DEF End
<1>5. Ordered(First, End, fifo, dropped)
  BY NumberedInParts
<1>6. QED
  BY <1>1, <1>3, <1>4, <1>5, OrderedPop

LEMMA NumberedNext ==
  ASSUME TypeOK, Places, Locking, Stepped, Following, Numbered, TypeOK', [Next]_vars
  PROVE  Numbered'
<1>1. Bounded /\ Ordered(First, End, fifo, dropped)
  BY NumberedInParts
<1>2. Bounded'
  BY <1>1, BoundedNext
<1>3. First \in Nat /\ End \in Nat /\ counter \in Nat
  BY Numbers DEF End
<1>4. fifo \in Seq(Nat) /\ fifo' \in Seq(Nat)
  <2>1. /\ fifo \in Seq(0 .. MaxCounter - 1)
        /\ fifo' \in Seq(0 .. MaxCounter - 1)
    BY DEF TypeOK
  <2>2. QED
    BY <2>1, FifoAssumption
<1>5. Ordered(First', End', fifo', dropped')
  <2>1. CASE UNCHANGED device
    <3>1. First' = First /\ fifo' = fifo
      BY <2>1 DEF device, First, NoRecord
    <3>2. Ordered(First, End', fifo, dropped')
      <4>1. CASE End' = End /\ UNCHANGED dropped
        BY <1>1, <4>1
      <4>2. CASE /\ End = counter /\ End' = counter + 1
                 /\ dropped' = dropped \cup {counter}
        BY <1>1, <1>3, <1>4, <4>2, OrderedDrop
      <4>3. CASE Push
        BY <1>3, <1>4, <3>1, <4>3, Pushes
      <4>4. QED
        BY <4>1, <4>2, <4>3, EndNext
    <3>3. QED
      BY <3>1, <3>2
  <2>2. CASE Push /\ ~UNCHANGED device
    <3>1. /\ Len(fifo') = Len(fifo) + 1
          /\ fifo'[Len(fifo) + 1] = counter
          /\ \A k \in 1 .. Len(fifo) : fifo'[k] = fifo[k]
      BY <2>2, Pushes
    <3>2. First' = First
      BY <2>2 DEF Push, First, NoRecord
    <3>3. End = counter /\ End' = counter + 1 /\ UNCHANGED dropped
      BY <2>2, EndNext
    <3>4. Ordered(First, End + 1, fifo', dropped)
      BY <1>1, <1>3, <1>4, <3>1, <3>3, OrderedPush
    <3>5. QED
      BY <3>2, <3>3, <3>4
  <2>3. CASE HookWrite /\ ~UNCHANGED device
    <3>1. /\ shadowRecord' = fifo[1] /\ fifo[1] # NoRecord
          /\ Ordered(fifo[1] + 1, End, fifo', dropped)
      BY <2>3, LatchesInOrder
    <3>2. First' = fifo[1] + 1
      BY <3>1 DEF First, NoRecord
    <3>3. pc["generator"] \notin Inside
      BY <2>3, Pops
    <3>4. End' = End /\ UNCHANGED dropped
      BY <2>3, <3>3, EndNext DEF Push, Goto, Inside
    <3>5. QED
      BY <3>1, <3>2, <3>4
  <2>4. QED
    BY <2>1, <2>2, <2>3, Changes
       DEF vars, data
<1>6. QED
  BY <1>2, <1>5, NumberedInParts

-----------------------------------------------------------------------------
(***************************************************************************)
(* The theorems.                                                           *)
(***************************************************************************)
LEMMA InitTypes == Init => TypeOK
<1> SUFFICES ASSUME Init PROVE TypeOK
  OBVIOUS
<1>1. /\ pc \in [Threads -> Labels]
      /\ owner \in [Mutexes -> Threads \cup {Free}]
      /\ guard \in [Threads -> [next : SUBSET Mutexes, holds : SUBSET Mutexes]]
  BY DEF Init, Threads, Labels, NewGuard
<1>2. shadowStatus \in Statuses
  <2>1. 0 \in 0 .. 2^UsageBits - 1
    BY FifoAssumption
  <2>2. QED
    BY <2>1 DEF Init, Statuses
<1>3. fifo \in Seq(0 .. MaxCounter - 1) /\ Len(fifo) <= FifoMaxSize
  BY Sizes DEF Init
<1>4. /\ shadowRecord \in 0 .. MaxCounter /\ counter \in 0 .. MaxCounter
      /\ left \in 0 .. Records
  BY FifoAssumption DEF Init, NoRecord
<1>5. QED
  BY <1>1, <1>2, <1>3, <1>4, TypesInParts
     DEF Init, TypeOK, Labels

LEMMA InitInv == Init => Inv
<1> SUFFICES ASSUME Init PROVE Inv
  OBVIOUS
<1>1. /\ pc["generator"] = "while" /\ pc["driver"] = "connect"
      /\ fifo = <<>> /\ Len(fifo) = 0 /\ DOMAIN fifo = {}
  BY Together DEF Init
<1>2. Places /\ Locking
  BY <1>1, PrintPlaces DEF Init, Places, Locking, Inside, NewGuard, Threads
<1>0. Stepped
  BY DEF Init, Stepped
<1>3. Following
  <2>1. shadowStatus.usage = 0 /\ shadowStatus.half = FALSE
    BY DEF Init
  <2>2. (Len(fifo) >= Half) = FALSE
    BY <1>1, Sizes
  <2>3. StatusTracksFifo
    BY <1>1, <2>1, <2>2 DEF StatusTracksFifo
  <2>4. QED
    BY <1>1, <2>3, Sizes DEF Following, InRoutine, RoutineSeesHalfFull
<1>4. Interrupting /\ Seen
  BY <1>1, Together DEF Init, Interrupting, Seen, Copied, Looked, Waiting
<1>5. Numbered
  <2>1. First = 0 /\ End = 0
    BY <1>1 DEF Init, First, End, Inside
  <2>2. QED
    BY <1>1, <2>1 DEF Numbered, Inside
<1>6. QED
  BY <1>0, <1>2, <1>3, <1>4, <1>5, InitTypes DEF Inv

LEMMA InvNext == Inv /\ [Next]_vars => Inv'
<1> SUFFICES ASSUME Inv, [Next]_vars PROVE Inv'
  OBVIOUS
<1>1. TypeOK'
  BY TypesNext
<1>2. /\ TypeOK /\ Places /\ Locking /\ Stepped /\ Following /\ Interrupting
      /\ Seen /\ Numbered
  BY DEF Inv
<1>3. Places' /\ Locking' /\ Stepped' /\ Following'
  BY <1>2, PlacesNext, LockingNext, SteppedNext, FollowingNext
<1>4. Interrupting' /\ Seen' /\ Numbered'
  BY <1>1, <1>2, InterruptingNext, SeenNext, NumberedNext
<1>5. QED
  BY <1>1, <1>3, <1>4 DEF Inv

LEMMA InvAlways == Spec => []Inv
<1>1. Init => Inv
  BY InitInv
<1>2. Inv /\ [Next]_vars => Inv'
  BY InvNext
<1>3. QED
  BY <1>1, <1>2, PTL DEF Spec

\* Every variable holds a value of its type, and the FIFO no more than
\* fifoMaxSize records: GenerateTelemetry looks for room and pushes under one
\* lock_guard, although it prints in between.
THEOREM TypeCorrect == Spec => []TypeOK
<1>1. Inv => TypeOK
  BY DEF Inv
<1>2. QED
  BY <1>1, InvAlways, PTL

\* The bits beside the FIFO say what is in it, of a push that computes them
\* one way and of a pop that computes them another; the pop's assignment of
\* half and the push's |= agree because a push never shortens the FIFO.
THEOREM StatusAlwaysTracksFifo == Spec => []StatusTracksFifo
<1>1. Inv => StatusTracksFifo
  BY DEF Inv, Following
<1>2. QED
  BY <1>1, InvAlways, PTL

\* The routine runs with the memory lock its thread has had since before the
\* push, so that what a hook of its load copies is what it was called for, and
\* stays so until the load, although the driver, which takes no lock, may open
\* and close the mapping in between and store to NextRecord: see LoadNext.
\* The theorem is about loads that fault; one that passes through the driver's
\* open mapping has no hook and may find an older word.
THEOREM RoutineAlwaysSeesHalfFull == Spec => []RoutineSeesHalfFull
<1>1. Inv => RoutineSeesHalfFull
  BY DEF Inv, Following
<1>2. QED
  BY <1>1, InvAlways, PTL

\* The driver's time out means what it says: see Interrupting.
THEOREM NoInterruptIsMissed == Spec => TimeoutJustified
<1> DEFINE A == pc["driver"] = "exchange" /\ pc'["driver"] = "printTimeout" =>
                  \/ late \/ Len(fifo) < Half
                  \/ pc["generator"] \in {"routine", "handled"}
<1>1. Inv /\ [Next]_vars => [A]_vars
  <2> SUFFICES ASSUME Inv, Next, pc["driver"] = "exchange",
                      pc'["driver"] = "printTimeout",
                      ~late, ~(Len(fifo) < Half)
               PROVE  InRoutine
    BY DEF InRoutine
  <2>1. Exchange
    BY Leaves DEF Inv
  <2>2. ~interruptHandled
    BY <2>1, Together DEF Exchange, Goto, Inv, TypeOK
  <2>3. Len(fifo) >= Half
    BY Sizes DEF Inv, TypeOK
  <2>4. QED
    BY <2>2, <2>3 DEF Inv, Interrupting, Waiting
<1>2. QED
  BY <1>1, InvAlways, PTL DEF Spec, TimeoutJustified

\* A step of the latch: NextRecord's hook, and no other.
LEMMA LatchStep ==
  ASSUME Inv, Next, Latches
  PROVE  HookWrite
<1>1. TypeOK /\ Places
  BY DEF Inv
<1>2. CASE \E t \in Threads : Accesses(t)
  <2>1. Accesses("driver")
    BY <1>1, <1>2, AccessMoves, Together DEF Latches
  <2>2. QED
    BY <1>1, <2>1, Together
       DEF Latches, Accesses, PassThrough, Fault, HookRead, Unprotect, Retry,
           Restore, Stepping, Accessing, TypeOK
<1>3. CASE ~HookWrite /\ \A t \in Threads : ~Accesses(t)
  BY <1>1, <1>3, StillEngine DEF Latches, engine
<1>4. QED
  BY <1>2, <1>3

\* What the driver concludes from StatusFifoEmpty is still so when its store
\* to NextRecord is handled: only its own latches take records, whether its
\* load had a hook or passed through the mapping of the routine's, and the
\* word it stored to is not 0 again, because a hook of the routine's load
\* copies the usage of a FIFO that is half full: see LoadCopied.  The theorem
\* is about stores that fault; one that passes through the routine's open
\* mapping latches nothing.
THEOREM LatchedRecordsAreFresh == Spec => FreshRecord
<1> DEFINE A == Latches /\ ~sawEmpty /\ (interrupted \/ shadowRecord # NoRecord)
                  => fifo # <<>> /\ shadowRecord' = Head(fifo)
<1>1. Inv /\ [Next]_vars => [A]_vars
  <2> SUFFICES ASSUME Inv, Next, Latches, ~sawEmpty,
                      interrupted \/ shadowRecord # NoRecord
               PROVE  fifo # <<>> /\ shadowRecord' = Head(fifo)
    OBVIOUS
  <2>1. HookWrite
    BY LatchStep
  <2>2. step["driver"] = "hookWrite" /\ pc["driver"] = "next"
    BY <2>1, Pops DEF Inv
  <2>3. word.usage # 0 /\ ~shadowStatus.empty
    BY <2>2 DEF Inv, Seen, Looked
  <2>4. fifo # <<>>
    BY <2>3 DEF Inv, Seen
  <2>5. QED
    BY <2>1, <2>3, <2>4 DEF HookWrite, Latch
<1>2. QED
  BY <1>1, InvAlways, PTL DEF Spec, FreshRecord

\* Numbers reach the driver in order, and those it does not see were dropped
\* by a generator that found the FIFO full: see Numbered.
THEOREM RecordsAreConsecutive == Spec => RecordsConsecutive
<1> DEFINE A == shadowRecord' # shadowRecord =>
                  LET last == IF shadowRecord = NoRecord THEN 0
                              ELSE shadowRecord + 1
                  IN  /\ shadowRecord' >= last
                      /\ last .. shadowRecord' - 1 \subseteq dropped
<1>1. Inv /\ [Next]_vars => [A]_vars
  <2> SUFFICES ASSUME Inv, Next, shadowRecord' # shadowRecord
               PROVE  /\ shadowRecord' >= First
                      /\ First .. shadowRecord' - 1 \subseteq dropped
    BY DEF First
  <2>1. HookWrite /\ ~UNCHANGED device
    BY Changes DEF Inv, device, Push
  <2>2. TypeOK'
    BY TypesNext
  <2>3. /\ shadowRecord' = fifo[1]
        /\ First \in Nat /\ fifo[1] \in Nat /\ First <= fifo[1]
        /\ First .. fifo[1] - 1 \subseteq dropped
    BY <2>1, <2>2, LatchesInOrder DEF Inv
  <2>4. QED
    BY <2>3
<1>2. QED
  BY <1>1, InvAlways, PTL DEF Spec, RecordsConsecutive
=============================================================================
