---------------------------- MODULE FifoTelemetry ----------------------------
(***************************************************************************)
(* The telemetry FIFO of examples/101-fifo_telemetry.cpp: a thread of the  *)
(* controller generates records into a bounded FIFO and interrupts when it *)
(* is half full; a driver latches record after record and reads them.      *)
(*                                                                         *)
(* Four things must agree that no single lock protects: the FIFO, the      *)
(* status bits kept beside it (shadowStatus), the word of the register     *)
(* file that hooks copy them to, which is also where NextRecord is written *)
(* to, and what the driver has read.  Both threads print under a Guard,    *)
(* which takes the memory lock and a mutex of its own by std::lock; the    *)
(* generator does so while it holds the memory lock already.               *)
(*                                                                         *)
(* The driver and the interrupt routine, which the generator's thread      *)
(* runs, use one register file, and no lock orders their accesses.  An     *)
(* access that faults opens the mapping for the whole process until its    *)
(* single step is over (platforms/posix-common.cpp); one of the other      *)
(* thread that comes meanwhile passes with no hook, and one that has not   *)
(* been retried yet when the mapping is closed faults again.               *)
(*                                                                         *)
(* A record is the number of its generation.  Nothing depends on the words *)
(* the driver reads from Telemetry, so that they are left out; the loads   *)
(* are there, as one load for the words of a record.  What a thread does   *)
(* under the memory lock alone is one step.                                *)
(*                                                                         *)
(* A definition Faulty_D is D with a plausible bug, used by no other.      *)
(***************************************************************************)
EXTENDS Naturals, Sequences

CONSTANTS
  FifoMaxSize,   \* records the FIFO holds at most
  UsageBits,     \* width of StatusUsage
  Records,       \* records the driver latches
  MaxCounter     \* bound: records generated, those dropped included

\* A FIFO that is full is no more than StatusUsage can hold, and one that is
\* half full not empty.  (The provers know nothing of powers.)
ASSUME FifoAssumption ==
  /\ UsageBits \in Nat /\ 2^UsageBits \in Nat
  /\ FifoMaxSize \in 2 .. 2^UsageBits - 1
  /\ Records \in Nat
  /\ MaxCounter \in Nat

Threads == {"generator", "driver"}
Mutexes == {"memory", "cout"}
Free == "free"
NoRecord == MaxCounter      \* what shadowRecord = {} holds, no number used

VARIABLES
  pc,               \* where the two threads are
  owner,            \* who holds the memory lock and the mutex of Guard
  guard,            \* a Guard under construction: its locks so far
  open,             \* whether the mapping of the register file is accessible
  step,             \* how far a thread's faulting access has come
  fifo, shadowStatus, shadowRecord,
  word,             \* the word of Status, StatusFields and NextRecord
  counter, stopTmGenerator,
  connected, interruptHandled, left,   \* the driver's program
  \* History: numbers not pushed, whether the FIFO was half full before there
  \* was a routine, whether it has run, what the driver saw of StatusFifoEmpty.
  dropped, late, interrupted, sawEmpty

locks   == <<owner, guard>>
engine  == <<open, step>>
device  == <<fifo, shadowStatus, shadowRecord>>
thread  == <<counter, stopTmGenerator>>
program == <<connected, interruptHandled, left>>
history == <<dropped, late, interrupted, sawEmpty>>
data == <<engine, device, word, thread, program, history>>
vars == <<pc, locks, data>>

Goto(t, from, label) == pc[t] = from /\ pc' = [pc EXCEPT ![t] = label]

CanLock(t, m) == owner[m] \in {Free, t}

-----------------------------------------------------------------------------
(* Guard, by which both threads print.                                     *)

\* What follows each print.
AfterPrint ==
  [printGenerated |-> "push",     printRoutine |-> "unlock",
   printStatus    |-> "exchange", printTimeout |-> "destroy",
   printEmpty     |-> "next",     printRecord  |-> "loop"]

Printing(t) == pc[t] \in DOMAIN AfterPrint

Other(m) == CHOOSE n \in Mutexes : n # m

NewGuard == [next |-> Mutexes, holds |-> {}]

\* The generator prints inside of a lock_guard on the memory lock.
OwnerWithout(t, m) ==
  IF t = "generator" /\ m = "memory" THEN t ELSE Free

\* std::lock blocks on one of the two, at first an unspecified one ...
LockOne(t) ==
  /\ Printing(t)
  /\ guard[t].holds = {}
  /\ \E m \in guard[t].next :
       /\ CanLock(t, m)
       /\ owner' = [owner EXCEPT ![m] = t]
       /\ guard' = [guard EXCEPT ![t].holds = {m}]
  /\ UNCHANGED <<pc, data>>

Faulty_TryOther(t) ==
  /\ Printing(t)
  /\ \E m \in Mutexes :
       /\ guard[t].holds = {m}
       /\ CanLock(t, Other(m))
       /\ owner' = [owner EXCEPT ![Other(m)] = t]
       /\ guard' = [guard EXCEPT ![t].holds = Mutexes]
  /\ UNCHANGED <<pc, data>>

\* ... tries the other, and if that is taken begins again with it.
TryOther(t) ==
  /\ Printing(t)
  /\ \E m \in Mutexes :
       /\ guard[t].holds = {m}
       /\ IF CanLock(t, Other(m))
          THEN /\ owner' = [owner EXCEPT ![Other(m)] = t]
               /\ guard' = [guard EXCEPT ![t].holds = Mutexes]
          ELSE /\ owner' = [owner EXCEPT ![m] = OwnerWithout(t, m)]
               /\ guard' = [guard EXCEPT ![t] =
                              [next |-> {Other(m)}, holds |-> {}]]
  /\ UNCHANGED <<pc, data>>

\* The line is printed and the Guard destroyed.
PrintLine(t) ==
  /\ Printing(t)
  /\ guard[t].holds = Mutexes
  /\ owner' = [m \in Mutexes |-> OwnerWithout(t, m)]
  /\ guard' = [guard EXCEPT ![t] = NewGuard]
  /\ pc' = [pc EXCEPT ![t] = AfterPrint[@]]
  /\ UNCHANGED data

-----------------------------------------------------------------------------
(* Accesses to the register file: loads of Status and of Telemetry by the  *)
(* driver and of Status by its interrupt routine, stores to NextRecord.    *)

\* What follows each access.
AfterAccess ==
  [status |-> "printStatus", before    |-> "loop",
   check  |-> "branch",      telemetry |-> "printRecord",
   next   |-> "telemetry",   routine   |-> "handled"]

Accessing(t, s) == pc[t] \in DOMAIN AfterAccess /\ step[t] = s

Stepping(t, from, to) ==
  Accessing(t, from) /\ step' = [step EXCEPT ![t] = to]

IsStore(t) == pc[t] = "next"

\* What the instruction itself does.  NextRecord is the lowest byte of the
\* word, and so StatusUsage.
Access(t) ==
  /\ word' = IF IsStore(t) THEN [word EXCEPT !.usage = 1] ELSE word
  /\ sawEmpty' = IF pc[t] = "check" THEN word.empty ELSE sawEmpty
  /\ UNCHANGED <<locks, open, device, thread, program, dropped, late,
                 interrupted>>

\* Another thread has the mapping open: there is no fault, and no hook.
PassThrough(t) ==
  /\ Accessing(t, "none") /\ open
  /\ Access(t)
  /\ pc' = [pc EXCEPT ![t] = AfterAccess[@]]
  /\ UNCHANGED step

\* A first fault, or that of a retried instruction.
Fault(t) ==
  /\ \E s \in {"none", "stepping"} :
       Stepping(t, s, IF IsStore(t) THEN "unprotect" ELSE "hookRead")
  /\ ~open
  /\ UNCHANGED <<pc, locks, open, device, word, thread, program, history>>

\* HookRead, under the memory lock.
HookRead(t) ==
  /\ Stepping(t, "hookRead", "unprotect")
  /\ CanLock(t, "memory")
  /\ word' = IF pc[t] \in {"status", "check", "routine"} THEN shadowStatus
             ELSE word
  /\ UNCHANGED <<pc, locks, open, device, thread, program, history>>

Unprotect(t) ==
  /\ Stepping(t, "unprotect", "stepping")
  /\ open' = TRUE
  /\ UNCHANGED <<pc, locks, device, word, thread, program, history>>

Retry(t) ==
  /\ Stepping(t, "stepping", IF IsStore(t) THEN "hookWrite" ELSE "close")
  /\ open
  /\ Access(t)
  /\ UNCHANGED pc

\* RestoreProtection, with which the trap ends.
Restore(t) ==
  /\ Stepping(t, "close", "none")
  /\ open' = FALSE
  /\ pc' = [pc EXCEPT ![t] = AfterAccess[@]]
  /\ UNCHANGED <<locks, device, word, thread, program, history>>

-----------------------------------------------------------------------------
(* GenerateTelemetry. *)

TestStop ==
  /\ counter < MaxCounter \/ stopTmGenerator
  /\ Goto("generator", "while", IF stopTmGenerator THEN "exited" ELSE "lock")
  /\ UNCHANGED <<locks, data>>

Faulty_HasRoom == Len(fifo) <= FifoMaxSize

HasRoom == Len(fifo) < FifoMaxSize

\* A record that finds the FIFO full is dropped, and its number with it.
AcquireMemoryLock ==
  /\ Goto("generator", "lock", IF HasRoom THEN "printGenerated" ELSE "unlock")
  /\ owner["memory"] = Free
  /\ owner' = [owner EXCEPT !["memory"] = "generator"]
  /\ dropped' = IF HasRoom THEN dropped ELSE dropped \cup {counter}
  /\ UNCHANGED <<guard, engine, device, word, thread, program, late,
                 interrupted, sawEmpty>>

Half == FifoMaxSize \div 2

Usage(size) == size % 2^UsageBits

\* The bits after a push: full is never set here, since a FIFO that is full
\* is more than half full and the branches exclude each other.
StatusAfterPush(size) ==
  [shadowStatus EXCEPT !.usage = Usage(size),
                       !.half = @ \/ size >= Half]

Faulty_Interrupts(size) == connected /\ size = FifoMaxSize

Interrupts(size) == connected /\ size = Half

Faulty_Push ==
  LET size == Len(fifo) + 1
  IN  /\ Goto("generator", "push",
              IF Interrupts(size) THEN "routine" ELSE "unlock")
      /\ fifo' = Append(fifo, counter)
      /\ shadowStatus' = StatusAfterPush(size)
      /\ owner' = [owner EXCEPT !["memory"] = Free]
  /\ UNCHANGED <<guard, engine, shadowRecord, word, thread, program, history>>

\* TriggerInterrupt runs the routine at once, in this thread and under the
\* memory lock, if it is connected.
Push ==
  LET size == Len(fifo) + 1
  IN  /\ Goto("generator", "push",
              IF Interrupts(size) THEN "routine" ELSE "unlock")
      /\ fifo' = Append(fifo, counter)
      /\ shadowStatus' = StatusAfterPush(size)
      /\ UNCHANGED <<locks, engine, shadowRecord, word, thread, program,
                     history>>

\* The routine's load is an access like the driver's; then it sets the flag.
SetInterruptHandled ==
  /\ Goto("generator", "handled", "printRoutine")
  /\ interruptHandled' = TRUE
  /\ interrupted' = TRUE
  /\ UNCHANGED <<locks, engine, device, word, thread, connected, left,
                 dropped, late, sawEmpty>>

ReleaseMemoryLock ==
  /\ Goto("generator", "unlock", "while")
  /\ owner' = [owner EXCEPT !["memory"] = Free]
  /\ counter' = counter + 1
  /\ UNCHANGED <<guard, engine, device, word, stopTmGenerator, program,
                 history>>

-----------------------------------------------------------------------------
(* The driver. *)

ConnectInterruptHandler ==
  /\ Goto("driver", "connect", "status")
  /\ connected' = TRUE
  /\ late' = (Len(fifo) >= Half)
  /\ UNCHANGED <<locks, engine, device, word, thread, interruptHandled, left,
                 dropped, interrupted, sawEmpty>>

\* Without an interrupt by now the driver gives up.
Exchange ==
  /\ Goto("driver", "exchange",
          IF interruptHandled THEN "before" ELSE "printTimeout")
  /\ interruptHandled' = FALSE
  /\ UNCHANGED <<locks, engine, device, word, thread, connected, left,
                 history>>

Loop ==
  /\ Goto("driver", "loop", IF left > 0 THEN "check" ELSE "destroy")
  /\ left' = IF left > 0 THEN left - 1 ELSE left
  /\ UNCHANGED <<locks, engine, device, word, thread, connected,
                 interruptHandled, history>>

Branch ==
  /\ Goto("driver", "branch", IF sawEmpty THEN "printEmpty" ELSE "next")
  /\ UNCHANGED <<locks, data>>

Faulty_Latch ==
  LET size == Len(fifo) - 1
  IN  /\ shadowRecord' = Head(IF size > 0 THEN Tail(fifo) ELSE fifo)
      /\ fifo' = Tail(fifo)
      /\ shadowStatus' = [usage |-> Usage(size), empty |-> size = 0,
                          full |-> size < FifoMaxSize,
                          half |-> size >= Half]

Faulty2_Latch ==
  LET size == Len(fifo)
  IN  /\ shadowRecord' = Head(fifo)
      /\ fifo' = Tail(fifo)
      /\ shadowStatus' = [usage |-> Usage(size - 1), empty |-> size = 0,
                          full |-> size < FifoMaxSize,
                          half |-> size - 1 >= Half]

\* The bits after a pop, full among them the wrong way round.
Latch ==
  LET size == Len(fifo) - 1
  IN  /\ shadowRecord' = Head(fifo)
      /\ fifo' = Tail(fifo)
      /\ shadowStatus' = [usage |-> Usage(size), empty |-> size = 0,
                          full |-> size < FifoMaxSize,
                          half |-> size >= Half]

\* HookWrite, from the trap of a store that was stepped.  It looks at the
\* byte when it runs; the hook of a load may have stored StatusUsage there
\* since, and any value but 0 is true.
HookWrite ==
  /\ Stepping("driver", "hookWrite", "close")
  /\ owner["memory"] = Free
  /\ IF word.usage # 0 /\ fifo # <<>> THEN Latch ELSE UNCHANGED device
  /\ UNCHANGED <<pc, locks, open, word, thread, program, history>>

\* ~Controller101 tells the thread to stop and waits for it.
Destroy ==
  /\ Goto("driver", "destroy", "join")
  /\ stopTmGenerator' = TRUE
  /\ UNCHANGED <<locks, engine, device, word, counter, program, history>>

Join ==
  /\ Goto("driver", "join", "gone")
  /\ pc["generator"] = "exited"
  /\ UNCHANGED <<locks, data>>

-----------------------------------------------------------------------------
\* interruptHandled is not initialized.
Init ==
  /\ pc = [generator |-> "while", driver |-> "connect"]
  /\ owner = [m \in Mutexes |-> Free]
  /\ guard = [t \in Threads |-> NewGuard]
  /\ open = FALSE /\ step = [t \in Threads |-> "none"]
  /\ fifo = <<>> /\ shadowRecord = NoRecord
  /\ shadowStatus =
       [usage |-> 0, empty |-> FALSE, full |-> FALSE, half |-> FALSE]
  /\ word = shadowStatus
  /\ counter = 0 /\ stopTmGenerator = FALSE
  /\ connected = FALSE /\ interruptHandled \in BOOLEAN /\ left = Records
  /\ dropped = {} /\ late = FALSE /\ interrupted = FALSE /\ sawEmpty = FALSE

Common(t) ==
  \/ LockOne(t) \/ TryOther(t) \/ PrintLine(t)
  \/ PassThrough(t) \/ Fault(t) \/ HookRead(t) \/ Unprotect(t) \/ Retry(t)
  \/ Restore(t)

Generator ==
  \/ Common("generator")
  \/ TestStop \/ AcquireMemoryLock \/ Push \/ SetInterruptHandled
  \/ ReleaseMemoryLock

Driver ==
  \/ Common("driver")
  \/ ConnectInterruptHandler \/ Exchange \/ Loop \/ Branch \/ HookWrite
  \/ Destroy \/ Join

Next == Generator \/ Driver

\* Both threads are run.
Fairness == WF_vars(Generator) /\ WF_vars(Driver)

Spec == Init /\ [][Next]_vars

FairSpec == Spec /\ Fairness

-----------------------------------------------------------------------------
(* Properties. *)

Statuses == [usage : 0 .. 2^UsageBits - 1, empty : BOOLEAN, full : BOOLEAN,
             half : BOOLEAN]

\* Every variable holds a value of its type; the FIFO holds no more than it
\* may.
TypeOK ==
  /\ pc \in [Threads -> DOMAIN AfterPrint \cup DOMAIN AfterAccess \cup
       {"while", "lock", "push", "handled", "unlock", "exited", "connect",
        "exchange", "loop", "branch", "destroy", "join", "gone"}]
  /\ owner \in [Mutexes -> Threads \cup {Free}]
  /\ guard \in [Threads -> [next : SUBSET Mutexes, holds : SUBSET Mutexes]]
  /\ open \in BOOLEAN
  /\ step \in [Threads -> {"none", "hookRead", "unprotect", "stepping",
                           "hookWrite", "close"}]
  /\ fifo \in Seq(0 .. MaxCounter - 1) /\ Len(fifo) <= FifoMaxSize
  /\ shadowStatus \in Statuses
  /\ shadowRecord \in 0 .. MaxCounter
  /\ word \in Statuses
  /\ counter \in 0 .. MaxCounter
  /\ left \in 0 .. Records
  /\ stopTmGenerator \in BOOLEAN
  /\ connected \in BOOLEAN /\ interruptHandled \in BOOLEAN
  /\ late \in BOOLEAN /\ interrupted \in BOOLEAN /\ sawEmpty \in BOOLEAN
  /\ dropped \subseteq 0 .. MaxCounter - 1

\* Whenever a thread may look at them, under the memory lock, the usage and
\* the half-full bit agree with the FIFO, although pushes and pops compute
\* them by different comparisons.
StatusTracksFifo ==
  /\ shadowStatus.usage = Len(fifo)
  /\ shadowStatus.half = (Len(fifo) >= Half)

\* The interrupt routine sees the FIFO half full, for which it was called, if
\* its load has its hook: from the hook to the load, whatever the driver does
\* meanwhile, opening and closing the mapping included, the word stays that
\* of the interrupt.  Only the usage may be overwritten, by the driver's store
\* to NextRecord.  A load that passes through the driver's open mapping has
\* no hook and finds whatever is there.
RoutineSeesHalfFull ==
  pc["generator"] = "routine" /\ step["generator"] \in {"unprotect", "stepping"}
    => word.half /\ word.usage \in {Half, 1}

\* HookWrite runs for the driver's store.
Latches == step["driver"] = "hookWrite" /\ step'["driver"] # "hookWrite"

\* The driver gives up only when the FIFO has not been half full since it
\* connected its routine, or the routine is about to say so: no interrupt is
\* missed, whether its load has had a hook or not.
TimeoutJustified ==
  [][pc["driver"] = "exchange" /\ pc'["driver"] = "printTimeout" =>
       \/ late \/ Len(fifo) < Half
       \/ pc["generator"] \in {"routine", "handled"}]_vars

\* A driver that waits for an interrupt, and has not seen the FIFO empty,
\* gets a record it has not had from a store to NextRecord that has its hook,
\* although it looked at the bit in a word that others overwrite, maybe in a
\* mapping they opened, and long before the hook runs.  A store that passes
\* through the mapping while the routine has it open latches nothing.
FreshRecord ==
  [][Latches /\ ~sawEmpty /\ (interrupted \/ shadowRecord # NoRecord)
       => fifo # <<>> /\ shadowRecord' = Head(fifo)]_vars

\* Records are latched in the order of their generation, and only those that
\* found the FIFO full are missing.
RecordsConsecutive ==
  [][shadowRecord' # shadowRecord =>
       LET last == IF shadowRecord = NoRecord THEN 0 ELSE shadowRecord + 1
       IN  /\ shadowRecord' >= last
           /\ last .. shadowRecord' - 1 \subseteq dropped]_vars

\* The driver comes to its end, through every Guard it needs while the
\* generator takes the same locks in its own order, and its destructor
\* returns.
DriverEnds == <>(pc["driver"] = "gone")

=============================================================================
