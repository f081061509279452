------------------------ MODULE TimeControllerProofs ------------------------
(***************************************************************************)
(* Theorems about TimeController, for any timers, times, orders left over  *)
(* in memory and any number of operations.                                 *)
(***************************************************************************)
EXTENDS TimeController, TLAPS

(***************************************************************************)
(* Types.  What is not obvious is the time: no clock is read that was      *)
(* started in the future, and the lower word is less than Base.            *)
(***************************************************************************)
LEMMA DivMod ==
  ASSUME NEW a \in Nat, NEW k \in Nat \ {0}
  PROVE  /\ a \div k \in Nat
         /\ a % k \in 0 .. k - 1
         /\ k * (a \div k) + (a % k) = a
OBVIOUS

LEMMA CurrentTimeType ==
  ASSUME TypeOK
  PROVE  CurrentTime \in [hi : Nat, lo : 0 .. Base - 1]
<1> DEFINE d == now - whenStarted
<1>1. d \in Nat /\ whenStartedRegisterTime \in Nat
  BY TimeAssumption DEF TypeOK
<1>2. Base \in Nat \ {0}
  BY TimeAssumption
<1>3. d \div Base \in Nat /\ d % Base \in 0 .. Base - 1
  BY <1>1, <1>2, DivMod
<1>4. QED
  BY <1>1, <1>3 DEF CurrentTime

LEMMA ClampedType ==
  ASSUME NEW lo \in Nat
  PROVE  Clamped(lo) \in 0 .. Base - 1
BY TimeAssumption DEF Clamped

LEMMA TypeInit == Init => TypeOK
<1> SUFFICES ASSUME Init PROVE TypeOK
  OBVIOUS
<1>1. NoTime \in [hi : Nat, lo : 0 .. Base - 1]
  BY TimeAssumption DEF NoTime
<1>2. NoWord \in ControlWords
  BY DEF NoWord, ControlWords
<1>3. Trigger \in [Timers -> [hi : Nat, lo : Nat]]
  BY DEF Init, NoTime
<1>4. time \in [hi : Nat, lo : 0 .. Base - 1] /\ value \in ControlWords
  BY <1>1, <1>2 DEF Init
<1>5. /\ now \in Uptime .. Uptime + MaxTime /\ ops \in 0 .. MaxOps
      /\ whenStarted \in 0 .. now /\ whenStartedRegisterTime \in Nat
      /\ timerThreadControl \in Orders
  BY TimeAssumption DEF Init
<1>6. QED
  BY <1>3, <1>4, <1>5 DEF Init, TypeOK

LEMMA TypeTick == TypeOK /\ Tick => TypeOK'
BY TimeAssumption DEF TypeOK, Tick, controller, registers, timer, driver,
     history, shadows, clocks, locals

LEMMA TypeDriver ==
  ASSUME TypeOK, DriverStarts \/ DriverContinues
  PROVE  TypeOK'
<1> USE DEF TypeOK, controller, registers, timer, driver, history, shadows,
            clocks, locals
<1>1. CASE Construct \/ Initialize \/ Destroy \/ Join
  BY <1>1 DEF Construct, Initialize, Destroy, Join, Drive, Orders
<1>2. ASSUME NEW hi \in HiTimes, WriteInitialTime(hi)
      PROVE  TypeOK'
  BY <1>2, TimeAssumption DEF WriteInitialTime, Begins, Drive
<1>3. ASSUME NEW hi \in HiTimes, NEW i \in Timers, WriteTriggerTimeHi(i, hi)
      PROVE  TypeOK'
  BY <1>3, TimeAssumption DEF WriteTriggerTimeHi, Begins, Drive
<1>4. ASSUME NEW lo \in LoTimes, NEW i \in Timers, WriteTriggerTimeLo(i, lo)
      PROVE  TypeOK'
  BY <1>4, TimeAssumption DEF WriteTriggerTimeLo, Begins, Drive
<1>5. CASE HookTriggerTimeLo
  <2>1. \A i \in Timers : Clamped(Trigger[i].lo) \in Nat
    BY ClampedType, TimeAssumption
  <2>2. Trigger' \in [Timers -> [hi : Nat, lo : Nat]]
    BY <1>5, <2>1 DEF HookTriggerTimeLo
  <2>3. QED
    BY <1>5, <2>2 DEF HookTriggerTimeLo, Drive
<1>6. ASSUME NEW word \in ControlWords, WriteControlWord(word)
      PROVE  TypeOK'
  <2>1. value' \in ControlWords /\ ops' \in 0 .. MaxOps /\ dpc' = "control"
    BY <1>6, TimeAssumption DEF WriteControlWord, Begins, Drive
  <2>2. QED
    BY <1>6, <2>1 DEF WriteControlWord
<1>7. CASE HookControlWord
  BY <1>7 DEF HookControlWord, Drive, Orders
<1>8. CASE ControlChanged
  BY <1>8 DEF ControlChanged, Drive, ControlWords, NoWord
<1>9. CASE HookStatusRead \/ LoadStatus \/ Look
  BY <1>9, TimeAssumption DEF HookStatusRead, LoadStatus, Look, Begins, Drive
<1>10. CASE StoreStatus \/ HookStatusWrite
  BY <1>10 DEF StoreStatus, HookStatusWrite, AtomicReset, Drive
<1>11. QED
  BY <1>1, <1>2, <1>3, <1>4, <1>5, <1>6, <1>7, <1>8, <1>9, <1>10
     DEF DriverStarts, DriverContinues

LEMMA TypeTimer ==
  ASSUME TypeOK, TimerThread
  PROVE  TypeOK'
<1> USE DEF TypeOK, controller, registers, timer, driver, history, shadows,
            clocks, locals
<1>1. CASE Exit \/ Restart \/ LatchInitialTime \/ Run
  BY <1>1, TimeAssumption
     DEF Exit, Restart, LatchInitialTime, Run, Goto, Orders
<1>2. CASE TakeTime
  BY <1>2, CurrentTimeType DEF TakeTime, Goto
<1>3. CASE Expire
  <2>1. Expiring \subseteq Timers
    BY DEF Expiring
  <2>2. NoTime \in [hi : Nat, lo : 0 .. Base - 1]
    BY TimeAssumption DEF NoTime
  <2>3. QED
    BY <1>3, <2>1, <2>2 DEF Expire, RaiseAndResetTimers, Goto
<1>4. CASE LoadShadowStatus \/ LoadShadowControl \/ TriggerInterrupt
  BY <1>4 DEF LoadShadowStatus, LoadShadowControl, TriggerInterrupt, Goto
<1>5. CASE RoutineHookRead \/ RoutineLoad
  BY <1>5 DEF RoutineHookRead, RoutineLoad, Goto
<1>6. CASE RoutineStore \/ RoutineHookWrite
  BY <1>6 DEF RoutineStore, RoutineHookWrite, AtomicReset, Goto
<1>7. QED
  BY <1>1, <1>2, <1>3, <1>4, <1>5, <1>6 DEF TimerThread

\* Every variable holds a value of its type: TypeOK of run "timer".
THEOREM TypeCorrect == Spec => []TypeOK
<1>1. TypeOK /\ [Next]_vars => TypeOK'
  <2>1. TypeOK /\ UNCHANGED vars => TypeOK'
    BY DEF TypeOK, vars, controller, registers, timer, driver, history,
           shadows, clocks, locals
  <2>2. QED
    BY <2>1, TypeTick, TypeDriver, TypeTimer DEF Next
<1>2. QED
  BY <1>1, TypeInit, PTL DEF Spec

-----------------------------------------------------------------------------
(***************************************************************************)
(* No interrupt is lost.  A store to StatusWord and the hook that resets   *)
(* bits are two steps, and so are the hook of a load and the load: the     *)
(* invariant says, for each label in between, that the bits about to be    *)
(* reset have been read and are still pending.  A bit that is read and     *)
(* pending cannot become unread again, as only a bit that is not pending   *)
(* is raised.                                                              *)
(***************************************************************************)

\* In a program not both of driver and routine acknowledge.  Run "timer" has
\* such programs; with one in which both do TLC finds an interrupt lost.
OneAcknowledges == \A p \in Programs : ~({"driver", "routine"} \subseteq p)

InRoutine == {"isrRead", "isrLoad", "isrStore", "isrReset"}

\* Who holds the memory lock.
LockFollows ==
  /\ (memoryLock = "timer") <=> (tpc \in InRoutine)
  /\ (memoryLock = "driver") <=> (dpc = "controlChanged")

\* Without a routine that acknowledges no interrupt is enabled.
Polling ==
  "routine" \notin acknowledge =>
    /\ shadowControl.enabled = {}
    /\ value.enabled = {}
    /\ tpc \notin InRoutine \cup {"trigger"}

ReadPending(bits) == bits \subseteq shadowStatus \ unseen

DriverReads ==
  /\ dpc = "reset" => "driver" \in acknowledge
  /\ "driver" \in acknowledge =>
       /\ dpc = "load"   => StatusWord \subseteq shadowStatus
       /\ dpc = "loaded" => ReadPending(seen)
       /\ dpc = "reset"  => ReadPending(StatusWord)

RoutineReads ==
  "driver" \notin acknowledge =>
    /\ tpc = "isrLoad"  => StatusWord \subseteq shadowStatus
    /\ tpc = "isrStore" => ReadPending(flags)
    /\ tpc = "isrReset" => ReadPending(StatusWord)

Reading ==
  LockFollows /\ Polling /\ DriverReads /\ RoutineReads /\ NoInterruptLost

LEMMA ReadingInit == Init => Reading
BY DEF Init, Reading, LockFollows, Polling, DriverReads, RoutineReads,
       NoInterruptLost, InRoutine, NoWord

\* What a step of the driver changes that Reading speaks of.
LEMMA ReadingDriver ==
  ASSUME OneAcknowledges, TypeOK, Reading, DriverStarts \/ DriverContinues
  PROVE  Reading'
<1> USE DEF Reading, LockFollows, Polling, DriverReads, RoutineReads,
            ReadPending, NoInterruptLost, InRoutine
<1> USE DEF controller, registers, timer, driver, history, shadows, clocks,
            locals, Drive, Begins
<1>1. CASE Construct \/ Initialize \/ HookTriggerTimeLo \/ Destroy \/ Join
  BY <1>1 DEF Construct, Initialize, HookTriggerTimeLo, Destroy, Join
<1>2. CASE \/ \E hi \in HiTimes : WriteInitialTime(hi)
           \/ \E hi \in HiTimes, i \in Timers : WriteTriggerTimeHi(i, hi)
           \/ \E i \in Timers, lo \in LoTimes : WriteTriggerTimeLo(i, lo)
  BY <1>2 DEF WriteInitialTime, WriteTriggerTimeHi, WriteTriggerTimeLo
<1>3. ASSUME NEW word \in ControlWords, WriteControlWord(word)
      PROVE  Reading'
  BY <1>3 DEF WriteControlWord
<1>4. CASE HookControlWord
  BY <1>4 DEF HookControlWord
<1>5. CASE ControlChanged
  BY <1>5 DEF ControlChanged, NoWord
<1>6. CASE HookStatusRead
  BY <1>6 DEF HookStatusRead
<1>7. CASE LoadStatus \/ Look
  BY <1>7 DEF LoadStatus, Look
<1>8. CASE StoreStatus
  BY <1>8 DEF StoreStatus
<1>9. CASE HookStatusWrite
  <2>1. acknowledge \in Programs /\ acknowledge' = acknowledge
    BY <1>9 DEF HookStatusWrite, TypeOK
  <2>2. "driver" \in acknowledge /\ "routine" \notin acknowledge
    BY <1>9, <2>1 DEF HookStatusWrite, OneAcknowledges
  <2>3. ReadPending(StatusWord) /\ shadowStatus' = shadowStatus \ StatusWord
    BY <1>9, <2>2 DEF HookStatusWrite, AtomicReset
  <2>4. QED
    BY <1>9, <2>2, <2>3 DEF HookStatusWrite
<1>10. QED
  BY <1>1, <1>2, <1>3, <1>4, <1>5, <1>6, <1>7, <1>8, <1>9
     DEF DriverStarts, DriverContinues

\* Raising an interrupt leaves what has been read and is pending as it is.
LEMMA ReadingExpire ==
  ASSUME TypeOK, Reading, Expire
  PROVE  Reading'
<1>1. /\ shadowControl'.enabled = shadowControl.enabled
      /\ shadowStatus' = shadowStatus \cup Expiring
      /\ unseen' = unseen \cup (Expiring \ shadowStatus)
  BY DEF Expire, RaiseAndResetTimers, TypeOK
<1>2. /\ tpc = "expire" /\ tpc' = "loadStatus"
      /\ UNCHANGED <<memoryLock, StatusWord, flags, acknowledge, dpc, value,
                    seen>>
  BY DEF Expire, Goto, registers, driver, locals
<1>3. LockFollows' /\ Polling' /\ RoutineReads' /\ NoInterruptLost'
  BY <1>1, <1>2 DEF Reading, LockFollows, Polling, RoutineReads, InRoutine,
                    NoInterruptLost
<1>4. DriverReads'
  <2>1. /\ StatusWord \subseteq shadowStatus
             => StatusWord \subseteq shadowStatus'
        /\ ReadPending(seen) => ReadPending(seen)'
        /\ ReadPending(StatusWord) => ReadPending(StatusWord)'
    BY <1>1, <1>2 DEF ReadPending
  <2>2. QED
    BY <1>2, <2>1 DEF Reading, DriverReads
<1>5. QED
  BY <1>3, <1>4 DEF Reading

LEMMA ReadingTimer ==
  ASSUME OneAcknowledges, TypeOK, Reading, TimerThread
  PROVE  Reading'
<1> USE DEF Reading, LockFollows, Polling, DriverReads, RoutineReads,
            ReadPending, NoInterruptLost, InRoutine
<1> USE DEF controller, registers, timer, driver, history, shadows, clocks,
            locals, Goto
<1>0. ASSUME tpc \in InRoutine
      PROVE  "routine" \in acknowledge /\ "driver" \notin acknowledge
  BY <1>0 DEF TypeOK, OneAcknowledges
<1>1. CASE Exit \/ Restart \/ LatchInitialTime \/ Run \/ TakeTime
  BY <1>1 DEF Exit, Restart, LatchInitialTime, Run, TakeTime
<1>2. CASE Expire
  BY <1>2, ReadingExpire
<1>3. CASE LoadShadowStatus
  BY <1>3 DEF LoadShadowStatus
<1>4. CASE LoadShadowControl
  BY <1>4 DEF LoadShadowControl, Interrupts
<1>5. CASE TriggerInterrupt
  BY <1>5 DEF TriggerInterrupt
<1>6. CASE RoutineHookRead
  BY <1>0, <1>6 DEF RoutineHookRead
<1>7. CASE RoutineLoad
  BY <1>7 DEF RoutineLoad
<1>8. CASE RoutineStore
  BY <1>0, <1>8 DEF RoutineStore
<1>9. CASE RoutineHookWrite
  <2>1. ReadPending(StatusWord) /\ shadowStatus' = shadowStatus \ StatusWord
    BY <1>0, <1>9 DEF RoutineHookWrite, AtomicReset
  <2>2. QED
    BY <1>0, <1>9, <2>1 DEF RoutineHookWrite
<1>10. QED
  BY <1>1, <1>2, <1>3, <1>4, <1>5, <1>6, <1>7, <1>8, <1>9 DEF TimerThread

LEMMA ReadingNext ==
  OneAcknowledges /\ TypeOK /\ Reading /\ [Next]_vars => Reading'
<1> SUFFICES ASSUME OneAcknowledges, TypeOK, Reading, [Next]_vars
             PROVE  Reading'
  OBVIOUS
<1>1. CASE Tick \/ UNCHANGED vars
  BY <1>1 DEF Tick, vars, controller, registers, timer, driver, history,
       shadows, clocks, locals, Reading, LockFollows, Polling, DriverReads,
       RoutineReads, ReadPending, NoInterruptLost
<1>2. QED
  BY <1>1, ReadingDriver, ReadingTimer DEF Next

\* An interrupt bit stays pending until the driver, or its routine, has read
\* it as set, whatever happens between the steps of a load and of a store of
\* StatusWord: NoInterruptLost of run "timer".
THEOREM InterruptsAreNotLost ==
  OneAcknowledges /\ Spec => []NoInterruptLost
<1> SUFFICES ASSUME OneAcknowledges PROVE Spec => []NoInterruptLost
  OBVIOUS
<1>1. TypeOK /\ Reading /\ [Next]_vars => Reading'
  BY ReadingNext
<1>2. Reading => NoInterruptLost
  BY DEF Reading
<1>3. QED
  BY <1>1, <1>2, ReadingInit, TypeCorrect, PTL DEF Spec

-----------------------------------------------------------------------------
(***************************************************************************)
(* No timer is early.  The thread looks at the clock before it takes the   *)
(* lock; between the two the clock goes on but is not started anew, except *)
(* by the constructor, which may be late.                                  *)
(***************************************************************************)
Seconds(t) == t.hi * Base + t.lo

LEMMA TimesMonotone ==
  ASSUME NEW x \in Nat, NEW y \in Nat, NEW k \in Nat, x <= y
  PROVE  x * k <= y * k
<1>1. PICK d \in Nat : y = x + d
  <2>1. y - x \in Nat /\ y = x + (y - x)
    OBVIOUS
  <2>2. QED
    BY <2>1
<1>2. y * k = x * k + d * k /\ d * k \in Nat
  BY <1>1
<1>3. x * k \in Nat /\ y * k \in Nat
  OBVIOUS
<1>4. QED
  BY <1>2, <1>3

LEMMA Durations ==
  ASSUME NEW n \in Nat, NEW m \in Nat, n <= m, NEW s \in 0 .. n
  PROVE  n - s \in Nat /\ m - s \in Nat /\ n - s <= m - s
OBVIOUS

LEMMA TimesDistributes ==
  ASSUME NEW x \in Nat, NEW y \in Nat, NEW k \in Nat
  PROVE  (x + y) * k = x * k + y * k
OBVIOUS

\* A duration, in words, added to a number of the upper one.
LEMMA WordsOfTime ==
  ASSUME NEW w \in Nat, NEW d \in Nat
  PROVE  /\ w * Base \in Nat
         /\ d \div Base \in Nat /\ (d % Base) \in Nat
         /\ (w + (d \div Base)) * Base + (d % Base) = w * Base + d
<1> DEFINE q == d \div Base
           r == d % Base
<1>1. Base \in Nat \ {0}
  BY TimeAssumption
<1>2. q \in Nat /\ r \in Nat /\ Base * q + r = d
  BY <1>1, DivMod
<1> HIDE DEF q, r
<1>3. (w + q) * Base = w * Base + q * Base /\ q * Base = Base * q
  BY <1>1, <1>2, TimesDistributes
<1>4. w * Base \in Nat /\ Base * q \in Nat
  BY <1>1, <1>2
<1>5. (w + q) * Base + r = w * Base + d
  BY <1>2, <1>3, <1>4
<1>6. QED
  BY <1>2, <1>4, <1>5 DEF q, r

\* The two words together are the time since the clock was started.
LEMMA CurrentTimeIsTime ==
  ASSUME TypeOK
  PROVE  /\ whenStartedRegisterTime * Base \in Nat
         /\ now - whenStarted \in Nat
         /\ Seconds(CurrentTime)
              = whenStartedRegisterTime * Base + (now - whenStarted)
<1>1. now - whenStarted \in Nat /\ whenStartedRegisterTime \in Nat
  BY TimeAssumption DEF TypeOK
<1>2. QED
  BY <1>1, WordsOfTime DEF Seconds, CurrentTime

\* The comparison of the two words is that of the times, if the first is one
\* the clock shows; the second may be out of range.
LEMMA ElapsedIsLater ==
  ASSUME NEW t \in [hi : Nat, lo : 0 .. Base - 1],
         NEW trigger \in [hi : Nat, lo : Nat], Elapsed(t, trigger)
  PROVE  Seconds(t) > trigger.hi * Base + Clamped(trigger.lo)
<1>1. Base \in Nat \ {0} /\ t.lo \in 0 .. Base - 1 /\ trigger.lo \in Nat
  BY TimeAssumption
<1>2. t.hi * Base \in Nat /\ trigger.hi * Base \in Nat
  BY <1>1
<1>3. Clamped(trigger.lo) \in 0 .. Base - 1
  BY <1>1, ClampedType
<1>4. CASE t.hi > trigger.hi
  <2>1. (trigger.hi + 1) * Base <= t.hi * Base
    BY <1>1, <1>4, TimesMonotone
  <2>2. (trigger.hi + 1) * Base = trigger.hi * Base + Base
    BY <1>1
  <2>3. QED
    BY <1>1, <1>2, <1>3, <2>1, <2>2 DEF Seconds
<1>5. CASE t.hi = trigger.hi /\ t.lo > trigger.lo
  <2>1. Clamped(trigger.lo) = trigger.lo
    BY <1>1, <1>5 DEF Clamped
  <2>2. QED
    BY <1>1, <1>2, <1>5, <2>1 DEF Seconds
<1>6. QED
  BY <1>4, <1>5 DEF Elapsed

\* A sound time was taken from a clock that has been initialized, and has not
\* been overtaken by it.
TimeTaken ==
  sound => /\ tpc = "expire"
           /\ dpc \notin {"construct", "initialize"}
           /\ Seconds(time) <= Seconds(CurrentTime)

LEMMA TimeTakenNext == TypeOK /\ TimeTaken /\ [Next]_vars => TimeTaken'
<1> SUFFICES ASSUME TypeOK, TimeTaken, [Next]_vars PROVE TimeTaken'
  OBVIOUS
<1>1. TypeOK'
  <2>1. TypeOK /\ UNCHANGED vars => TypeOK'
    BY DEF TypeOK, vars, controller, registers, timer, driver, history,
           shadows, clocks, locals
  <2>2. QED
    BY <2>1, TypeTick, TypeDriver, TypeTimer DEF Next
<1>2. ASSUME UNCHANGED <<clocks, time, sound, tpc>>, now \in Nat, now' \in Nat,
             now <= now',
             dpc' \in {"construct", "initialize"}
               => dpc \in {"construct", "initialize"}
      PROVE  TimeTaken'
  <2>1. /\ Seconds(CurrentTime) \in Nat /\ Seconds(CurrentTime)' \in Nat
        /\ Seconds(CurrentTime) <= Seconds(CurrentTime)'
    <3> DEFINE w == whenStartedRegisterTime
    <3>1. /\ w \in Nat /\ w' = w
          /\ now - whenStarted \in Nat /\ now' - whenStarted' \in Nat
          /\ now - whenStarted <= now' - whenStarted'
      <4>1. w \in Nat /\ whenStarted \in 0 .. now
        BY DEF TypeOK
      <4>2. w' = w /\ whenStarted' = whenStarted
        BY <1>2 DEF clocks
      <4>3. now \in Nat /\ now' \in Nat /\ now <= now'
        BY <1>2
      <4>4. QED
        BY <4>1, <4>2, <4>3, Durations
    <3>2. /\ w * Base \in Nat
          /\ Seconds(CurrentTime) = w * Base + (now - whenStarted)
      BY CurrentTimeIsTime
    <3>3. Seconds(CurrentTime)' = w * Base + (now' - whenStarted')
      BY <3>1, WordsOfTime DEF Seconds, CurrentTime
    <3> HIDE DEF w
    <3>4. QED
      BY <3>1, <3>2, <3>3
  <2>2. Seconds(time)' = Seconds(time) /\ Seconds(time) \in Nat
    <3>1. time \in [hi : Nat, lo : 0 .. Base - 1] /\ Base \in Nat
      BY TimeAssumption DEF TypeOK
    <3>2. QED
      BY <1>2, <3>1 DEF Seconds
  <2>3. QED
    BY <1>2, <2>1, <2>2 DEF TimeTaken
<1>3. now \in Nat /\ now' \in Nat
  BY <1>1, TimeAssumption DEF TypeOK
<1>4. CASE Tick \/ UNCHANGED vars
  BY <1>2, <1>3, <1>4 DEF Tick, vars, controller, timer, driver, history
<1>5. CASE DriverStarts \/ DriverContinues
  <2>1. CASE Construct \/ Initialize
    BY <2>1 DEF Construct, Initialize, Drive, TimeTaken, history
  <2>2. CASE ~(Construct \/ Initialize)
    <3>1. /\ UNCHANGED <<clocks, time, sound, tpc, now>>
          /\ dpc' \notin {"construct", "initialize"}
      BY <1>5, <2>2
         DEF DriverStarts, DriverContinues, WriteInitialTime,
             WriteTriggerTimeHi, WriteTriggerTimeLo, HookTriggerTimeLo,
             WriteControlWord, HookControlWord, ControlChanged,
             HookStatusRead, LoadStatus, Look, StoreStatus, HookStatusWrite,
             Destroy, Join, Begins, Drive, controller, timer, driver, history
    <3>2. QED
      BY <1>2, <1>3, <3>1
  <2>3. QED
    BY <2>1, <2>2
<1>6. CASE TakeTime
  <2>1. /\ time' = CurrentTime /\ CurrentTime' = CurrentTime
        /\ tpc' = "expire" /\ dpc' = dpc
        /\ sound' => dpc \notin {"construct", "initialize"}
    BY <1>6 DEF TakeTime, Goto, CurrentTime, controller, clocks, driver
  <2>2. Seconds(CurrentTime) \in Nat
    BY CurrentTimeIsTime
  <2>3. /\ Seconds(time)' = Seconds(CurrentTime)
        /\ Seconds(CurrentTime)' = Seconds(CurrentTime)
    BY <2>1 DEF Seconds
  <2>4. QED
    BY <2>1, <2>2, <2>3 DEF TimeTaken
<1>7. CASE TimerThread /\ ~TakeTime
  BY <1>7
     DEF TimerThread, Exit, Restart, LatchInitialTime, Run, Expire,
         LoadShadowStatus, LoadShadowControl, TriggerInterrupt,
         RoutineHookRead, RoutineLoad, RoutineStore, RoutineHookWrite, Goto,
         TimeTaken, history
<1>8. QED
  BY <1>4, <1>5, <1>6, <1>7 DEF Next

\* Only Expire raises an interrupt: of a timer that is active and has elapsed.
LEMMA OnlyExpireRaises ==
  ASSUME TypeOK, [Next]_vars, NEW i \in shadowStatus' \ shadowStatus
  PROVE  Expire /\ i \in Expiring
BY DEF Next, Tick, DriverStarts, DriverContinues, Construct, Initialize,
       WriteInitialTime, WriteTriggerTimeHi, WriteTriggerTimeLo,
       HookTriggerTimeLo, WriteControlWord, HookControlWord, ControlChanged,
       HookStatusRead, LoadStatus, Look, StoreStatus, HookStatusWrite,
       Destroy, Join, TimerThread, Exit, Restart, LatchInitialTime, Run,
       TakeTime, Expire, RaiseAndResetTimers, LoadShadowStatus,
       LoadShadowControl, TriggerInterrupt, RoutineHookRead, RoutineLoad,
       RoutineStore, RoutineHookWrite, AtomicReset, vars, controller, shadows

\* A timer raises its interrupt only when it is active and due: NeverEarly of
\* run "timer".
THEOREM TimersAreNotEarly == Spec => NeverEarly
<1>1. Init => TimeTaken
  BY DEF Init, TimeTaken
<1>2. TypeOK /\ TimeTaken /\ [Next]_vars =>
        [sound => \A i \in shadowStatus' \ shadowStatus :
                    i \in shadowControl.active /\ Due(i)]_vars
  <2> SUFFICES ASSUME TypeOK, TimeTaken, [Next]_vars, sound,
                      NEW i \in shadowStatus' \ shadowStatus
               PROVE  i \in shadowControl.active /\ Due(i)
    OBVIOUS
  <2>1. i \in shadowControl.active /\ Elapsed(time, Trigger[i])
    BY OnlyExpireRaises DEF Expiring
  <2>2. /\ time \in [hi : Nat, lo : 0 .. Base - 1]
        /\ Trigger[i] \in [hi : Nat, lo : Nat]
    BY <2>1 DEF TypeOK
  <2>3. Seconds(time) > Trigger[i].hi * Base + Clamped(Trigger[i].lo)
    BY <2>1, <2>2, ElapsedIsLater
  <2>4. Seconds(time) <= Seconds(CurrentTime)
    BY DEF TimeTaken
  <2>5. /\ Seconds(time) \in Nat /\ Seconds(CurrentTime) \in Nat
        /\ Trigger[i].hi * Base + Clamped(Trigger[i].lo) \in Nat
    BY <2>2, CurrentTimeIsTime, ClampedType, TimeAssumption DEF Seconds
  <2>6. QED
    BY <2>1, <2>3, <2>4, <2>5 DEF Due, Seconds
<1>3. QED
  BY <1>1, <1>2, TimeTakenNext, TypeCorrect, PTL DEF Spec, NeverEarly
=============================================================================
