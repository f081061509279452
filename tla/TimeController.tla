--------------------------- MODULE TimeController ---------------------------
(***************************************************************************)
(* The time controller of examples/102-time_controller.cpp: a thread that  *)
(* lets timers expire, controlled by the hooks of a driver's accesses.     *)
(*                                                                         *)
(* Hooks and the thread's work on the timers exclude each other by the     *)
(* memory lock; the words of the register file do not, since an            *)
(* instruction stores into them before its hook takes the lock, or loads   *)
(* from them after its hook has released it.  And the thread's orders,     *)
(* timerThreadControl, are written by the driver, the constructor, the     *)
(* destructor and the thread itself under no lock at all.                  *)
(*                                                                         *)
(* Every access has its hook here.  That is an assumption, true as long as *)
(* the accesses of driver and routine do not overlap, which the code does  *)
(* not see to; HookEngine says what becomes of those that do.              *)
(*                                                                         *)
(* One driver thread uses the controller, and its interrupt routine, which *)
(* it connects before it starts the timers, acknowledges what it reads in  *)
(* StatusWord as the one of the example does; or the driver polls, and     *)
(* acknowledges; or both.  A control word is the bits Start,               *)
(* StartTimer<X> and Timer<X>IE, a status word Timer<X>Interrupt.          *)
(* CurrentTimeHi, CurrentTimeLo and NotUsed change no state others read.   *)
(*                                                                         *)
(* The locals of the timer thread are emptied where they go out of scope.  *)
(*                                                                         *)
(* A definition Faulty_D is D with a plausible bug, used by no other.      *)
(***************************************************************************)
EXTENDS Naturals

CONSTANTS
  Timers,        \* the timers of the controller
  Base,          \* units of TriggerTimeLo in one of TriggerTimeHi
  HiTimes,       \* values drivers write to InitialTime and TriggerTimeHi
  LoTimes,       \* values drivers write to TriggerTimeLo
  Programs,      \* sets of those who acknowledge, "driver" and "routine"
  Leftovers,     \* orders the memory may seem to hold before construction
  Uptime,        \* the clock when the controller is constructed
  MaxTime,       \* bound: ticks of the clock from then on
  MaxOps         \* bound: operations the driver starts

Orders == {"Idle", "Abort", "Running", "Restart"}

ASSUME TimeAssumption ==
  /\ Base \in Nat \ {0}
  /\ HiTimes \subseteq Nat
  /\ LoTimes \subseteq Nat
  /\ Programs \subseteq SUBSET {"driver", "routine"}
  /\ Leftovers \subseteq Orders
  /\ Uptime \in Nat
  /\ MaxTime \in Nat
  /\ MaxOps \in Nat

VARIABLES
  now,               \* the clock
  \* The controller.
  memoryLock,        \* "free", or who holds it: "driver", "timer"
  timerThreadControl,
  shadowControl,     \* timers that are active, and enabled to interrupt
  shadowStatus,      \* timers with a pending interrupt
  whenStarted, whenStartedRegisterTime,
  \* The register file.
  InitialTime,
  Trigger,           \* TriggerTimeHi and TriggerTimeLo of each timer
  StatusWord,
  \* The timer thread.
  tpc, time, status, flags,
  \* The driver.
  acknowledge,       \* who acknowledges interrupts in this program
  dpc, value, seen, ops,
  \* History: interrupts raised that nobody has read yet, and whether time
  \* was taken from an initialized clock.
  unseen, sound

clocks     == <<whenStarted, whenStartedRegisterTime>>
shadows    == <<shadowControl, shadowStatus>>
controller == <<memoryLock, timerThreadControl, shadows, clocks>>
registers  == <<InitialTime, Trigger, StatusWord>>
timer      == <<tpc, time, status, flags>>
locals     == <<value, seen, ops>>
driver     == <<acknowledge, dpc, locals>>
history    == <<unseen, sound>>
vars == <<now, controller, registers, timer, driver, history>>

ControlWords ==
  [Start : BOOLEAN, active : SUBSET Timers, enabled : SUBSET Timers]

NoWord == [Start |-> FALSE, active |-> {}, enabled |-> {}]

Tick ==
  /\ now < Uptime + MaxTime
  /\ now' = now + 1
  /\ UNCHANGED <<controller, registers, timer, driver, history>>

-----------------------------------------------------------------------------
(* Time, as registers show it. *)

Faulty_CurrentTime ==
  LET duration == now - whenStarted
  IN  [hi |-> whenStartedRegisterTime + duration \div Base, lo |-> duration]

CurrentTime ==
  LET duration == now - whenStarted
  IN  [hi |-> whenStartedRegisterTime + duration \div Base,
       lo |-> duration % Base]

Faulty_Elapsed(t, trigger) ==
  t.hi > trigger.hi \/ (t.hi = trigger.hi /\ t.lo >= trigger.lo)

Faulty2_Elapsed(t, trigger) == t.hi >= trigger.hi /\ t.lo > trigger.lo

Elapsed(t, trigger) ==
  t.hi > trigger.hi \/ (t.hi = trigger.hi /\ t.lo > trigger.lo)

NoTime == [hi |-> 0, lo |-> 0]

Clamped(lo) == IF lo < Base THEN lo ELSE Base - 1

-----------------------------------------------------------------------------
(* The driver's thread: the constructor, accesses, the destructor. *)

\* The driver's program goes on to label.
Drive(from, label) == dpc = from /\ dpc' = label

\* The timer thread is started before the members behind it are initialized
\* here, and so may act on what the memory held before.
Construct ==
  /\ Drive("construct", "initialize")
  /\ timerThreadControl' = "Idle"
  /\ UNCHANGED <<acknowledge, now, memoryLock, shadows, clocks, registers,
                 timer, locals, history>>

Initialize ==
  /\ Drive("initialize", "idle")
  /\ whenStarted' = 0 /\ whenStartedRegisterTime' = 0
  /\ UNCHANGED <<acknowledge, now, memoryLock, timerThreadControl, shadows,
                 registers, timer, locals, history>>

Begins(label) ==
  /\ Drive("idle", label)
  /\ ops > 0
  /\ ops' = ops - 1

\* The hook of InitialTime has nothing to do.
WriteInitialTime(hi) ==
  /\ Begins("idle")
  /\ InitialTime' = hi
  /\ UNCHANGED <<acknowledge, now, controller, Trigger, StatusWord, timer,
                 value, seen, history>>

\* Nor has that of TriggerTimeHi.
WriteTriggerTimeHi(i, hi) ==
  /\ Begins("idle")
  /\ Trigger' = [Trigger EXCEPT ![i].hi = hi]
  /\ UNCHANGED <<acknowledge, now, controller, InitialTime, StatusWord,
                 timer, value, seen, history>>

\* The instruction stores what the driver wrote ...
WriteTriggerTimeLo(i, lo) ==
  /\ Begins("clamp")
  /\ Trigger' = [Trigger EXCEPT ![i].lo = lo]
  /\ UNCHANGED <<acknowledge, now, controller, InitialTime, StatusWord,
                 timer, value, seen, history>>

\* ... and the hook of that timer, the only one out of range, corrects it.
HookTriggerTimeLo ==
  /\ Drive("clamp", "idle")
  /\ memoryLock = "free"
  /\ Trigger' = [i \in Timers |-> [Trigger[i] EXCEPT !.lo = Clamped(@)]]
  /\ UNCHANGED <<acknowledge, now, controller, InitialTime, StatusWord,
                 timer, locals, history>>

WriteControlWord(word) ==
  /\ Begins("control")
  /\ "routine" \in acknowledge \/ word.enabled = {}
  /\ value' = word
  /\ UNCHANGED <<acknowledge, now, controller, registers, timer, seen,
                 history>>

\* ControlChanged gives the order to restart, which the timer thread may
\* take at once ...
HookControlWord ==
  /\ Drive("control", "controlChanged")
  /\ memoryLock = "free"
  /\ memoryLock' = "driver"
  /\ timerThreadControl' = IF value.Start THEN "Restart"
                           ELSE timerThreadControl
  /\ UNCHANGED <<acknowledge, now, shadows, clocks, registers, timer, locals,
                 history>>

\* ... and then stores the other bits.
ControlChanged ==
  /\ Drive("controlChanged", "idle")
  /\ shadowControl' = [active |-> value.active, enabled |-> value.enabled]
  /\ memoryLock' = "free"
  /\ value' = NoWord
  /\ UNCHANGED <<acknowledge, now, timerThreadControl, shadowStatus, clocks,
                 registers, timer, seen, ops, history>>

HookStatusRead ==
  /\ Begins("load")
  /\ memoryLock = "free"
  /\ StatusWord' = shadowStatus
  /\ UNCHANGED <<acknowledge, now, controller, InitialTime, Trigger, timer,
                 value, seen, history>>

LoadStatus ==
  /\ Drive("load", "loaded")
  /\ seen' = StatusWord
  /\ unseen' = unseen \ StatusWord
  /\ UNCHANGED <<acknowledge, now, controller, registers, timer, value, ops,
                 sound>>

\* The driver may acknowledge what it has read, or only look.
Look ==
  /\ Drive("loaded", "idle")
  /\ seen' = {}
  /\ UNCHANGED <<acknowledge, now, controller, registers, timer, value, ops,
                 history>>

StoreStatus ==
  /\ Drive("loaded", "reset")
  /\ "driver" \in acknowledge
  /\ StatusWord' = seen
  /\ seen' = {}
  /\ UNCHANGED <<acknowledge, now, controller, InitialTime, Trigger, timer,
                 value, ops, history>>

Faulty_AtomicReset == shadowStatus' = {}

\* The hook of a store to StatusWord resets the bits that are set in it.
AtomicReset == shadowStatus' = shadowStatus \ StatusWord

HookStatusWrite ==
  /\ Drive("reset", "idle")
  /\ memoryLock = "free"
  /\ AtomicReset
  /\ UNCHANGED <<acknowledge, now, memoryLock, timerThreadControl,
                 shadowControl, clocks, registers, timer, locals, history>>

Faulty_Destroy ==
  /\ Drive("idle", "join")
  /\ memoryLock = "free"
  /\ memoryLock' = "driver"
  /\ timerThreadControl' = "Abort"
  /\ UNCHANGED <<acknowledge, now, shadows, clocks, registers, timer, locals,
                 history>>

\* ~Controller102 orders the thread to end ...
Destroy ==
  /\ Drive("idle", "join")
  /\ timerThreadControl' = "Abort"
  /\ UNCHANGED <<acknowledge, now, memoryLock, shadows, clocks, registers,
                 timer, locals, history>>

\* ... and waits for it.
Join ==
  /\ Drive("join", "gone")
  /\ tpc = "exited"
  /\ UNCHANGED <<acknowledge, now, controller, registers, timer, locals,
                 history>>

-----------------------------------------------------------------------------
(* TimerThread. *)

Goto(from, label) == tpc = from /\ tpc' = label

Exit ==
  /\ Goto("switch", "exited")
  /\ timerThreadControl = "Abort"
  /\ UNCHANGED <<now, controller, registers, time, status, flags, driver,
                 history>>

Restart ==
  /\ Goto("switch", "restart")
  /\ timerThreadControl = "Restart"
  /\ whenStarted' = now
  /\ UNCHANGED <<now, memoryLock, timerThreadControl, shadows,
                 whenStartedRegisterTime, registers, time, status, flags,
                 driver, history>>

LatchInitialTime ==
  /\ Goto("restart", "run")
  /\ memoryLock = "free"
  /\ whenStartedRegisterTime' = InitialTime
  /\ UNCHANGED <<now, memoryLock, timerThreadControl, shadows, whenStarted,
                 registers, time, status, flags, driver, history>>

\* Whatever was ordered meanwhile.
Run ==
  /\ Goto("run", "switch")
  /\ timerThreadControl' = "Running"
  /\ UNCHANGED <<now, memoryLock, shadows, clocks, registers, time, status,
                 flags, driver, history>>

TakeTime ==
  /\ Goto("switch", "expire")
  /\ timerThreadControl = "Running"
  /\ time' = CurrentTime
  /\ sound' = (dpc \notin {"construct", "initialize"})
  /\ UNCHANGED <<now, controller, registers, status, flags, driver, unseen>>

Expiring == {i \in shadowControl.active : Elapsed(time, Trigger[i])}

Faulty_RaiseAndResetTimers ==
  /\ shadowControl' = [shadowControl EXCEPT !.active = @ \ Expiring]
  /\ shadowStatus' = Expiring
  /\ unseen' = unseen \cup (Expiring \ shadowStatus)

\* RaiseAndResetTimer for each timer, under the memory lock.  At most one
\* store of the driver comes in between, since the hook of the store waits
\* for the lock; it is as if it came before or after.
RaiseAndResetTimers ==
  /\ shadowControl' = [shadowControl EXCEPT !.active = @ \ Expiring]
  /\ shadowStatus' = shadowStatus \cup Expiring
  /\ unseen' = unseen \cup (Expiring \ shadowStatus)

Expire ==
  /\ Goto("expire", "loadStatus")
  /\ memoryLock = "free"
  /\ RaiseAndResetTimers
  /\ time' = NoTime /\ sound' = FALSE
  /\ UNCHANGED <<now, memoryLock, timerThreadControl, clocks, registers,
                 status, flags, driver>>

LoadShadowStatus ==
  /\ Goto("loadStatus", "loadControl")
  /\ status' = shadowStatus
  /\ UNCHANGED <<now, controller, registers, time, flags, driver, history>>

Faulty_Interrupts == status \cap shadowControl.active # {}

Interrupts == status \cap shadowControl.enabled # {}

\* After the loads, or the interrupt, the thread sleeps.
LoadShadowControl ==
  /\ Goto("loadControl", IF Interrupts THEN "trigger" ELSE "switch")
  /\ status' = {}
  /\ UNCHANGED <<now, controller, registers, time, flags, driver, history>>

TriggerInterrupt ==
  /\ Goto("trigger", "isrRead")
  /\ memoryLock = "free"
  /\ memoryLock' = "timer"
  /\ UNCHANGED <<now, timerThreadControl, shadows, clocks, registers, time,
                 status, flags, driver, history>>

\* The routine reads StatusWord: the hook, the instruction ...
RoutineHookRead ==
  /\ Goto("isrRead", "isrLoad")
  /\ StatusWord' = shadowStatus
  /\ UNCHANGED <<now, controller, InitialTime, Trigger, time, status, flags,
                 driver, history>>

RoutineLoad ==
  /\ Goto("isrLoad", "isrStore")
  /\ flags' = StatusWord
  /\ unseen' = unseen \ StatusWord
  /\ UNCHANGED <<now, controller, registers, time, status, driver, sound>>

\* ... and writes it back: the instruction, the hook.
RoutineStore ==
  /\ Goto("isrStore", "isrReset")
  /\ StatusWord' = flags
  /\ flags' = {}
  /\ UNCHANGED <<now, controller, InitialTime, Trigger, time, status, driver,
                 history>>

RoutineHookWrite ==
  /\ Goto("isrReset", "switch")
  /\ AtomicReset
  /\ memoryLock' = "free"
  /\ UNCHANGED <<now, timerThreadControl, shadowControl, clocks, registers,
                 time, status, flags, driver, history>>

-----------------------------------------------------------------------------
Init ==
  /\ now = Uptime
  /\ memoryLock = "free"
  /\ timerThreadControl \in Leftovers
  /\ shadowControl = [active |-> {}, enabled |-> {}]
  /\ shadowStatus = {}
  /\ whenStarted \in {0, Uptime} /\ whenStartedRegisterTime \in HiTimes
  /\ InitialTime = 0
  /\ Trigger = [i \in Timers |-> NoTime]
  /\ StatusWord = {}
  /\ tpc = "switch" /\ time = NoTime
  /\ status = {} /\ flags = {}
  /\ acknowledge \in Programs
  /\ dpc = "construct" /\ value = NoWord /\ seen = {} /\ ops = MaxOps
  /\ unseen = {} /\ sound = FALSE

\* Steps of an access, or of the destructor, that the driver is in.
DriverContinues ==
  \/ Construct \/ Initialize \/ HookTriggerTimeLo
  \/ HookControlWord \/ ControlChanged
  \/ LoadStatus \/ Look \/ StoreStatus \/ HookStatusWrite \/ Join

DriverStarts ==
  \/ \E hi \in HiTimes :
       WriteInitialTime(hi) \/ \E i \in Timers : WriteTriggerTimeHi(i, hi)
  \/ \E i \in Timers, lo \in LoTimes : WriteTriggerTimeLo(i, lo)
  \/ \E word \in ControlWords : WriteControlWord(word)
  \/ HookStatusRead
  \/ Destroy

TimerThread ==
  \/ Exit \/ Restart \/ LatchInitialTime \/ Run
  \/ TakeTime \/ Expire \/ LoadShadowStatus \/ LoadShadowControl
  \/ TriggerInterrupt \/ RoutineHookRead \/ RoutineLoad \/ RoutineStore
  \/ RoutineHookWrite

Next == Tick \/ DriverStarts \/ DriverContinues \/ TimerThread

\* Both threads are run; nothing makes the driver start an access.
Fairness == WF_vars(TimerThread) /\ WF_vars(DriverContinues)

Spec == Init /\ [][Next]_vars

FairSpec == Spec /\ Fairness

-----------------------------------------------------------------------------
(* Properties. *)

\* Every variable holds a value of its type.
TypeOK ==
  /\ now \in Uptime .. Uptime + MaxTime
  /\ memoryLock \in {"free", "driver", "timer"}
  /\ timerThreadControl \in Orders
  /\ shadowControl \in [active : SUBSET Timers, enabled : SUBSET Timers]
  /\ shadowStatus \in SUBSET Timers
  /\ whenStarted \in 0 .. now
  /\ whenStartedRegisterTime \in Nat
  /\ InitialTime \in Nat
  /\ Trigger \in [Timers -> [hi : Nat, lo : Nat]]
  /\ StatusWord \in SUBSET Timers
  /\ tpc \in {"switch", "restart", "run", "expire", "loadStatus",
              "loadControl", "trigger", "isrRead", "isrLoad", "isrStore",
              "isrReset", "exited"}
  /\ time \in [hi : Nat, lo : 0 .. Base - 1]
  /\ status \in SUBSET Timers
  /\ flags \in SUBSET Timers
  /\ acknowledge \in Programs
  /\ dpc \in {"construct", "initialize", "idle", "clamp", "control",
              "controlChanged", "load", "loaded", "reset", "join", "gone"}
  /\ value \in ControlWords
  /\ seen \in SUBSET Timers
  /\ ops \in 0 .. MaxOps
  /\ unseen \in SUBSET Timers
  /\ sound \in BOOLEAN

\* An interrupt bit stays set until the driver, or its routine, has read it as
\* set, although timers elapse between the read and the write of StatusWord,
\* and between the write and the hook that resets bits.  This is so when one
\* of the two acknowledges.  When both do, the hook of a store may reset a bit
\* that has been acknowledged and raised again since the store.
NoInterruptLost == unseen \subseteq shadowStatus

\* The controller's time is past what timer i is set to, out of range or not.
Due(i) ==
  CurrentTime.hi * Base + CurrentTime.lo
    > Trigger[i].hi * Base + Clamped(Trigger[i].lo)

\* A timer raises its interrupt only when it is active and due, although the
\* thread looks at the clock before it takes the lock, may be told to restart
\* it, and finds TriggerTimeLo out of range until its hook has corrected it.
\* Due is what the clock as it stands says: before the thread has carried out
\* an order to restart, that is the old one.  A time taken before construction
\* was complete proves nothing.
NeverEarly ==
  [][sound => \A i \in shadowStatus' \ shadowStatus :
                i \in shadowControl.active /\ Due(i)]_vars

Controlled == timerThreadControl = "Running" /\ tpc # "exited"

\* A pending interrupt that is enabled is acknowledged by the routine, or by
\* the driver, although the thread looks for it in two words that change
\* meanwhile, unless it is disabled or the controller is told to end.
InterruptsDelivered ==
  \A i \in Timers :
    Controlled /\ i \in shadowStatus \cap shadowControl.enabled
      ~> \/ i \notin shadowStatus \cap shadowControl.enabled
         \/ timerThreadControl = "Abort"

\* An active timer that is due is noticed, unless it is stopped, set anew or
\* the clock is restarted.
TimersElapse ==
  \A i \in Timers :
    Controlled /\ i \in shadowControl.active /\ Due(i)
      ~> \/ i \notin shadowControl.active \/ ~Due(i)
         \/ timerThreadControl = "Abort"

\* Whenever Start is written the timer thread restarts, unless the controller
\* is destroyed: "Controller restarts every time when 1 is written here".
EveryStartRestarts ==
  dpc = "controlChanged" /\ timerThreadControl = "Restart"
    ~> tpc = "restart" \/ timerThreadControl = "Abort"

Restarting == tpc \in {"restart", "run"}

\* The destructor returns, whatever the timer thread is at, unless its Abort
\* meets a restart that is under way and is overwritten by Running.
DestructorReturns ==
  dpc = "join" /\ timerThreadControl = "Abort" /\ ~Restarting ~> dpc = "gone"

=============================================================================
