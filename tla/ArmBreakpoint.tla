---------------------------- MODULE ArmBreakpoint ----------------------------
(***************************************************************************)
(* Stepping over an instruction on 32-bit ARM, platforms/posix-arm32.cpp.  *)
(*                                                                         *)
(* ARM has no trap flag.  The fault handler writes a BKPT over the         *)
(* instruction behind the one that accessed a register, and the trap       *)
(* handler puts back what was there.  The breakpoint is therefore in code  *)
(* that all threads run, while what it means is in a thread_local, and a   *)
(* thread that runs into the breakpoint of another one is trapped again    *)
(* and again until that one has removed it.                                *)
(*                                                                         *)
(* Code is a row of halfwords: an ARM instruction has two, one of Thumb    *)
(* one or two.  A BKPT of Thumb is one halfword, but Save and Restore copy *)
(* two.  A thread runs a route, the instructions it meets in turn; routes  *)
(* of different threads may join, run the same code, and access the same   *)
(* register file.  Code may take the memory lock of a controller around    *)
(* its accesses, for which the hooks wait.  Nothing in the code under      *)
(* src/ makes a program do so: Disciplined says what it has to take care   *)
(* of, and is a hypothesis of the theorems, not an assumption.             *)
(*                                                                         *)
(* A breakpoint that is stored, or removed, is seen by the next fetch of   *)
(* any thread: the code relies on it without maintaining the caches.       *)
(*                                                                         *)
(* The registry is left out, and so are the locks inside a hook, since a   *)
(* hook is one step: they are the subject of Registry and HookEngine.      *)
(*                                                                         *)
(* A definition Faulty_D is D with a plausible bug, used by no other.      *)
(***************************************************************************)
EXTENDS Naturals, Sequences

CONSTANTS
  Threads,
  Controllers,
  HookType,      \* [Controllers -> HookTypes]
  Reentrant,     \* controllers whose hooks use their public mapping
  PageSize,      \* halfwords of code in a page
  Layouts,       \* what threads run: instruction set, route of each thread
  NoAccess

HookTypes == {"Read", "Write", "ReadWrite"}

\* The instructions thread t runs in layout l, and those that access.
Instructions(l, t) == {l.route[t][k] : k \in DOMAIN l.route[t]}
IsAccess(i) == i.kind \in {"read", "write"}
AccessesOf(l, t) == {i \in Instructions(l, t) : IsAccess(i)}
Accesses == UNION {AccessesOf(l, t) : l \in Layouts, t \in Threads}

Cells(i) == i.address .. i.address + i.size - 1

\* The cells behind an access, which Save reads and Restore writes.
SavedCells(i) == {i.address + i.size, i.address + i.size + 1}

\* What is behind an access is the instruction that runs next: none branches.
StraightOn(l) ==
  \A t \in Threads : \A k \in DOMAIN l.route[t] :
    IsAccess(l.route[t][k]) /\ k + 1 \in DOMAIN l.route[t]
      => l.route[t][k + 1].address = l.route[t][k].address + l.route[t][k].size

ASSUME ArmAssumption ==
  /\ HookType \in [Controllers -> HookTypes]
  /\ Reentrant \subseteq Controllers
  /\ PageSize \in Nat \ {0}
  /\ \A l \in Layouts :
       /\ l.set \in {"arm", "thumb"}
       /\ \A t \in Threads :
            l.route[t] \in Seq([address : Nat,
                               size : IF l.set = "arm" THEN {2} ELSE {1, 2},
                               kind : {"none", "lock", "unlock",
                                       "read", "write"},
                               c : Controllers])
       /\ StraightOn(l)
  /\ NoAccess \notin Accesses

VARIABLES
  layout,     \* what the threads run
  code,       \* cells that hold a part of a breakpoint
  writable,   \* pages of code that mprotect has made writable
  open,       \* controllers whose public mapping is unprotected
  killed,     \* a signal has ended the process
  pc,         \* the place of each thread in its route
  at,         \* and where it is in an instruction, or a handler
  bp,         \* its BreakPointData
  \* The access each thread makes, or made last; hooks run for it, and whether
  \* it took effect (history).
  access, hooks, done

vars == <<layout, code, writable, open, killed, pc, at, bp, access, hooks,
          done>>

memory  == <<layout, code, writable, open>>
history == <<access, hooks, done>>

HooksRead(c)  == HookType[c] \in {"Read", "ReadWrite"}
HooksWrite(c) == HookType[c] \in {"Write", "ReadWrite"}

IsMemoryWriteAccess(i) == i.kind = "write"

Permitted(i) ==
  \/ i.c \in open
  \/ i.kind = "read" /\ ~HooksRead(i.c)

Ended(t) == pc[t] > Len(layout.route[t])

Instruction(t) == layout.route[t][pc[t]]

\* The controllers whose memory lock thread t holds in place k of its route.
\* The lock is recursive; here its first release counts.
HeldAt(l, t, k) ==
  LET Is(j, kind, c) == l.route[t][j].kind = kind /\ l.route[t][j].c = c
  IN  {c \in Controllers :
         \E j \in DOMAIN l.route[t] :
           /\ j < k /\ Is(j, "lock", c)
           /\ \A m \in DOMAIN l.route[t] :
                j < m /\ m < k => ~Is(m, "unlock", c)}

Held(t) == HeldAt(layout, t, pc[t])

Faulty_Available(c, t) == TRUE

\* The memory lock of c can be taken, by t itself or by a hook it calls.
Available(c, t) == \A u \in Threads \ {t} : c \notin Held(u)

Goto(t, from, label) ==
  /\ ~killed
  /\ at[t] = from
  /\ at' = [at EXCEPT ![t] = label]

\* What a store into cells of the code does: SIGSEGV is fatal in a handler.
Writes(cells, contents) ==
  IF {cell \div PageSize : cell \in cells} \subseteq writable
  THEN code' = contents /\ UNCHANGED killed
  ELSE killed' = TRUE /\ UNCHANGED code

-----------------------------------------------------------------------------
(* The processor. *)

\* An instruction that is not an access, and not under a breakpoint, is run:
\* the release of a lock, or one that does nothing of interest here ...
Run(t) ==
  /\ ~Ended(t)
  /\ Goto(t, "fetch", "fetch")
  /\ Instruction(t).kind \in {"none", "unlock"}
  /\ Cells(Instruction(t)) \cap code = {}
  /\ pc' = [pc EXCEPT ![t] = @ + 1]
  /\ UNCHANGED <<memory, killed, bp, history>>

\* ... or AcquireMemoryLock, and a lock of it.
Lock(t) ==
  /\ ~Ended(t)
  /\ Goto(t, "fetch", "fetch")
  /\ Instruction(t).kind = "lock"
  /\ Cells(Instruction(t)) \cap code = {}
  /\ Available(Instruction(t).c, t)
  /\ pc' = [pc EXCEPT ![t] = @ + 1]
  /\ UNCHANGED <<memory, killed, bp, history>>

\* An access is begun, or begun again after its fault.
Fetch(t) ==
  /\ ~Ended(t)
  /\ Goto(t, "fetch", "access")
  /\ IsAccess(Instruction(t))
  /\ Cells(Instruction(t)) \cap code = {}
  /\ IF access[t] = NoAccess \/ done[t]
     THEN /\ access' = [access EXCEPT ![t] = Instruction(t)]
          /\ hooks' = [hooks EXCEPT ![t] = 0]
          /\ done' = [done EXCEPT ![t] = FALSE]
     ELSE UNCHANGED history
  /\ UNCHANGED <<memory, killed, pc, bp>>

Perform(t) ==
  /\ Goto(t, "access", "fetch")
  /\ Permitted(access[t])
  /\ done' = [done EXCEPT ![t] = TRUE]
  /\ pc' = [pc EXCEPT ![t] = @ + 1]
  /\ UNCHANGED <<memory, killed, bp, access, hooks>>

Fault(t) ==
  /\ Goto(t, "access",
          IF IsMemoryWriteAccess(access[t]) THEN "install" ELSE "hookRead")
  /\ ~Permitted(access[t])
  /\ UNCHANGED <<memory, killed, pc, bp, history>>

-----------------------------------------------------------------------------
(* AccessViolationHandler. *)

\* SIGSEGV is blocked here, and a second one fatal.
HookRead(t) ==
  /\ Goto(t, "hookRead", "install")
  /\ Available(access[t].c, t)
  /\ killed' = (access[t].c \in Reentrant \ open)
  /\ hooks' = [hooks EXCEPT ![t] = @ + 1]
  /\ UNCHANGED <<memory, pc, bp, access, done>>

NoBreakPoint ==
  [active |-> FALSE, c |-> NoAccess, store |-> FALSE, address |-> 0,
   opcode |-> {}]

Faulty_NextAddress(i) ==
  IF layout.set = "arm" THEN i.address + 2 ELSE i.address + 1

Faulty2_NextAddress(i) == i.address + 2 * i.size

\* Two halfwords of Thumb are recognised by what is found there.
NextAddress(i) ==
  IF layout.set = "arm" THEN i.address + 2
  ELSE i.address + IF i.address \in code THEN 1 ELSE i.size

\* mprotect, for the page of the instruction.
MakeWritable(i) == writable' = writable \cup {i.address \div PageSize}

\* Unprotect, and InstallBreakPoint up to Save ...
InstallBreakPoint(t) ==
  LET i    == access[t]
      next == NextAddress(i)
  IN  /\ Goto(t, "install", "patch")
      /\ open' = open \cup {i.c}
      /\ MakeWritable(i)
      /\ bp' = [bp EXCEPT ![t] =
                  [active |-> TRUE, c |-> i.c, store |-> IsMemoryWriteAccess(i),
                   address |-> next, opcode |-> {next, next + 1} \cap code]]
      /\ UNCHANGED <<layout, code, killed, pc, history>>

\* ... and the store of the breakpoint.
Patch(t) ==
  LET next  == bp[t].address
      cells == IF layout.set = "arm" THEN {next, next + 1} ELSE {next}
  IN  /\ Goto(t, "patch", "fetch")
      /\ Writes(cells, code \cup cells)
      /\ UNCHANGED <<layout, writable, open, pc, bp, history>>

-----------------------------------------------------------------------------
(* TracePointHandler. *)

Faulty_Trap(t) ==
  /\ ~Ended(t)
  /\ Instruction(t).address \in code
  /\ bp[t].active
  /\ Goto(t, "fetch", IF bp[t].store /\ HooksWrite(bp[t].c) THEN "hookWrite"
                      ELSE "uninstall")
  /\ open' = open \ {bp[t].c}
  /\ UNCHANGED <<layout, code, writable, killed, pc, bp, history>>

\* A trap of a thread that has no breakpoint returns to it and is repeated.
Trap(t) ==
  /\ ~Ended(t)
  /\ Instruction(t).address \in code
  /\ bp[t].active
  /\ Goto(t, "fetch", IF bp[t].store /\ HooksWrite(bp[t].c) THEN "hookWrite"
                      ELSE "uninstall")
  /\ UNCHANGED <<memory, killed, pc, bp, history>>

\* Here a fault would be handled, but not the breakpoint after it.
HookWrite(t) ==
  /\ Goto(t, "hookWrite", "uninstall")
  /\ Available(bp[t].c, t)
  /\ killed' = (bp[t].c \in Reentrant \ open)
  /\ hooks' = [hooks EXCEPT ![t] = @ + 1]
  /\ UNCHANGED <<memory, pc, bp, access, done>>

\* Both halfwords are put back.
Restored(b) == (code \ {b.address, b.address + 1}) \cup b.opcode

\* UninstallBreakPoint and RestoreProtection.
UninstallBreakPoint(t) ==
  /\ Goto(t, "uninstall", "fetch")
  /\ Writes({bp[t].address, bp[t].address + 1}, Restored(bp[t]))
  /\ open' = open \ {bp[t].c}
  /\ bp' = [bp EXCEPT ![t] = NoBreakPoint]
  /\ UNCHANGED <<layout, writable, pc, history>>

-----------------------------------------------------------------------------
Init ==
  /\ layout \in Layouts
  /\ code = {} /\ writable = {} /\ open = {} /\ killed = FALSE
  /\ pc = [t \in Threads |-> 1]
  /\ at = [t \in Threads |-> "fetch"]
  /\ bp = [t \in Threads |-> NoBreakPoint]
  /\ access = [t \in Threads |-> NoAccess]
  /\ hooks = [t \in Threads |-> 0]
  /\ done = [t \in Threads |-> FALSE]

Step(t) ==
  \/ Run(t) \/ Lock(t) \/ Fetch(t) \/ Perform(t) \/ Fault(t)
  \/ HookRead(t) \/ InstallBreakPoint(t) \/ Patch(t)
  \/ Trap(t) \/ HookWrite(t) \/ UninstallBreakPoint(t)

Next == \E t \in Threads : Step(t)

Spec == Init /\ [][Next]_vars

\* Every thread is run.
FairSpec == Spec /\ \A t \in Threads : WF_vars(Step(t))

-----------------------------------------------------------------------------
(* Properties. *)

\* One register file, or one's breakpoint in the other's way.
Conflict(i, j) ==
  \/ i.c = j.c
  \/ SavedCells(i) \cap (SavedCells(j) \cup Cells(j)) # {}
  \/ SavedCells(j) \cap (SavedCells(i) \cup Cells(i)) # {}

\* What a program has to take care of: accesses that conflict are made under
\* one lock, which the access is followed by the release of, at the earliest.
Disciplined(l) ==
  \A t, u \in Threads : t # u =>
    \A k \in DOMAIN l.route[t], m \in DOMAIN l.route[u] :
      /\ IsAccess(l.route[t][k]) /\ IsAccess(l.route[u][m])
      /\ Conflict(l.route[t][k], l.route[u][m])
      => HeldAt(l, t, k) \cap HeldAt(l, u, m) # {}

OwnCells(t) == UNION {SavedCells(i) : i \in AccessesOf(layout, t)}

\* Every variable holds a value of its type.
TypeOK ==
  /\ layout \in Layouts
  /\ code \subseteq UNION {OwnCells(t) : t \in Threads}
  /\ writable \subseteq {i.address \div PageSize : i \in Accesses}
  /\ open \subseteq Controllers
  /\ killed \in BOOLEAN
  /\ \A t \in Threads : pc[t] \in 1 .. Len(layout.route[t]) + 1
  /\ at \in [Threads -> {"fetch", "access", "hookRead", "install", "patch",
                         "hookWrite", "uninstall"}]
  /\ \A t \in Threads :
       \/ bp[t] = NoBreakPoint
       \/ bp[t] \in [active : {TRUE}, c : Controllers, store : BOOLEAN,
                     address : OwnCells(t), opcode : SUBSET OwnCells(t)]
  /\ access \in [Threads -> Accesses \cup {NoAccess}]
  /\ hooks \in [Threads -> {0, 1}]
  /\ done \in [Threads -> BOOLEAN]

\* t has a breakpoint in the code, or is about to remove it.
Patching(t) == bp[t].active /\ at[t] # "patch"

\* While threads step over accesses side by side, or one after the other over
\* the same, and run into each other's breakpoints, the code differs from the
\* program exactly by the breakpoints of those that are stepping, and only
\* their mappings are open.
NoTraceLeft ==
  ~killed =>
    /\ code = UNION {IF layout.set = "arm"
                     THEN {bp[t].address, bp[t].address + 1}
                     ELSE {bp[t].address} : t \in {u \in Threads : Patching(u)}}
    /\ open = {bp[t].c : t \in {u \in Threads : bp[u].active}}

\* The access ends at the edge of its page, and the code of the next page may
\* not be writable.
AtPageEnd(i) ==
  \E cell \in SavedCells(i) : cell \div PageSize # i.address \div PageSize

\* Only two things kill the process: an access at the end of a page of code,
\* since mprotect is called for the page of the access alone, and a HookRead
\* that uses the public mapping.  A HookWrite may, as it finds it open.
KilledOnlyByKnownCauses ==
  killed => \E t \in Threads :
              /\ access[t] # NoAccess
              /\ \/ AtPageEnd(access[t])
                 \/ access[t].kind = "read" /\ access[t].c \in Reentrant

HA == INSTANCE HookedAccess WITH
        HookedLoads  <- {i \in Accesses : i.kind = "read" /\ HooksRead(i.c)},
        HookedStores <- {i \in Accesses : i.kind = "write" /\ HooksWrite(i.c)},
        op <- access

\* A breakpoint in shared code does what the trap flag does for one thread:
\* each access gets its hooks, and no access of another thread to the same
\* register file, made under the same lock, comes in between.
RefinesHookedAccess == HA!Spec

\* No thread is trapped forever at a breakpoint, its own or another's.
ThreadsEnd == <>(killed \/ \A t \in Threads : Ended(t))

=============================================================================
