------------------------ MODULE ArmBreakpointProofs ------------------------
(***************************************************************************)
(* What holds of ArmBreakpoint for any threads, controllers and code, and  *)
(* any place of the ends of pages, if the code the threads run is          *)
(* Disciplined: a breakpoint in code that all threads run does what the    *)
(* trap flag does for one, as long as accesses that conflict are made      *)
(* under one lock.                                                         *)
(*                                                                         *)
(* The invariant, Inv, says for each thread how far its access is and what *)
(* its breakpoint is (Stage), and of what all threads share, the code and  *)
(* the mappings, that they are what the breakpoints of all threads make of *)
(* them (Shared), and that a lock has one owner (Exclusive).  A thread     *)
(* that is Inside an access still holds the locks it began it with, so     *)
(* two that are inside accesses do not conflict (NoConflict).  The         *)
(* invariant ends with the process: the step that kills it leaves a store  *)
(* undone.                                                                 *)
(***************************************************************************)
EXTENDS ArmBreakpoint, TLAPS

BreakPoints ==
  [active : BOOLEAN, c : Controllers \cup {NoAccess}, store : BOOLEAN,
   address : Nat, opcode : SUBSET Nat]

\* The breakpoint of an access.
BreakPointOf(i) ==
  [active |-> TRUE, c |-> i.c, store |-> IsMemoryWriteAccess(i),
   address |-> i.address + i.size, opcode |-> {}]

\* How often the hook of the access i of t has run.
HooksDue(t, i) ==
  IF i.kind = "read"
  THEN IF HooksRead(i.c) /\ (bp[t].active \/ done[t] \/ at[t] = "install")
       THEN 1 ELSE 0
  ELSE IF HooksWrite(i.c) /\ done[t] /\ (~bp[t].active \/ at[t] = "uninstall")
       THEN 1 ELSE 0

\* A thread that has made no access yet.
Fresh(t) ==
  /\ at[t] = "fetch" /\ bp[t] = NoBreakPoint
  /\ ~done[t] /\ hooks[t] = 0

\* A thread with the access i.
Accessing(t, i) ==
  /\ i \in AccessesOf(layout, t)
  /\ hooks[t] = HooksDue(t, i)
  /\ ~done[t] => ~Ended(t) /\ Instruction(t) = i
  /\ at[t] \in {"access", "hookRead", "install", "patch"} => ~done[t]
  /\ at[t] \in {"hookRead", "install"} => ~bp[t].active
  /\ at[t] \in {"patch", "hookWrite", "uninstall"} => bp[t].active
  /\ at[t] \in {"hookWrite", "uninstall"} => done[t]
  /\ at[t] = "fetch" => done[t] \/ bp[t].active
  /\ at[t] = "hookRead" => i.kind = "read" /\ HooksRead(i.c)
  /\ at[t] = "install" => i.kind = "write" \/ HooksRead(i.c)
  /\ at[t] = "hookWrite" => i.kind = "write" /\ HooksWrite(i.c)
  /\ at[t] = "uninstall" => i.kind = "read" \/ ~HooksWrite(i.c) \/ hooks[t] = 1
  /\ bp[t] = (IF bp[t].active THEN BreakPointOf(i) ELSE NoBreakPoint)
  /\ bp[t].active => i.address \div PageSize \in writable
  /\ bp[t].active /\ done[t]
       => pc[t] - 1 \in DOMAIN layout.route[t] /\ layout.route[t][pc[t] - 1] = i

Stage(t) == IF access[t] = NoAccess THEN Fresh(t) ELSE Accessing(t, access[t])

\* The cells of code that the breakpoint of t is in.
Patched(t) ==
  IF ~Patching(t) THEN {}
  ELSE IF layout.set = "arm" THEN {bp[t].address, bp[t].address + 1}
  ELSE {bp[t].address}

Shared ==
  /\ \A x : x \in code <=> \E t \in Threads : x \in Patched(t)
  /\ \A c : c \in open <=> \E t \in Threads : bp[t].active /\ bp[t].c = c

\* A lock has one owner.
Exclusive ==
  \A t, u \in Threads : t # u => \A c \in Held(t) : c \notin Held(u)

CodeTyped == code \subseteq UNION {OwnCells(t) : t \in Threads}

PagesTyped == writable \subseteq {i.address \div PageSize : i \in Accesses}

RoutesTyped == \A t \in Threads : pc[t] \in 1 .. Len(layout.route[t]) + 1

BreakPointTyped(t) ==
  \/ bp[t] = NoBreakPoint
  \/ bp[t] \in [active : {TRUE}, c : Controllers, store : BOOLEAN,
                address : OwnCells(t), opcode : SUBSET OwnCells(t)]

\* TypeOK, part by part, and that places and breakpoints are functions.
Types ==
  /\ layout \in Layouts
  /\ CodeTyped /\ PagesTyped /\ RoutesTyped
  /\ \A t \in Threads : BreakPointTyped(t)
  /\ open \subseteq Controllers
  /\ killed \in BOOLEAN
  /\ pc \in [Threads -> Nat \ {0}]
  /\ at \in [Threads -> {"fetch", "access", "hookRead", "install", "patch",
                         "hookWrite", "uninstall"}]
  /\ bp \in [Threads -> BreakPoints]
  /\ access \in [Threads -> Accesses \cup {NoAccess}]
  /\ hooks \in [Threads -> {0, 1}]
  /\ done \in [Threads -> BOOLEAN]

Inv ==
  /\ Types /\ Disciplined(layout) /\ Exclusive
  /\ ~killed => Shared /\ \A t \in Threads : Stage(t)

\* A thread that is on its way through its access.
Inside(t) == access[t] # NoAccess /\ (bp[t].active \/ ~done[t])

-----------------------------------------------------------------------------
(***************************************************************************)
(* The code.                                                               *)
(***************************************************************************)
\* The instructions there are.
InstructionSet(l) ==
  [address : Nat, size : IF l.set = "arm" THEN {2} ELSE {1, 2},
   kind : {"none", "lock", "unlock", "read", "write"}, c : Controllers]

LEMMA RouteFacts ==
  ASSUME layout \in Layouts, NEW t \in Threads
  PROVE  /\ layout.set \in {"arm", "thumb"}
         /\ Len(layout.route[t]) \in Nat
         /\ DOMAIN layout.route[t] = 1 .. Len(layout.route[t])
         /\ \A k \in DOMAIN layout.route[t] :
              layout.route[t][k] \in InstructionSet(layout)
<1>1. /\ layout.set \in {"arm", "thumb"}
      /\ layout.route[t] \in Seq(InstructionSet(layout))
  BY ArmAssumption DEF InstructionSet
<1>2. ASSUME NEW S, NEW s \in Seq(S)
      PROVE  /\ Len(s) \in Nat /\ DOMAIN s = 1 .. Len(s)
             /\ \A k \in DOMAIN s : s[k] \in S
  OBVIOUS
<1>3. QED
  BY <1>1, <1>2

LEMMA AccessFacts ==
  ASSUME layout \in Layouts, NEW t \in Threads,
         NEW i \in AccessesOf(layout, t)
  PROVE  /\ i.address \in Nat /\ i.size \in {1, 2}
         /\ layout.set = "arm" => i.size = 2
         /\ i.kind \in {"read", "write"} /\ i.c \in Controllers
         /\ i \in Accesses /\ i # NoAccess
         /\ SavedCells(i) \subseteq OwnCells(t)
         /\ Cells(i) = (IF i.size = 1 THEN {i.address}
                        ELSE {i.address, i.address + 1})
<1>1. PICK k \in DOMAIN layout.route[t] : i = layout.route[t][k]
  BY DEF AccessesOf, Instructions
<1>2. i \in InstructionSet(layout) /\ layout.set \in {"arm", "thumb"}
  BY <1>1, RouteFacts
<1>3. i.kind \in {"read", "write"}
  <2>1. ASSUME NEW S, NEW j \in {x \in S : x.kind \in {"read", "write"}}
        PROVE  j.kind \in {"read", "write"}
    OBVIOUS
  <2>2. QED
    BY <2>1 DEF AccessesOf, IsAccess
<1>4. i \in Accesses /\ i # NoAccess
  BY ArmAssumption DEF Accesses
<1>5. SavedCells(i) \subseteq OwnCells(t)
  BY DEF OwnCells
<1>6. Cells(i) = (IF i.size = 1 THEN {i.address}
                  ELSE {i.address, i.address + 1})
  <2>1. i.address \in Nat /\ i.size \in {1, 2}
    BY <1>2 DEF InstructionSet
  <2>2. ASSUME NEW a \in Nat
        PROVE  a .. a + 1 - 1 = {a} /\ a .. a + 2 - 1 = {a, a + 1}
    OBVIOUS
  <2>3. CASE i.size = 1
    BY <2>1, <2>2, <2>3 DEF Cells
  <2>4. CASE i.size = 2
    BY <2>1, <2>2, <2>4 DEF Cells
  <2>5. QED
    BY <2>1, <2>3, <2>4
<1>7. QED
  BY <1>2, <1>3, <1>4, <1>5, <1>6 DEF InstructionSet

\* An instruction of a route that is an access.
LEMMA InstructionIsAccess ==
  ASSUME layout \in Layouts, NEW t \in Threads, pc[t] \in Nat \ {0},
         ~Ended(t), IsAccess(Instruction(t))
  PROVE  Instruction(t) \in AccessesOf(layout, t)
<1>1. pc[t] \in DOMAIN layout.route[t]
  BY RouteFacts DEF Ended
<1>2. QED
  BY <1>1 DEF AccessesOf, Instructions, Instruction

-----------------------------------------------------------------------------
(***************************************************************************)
(* Locks.                                                                  *)
(***************************************************************************)
\* A thread that goes on keeps its locks, but for one that it releases, and
\* gets none, but for one that it takes.
LEMMA HeldNext ==
  ASSUME layout \in Layouts, NEW t \in Threads, NEW k \in DOMAIN layout.route[t]
  PROVE  LET i == layout.route[t][k]
         IN  /\ \A c : c \in HeldAt(layout, t, k + 1) =>
                   \/ c \in HeldAt(layout, t, k)
                   \/ i.kind = "lock" /\ c = i.c
             /\ IsAccess(i) => HeldAt(layout, t, k) \subseteq
                                 HeldAt(layout, t, k + 1)
<1> DEFINE i == layout.route[t][k]
<1>1. k \in Nat /\ \A j \in DOMAIN layout.route[t] : j \in Nat
  BY RouteFacts
<1>2. ASSUME NEW c \in HeldAt(layout, t, k + 1),
             ~(i.kind = "lock" /\ i.c = c)
      PROVE  c \in HeldAt(layout, t, k)
  BY <1>1, <1>2 DEF HeldAt
<1>3. ASSUME IsAccess(i), NEW c \in HeldAt(layout, t, k)
      PROVE  c \in HeldAt(layout, t, k + 1)
  BY <1>1, <1>3 DEF HeldAt, IsAccess
<1>4. QED
  BY <1>2, <1>3

\* The place of the access that a thread is inside, and its locks.
LEMMA InsidePlace ==
  ASSUME Inv, ~killed, NEW t \in Threads, Inside(t)
  PROVE  \E k \in DOMAIN layout.route[t] :
           /\ layout.route[t][k] = access[t] /\ IsAccess(access[t])
           /\ HeldAt(layout, t, k) \subseteq Held(t)
<1> DEFINE i == access[t]
<1>1. Accessing(t, i) /\ layout \in Layouts /\ pc[t] \in Nat \ {0}
  BY DEF Inv, Inside, Stage, Types
<1>2. i \in AccessesOf(layout, t) /\ IsAccess(i)
  BY <1>1, AccessFacts DEF Accessing, IsAccess
<1>3. CASE ~done[t]
  <2>1. pc[t] \in DOMAIN layout.route[t] /\ layout.route[t][pc[t]] = i
    BY <1>1, <1>3, RouteFacts DEF Accessing, Ended, Instruction
  <2>2. QED
    BY <1>2, <2>1 DEF Held
<1>4. CASE done[t]
  <2>1. /\ pc[t] - 1 \in DOMAIN layout.route[t]
        /\ layout.route[t][pc[t] - 1] = i
    BY <1>1, <1>4 DEF Inside, Accessing
  <2>2. HeldAt(layout, t, pc[t] - 1) \subseteq HeldAt(layout, t, pc[t] - 1 + 1)
    BY <1>1, <1>2, <2>1, HeldNext
  <2>3. pc[t] - 1 + 1 = pc[t]
    BY <1>1
  <2>4. QED
    BY <1>2, <2>1, <2>2, <2>3 DEF Held
<1>5. QED
  BY <1>3, <1>4

\* Two threads that are inside accesses are so in different register files,
\* and in different code.
LEMMA NoConflict ==
  ASSUME Inv, ~killed, NEW t \in Threads, NEW u \in Threads, t # u,
         Inside(t), Inside(u)
  PROVE  /\ access[t].c # access[u].c
         /\ \A x : x \in SavedCells(access[t]) =>
              x \notin SavedCells(access[u]) /\ x \notin Cells(access[u])
<1>1. PICK k \in DOMAIN layout.route[t] :
        /\ layout.route[t][k] = access[t] /\ IsAccess(access[t])
        /\ HeldAt(layout, t, k) \subseteq Held(t)
  BY InsidePlace
<1>2. PICK m \in DOMAIN layout.route[u] :
        /\ layout.route[u][m] = access[u] /\ IsAccess(access[u])
        /\ HeldAt(layout, u, m) \subseteq Held(u)
  BY InsidePlace
<1>3. HeldAt(layout, t, k) \cap HeldAt(layout, u, m) = {}
  BY <1>1, <1>2 DEF Inv, Exclusive
<1>4. ~Conflict(access[t], access[u])
  BY <1>1, <1>2, <1>3 DEF Inv, Disciplined
<1>5. QED
  BY <1>4 DEF Conflict

-----------------------------------------------------------------------------
(***************************************************************************)
(* What threads share.                                                     *)
(***************************************************************************)
LEMMA BreakPointFacts ==
  ASSUME NEW i, NEW b, b = BreakPointOf(i)
  PROVE  /\ b.active /\ b.c = i.c /\ b.address = i.address + i.size
         /\ b.opcode = {} /\ (b.store <=> i.kind = "write")
<1>1. b.active = TRUE /\ b.c = i.c /\ b.address = i.address + i.size
      /\ b.opcode = {} /\ b.store = (i.kind = "write")
  BY DEF BreakPointOf, IsMemoryWriteAccess
<1>2. QED
  BY <1>1

\* A breakpoint is behind its thread's access.
LEMMA PatchedCells ==
  ASSUME Inv, ~killed, NEW t \in Threads
  PROVE  /\ \A x : x \in Patched(t) => Inside(t) /\ x \in SavedCells(access[t])
         /\ bp[t].active => /\ Inside(t) /\ access[t] \in AccessesOf(layout, t)
                            /\ bp[t] = BreakPointOf(access[t])
                            /\ bp[t].c = access[t].c
                            /\ bp[t].address = access[t].address + access[t].size
<1>1. Stage(t)
  BY DEF Inv
<1>2. CASE access[t] = NoAccess
  BY <1>1, <1>2 DEF Stage, Fresh, NoBreakPoint, Patched, Patching
<1>3. CASE access[t] # NoAccess
  <2>1. Accessing(t, access[t])
    BY <1>1, <1>3 DEF Stage
  <2>2. /\ access[t] \in AccessesOf(layout, t)
        /\ bp[t].active => bp[t] = BreakPointOf(access[t])
    BY <2>1 DEF Accessing
  <2>5. bp[t].active => /\ bp[t].c = access[t].c
                        /\ bp[t].address = access[t].address + access[t].size
    BY <2>2 DEF BreakPointOf
  <2>3. Patched(t) # {} => bp[t].active
    BY DEF Patched, Patching
  <2>4. bp[t].active => \A x : x \in Patched(t) => x \in SavedCells(access[t])
    BY <2>2 DEF Patched, BreakPointOf, SavedCells
  <2>6. QED
    BY <1>3, <2>2, <2>5, <2>3, <2>4 DEF Inside
<1>4. QED
  BY <1>2, <1>3

LEMMA AccessIsOwn ==
  ASSUME Inv, ~killed, NEW t \in Threads, access[t] # NoAccess
  PROVE  access[t] \in AccessesOf(layout, t)
BY DEF Inv, Stage, Accessing

\* Around the access that a thread is inside the code is its own, but for its
\* own breakpoint.
LEMMA OwnCode ==
  ASSUME Inv, ~killed, NEW t \in Threads, Inside(t),
         NEW x \in code, x \in SavedCells(access[t]) \/ x \in Cells(access[t])
  PROVE  x \in Patched(t)
<1>1. PICK u \in Threads : x \in Patched(u)
  BY DEF Inv, Shared
<1>2. ASSUME u # t PROVE FALSE
  BY <1>1, <1>2, PatchedCells, NoConflict
<1>3. QED
  BY <1>1, <1>2

LEMMA AccessIsClear ==
  ASSUME Inv, ~killed, NEW t \in Threads, Inside(t)
  PROVE  /\ access[t] \in AccessesOf(layout, t)
         /\ Cells(access[t]) \cap code = {}
<1> DEFINE i == access[t]
<1>1. i \in AccessesOf(layout, t) /\ layout \in Layouts
  BY AccessIsOwn DEF Inv, Types, Inside
<1>2. ASSUME NEW x \in code, x \in Cells(i) PROVE FALSE
  <2>1. x \in SavedCells(i)
    BY <1>2, OwnCode, PatchedCells
  <2>2. QED
    BY <1>1, <1>2, <2>1, AccessFacts DEF SavedCells
<1>3. QED
  BY <1>1, <1>2

\* A thread that meets an instruction that can be run, with its breakpoint in
\* the code, is back at its access.
LEMMA BackAtAccess ==
  ASSUME Inv, ~killed, NEW t \in Threads, at[t] = "fetch", ~Ended(t),
         bp[t].active,
         \/ Cells(Instruction(t)) \cap code = {}
         \/ ~done[t]
  PROVE  ~done[t] /\ Instruction(t) = access[t]
<1> DEFINE i == access[t]
<1>1. layout \in Layouts /\ pc[t] \in Nat \ {0} /\ bp[t] # NoBreakPoint
  BY DEF Inv, Types, NoBreakPoint
<1>2. i # NoAccess /\ Accessing(t, i)
  BY <1>1 DEF Inv, Stage, Fresh
<1>3. ASSUME done[t] PROVE FALSE
  <2>1. Instruction(t).address = i.address + i.size
    <3>1. /\ pc[t] - 1 \in DOMAIN layout.route[t]
          /\ layout.route[t][pc[t] - 1] = i /\ IsAccess(i)
      BY <1>1, <1>2, <1>3, AccessFacts DEF Accessing, IsAccess
    <3>2. pc[t] - 1 + 1 = pc[t] /\ pc[t] \in DOMAIN layout.route[t]
      BY <1>1, RouteFacts DEF Ended
    <3>3. StraightOn(layout)
      BY <1>1, ArmAssumption
    <3>4. QED
      BY <3>1, <3>2, <3>3 DEF StraightOn, Instruction
  <2>2. bp[t].address = i.address + i.size
    BY PatchedCells
  <2>3. Instruction(t).address \in Patched(t)
    BY <2>1, <2>2 DEF Patched, Patching
  <2>4. Instruction(t).address \in code
    BY <2>3 DEF Inv, Shared
  <2>5. Instruction(t).address \in Cells(Instruction(t))
    <3>1. Instruction(t) \in InstructionSet(layout)
      BY <1>1, RouteFacts DEF Instruction, Ended
    <3>2. Instruction(t).address \in Nat /\ Instruction(t).size \in {1, 2}
      BY <3>1, <1>1, RouteFacts DEF InstructionSet
    <3>3. QED
      BY <3>2 DEF Cells
  <2>6. QED
    BY <1>3, <2>4, <2>5
<1>4. QED
  BY <1>2, <1>3 DEF Accessing

\* The mapping of the register file that a thread accesses is open for its
\* own breakpoint.
LEMMA OwnMapping ==
  ASSUME Inv, ~killed, NEW t \in Threads, Inside(t)
  PROVE  access[t].c \in open <=> bp[t].active
<1> DEFINE i == access[t]
<1>1. ASSUME i.c \in open PROVE bp[t].active
  <2>1. PICK u \in Threads : bp[u].active /\ bp[u].c = i.c
    BY <1>1 DEF Inv, Shared
  <2>2. Inside(u) /\ access[u].c = i.c
    BY <2>1, PatchedCells
  <2>3. u = t
    BY <2>2, NoConflict
  <2>4. QED
    BY <2>1, <2>3
<1>2. ASSUME bp[t].active PROVE i.c \in open
  <2>1. bp[t].c = i.c
    BY <1>2, PatchedCells
  <2>2. QED
    BY <1>2, <2>1 DEF Inv, Shared
<1>3. QED
  BY <1>1, <1>2

-----------------------------------------------------------------------------
(***************************************************************************)
(* The stages of a thread.                                                 *)
(***************************************************************************)
\* What a step of t leaves to the others.
SameFor(u) ==
  /\ at'[u] = at[u] /\ bp'[u] = bp[u] /\ pc'[u] = pc[u]
  /\ access'[u] = access[u] /\ hooks'[u] = hooks[u] /\ done'[u] = done[u]

Frame(t) ==
  /\ layout' = layout
  /\ writable \subseteq writable'
  /\ \A u \in Threads \ {t} : SameFor(u)

LEMMA StepFrame ==
  ASSUME Types, NEW t \in Threads, Step(t)
  PROVE  ~killed /\ Frame(t)
<1> USE DEF Frame, SameFor, memory, history, Goto, Types
<1>1. CASE Run(t) \/ Lock(t) \/ Fetch(t) \/ Perform(t) \/ Fault(t)
  BY <1>1 DEF Run, Lock, Fetch, Perform, Fault
<1>2. CASE HookRead(t) \/ Trap(t) \/ HookWrite(t)
  BY <1>2 DEF HookRead, Trap, HookWrite
<1>3. CASE InstallBreakPoint(t) \/ Patch(t) \/ UninstallBreakPoint(t)
  BY <1>3 DEF InstallBreakPoint, MakeWritable, Patch, UninstallBreakPoint
<1>4. QED
  BY <1>1, <1>2, <1>3 DEF Step

LEMMA StageKept ==
  ASSUME layout' = layout, writable \subseteq writable',
         NEW u \in Threads, SameFor(u), Stage(u)
  PROVE  Stage(u)'
<1>1. /\ layout' = layout /\ writable \subseteq writable'
      /\ at'[u] = at[u] /\ bp'[u] = bp[u] /\ pc'[u] = pc[u]
      /\ access'[u] = access[u] /\ hooks'[u] = hooks[u] /\ done'[u] = done[u]
  BY DEF SameFor
<1>2. /\ AccessesOf(layout, u)' = AccessesOf(layout, u)
      /\ Ended(u)' = Ended(u) /\ Instruction(u)' = Instruction(u)
  BY <1>1 DEF AccessesOf, Instructions, Ended, Instruction
<1>3. CASE access[u] = NoAccess
  BY <1>1, <1>3 DEF Stage, Fresh, NoBreakPoint
<1>4. CASE access[u] # NoAccess
  <2>1. Accessing(u, access[u])
    BY <1>4 DEF Stage
  <2>2. Accessing(u, access[u])'
    BY <1>1, <1>2, <2>1
       DEF Accessing, HooksDue, BreakPointOf, IsMemoryWriteAccess,
           NoBreakPoint, HooksRead, HooksWrite
  <2>3. QED
    BY <1>1, <1>4, <2>2 DEF Stage
<1>5. QED
  BY <1>3, <1>4
\* A step that leaves a thread its access.
LEMMA StageRun ==
  ASSUME Inv, NEW t \in Threads, Run(t) \/ Lock(t)
  PROVE  Stage(t)'
<1>1. /\ ~killed /\ at[t] = "fetch" /\ at'[t] = "fetch" /\ ~Ended(t)
      /\ ~IsAccess(Instruction(t)) /\ Cells(Instruction(t)) \cap code = {}
      /\ bp' = bp /\ UNCHANGED <<memory, history>>
  BY DEF Run, Lock, Goto, Inv, Types, IsAccess
<1>2. CASE access[t] = NoAccess
  BY <1>1, <1>2
     DEF Inv, Stage, Fresh, memory, history, NoBreakPoint
<1>3. CASE access[t] # NoAccess
  <2> DEFINE i == access[t]
  <2>1. Accessing(t, i)
    BY <1>1, <1>3 DEF Inv, Stage
  <2>2. done[t] /\ ~bp[t].active
    <3>1. IsAccess(i)
      BY <1>1, <1>3, AccessIsOwn, AccessFacts DEF Inv, Types, IsAccess
    <3>2. done[t]
      BY <1>1, <2>1, <3>1 DEF Accessing
    <3>3. QED
      BY <1>1, <3>2, BackAtAccess
  <2>3. Accessing(t, i)'
    <3>1. AccessesOf(layout, t)' = AccessesOf(layout, t)
      BY <1>1 DEF memory, AccessesOf, Instructions
    <3>2. QED
      BY <1>1, <2>1, <2>2, <3>1
         DEF Accessing, HooksDue, memory, history, NoBreakPoint
  <2>4. QED
    BY <1>1, <1>3, <2>3 DEF Stage, history
<1>4. QED
  BY <1>2, <1>3

LEMMA StageFetch ==
  ASSUME Inv, NEW t \in Threads, Fetch(t)
  PROVE  Stage(t)'
<1>1. /\ ~killed /\ at[t] = "fetch" /\ at'[t] = "access" /\ ~Ended(t)
      /\ IsAccess(Instruction(t)) /\ Cells(Instruction(t)) \cap code = {}
      /\ UNCHANGED <<layout, writable, pc, bp>>
  BY DEF Fetch, Goto, Inv, Types, memory
<1>2. /\ Ended(t)' = Ended(t) /\ Instruction(t)' = Instruction(t)
      /\ AccessesOf(layout, t)' = AccessesOf(layout, t)
  BY <1>1 DEF Ended, Instruction, AccessesOf, Instructions
<1>3. CASE access[t] = NoAccess \/ done[t]
  <2> DEFINE i == Instruction(t)
  <2>1. i \in AccessesOf(layout, t) /\ i # NoAccess
        /\ i.kind \in {"read", "write"}
    BY <1>1, InstructionIsAccess, AccessFacts DEF Inv, Types
  <2>2. access'[t] = i /\ hooks'[t] = 0 /\ ~done'[t]
    BY <1>3 DEF Fetch, Inv, Types
  <2>3. bp[t] = NoBreakPoint /\ ~bp[t].active
    <3>1. ASSUME bp[t].active PROVE FALSE
      <4>1. ~done[t]
        BY <1>1, <3>1, BackAtAccess
      <4>2. access[t] # NoAccess
        BY <1>1, <3>1, PatchedCells, AccessFacts DEF Inv, Types
      <4>3. QED
        BY <1>3, <4>1, <4>2
    <3>2. QED
      BY <1>1, <3>1 DEF Inv, Stage, Fresh, Accessing
  <2>4. Accessing(t, i)'
    BY <1>1, <1>2, <2>1, <2>2, <2>3 DEF Accessing, HooksDue
  <2>5. QED
    BY <1>2, <2>1, <2>2, <2>4 DEF Stage
<1>4. CASE ~(access[t] = NoAccess \/ done[t])
  <2> DEFINE i == access[t]
  <2>1. Accessing(t, i)
    BY <1>1, <1>4 DEF Inv, Stage
  <2>2. UNCHANGED history
    BY <1>4 DEF Fetch
  <2>3. Accessing(t, i)'
    BY <1>1, <1>2, <1>4, <2>1, <2>2
       DEF Accessing, HooksDue, history, BreakPointOf, IsMemoryWriteAccess
  <2>4. QED
    BY <1>4, <2>2, <2>3 DEF Stage, history
<1>5. QED
  BY <1>3, <1>4

LEMMA StagePerform ==
  ASSUME Inv, NEW t \in Threads, Perform(t)
  PROVE  Stage(t)'
<1> DEFINE i == access[t]
<1>1. /\ ~killed /\ at[t] = "access" /\ at'[t] = "fetch" /\ Permitted(i)
      /\ done'[t] /\ pc'[t] = pc[t] + 1
      /\ UNCHANGED <<layout, writable, bp, access, hooks>>
  BY DEF Perform, Goto, Inv, Types, memory
<1>2. i # NoAccess /\ Accessing(t, i) /\ ~done[t]
  BY <1>1 DEF Inv, Stage, Fresh, Accessing
<1>3. /\ i \in AccessesOf(layout, t) /\ i.kind \in {"read", "write"}
      /\ layout \in Layouts /\ pc[t] \in Nat \ {0}
  BY <1>1, <1>2, AccessIsOwn, AccessFacts DEF Inv, Types
<1>4. ~bp[t].active => i.kind = "read" /\ ~HooksRead(i.c)
  BY <1>1, <1>2, OwnMapping DEF Permitted, Inside
<1>5. /\ pc'[t] - 1 \in DOMAIN layout.route[t]
      /\ layout.route[t][pc'[t] - 1] = i
  <2>1. ~Ended(t) /\ i = layout.route[t][pc[t]]
    BY <1>2 DEF Accessing, Instruction
  <2>2. pc[t] \in DOMAIN layout.route[t] /\ pc'[t] - 1 = pc[t]
    BY <1>1, <1>3, <2>1, RouteFacts DEF Ended
  <2>3. QED
    BY <2>1, <2>2
<1>6. AccessesOf(layout, t)' = AccessesOf(layout, t)
  BY <1>1 DEF AccessesOf, Instructions
<1>7. Accessing(t, i)'
  BY <1>1, <1>2, <1>3, <1>4, <1>5, <1>6
     DEF Accessing, HooksDue, BreakPointOf, IsMemoryWriteAccess, NoBreakPoint
<1>8. QED
  BY <1>1, <1>2, <1>7 DEF Stage
\* The steps of the handlers: a thread that is in one has an access.
LEMMA StageFault ==
  ASSUME Inv, NEW t \in Threads, Fault(t) \/ HookRead(t), ~killed'
  PROVE  Stage(t)'
<1> DEFINE i == access[t]
<1>1. /\ ~killed /\ at[t] \in {"access", "hookRead"}
      /\ UNCHANGED <<layout, writable, pc, bp, access, done>>
  BY DEF Fault, HookRead, Goto, memory, history
<1>2. i # NoAccess /\ Accessing(t, i) /\ ~done[t]
  BY <1>1 DEF Inv, Stage, Fresh, Accessing
<1>3. i.kind \in {"read", "write"}
  BY <1>1, <1>2, AccessIsOwn, AccessFacts DEF Inv, Types
<1>4. /\ AccessesOf(layout, t)' = AccessesOf(layout, t)
      /\ Ended(t)' = Ended(t) /\ Instruction(t)' = Instruction(t)
  BY <1>1 DEF AccessesOf, Instructions, Ended, Instruction
<1>5. CASE Fault(t)
  <2>1. /\ at[t] = "access" /\ hooks' = hooks /\ ~Permitted(i)
        /\ at'[t] = IF i.kind = "write" THEN "install" ELSE "hookRead"
    BY <1>5 DEF Fault, Goto, Inv, Types, history, IsMemoryWriteAccess
  <2>2. ~bp[t].active /\ (i.kind = "read" => HooksRead(i.c))
    BY <1>1, <1>2, <2>1, OwnMapping DEF Permitted, Inside
  <2>3. Accessing(t, i)'
    BY <1>1, <1>2, <1>3, <1>4, <2>1, <2>2
       DEF Accessing, HooksDue, NoBreakPoint
  <2>4. QED
    BY <1>1, <1>2, <2>3 DEF Stage
<1>6. CASE HookRead(t)
  <2>1. at[t] = "hookRead" /\ at'[t] = "install" /\ hooks'[t] = hooks[t] + 1
    BY <1>6 DEF HookRead, Goto, Inv, Types
  <2>2. hooks[t] = 0 /\ i.kind = "read" /\ HooksRead(i.c) /\ ~bp[t].active
    BY <1>2, <2>1 DEF Accessing, HooksDue
  <2>3. Accessing(t, i)'
    BY <1>1, <1>2, <1>4, <2>1, <2>2 DEF Accessing, HooksDue, NoBreakPoint
  <2>4. QED
    BY <1>1, <1>2, <2>3 DEF Stage
<1>7. QED
  BY <1>5, <1>6

\* The breakpoint is set behind the access, where there was none.
LEMMA Installed ==
  ASSUME Inv, NEW t \in Threads, InstallBreakPoint(t)
  PROVE  /\ ~killed /\ ~bp[t].active /\ bp'[t] = BreakPointOf(access[t])
         /\ access[t] \in AccessesOf(layout, t)
<1> DEFINE i == access[t]
<1>1. ~killed /\ at[t] = "install"
  BY DEF InstallBreakPoint, Goto
<1>2. i # NoAccess /\ Accessing(t, i)
  BY <1>1 DEF Inv, Stage, Fresh
<1>3. /\ i \in AccessesOf(layout, t) /\ Cells(i) \cap code = {}
      /\ layout \in Layouts /\ ~bp[t].active /\ Inside(t)
  BY <1>1, <1>2, AccessIsClear DEF Inv, Types, Accessing, Inside
<1>4. NextAddress(i) = i.address + i.size
  <2>1. /\ i.address \in Cells(i) /\ layout.set \in {"arm", "thumb"}
        /\ layout.set = "arm" => i.size = 2
    BY <1>3, AccessFacts, RouteFacts
  <2>2. i.address \notin code
    BY <1>3, <2>1
  <2>3. QED
    BY <2>1, <2>2 DEF NextAddress
<1>5. ASSUME NEW x \in SavedCells(i) PROVE x \notin code
  <2>1. Patched(t) = {}
    BY <1>3 DEF Patched, Patching
  <2>2. QED
    BY <1>1, <1>3, <1>5, <2>1, OwnCode
<1>6. {NextAddress(i), NextAddress(i) + 1} \cap code = {}
  BY <1>4, <1>5 DEF SavedCells
<1>7. bp'[t] = [active |-> TRUE, c |-> i.c, store |-> IsMemoryWriteAccess(i),
                address |-> i.address + i.size, opcode |-> {}]
  BY <1>4, <1>6 DEF InstallBreakPoint, Inv, Types
<1>8. QED
  BY <1>1, <1>3, <1>7 DEF BreakPointOf

LEMMA StageInstall ==
  ASSUME Inv, NEW t \in Threads, InstallBreakPoint(t)
  PROVE  Stage(t)'
<1> DEFINE i == access[t]
<1>1. /\ ~killed /\ at[t] = "install" /\ at'[t] = "patch"
      /\ writable' = writable \cup {i.address \div PageSize}
      /\ UNCHANGED <<layout, pc, access, hooks, done>>
  BY DEF InstallBreakPoint, MakeWritable, Goto, Inv, Types, history
<1>2. i # NoAccess /\ Accessing(t, i) /\ ~done[t]
  BY <1>1 DEF Inv, Stage, Fresh, Accessing
<1>3. i.kind \in {"read", "write"}
  BY <1>1, <1>2, AccessIsOwn, AccessFacts DEF Inv, Types
<1>4. /\ AccessesOf(layout, t)' = AccessesOf(layout, t)
      /\ Ended(t)' = Ended(t) /\ Instruction(t)' = Instruction(t)
  BY <1>1 DEF AccessesOf, Instructions, Ended, Instruction
<1>5. bp'[t] = BreakPointOf(i) /\ bp'[t].active
  BY Installed DEF BreakPointOf
<1>6. Accessing(t, i)'
  BY <1>1, <1>2, <1>3, <1>4, <1>5
     DEF Accessing, HooksDue, BreakPointOf, IsMemoryWriteAccess
<1>7. QED
  BY <1>1, <1>2, <1>6 DEF Stage
LEMMA StagePatch ==
  ASSUME Inv, NEW t \in Threads, Patch(t) \/ Trap(t) \/ HookWrite(t), ~killed'
  PROVE  Stage(t)'
<1> DEFINE i == access[t]
<1>1. /\ ~killed /\ bp' = bp
      /\ UNCHANGED <<layout, writable, pc, access, done>>
  BY DEF Patch, Trap, HookWrite, Goto, memory, history
<1>2. at[t] \in {"patch", "hookWrite"} \/ (at[t] = "fetch" /\ bp[t].active)
  BY DEF Patch, Trap, HookWrite, Goto
<1>3. /\ i # NoAccess /\ Accessing(t, i)
      /\ bp[t].active /\ bp[t] = BreakPointOf(i)
  <2>1. ASSUME i = NoAccess PROVE FALSE
    <3>1. Fresh(t)
      BY <1>1, <2>1 DEF Inv, Stage
    <3>2. at[t] = "fetch" /\ ~bp[t].active
      BY <3>1 DEF Fresh, NoBreakPoint
    <3>3. QED
      BY <1>2, <3>2
  <2>2. Accessing(t, i)
    BY <1>1, <2>1 DEF Inv, Stage
  <2>3. QED
    BY <1>2, <2>1, <2>2 DEF Accessing
<1>4. /\ AccessesOf(layout, t)' = AccessesOf(layout, t)
      /\ Ended(t)' = Ended(t) /\ Instruction(t)' = Instruction(t)
  BY <1>1 DEF AccessesOf, Instructions, Ended, Instruction
<1>5. i.kind \in {"read", "write"} /\ layout \in Layouts
  BY <1>1, <1>3, AccessIsOwn, AccessFacts DEF Inv, Types
<1>6. CASE Patch(t)
  <2>1. at[t] = "patch" /\ at'[t] = "fetch" /\ hooks' = hooks
    BY <1>6 DEF Patch, Goto, Inv, Types, history
  <2>2. Accessing(t, i)'
    BY <1>1, <1>3, <1>4, <1>5, <2>1
       DEF Accessing, HooksDue, BreakPointOf, IsMemoryWriteAccess
  <2>3. QED
    BY <1>1, <1>3, <2>2 DEF Stage
<1>7. CASE Trap(t)
  <2>1. /\ at[t] = "fetch" /\ hooks' = hooks
        /\ at'[t] = IF bp[t].store /\ HooksWrite(bp[t].c) THEN "hookWrite"
                    ELSE "uninstall"
        /\ ~Ended(t) /\ Instruction(t).address \in code
    BY <1>7 DEF Trap, Goto, Inv, Types, history
  <2>2. done[t]
    <3>1. ASSUME ~done[t] PROVE FALSE
      <4>1. Instruction(t) = i
        BY <1>3, <3>1 DEF Accessing
      <4>2. i.address \in Cells(i) /\ Cells(i) \cap code = {}
        BY <1>1, <1>3, <1>5, AccessIsClear, AccessFacts DEF Inside
      <4>3. QED
        BY <2>1, <4>1, <4>2
    <3>2. QED
      BY <3>1
  <2>3. at'[t] = IF i.kind = "write" /\ HooksWrite(i.c) THEN "hookWrite"
                 ELSE "uninstall"
    BY <1>3, <2>1, BreakPointFacts
  <2>4. Accessing(t, i)'
    BY <1>1, <1>3, <1>4, <1>5, <2>1, <2>2, <2>3
       DEF Accessing, HooksDue, BreakPointOf, IsMemoryWriteAccess
  <2>5. QED
    BY <1>1, <1>3, <2>4 DEF Stage
<1>8. CASE HookWrite(t)
  <2>1. /\ at[t] = "hookWrite" /\ at'[t] = "uninstall"
        /\ hooks'[t] = hooks[t] + 1
    BY <1>8 DEF HookWrite, Goto, Inv, Types
  <2>2. hooks[t] = 0 /\ i.kind = "write" /\ HooksWrite(i.c) /\ done[t]
    BY <1>3, <2>1 DEF Accessing, HooksDue
  <2>3. Accessing(t, i)'
    BY <1>1, <1>3, <1>4, <2>1, <2>2
       DEF Accessing, HooksDue, BreakPointOf, IsMemoryWriteAccess
  <2>4. QED
    BY <1>1, <1>3, <2>3 DEF Stage
<1>9. QED
  BY <1>6, <1>7, <1>8

LEMMA StageUninstall ==
  ASSUME Inv, NEW t \in Threads, UninstallBreakPoint(t)
  PROVE  Stage(t)'
<1> DEFINE i == access[t]
<1>1. /\ ~killed /\ at[t] = "uninstall" /\ at'[t] = "fetch"
      /\ bp'[t] = NoBreakPoint /\ ~bp'[t].active
      /\ UNCHANGED <<layout, writable, pc, access, hooks, done>>
  BY DEF UninstallBreakPoint, Goto, Inv, Types, history, NoBreakPoint
<1>2. i # NoAccess /\ Accessing(t, i) /\ done[t] /\ bp[t].active
  BY <1>1 DEF Inv, Stage, Fresh, Accessing
<1>3. /\ AccessesOf(layout, t)' = AccessesOf(layout, t)
      /\ Ended(t)' = Ended(t) /\ Instruction(t)' = Instruction(t)
  BY <1>1 DEF AccessesOf, Instructions, Ended, Instruction
<1>4. i.kind \in {"read", "write"}
  BY <1>1, <1>2, AccessIsOwn, AccessFacts DEF Inv, Types
<1>5. Accessing(t, i)'
  BY <1>1, <1>2, <1>3, <1>4 DEF Accessing, HooksDue
<1>6. QED
  BY <1>1, <1>2, <1>5 DEF Stage

LEMMA StageStep ==
  ASSUME Inv, NEW t \in Threads, Step(t), ~killed'
  PROVE  \A u \in Threads : Stage(u)'
<1>1. Stage(t)'
  BY StageRun, StageFetch, StagePerform, StageFault, StageInstall, StagePatch,
     StageUninstall DEF Step
<1>2. ASSUME NEW u \in Threads \ {t} PROVE Stage(u)'
  <2>1. ~killed /\ Frame(t)
    BY StepFrame DEF Inv
  <2>2. Stage(u)
    BY <2>1 DEF Inv
  <2>3. QED
    BY <2>1, <2>2, StageKept DEF Frame
<1>3. QED
  BY <1>1, <1>2
-----------------------------------------------------------------------------
(***************************************************************************)
(* Shared after a step.                                                    *)
(***************************************************************************)
LEMMA PatchedKept ==
  ASSUME layout' = layout, NEW u \in Threads, bp'[u] = bp[u],
         at'[u] = "patch" <=> at[u] = "patch"
  PROVE  Patched(u)' = Patched(u)
BY DEF Patched, Patching

\* A step that touches neither the code nor a mapping.
LEMMA SharedKept ==
  ASSUME Inv, NEW t \in Threads, Frame(t), ~killed, UNCHANGED <<code, open>>,
         bp'[t] = bp[t], at'[t] = "patch" <=> at[t] = "patch"
  PROVE  Shared'
<1>1. \A u \in Threads : Patched(u)' = Patched(u) /\ bp'[u] = bp[u]
  BY PatchedKept DEF Frame, SameFor
<1>2. Shared
  BY DEF Inv
<1>3. QED
  BY <1>1, <1>2 DEF Shared

LEMMA SharedInstall ==
  ASSUME Inv, NEW t \in Threads, InstallBreakPoint(t)
  PROVE  Shared'
<1> DEFINE i == access[t]
<1>1. /\ ~killed /\ at'[t] = "patch" /\ layout' = layout
      /\ code' = code /\ open' = open \cup {i.c}
  BY DEF InstallBreakPoint, Goto, Inv, Types
<1>2. ~bp[t].active /\ bp'[t].active /\ bp'[t].c = i.c
  BY Installed, BreakPointFacts
<1>3. Patched(t) = {} /\ Patched(t)' = {}
  BY <1>1, <1>2 DEF Patched, Patching
<1>4. Step(t) /\ Frame(t)
  BY StepFrame DEF Step, Inv
<1>5. \A u \in Threads \ {t} : Patched(u)' = Patched(u) /\ bp'[u] = bp[u]
  BY <1>1, <1>4, PatchedKept DEF Frame, SameFor
<1>6. Shared
  BY <1>1 DEF Inv
<1>7. \A x : x \in code' <=> \E u \in Threads : x \in Patched(u)'
  BY <1>1, <1>3, <1>5, <1>6 DEF Shared
<1>8. \A c : c \in open' <=> \E u \in Threads : bp'[u].active /\ bp'[u].c = c
  BY <1>1, <1>2, <1>5, <1>6 DEF Shared
<1>9. QED
  BY <1>7, <1>8 DEF Shared

LEMMA SharedPatch ==
  ASSUME Inv, NEW t \in Threads, Patch(t), ~killed'
  PROVE  Shared'
<1> DEFINE a == bp[t].address
           cells == IF layout.set = "arm" THEN {a, a + 1} ELSE {a}
<1>1. /\ ~killed /\ at[t] = "patch" /\ at'[t] = "fetch"
      /\ UNCHANGED <<layout, open, bp>> /\ code' = code \cup cells
  BY DEF Patch, Goto, Writes, Inv, Types
<1>2. bp[t].active
  BY <1>1 DEF Inv, Stage, Fresh, Accessing
<1>3. Patched(t) = {} /\ Patched(t)' = cells
  BY <1>1, <1>2 DEF Patched, Patching
<1>4. Step(t) /\ Frame(t)
  BY StepFrame DEF Step, Inv
<1>5. \A u \in Threads \ {t} : Patched(u)' = Patched(u)
  BY <1>1, <1>4, PatchedKept DEF Frame, SameFor
<1>6. Shared
  BY <1>1 DEF Inv
<1> HIDE DEF cells
<1>7. \A x : x \in code' <=> \E u \in Threads : x \in Patched(u)'
  BY <1>1, <1>3, <1>5, <1>6 DEF Shared
<1>8. QED
  BY <1>1, <1>6, <1>7 DEF Shared

LEMMA SharedUninstall ==
  ASSUME Inv, NEW t \in Threads, UninstallBreakPoint(t), ~killed'
  PROVE  Shared'
<1> DEFINE i == access[t]
           cells == {bp[t].address, bp[t].address + 1}
<1>1. /\ ~killed /\ at[t] = "uninstall" /\ layout' = layout
      /\ bp'[t] = NoBreakPoint /\ open' = open \ {bp[t].c}
      /\ code' = (code \ cells) \cup bp[t].opcode
  BY DEF UninstallBreakPoint, Goto, Writes, Restored, Inv, Types
<1>2. bp[t].active /\ i # NoAccess
  BY <1>1 DEF Inv, Stage, Fresh, Accessing
<1>3. /\ i \in AccessesOf(layout, t) /\ layout \in Layouts
      /\ cells = SavedCells(i) /\ bp[t].c = i.c
      /\ bp[t].opcode = {}
  <2>1. i \in AccessesOf(layout, t) /\ bp[t] = BreakPointOf(i)
    BY <1>1, <1>2, PatchedCells
  <2>2. /\ bp[t].c = i.c /\ bp[t].opcode = {}
        /\ bp[t].address = i.address + i.size
    BY <2>1, BreakPointFacts
  <2>3. i.address \in Nat /\ i.size \in {1, 2} /\ layout \in Layouts
    BY <2>1, AccessFacts DEF Inv, Types
  <2>4. QED
    BY <2>1, <2>2, <2>3 DEF SavedCells
<1> HIDE DEF cells
<1>4. \A x : x \in Patched(t) => x \in cells
  BY <1>1, <1>3, PatchedCells
<1>5. Patched(t)' = {} /\ ~bp'[t].active
  BY <1>1 DEF Patched, Patching, NoBreakPoint
<1>6. Step(t) /\ Frame(t)
  BY StepFrame DEF Step, Inv
<1>7. \A u \in Threads \ {t} : Patched(u)' = Patched(u) /\ bp'[u] = bp[u]
  BY <1>1, <1>6, PatchedKept DEF Frame, SameFor
<1>8. ASSUME NEW u \in Threads \ {t}
      PROVE  /\ \A x : x \in Patched(u) => x \notin cells
             /\ bp[u].active => bp[u].c # bp[t].c
  BY <1>1, <1>2, <1>3, PatchedCells, NoConflict DEF Inside
<1>9. Shared
  BY <1>1 DEF Inv
<1>10. \A x : x \in code' <=> \E u \in Threads : x \in Patched(u)'
  BY <1>1, <1>3, <1>4, <1>5, <1>7, <1>8, <1>9 DEF Shared
<1>11. \A c : c \in open' <=> \E u \in Threads : bp'[u].active /\ bp'[u].c = c
  BY <1>1, <1>5, <1>7, <1>8, <1>9 DEF Shared
<1>12. QED
  BY <1>10, <1>11 DEF Shared

LEMMA SharedStep ==
  ASSUME Inv, NEW t \in Threads, Step(t), ~killed'
  PROVE  Shared'
<1>1. ~killed /\ Frame(t)
  BY StepFrame DEF Inv
<1>2. CASE Run(t) \/ Lock(t) \/ Fetch(t) \/ Perform(t) \/ Fault(t)
  BY <1>1, <1>2, SharedKept
     DEF Run, Lock, Fetch, Perform, Fault, Goto, memory, Inv, Types
<1>3. CASE HookRead(t) \/ Trap(t) \/ HookWrite(t)
  BY <1>1, <1>3, SharedKept
     DEF HookRead, Trap, HookWrite, Goto, memory, Inv, Types
<1>4. QED
  BY <1>2, <1>3, SharedInstall, SharedPatch, SharedUninstall DEF Step
-----------------------------------------------------------------------------
(***************************************************************************)
(* Types.                                                                  *)
(***************************************************************************)
LEMMA TypesImply == Types => TypeOK
BY DEF Types, TypeOK, CodeTyped, PagesTyped, RoutesTyped, BreakPointTyped

LEMMA InitInv == Disciplined(layout) /\ Init => Inv
<1> SUFFICES ASSUME Disciplined(layout), Init PROVE Inv
  OBVIOUS
<1>1. /\ layout \in Layouts /\ NoBreakPoint \in BreakPoints
      /\ NoBreakPoint.active = FALSE
  BY DEF Init, NoBreakPoint, BreakPoints
<1>2. RoutesTyped
  <2>1. ASSUME NEW t \in Threads
        PROVE  pc[t] \in 1 .. Len(layout.route[t]) + 1
    <3>1. pc[t] = 1 /\ Len(layout.route[t]) \in Nat
      BY <1>1, RouteFacts DEF Init
    <3>2. QED
      BY <3>1
  <2>2. QED
    BY <2>1 DEF RoutesTyped
<1>3. CodeTyped /\ PagesTyped /\ \A t \in Threads : BreakPointTyped(t)
  <2>1. CodeTyped
    BY DEF Init, CodeTyped
  <2>2. PagesTyped
    BY DEF Init, PagesTyped
  <2>3. \A t \in Threads : bp[t] = NoBreakPoint
    BY DEF Init
  <2>4. QED
    BY <2>1, <2>2, <2>3 DEF BreakPointTyped
<1>4. Types
  <2>1. /\ pc \in [Threads -> Nat \ {0}]
        /\ at \in [Threads -> {"fetch", "access", "hookRead", "install",
                               "patch", "hookWrite", "uninstall"}]
    BY DEF Init
  <2>2. bp \in [Threads -> BreakPoints]
    BY <1>1 DEF Init
  <2>3. access \in [Threads -> Accesses \cup {NoAccess}]
    BY DEF Init
  <2>4. hooks \in [Threads -> {0, 1}] /\ done \in [Threads -> BOOLEAN]
    BY DEF Init
  <2>5. open \subseteq Controllers /\ killed \in BOOLEAN
    BY DEF Init
  <2>6. QED
    BY <1>1, <1>2, <1>3, <2>1, <2>2, <2>3, <2>4, <2>5 DEF Types
<1>5. \A t \in Threads : Stage(t) /\ Patched(t) = {} /\ ~bp[t].active
  <2> SUFFICES ASSUME NEW t \in Threads
               PROVE  Stage(t) /\ Patched(t) = {} /\ ~bp[t].active
    OBVIOUS
  <2>1. /\ access[t] = NoAccess /\ at[t] = "fetch" /\ bp[t] = NoBreakPoint
        /\ ~done[t] /\ hooks[t] = 0
    BY DEF Init
  <2>2. ~bp[t].active
    BY <1>1, <2>1
  <2>3. QED
    BY <2>1, <2>2 DEF Stage, Fresh, Patched, Patching
<1>6. Shared
  BY <1>5 DEF Shared, Init
<1>7. Exclusive
  <2>1. ASSUME NEW t \in Threads PROVE Held(t) = {}
    <3>1. pc[t] = 1 /\ \A j \in DOMAIN layout.route[t] : j \in Nat /\ j >= 1
      BY <1>1, RouteFacts DEF Init
    <3>2. QED
      BY <3>1 DEF Held, HeldAt
  <2>2. QED
    BY <2>1 DEF Exclusive
<1>8. QED
  BY <1>4, <1>5, <1>6, <1>7 DEF Inv

\* What a step does not change keeps its type.
LEMMA TypedKept ==
  ASSUME Types, layout' = layout
  PROVE  /\ code' = code => CodeTyped'
         /\ writable' = writable => PagesTyped'
         /\ pc' = pc => RoutesTyped'
         /\ \A u \in Threads : bp'[u] = bp[u] => BreakPointTyped(u)'
         /\ \A u \in Threads : OwnCells(u)' = OwnCells(u)
<1>1. \A u \in Threads : OwnCells(u)' = OwnCells(u)
  BY DEF OwnCells, AccessesOf, Instructions
<1>2. code' = code => CodeTyped'
  BY <1>1 DEF Types, CodeTyped
<1>3. writable' = writable => PagesTyped'
  BY DEF Types, PagesTyped
<1>4. pc' = pc => RoutesTyped'
  BY DEF Types, RoutesTyped
<1>5. \A u \in Threads : bp'[u] = bp[u] => BreakPointTyped(u)'
  BY <1>1 DEF Types, BreakPointTyped, NoBreakPoint
<1>6. QED
  BY <1>1, <1>2, <1>3, <1>4, <1>5

LEMMA TypesStep ==
  ASSUME Inv, NEW t \in Threads, Step(t)
  PROVE  Types'
<1>1. /\ Types /\ ~killed /\ Stage(t) /\ layout' = layout
      /\ layout \in Layouts
  BY StepFrame DEF Inv, Frame, Types
<1>2. CASE Run(t) \/ Lock(t) \/ Perform(t)
  <2>1. pc' = [pc EXCEPT ![t] = pc[t] + 1] /\ pc[t] <= Len(layout.route[t])
    <3>1. CASE Run(t) \/ Lock(t)
      BY <3>1, <1>1, RouteFacts DEF Run, Lock, Ended, Types
    <3>2. CASE Perform(t)
      <4>1. access[t] # NoAccess /\ ~Ended(t)
        BY <3>2, <1>1 DEF Perform, Goto, Stage, Fresh, Accessing
      <4>2. QED
        BY <3>2, <4>1, <1>1, RouteFacts DEF Perform, Ended, Types
    <3>3. QED
      BY <1>2, <3>1, <3>2
  <2>2. \A u \in Threads : /\ pc'[u] \in 1 .. Len(layout.route[u]) + 1
                           /\ pc'[u] \in Nat \ {0}
    BY <1>1, <2>1, RouteFacts DEF Types, RoutesTyped
  <2>3. pc' \in [Threads -> Nat \ {0}] /\ RoutesTyped'
    BY <1>1, <2>1, <2>2 DEF Types, RoutesTyped
  <2>4. /\ UNCHANGED <<layout, code, writable, open, killed, bp, access, hooks>>
        /\ at' = [at EXCEPT ![t] = "fetch"]
        /\ done' = done \/ done' = [done EXCEPT ![t] = TRUE]
    BY <1>2 DEF Run, Lock, Perform, Goto, memory, history
  <2>5. QED
    BY <1>1, <2>3, <2>4, TypedKept DEF Types
<1>3. CASE Fetch(t)
  <2>1. Instruction(t) \in Accesses
    BY <1>1, <1>3, InstructionIsAccess, AccessFacts DEF Fetch, Types
  <2>2. /\ access' \in [Threads -> Accesses \cup {NoAccess}]
        /\ hooks' \in [Threads -> {0, 1}] /\ done' \in [Threads -> BOOLEAN]
    BY <1>1, <1>3, <2>1 DEF Fetch, Types, history
  <2>3. /\ UNCHANGED <<layout, code, writable, open, killed, pc, bp>>
        /\ at' = [at EXCEPT ![t] = "access"]
    BY <1>3 DEF Fetch, Goto, memory
  <2>4. QED
    BY <1>1, <2>2, <2>3, TypedKept DEF Types
<1>4. CASE Fault(t) \/ Trap(t)
  <2>1. UNCHANGED <<layout, code, writable, open, killed, pc, bp, access,
                    hooks, done>>
    BY <1>4 DEF Fault, Trap, Goto, memory, history
  <2>2. \/ at' = [at EXCEPT ![t] = "install"]
        \/ at' = [at EXCEPT ![t] = "hookRead"]
        \/ at' = [at EXCEPT ![t] = "hookWrite"]
        \/ at' = [at EXCEPT ![t] = "uninstall"]
    BY <1>4 DEF Fault, Trap, Goto
  <2>3. QED
    BY <1>1, <2>1, <2>2, TypedKept DEF Types
<1>5. CASE HookRead(t) \/ HookWrite(t)
  <2>1. hooks[t] = 0
    BY <1>1, <1>5 DEF HookRead, HookWrite, Goto, Stage, Fresh, Accessing,
                      HooksDue
  <2>2. hooks' = [hooks EXCEPT ![t] = 1]
    BY <1>5, <2>1 DEF HookRead, HookWrite
  <2>3. UNCHANGED <<layout, code, writable, open, pc, bp, access, done>>
    BY <1>5 DEF HookRead, HookWrite, Goto, memory
  <2>4. killed' \in BOOLEAN
    <3>1. ASSUME NEW x, NEW S, killed' = (x \in S) PROVE killed' \in BOOLEAN
      BY <3>1
    <3>2. \/ killed' = (access[t].c \in Reentrant \ open)
          \/ killed' = (bp[t].c \in Reentrant \ open)
      BY <1>5, Zenon DEF HookRead, HookWrite
    <3>3. QED
      BY <3>1, <3>2, Zenon
  <2>5. at' = [at EXCEPT ![t] = "install"] \/ at' = [at EXCEPT ![t] = "uninstall"]
    BY <1>5 DEF HookRead, HookWrite, Goto
  <2>6. QED
    BY <1>1, <2>2, <2>3, <2>4, <2>5, TypedKept DEF Types
<1>6. CASE InstallBreakPoint(t)
  <2> DEFINE i == access[t]
             b == BreakPointOf(i)
  <2>1. i \in AccessesOf(layout, t) /\ bp' = [bp EXCEPT ![t] = b]
    BY <1>1, <1>6, Installed DEF InstallBreakPoint, Types
  <2>2. /\ i.address \in Nat /\ i.size \in {1, 2} /\ i.c \in Controllers
        /\ i \in Accesses /\ SavedCells(i) \subseteq OwnCells(t)
    BY <1>1, <2>1, AccessFacts
  <2>3. i.address + i.size \in OwnCells(t) /\ i.address + i.size \in Nat
    BY <2>2 DEF SavedCells
  <2>4. b \in BreakPoints
    BY <2>2, <2>3 DEF BreakPointOf, BreakPoints, IsMemoryWriteAccess
  <2>5. b \in [active : {TRUE}, c : Controllers, store : BOOLEAN,
               address : OwnCells(t), opcode : SUBSET OwnCells(t)]
    BY <2>2, <2>3 DEF BreakPointOf, IsMemoryWriteAccess
  <2>6. /\ UNCHANGED <<layout, code, killed, pc, access, hooks, done>>
        /\ at' = [at EXCEPT ![t] = "patch"]
        /\ open' = open \cup {i.c}
        /\ writable' = writable \cup {i.address \div PageSize}
    BY <1>6 DEF InstallBreakPoint, Goto, MakeWritable, history
  <2> HIDE DEF b
  <2>7. bp' \in [Threads -> BreakPoints]
    BY <1>1, <2>1, <2>4 DEF Types
  <2>8. \A u \in Threads : BreakPointTyped(u)'
    <3>1. bp'[t] = b /\ \A u \in Threads \ {t} : bp'[u] = bp[u]
      BY <1>1, <2>1 DEF Types
    <3>2. BreakPointTyped(t)'
      BY <1>1, <2>5, <3>1, TypedKept DEF BreakPointTyped
    <3>3. QED
      BY <1>1, <3>1, <3>2, TypedKept
  <2>9. PagesTyped'
    BY <1>1, <2>2, <2>6 DEF Types, PagesTyped
  <2>10. QED
    BY <1>1, <2>2, <2>6, <2>7, <2>8, <2>9, TypedKept DEF Types
<1>7. CASE Patch(t)
  <2> DEFINE a == bp[t].address
             cells == IF layout.set = "arm" THEN {a, a + 1} ELSE {a}
  <2>1. /\ UNCHANGED <<layout, writable, open, pc, bp, access, hooks, done>>
        /\ at' = [at EXCEPT ![t] = "fetch"]
        /\ \/ code' = code \cup cells /\ killed' = killed
           \/ killed' = TRUE /\ code' = code
    BY <1>7 DEF Patch, Goto, Writes, history
  <2>2. bp[t].active
    BY <1>1, <1>7 DEF Patch, Goto, Stage, Fresh, Accessing
  <2>3. cells \subseteq OwnCells(t)
    <3>1. access[t] \in AccessesOf(layout, t)
          /\ a = access[t].address + access[t].size
      BY <1>1, <2>2, PatchedCells
    <3>2. cells \subseteq SavedCells(access[t])
      BY <3>1 DEF SavedCells
    <3>3. QED
      BY <1>1, <3>1, <3>2, AccessFacts
  <2> HIDE DEF cells
  <2>4. CodeTyped'
    <3>1. code' \subseteq UNION {OwnCells(u) : u \in Threads}
      BY <1>1, <2>1, <2>3 DEF Types, CodeTyped
    <3>2. QED
      BY <1>1, <3>1, TypedKept DEF CodeTyped
  <2>5. QED
    BY <1>1, <2>1, <2>4, TypedKept DEF Types
<1>8. CASE UninstallBreakPoint(t)
  <2>1. /\ UNCHANGED <<layout, writable, pc, access, hooks, done>>
        /\ at' = [at EXCEPT ![t] = "fetch"]
        /\ bp' = [bp EXCEPT ![t] = NoBreakPoint]
        /\ open' = open \ {bp[t].c}
        /\ \/ code' = Restored(bp[t]) /\ killed' = killed
           \/ killed' = TRUE /\ code' = code
    BY <1>8 DEF UninstallBreakPoint, Goto, Writes, history
  <2>2. bp[t].active
    BY <1>1, <1>8 DEF UninstallBreakPoint, Goto, Stage, Fresh, Accessing
  <2>3. bp[t].opcode = {}
    BY <1>1, <2>2, PatchedCells, BreakPointFacts
  <2>4. CodeTyped'
    <3>1. code' \subseteq code
      BY <2>1, <2>3 DEF Restored
    <3>2. code' \subseteq UNION {OwnCells(u) : u \in Threads}
      BY <1>1, <3>1 DEF Types, CodeTyped
    <3>3. QED
      BY <1>1, <3>2, TypedKept DEF CodeTyped
  <2>5. NoBreakPoint \in BreakPoints /\ NoBreakPoint' = NoBreakPoint
    BY DEF NoBreakPoint, BreakPoints
  <2>6. bp' \in [Threads -> BreakPoints]
    BY <1>1, <2>1, <2>5 DEF Types
  <2>7. \A u \in Threads : BreakPointTyped(u)'
    <3>1. bp'[t] = NoBreakPoint /\ \A u \in Threads \ {t} : bp'[u] = bp[u]
      BY <1>1, <2>1 DEF Types
    <3>2. BreakPointTyped(t)'
      BY <2>5, <3>1 DEF BreakPointTyped
    <3>3. QED
      BY <1>1, <3>1, <3>2, TypedKept
  <2>8. QED
    BY <1>1, <2>1, <2>4, <2>6, <2>7, TypedKept DEF Types
<1>9. QED
  BY <1>2, <1>3, <1>4, <1>5, <1>6, <1>7, <1>8 DEF Step

-----------------------------------------------------------------------------
(***************************************************************************)
(* Locks after a step: one is taken only where no other thread holds it.   *)
(***************************************************************************)
LEMMA ExclusiveStep ==
  ASSUME Inv, NEW t \in Threads, Step(t)
  PROVE  Exclusive'
<1>1. /\ Types /\ ~killed /\ Stage(t) /\ layout' = layout
      /\ layout \in Layouts /\ Exclusive
      /\ \A u \in Threads \ {t} : pc'[u] = pc[u]
  BY StepFrame DEF Inv, Frame, SameFor, Types
<1>2. \A u \in Threads \ {t} : Held(u)' = Held(u)
  BY <1>1 DEF Held, HeldAt
<1>3. ASSUME NEW c \in Held(t)'
      PROVE  \/ c \in Held(t)
             \/ \A u \in Threads \ {t} : c \notin Held(u)
  <2>1. CASE pc' = pc
    BY <1>1, <1>3, <2>1 DEF Held, HeldAt
  <2>2. CASE Run(t) \/ Lock(t) \/ Perform(t)
    <3>1. pc'[t] = pc[t] + 1 /\ pc[t] \in DOMAIN layout.route[t]
      <4>1. ~Ended(t)
        BY <1>1, <2>2
           DEF Run, Lock, Perform, Goto, Stage, Fresh, Accessing
      <4>2. pc'[t] = pc[t] + 1
        BY <1>1, <2>2 DEF Run, Lock, Perform, Types
      <4>3. QED
        BY <1>1, <4>1, <4>2, RouteFacts DEF Ended, Types
    <3>2. c \in HeldAt(layout, t, pc[t] + 1)
      BY <1>1, <1>3, <3>1 DEF Held, HeldAt
    <3>3. \/ c \in Held(t)
          \/ Instruction(t).kind = "lock" /\ c = Instruction(t).c
      BY <1>1, <3>1, <3>2, HeldNext DEF Held, Instruction
    <3>4. ASSUME Instruction(t).kind = "lock" PROVE Lock(t)
      <4>1. CASE Run(t)
        BY <3>4, <4>1 DEF Run
      <4>2. CASE Perform(t)
        <5>1. access[t] # NoAccess /\ ~done[t] /\ Accessing(t, access[t])
          BY <1>1, <4>2 DEF Perform, Goto, Stage, Fresh, Accessing
        <5>2. Instruction(t).kind \in {"read", "write"}
          BY <1>1, <5>1, AccessFacts DEF Accessing
        <5>3. QED
          BY <3>4, <5>2
      <4>3. QED
        BY <2>2, <4>1, <4>2
    <3>5. QED
      BY <3>3, <3>4 DEF Lock, Available
  <2>3. QED
    BY <2>1, <2>2
       DEF Step, Fetch, Fault, HookRead, InstallBreakPoint, Patch, Trap,
           HookWrite, UninstallBreakPoint
<1>4. ASSUME NEW u \in Threads \ {t}, NEW c \in Held(t)'
      PROVE  c \notin Held(u)'
  BY <1>1, <1>2, <1>3, <1>4 DEF Exclusive
<1>5. QED
  BY <1>1, <1>2, <1>4 DEF Exclusive

LEMMA InvNext == Inv /\ [Next]_vars => Inv'
<1> SUFFICES ASSUME Inv, [Next]_vars PROVE Inv'
  OBVIOUS
<1>1. CASE UNCHANGED vars
  <2>1. UNCHANGED <<layout, code, writable, open, killed, pc, at, bp, access,
                    hooks, done>>
    BY <1>1 DEF vars
  <2>2. Types'
    BY <2>1, TypedKept DEF Inv, Types
  <2>3. \A u \in Threads : SameFor(u) /\ Patched(u)' = Patched(u)
    BY <2>1, PatchedKept DEF SameFor
  <2>4. ~killed => \A u \in Threads : Stage(u)'
    BY <2>1, <2>3, StageKept DEF Inv
  <2>5. ~killed => Shared'
    BY <2>1, <2>3 DEF Inv, Shared
  <2>6. Exclusive' /\ Disciplined(layout)'
    BY <2>1 DEF Inv, Exclusive, Held, HeldAt, Disciplined
  <2>7. QED
    BY <2>1, <2>2, <2>4, <2>5, <2>6 DEF Inv
<1>2. ASSUME NEW t \in Threads, Step(t) PROVE Inv'
  <2>1. layout' = layout
    BY <1>2, StepFrame DEF Inv, Frame
  <2>2. Disciplined(layout)'
    BY <2>1 DEF Inv, Disciplined, HeldAt
  <2>3. Types' /\ Exclusive' /\ (~killed' => Shared' /\ \A u \in Threads : Stage(u)')
    BY <1>2, TypesStep, StageStep, SharedStep, ExclusiveStep
  <2>4. QED
    BY <2>2, <2>3 DEF Inv
<1>3. QED
  BY <1>1, <1>2 DEF Next

LEMMA InvAlways == Disciplined(layout) /\ Spec => []Inv
BY InitInv, InvNext, PTL DEF Spec

\* In code that is disciplined every variable keeps its type: TypeOK of run
\* "arm".
THEOREM TypeCorrect == Disciplined(layout) /\ Spec => []TypeOK
<1>1. Inv => TypeOK
  BY TypesImply DEF Inv
<1>2. QED
  BY <1>1, InvAlways, PTL
-----------------------------------------------------------------------------
(***************************************************************************)
(* What follows of the code, the mappings and the end of the process.      *)
(***************************************************************************)
\* Code that is disciplined differs from the program by the breakpoints of
\* those threads that step over an access, whoever runs into them or waits to
\* run the same code, and by nothing else, and only their mappings are open:
\* NoTraceLeft of run "arm".
THEOREM NoTraceIsLeft == Disciplined(layout) /\ Spec => []NoTraceLeft
<1>1. ASSUME Inv PROVE NoTraceLeft
  <2> DEFINE patched(t) == IF layout.set = "arm"
                           THEN {bp[t].address, bp[t].address + 1}
                           ELSE {bp[t].address}
  <2> SUFFICES ASSUME ~killed
               PROVE  /\ code = UNION {patched(t) :
                                         t \in {u \in Threads : Patching(u)}}
                      /\ open = {bp[t].c : t \in {u \in Threads : bp[u].active}}
    BY DEF NoTraceLeft
  <2>1. \A t \in Threads : Patched(t) = IF Patching(t) THEN patched(t) ELSE {}
    BY DEF Patched
  <2> HIDE DEF patched
  <2>2. Shared
    BY <1>1 DEF Inv
  <2>3. \A x : x \in code <=> \E t \in Threads : Patching(t) /\ x \in patched(t)
    BY <2>1, <2>2 DEF Shared
  <2>4. code = UNION {patched(t) : t \in {u \in Threads : Patching(u)}}
    BY <2>3
  <2>5. open = {bp[t].c : t \in {u \in Threads : bp[u].active}}
    BY <2>2 DEF Shared
  <2>6. QED
    BY <2>4, <2>5
<1>2. QED
  BY <1>1, InvAlways, PTL

\* A store into the code is behind the thread's access, and faults only if it
\* is not on the page that was made writable.
LEMMA DeadlyStore ==
  ASSUME Inv, ~killed, NEW t \in Threads, bp[t].active,
         NEW cells, cells \subseteq {bp[t].address, bp[t].address + 1},
         ~({cell \div PageSize : cell \in cells} \subseteq writable)
  PROVE  access[t] # NoAccess /\ AtPageEnd(access[t])
<1> DEFINE i == access[t]
<1>1. /\ i \in AccessesOf(layout, t) /\ bp[t].address = i.address + i.size
      /\ layout \in Layouts
  BY PatchedCells DEF Inv, Types
<1>2. i # NoAccess
  BY <1>1, AccessFacts
<1>3. i.address \div PageSize \in writable
  BY <1>2 DEF Inv, Stage, Accessing
<1>4. cells \subseteq SavedCells(i)
  BY <1>1 DEF SavedCells
<1>5. PICK cell \in cells : cell \div PageSize \notin writable
  OBVIOUS
<1>6. QED
  BY <1>2, <1>3, <1>4, <1>5 DEF AtPageEnd

LEMMA KilledNext ==
  Inv /\ KilledOnlyByKnownCauses /\ [Next]_vars => KilledOnlyByKnownCauses'
<1> SUFFICES ASSUME Inv, KilledOnlyByKnownCauses, [Next]_vars, killed'
             PROVE  KilledOnlyByKnownCauses'
  BY DEF KilledOnlyByKnownCauses
<1>1. CASE UNCHANGED vars
  BY <1>1 DEF vars, KilledOnlyByKnownCauses, AtPageEnd, SavedCells
<1>2. CASE Next
  <2>1. PICK t \in Threads : Step(t)
    BY <1>2 DEF Next
  <2>2. ~killed /\ Stage(t)
    BY <2>1, StepFrame DEF Inv
  <2>3. SUFFICES /\ access' = access /\ access[t] # NoAccess
                 /\ \/ AtPageEnd(access[t])
                    \/ access[t].kind = "read" /\ access[t].c \in Reentrant
    BY <2>3 DEF KilledOnlyByKnownCauses, AtPageEnd, SavedCells
  <2>4. \/ HookRead(t) \/ HookWrite(t)
        \/ /\ Patch(t) \/ UninstallBreakPoint(t)
           /\ access' = access
    BY <2>1, <2>2 DEF Step, Run, Lock, Fetch, Perform, Fault, InstallBreakPoint,
                      Trap, Patch, UninstallBreakPoint, history
  <2>5. CASE HookRead(t)
    <3>1. at[t] = "hookRead" /\ access[t].c \in Reentrant /\ access' = access
      BY <2>5 DEF HookRead, Goto
    <3>2. access[t] # NoAccess /\ access[t].kind = "read"
      BY <2>2, <3>1 DEF Stage, Fresh, Accessing
    <3>3. QED
      BY <3>1, <3>2
  <2>6. CASE HookWrite(t)
    <3>1. at[t] = "hookWrite" /\ bp[t].c \notin open
      BY <2>6 DEF HookWrite, Goto
    <3>2. bp[t].active
      BY <2>2, <3>1 DEF Stage, Fresh, Accessing
    <3>3. QED
      BY <2>2, <3>1, <3>2 DEF Inv, Shared
  <2>7. CASE Patch(t) /\ access' = access
    <3> DEFINE a == bp[t].address
               cells == IF layout.set = "arm" THEN {a, a + 1} ELSE {a}
    <3>1. /\ at[t] = "patch" /\ cells \subseteq {a, a + 1}
          /\ ~({cell \div PageSize : cell \in cells} \subseteq writable)
      BY <2>2, <2>7 DEF Patch, Goto, Writes
    <3> HIDE DEF cells
    <3>2. bp[t].active
      BY <2>2, <3>1 DEF Stage, Fresh, Accessing
    <3>3. QED
      BY <2>2, <2>7, <3>1, <3>2, DeadlyStore
  <2>8. CASE UninstallBreakPoint(t) /\ access' = access
    <3> DEFINE cells == {bp[t].address, bp[t].address + 1}
    <3>1. /\ at[t] = "uninstall"
          /\ ~({cell \div PageSize : cell \in cells} \subseteq writable)
      BY <2>2, <2>8 DEF UninstallBreakPoint, Goto, Writes
    <3>2. bp[t].active
      BY <2>2, <3>1 DEF Stage, Fresh, Accessing
    <3>3. QED
      BY <2>2, <2>8, <3>1, <3>2, DeadlyStore
  <2>9. QED
    BY <2>4, <2>5, <2>6, <2>7, <2>8
<1>3. QED
  BY <1>1, <1>2

\* Only two things kill a process whose code is disciplined: an access at the
\* end of a page of code, and a HookRead that uses the public mapping:
\* KilledOnlyByKnownCauses of run "arm".
THEOREM OnlyKnownCausesKill ==
  Disciplined(layout) /\ Spec => []KilledOnlyByKnownCauses
<1>1. Init => KilledOnlyByKnownCauses
  BY DEF Init, KilledOnlyByKnownCauses
<1>2. QED
  BY <1>1, KilledNext, InvAlways, PTL DEF Spec

-----------------------------------------------------------------------------
(***************************************************************************)
(* The refinement: a thread that is between a hook and its instruction has *)
(* an access, and no other thread one to the same controller.              *)
(***************************************************************************)
LEMMA IsAlone ==
  ASSUME Inv, ~killed, NEW t \in Threads, Inside(t)
  PROVE  HA!Alone(t)
<1> SUFFICES ASSUME NEW u \in Threads \ {t}, HA!HalfDone(u)
             PROVE  access[u].c # access[t].c
  BY DEF HA!Alone
<1>1. /\ access[u] \in Accesses
      /\ \/ ~done[u]
         \/ /\ done[u] /\ hooks[u] = 0
            /\ access[u].kind = "write" /\ HooksWrite(access[u].c)
  BY DEF HA!HalfDone
<1>2. access[u] # NoAccess /\ Accessing(u, access[u])
  BY <1>1, ArmAssumption DEF Inv, Stage
<1>3. Inside(u)
  BY <1>1, <1>2 DEF Inside, Accessing, HooksDue
<1>4. QED
  BY <1>3, NoConflict

LEMMA AbstractFetch ==
  ASSUME Inv, NEW t \in Threads, Fetch(t)
  PROVE  \/ UNCHANGED HA!vars
         \/ \E a \in Accesses : HA!Begin(t, a)
<1> DEFINE a == Instruction(t)
<1>1. /\ ~killed /\ at[t] = "fetch" /\ ~Ended(t)
      /\ IsAccess(a) /\ Cells(a) \cap code = {}
  BY DEF Fetch, Goto
<1>2. CASE ~(access[t] = NoAccess \/ done[t])
  BY <1>2 DEF Fetch, history, HA!vars
<1>3. CASE access[t] = NoAccess \/ done[t]
  <2>1. a \in Accesses
    BY <1>1, InstructionIsAccess, AccessFacts DEF Inv, Types
  <2>2. HA!Finished(t)
    <3>1. CASE access[t] = NoAccess
      BY <3>1 DEF HA!Finished
    <3>2. CASE access[t] # NoAccess /\ done[t]
      <4>1. Accessing(t, access[t]) /\ ~bp[t].active
        BY <1>1, <3>2, BackAtAccess DEF Inv, Stage
      <4>2. access[t].kind = "write" /\ HooksWrite(access[t].c)
              => hooks[t] = 1
        BY <3>2, <4>1 DEF Accessing, HooksDue
      <4>3. QED
        BY <3>2, <4>2 DEF HA!Finished
    <3>3. QED
      BY <1>3, <3>1, <3>2
  <2>3. /\ access' = [access EXCEPT ![t] = a]
        /\ hooks' = [hooks EXCEPT ![t] = 0]
        /\ done' = [done EXCEPT ![t] = FALSE]
    BY <1>3 DEF Fetch
  <2>4. HA!Begin(t, a)
    BY <2>2, <2>3 DEF HA!Begin
  <2>5. QED
    BY <2>1, <2>4
<1>4. QED
  BY <1>2, <1>3

LEMMA AbstractHook ==
  ASSUME Inv, NEW t \in Threads, HookRead(t) \/ HookWrite(t)
  PROVE  HA!Hook(t)
<1> DEFINE i == access[t]
<1>1. /\ ~killed /\ Stage(t) /\ UNCHANGED <<access, done>>
      /\ hooks' = [hooks EXCEPT ![t] = hooks[t] + 1]
  BY DEF HookRead, HookWrite, Goto, Inv
<1>2. i # NoAccess /\ Accessing(t, i)
  BY <1>1 DEF HookRead, HookWrite, Goto, Stage, Fresh
<1>3. i \in Accesses
  BY <1>2 DEF Inv, Types
<1>4. \/ i.kind = "read" /\ HooksRead(i.c) /\ ~done[t]
      \/ i.kind = "write" /\ HooksWrite(i.c) /\ done[t]
  BY <1>2 DEF HookRead, HookWrite, Goto, Accessing
<1>5. hooks[t] = 0
  BY <1>2 DEF HookRead, HookWrite, Goto, Accessing, HooksDue
<1>6. hooks' = [hooks EXCEPT ![t] = 1]
  BY <1>1, <1>5
<1>7. HA!Alone(t)
  <2>1. Inside(t)
    BY <1>2 DEF HookRead, HookWrite, Goto, Inside, Accessing
  <2>2. QED
    BY <1>1, <2>1, IsAlone
<1>8. QED
  BY <1>1, <1>3, <1>4, <1>5, <1>6, <1>7 DEF HA!Hook

LEMMA AbstractPerform ==
  ASSUME Inv, NEW t \in Threads, Perform(t)
  PROVE  HA!Perform(t)
<1> DEFINE i == access[t]
<1>1. /\ ~killed /\ at[t] = "access" /\ Permitted(i)
      /\ UNCHANGED <<access, hooks>> /\ done' = [done EXCEPT ![t] = TRUE]
  BY DEF Perform, Goto
<1>2. i # NoAccess /\ Accessing(t, i) /\ ~done[t]
  BY <1>1 DEF Inv, Stage, Fresh, Accessing
<1>3. ASSUME i.kind = "read", HooksRead(i.c) PROVE hooks[t] = 1
  <2>1. bp[t].active
    BY <1>1, <1>2, <1>3, OwnMapping DEF Permitted, Inside
  <2>2. QED
    BY <1>2, <1>3, <2>1 DEF Accessing, HooksDue
<1>4. HA!Alone(t)
  BY <1>1, <1>2, IsAlone DEF Inside
<1>5. QED
  BY <1>1, <1>2, <1>3, <1>4 DEF HA!Perform

LEMMA AbstractStep ==
  ASSUME Inv, [Next]_vars
  PROVE  [HA!Next]_(HA!vars)
<1>1. CASE UNCHANGED vars
  BY <1>1 DEF vars, HA!vars
<1>2. CASE Next
  <2>1. PICK t \in Threads : Step(t)
    BY <1>2 DEF Next
  <2>2. CASE Fetch(t)
    BY <2>2, AbstractFetch DEF HA!Next
  <2>3. CASE HookRead(t) \/ HookWrite(t)
    BY <2>3, AbstractHook DEF HA!Next
  <2>4. CASE Perform(t)
    BY <2>4, AbstractPerform DEF HA!Next
  <2>5. CASE ~(Fetch(t) \/ HookRead(t) \/ HookWrite(t) \/ Perform(t))
    BY <2>1, <2>5 DEF Step, Run, Lock, Fault, InstallBreakPoint, Patch, Trap,
                      UninstallBreakPoint, history, HA!vars
  <2>6. QED
    BY <2>2, <2>3, <2>4, <2>5
<1>3. QED
  BY <1>1, <1>2

\* Breakpoints in code that all threads run, if it is disciplined, implement
\* the protocol of docs/hooking.md: RefinesHookedAccess of run "arm".
THEOREM ImplementsHookedAccess ==
  Disciplined(layout) /\ Spec => RefinesHookedAccess
<1>1. Init => HA!Init
  BY DEF Init, HA!Init
<1>2. Inv /\ [Next]_vars => [HA!Next]_(HA!vars)
  BY AbstractStep
<1>3. QED
  BY <1>1, <1>2, InvAlways, PTL DEF Spec, RefinesHookedAccess, HA!Spec
=============================================================================
