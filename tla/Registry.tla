------------------------------ MODULE Registry ------------------------------
(***************************************************************************)
(* The registry of controllers (exmm/registry.cpp) and the life of an      *)
(* IoSpace (platforms/posix-iospace.cpp): construction of a controller,    *)
(* its destruction, and the lookup that the fault handler makes, by any    *)
(* number of threads.                                                      *)
(*                                                                         *)
(* Registry::Add first runs InitPlatform, which tests and sets a static    *)
(* flag outside of ioMapMutex, then allocates the IoSpace under the mutex. *)
(* Every system call of IoSpace::Initialize may fail; the exception leaves *)
(* the constructor, so that no destructor runs for what was acquired.      *)
(*                                                                         *)
(* Memory is a row of pages.  mmap takes any free run of pages that is     *)
(* long enough for the size, which is not rounded in IoSpace::Size().      *)
(*                                                                         *)
(* A definition Faulty_D is D with a plausible bug.  The specification     *)
(* does not use it: put in the place of D it must break a property.        *)
(***************************************************************************)
EXTENDS Naturals

CONSTANTS
  Threads,      \* threads that construct, destroy and look up
  Controllers,  \* controller objects, by address
  SizeOf,       \* SizeOf[c]: size of c's register file in bytes
  PageSize,     \* bytes in a page
  PageCount,    \* bound: pages of the address space
  MaxFailures,  \* bound: system calls that fail
  NoThread, NoController

ASSUME ConstantsAssumption ==
  /\ SizeOf \in [Controllers -> Nat \ {0}]
  /\ PageSize \in Nat \ {0}
  /\ PageCount \in Nat
  /\ MaxFailures \in Nat
  /\ NoThread \notin Threads
  /\ NoController \notin Controllers

VARIABLES
  initialized,     \* the static flag of InitPlatform
  filter,          \* top-level handler of the process: "default", "ExMM"
  previousFilter,  \* what RegisterHandlers found: "none", "default", "ExMM"
  ioMapMutex,      \* owner of the mutex
  ioMap,           \* controllers that are keys of the map
  space,           \* space[c]: the IoSpace made for c
  lost,            \* IoSpaces that nobody refers to any more
  pc,              \* where each thread is
  subject,         \* the controller a thread constructs or destroys
  fault,           \* the address whose owner a thread looks up
  answer,          \* what FindController returned to it
  failures         \* system calls that may still fail

platform == <<initialized, filter, previousFilter>>
memory   == <<space, lost, failures>>
lookup   == <<fault, answer>>
vars     == <<initialized, filter, previousFilter, ioMapMutex, ioMap, space,
              lost, pc, subject, fault, answer, failures>>

Labels == {"idle",
           "testFlag", "register", "setFlag",        \* InitPlatform
           "lockAdd", "file", "private", "public", "insert",  \* Add
           "lockRemove", "remove",                   \* Remove
           "lockFind", "find", "found"}              \* FindController

Addresses == 0 .. PageCount * PageSize - 1

PagesFor(size) == (size + PageSize - 1) \div PageSize

PageOf(address) == address \div PageSize

\* An IoSpace holds the mapping file and the two areas, [first, first + n).
NoArea  == [first |-> 0, n |-> 0]
NoSpace == [file |-> "none", private |-> NoArea, public |-> NoArea]

AreaPages(area) == {p \in 0 .. PageCount - 1 :
                      area.first <= p /\ p < area.first + area.n}

Holds(s) == AreaPages(s.private) \cup AreaPages(s.public)

TakenPages == (UNION {Holds(space[c]) : c \in Controllers})
                \cup (UNION {Holds(s) : s \in lost})

\* The runs of pages mmap can give for this size.
FreeAreas(size) ==
  {a \in [first : 0 .. PageCount - 1, n : {PagesFor(size)}] :
     /\ a.first + a.n <= PageCount
     /\ AreaPages(a) \cap TakenPages = {}}

-----------------------------------------------------------------------------
Goto(t, label) == pc' = [pc EXCEPT ![t] = label]

Faulty_Unlock == UNCHANGED ioMapMutex

Unlock == ioMapMutex' = NoThread

\* The exception leaves Registry::Add and the constructor of ControllerBase:
\* the guard unlocks the mutex, the new IoSpace is not deleted.
Throw(t) ==
  /\ failures > 0
  /\ failures' = failures - 1
  /\ lost' = IF space[subject[t]] = NoSpace THEN lost
             ELSE lost \cup {space[subject[t]]}
  /\ space' = [space EXCEPT ![subject[t]] = NoSpace]
  /\ subject' = [subject EXCEPT ![t] = NoController]
  /\ Unlock
  /\ Goto(t, "idle")
  /\ UNCHANGED <<platform, ioMap, lookup>>

(* ControllerBase() calls Registry::Add, which calls InitPlatform. *)

Construct(t, c) ==
  /\ pc[t] = "idle"
  /\ c \notin ioMap
  /\ \A u \in Threads : subject[u] # c
  /\ subject' = [subject EXCEPT ![t] = c]
  /\ Goto(t, "testFlag")
  /\ UNCHANGED <<platform, ioMapMutex, ioMap, memory, lookup>>

Faulty_TestFlag(t) ==
  /\ pc[t] = "testFlag"
  /\ Goto(t, IF initialized THEN "lockAdd" ELSE "register")
  /\ initialized' = TRUE
  /\ UNCHANGED <<filter, previousFilter, ioMapMutex, ioMap, memory, subject,
                 lookup>>

TestFlag(t) ==
  /\ pc[t] = "testFlag"
  /\ Goto(t, IF initialized THEN "lockAdd" ELSE "register")
  /\ UNCHANGED <<platform, ioMapMutex, ioMap, memory, subject, lookup>>

\* previousFilter = SetUnhandledExceptionFilter(ExceptionHook); on POSIX
\* sigaction is called and what it replaces is forgotten.
RegisterHandlers(t) ==
  /\ pc[t] = "register"
  /\ previousFilter' = filter
  /\ filter' = "ExMM"
  /\ Goto(t, "setFlag")
  /\ UNCHANGED <<initialized, ioMapMutex, ioMap, memory, subject, lookup>>

SetFlag(t) ==
  /\ pc[t] = "setFlag"
  /\ initialized' = TRUE
  /\ Goto(t, "lockAdd")
  /\ UNCHANGED <<filter, previousFilter, ioMapMutex, ioMap, memory, subject,
                 lookup>>

\* std::lock_guard<std::mutex> guard(ioMapMutex)
LockedLabel == [lockAdd |-> "file", lockRemove |-> "remove",
                lockFind |-> "find"]

LockMap(t) ==
  /\ pc[t] \in DOMAIN LockedLabel
  /\ ioMapMutex = NoThread
  /\ ioMapMutex' = t
  /\ Goto(t, LockedLabel[pc[t]])
  /\ UNCHANGED <<platform, ioMap, memory, subject, lookup>>

\* new IoSpace; mkstemp, ftruncate, unlink.
OpenFile(t) ==
  /\ pc[t] = "file"
  /\ space' = [space EXCEPT ![subject[t]].file = "unlinked"]
  /\ Goto(t, "private")
  /\ UNCHANGED <<platform, ioMapMutex, ioMap, lost, failures, subject, lookup>>

\* mkstemp fails: only the IoSpace object is lost.  ftruncate fails: the
\* file stays open and keeps its name.
OpenFileFails(t) ==
  /\ pc[t] = "file"
  /\ \/ Throw(t)
     \/ /\ failures > 0
        /\ failures' = failures - 1
        /\ lost' = lost \cup {[NoSpace EXCEPT !.file = "named"]}
        /\ subject' = [subject EXCEPT ![t] = NoController]
        /\ Unlock
        /\ Goto(t, "idle")
        /\ UNCHANGED <<platform, ioMap, space, lookup>>

MapPrivate(t) ==
  /\ pc[t] = "private"
  /\ \E a \in FreeAreas(SizeOf[subject[t]]) :
       space' = [space EXCEPT ![subject[t]].private = a]
  /\ Goto(t, "public")
  /\ UNCHANGED <<platform, ioMapMutex, ioMap, lost, failures, subject, lookup>>

MapPublic(t) ==
  /\ pc[t] = "public"
  /\ \E a \in FreeAreas(SizeOf[subject[t]]) :
       space' = [space EXCEPT ![subject[t]].public = a]
  /\ Goto(t, "insert")
  /\ UNCHANGED <<platform, ioMapMutex, ioMap, lost, failures, subject, lookup>>

MapFails(t) == pc[t] \in {"private", "public"} /\ Throw(t)

Insert(t) ==
  /\ pc[t] = "insert"
  /\ ioMap' = ioMap \cup {subject[t]}
  /\ subject' = [subject EXCEPT ![t] = NoController]
  /\ Unlock
  /\ Goto(t, "idle")
  /\ UNCHANGED <<platform, memory, lookup>>

(* ~ControllerBase() calls Registry::Remove. *)

Destruct(t, c) ==
  /\ pc[t] = "idle"
  /\ c \in ioMap
  /\ \A u \in Threads : subject[u] # c
  /\ subject' = [subject EXCEPT ![t] = c]
  /\ Goto(t, "lockRemove")
  /\ UNCHANGED <<platform, ioMapMutex, ioMap, memory, lookup>>

Faulty_Remove(t) ==
  /\ pc[t] = "remove"
  /\ ioMap' = ioMap \ {subject[t]}
  /\ lost' = lost \cup {space[subject[t]]}
  /\ space' = [space EXCEPT ![subject[t]] = NoSpace]
  /\ subject' = [subject EXCEPT ![t] = NoController]
  /\ Unlock
  /\ Goto(t, "idle")
  /\ UNCHANGED <<platform, failures, lookup>>

Faulty2_Remove(t) ==
  /\ pc[t] = "remove"
  /\ ioMap' = ioMap \ {subject[t]}
  /\ subject' = [subject EXCEPT ![t] = NoController]
  /\ Unlock
  /\ Goto(t, "idle")
  /\ UNCHANGED <<platform, memory, lookup>>

\* delete of the IoSpace unmaps both areas and closes the file.
Remove(t) ==
  /\ pc[t] = "remove"
  /\ ioMap' = ioMap \ {subject[t]}
  /\ space' = [space EXCEPT ![subject[t]] = NoSpace]
  /\ subject' = [subject EXCEPT ![t] = NoController]
  /\ Unlock
  /\ Goto(t, "idle")
  /\ UNCHANGED <<platform, lost, failures, lookup>>

(* The fault handler asks for the owner of an address. *)

NotFound == [controller |-> NoController, offset |-> 0]

First(c) == space[c].public.first * PageSize

Faulty_Covers(c, address) ==
  First(c) <= address /\ address <= First(c) + SizeOf[c]

Faulty2_Covers(c, address) == address < First(c) + SizeOf[c]

Covers(c, address) == First(c) <= address /\ address < First(c) + SizeOf[c]

\* The first entry of the map whose area covers the address.  The order of
\* the map is that of the pointers, about which nothing is known.
FoundFor(address) ==
  LET owners == {c \in ioMap : Covers(c, address)} IN
  IF owners = {} THEN {NotFound}
  ELSE {[controller |-> c, offset |-> address - First(c)] : c \in owners}

LookUp(t, address) ==
  /\ pc[t] = "idle"
  /\ fault' = [fault EXCEPT ![t] = address]
  /\ Goto(t, "lockFind")
  /\ UNCHANGED <<platform, ioMapMutex, ioMap, memory, subject, answer>>

FindController(t) ==
  /\ pc[t] = "find"
  /\ \E found \in FoundFor(fault[t]) : answer' = [answer EXCEPT ![t] = found]
  /\ Unlock
  /\ Goto(t, "found")
  /\ UNCHANGED <<platform, ioMap, memory, subject, fault>>

\* The handler goes on with the answer: that is the subject of HookEngine.
Handle(t) ==
  /\ pc[t] = "found"
  /\ fault' = [fault EXCEPT ![t] = 0]
  /\ answer' = [answer EXCEPT ![t] = NotFound]
  /\ Goto(t, "idle")
  /\ UNCHANGED <<platform, ioMapMutex, ioMap, memory, subject>>

-----------------------------------------------------------------------------
Init ==
  /\ initialized = FALSE
  /\ filter = "default"
  /\ previousFilter = "none"
  /\ ioMapMutex = NoThread
  /\ ioMap = {}
  /\ space = [c \in Controllers |-> NoSpace]
  /\ lost = {}
  /\ pc = [t \in Threads |-> "idle"]
  /\ subject = [t \in Threads |-> NoController]
  /\ fault = [t \in Threads |-> 0]
  /\ answer = [t \in Threads |-> NotFound]
  /\ failures = MaxFailures

Continue(t) ==
  \/ TestFlag(t) \/ RegisterHandlers(t) \/ SetFlag(t)
  \/ LockMap(t) \/ OpenFile(t) \/ OpenFileFails(t)
  \/ MapPrivate(t) \/ MapPublic(t) \/ MapFails(t) \/ Insert(t)
  \/ Remove(t) \/ FindController(t) \/ Handle(t)

Next ==
  \E t \in Threads :
    \/ \E c \in Controllers : Construct(t, c) \/ Destruct(t, c)
    \/ \E address \in Addresses : LookUp(t, address)
    \/ Continue(t)

Spec == Init /\ [][Next]_vars

-----------------------------------------------------------------------------
(* Properties. *)

Areas  == [first : 0 .. PageCount, n : 0 .. PageCount]
Spaces == [file : {"none", "named", "unlinked"}, private : Areas,
           public : Areas]

\* Every variable holds a value of its type.
TypeOK ==
  /\ initialized \in BOOLEAN
  /\ filter \in {"default", "ExMM"}
  /\ previousFilter \in {"none", "default", "ExMM"}
  /\ ioMapMutex \in Threads \cup {NoThread}
  /\ ioMap \in SUBSET Controllers
  /\ space \in [Controllers -> Spaces]
  /\ lost \in SUBSET Spaces
  /\ pc \in [Threads -> Labels]
  /\ subject \in [Threads -> Controllers \cup {NoController}]
  /\ fault \in [Threads -> Nat]
  /\ answer \in [Threads -> [controller : Controllers \cup {NoController},
                            offset : Nat]]
  /\ failures \in 0 .. MaxFailures

Critical == {"file", "private", "public", "insert", "remove", "find"}

\* The map is read and changed by one thread at a time, and the mutex is
\* free whenever no thread is inside Add, Remove or FindController: an
\* exception out of Add gives it back.
MapGuarded ==
  \A t \in Threads : pc[t] \in Critical <=> ioMapMutex = t

\* A controller that can fault has handlers: although InitPlatform is not
\* synchronised, no thread gets past it before RegisterHandlers has
\* returned in some thread.
HandlersBeforeControllers == ioMap # {} => filter = "ExMM"

\* A controller in the map has its file and both areas, on pages nothing
\* else uses; one that is neither in the map nor being constructed has
\* nothing, whichever way its constructor or destructor ended.
SpacesFollowControllers ==
  /\ \A c \in ioMap :
       /\ space[c].file = "unlinked"
       /\ space[c].private.n = PagesFor(SizeOf[c])
       /\ space[c].public.n = PagesFor(SizeOf[c])
       /\ AreaPages(space[c].private) \cap AreaPages(space[c].public) = {}
       /\ \A d \in Controllers \ {c} :
            Holds(space[c]) \cap Holds(space[d]) = {}
       /\ \A s \in lost : Holds(space[c]) \cap Holds(s) = {}
  /\ \A c \in Controllers \ ioMap :
       (\A t \in Threads : subject[t] # c) => space[c] = NoSpace

\* What is lost is lost by a system call that failed inside Add: as long as
\* none fails, construction and destruction give back all they took.
LostByFailureOnly == failures = MaxFailures => lost = {}

\* The public area of c has a page that holds the address.
OnPublicPage(c, address) == PageOf(address) \in AreaPages(space[c].public)

\* The place of an address in c's register file.
Place(c, address) == address - First(c)

\* The lookup of a fault, for register files of any size.  The protection
\* covers whole pages, the comparison in FindController only the bytes of the
\* structure: an address in the structure of a registered controller gives
\* that controller and the place in it; an address on the rest of its last
\* page faults as well and is nobody's, whichever controllers lie behind it;
\* so is an address on no page of a registered controller.
FaultFindsOwner ==
  [][\A t \in Threads : pc[t] = "find" /\ pc'[t] = "found" =>
       /\ \A c \in ioMap : OnPublicPage(c, fault[t]) =>
            answer'[t] = IF Place(c, fault[t]) < SizeOf[c]
                         THEN [controller |-> c,
                               offset |-> Place(c, fault[t])]
                         ELSE NotFound
       /\ (\A c \in ioMap : ~ OnPublicPage(c, fault[t]))
            => answer'[t] = NotFound]_vars

=============================================================================
