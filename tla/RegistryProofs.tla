--------------------------- MODULE RegistryProofs ---------------------------
(***************************************************************************)
(* Theorems about Registry, for any threads, controllers, sizes, page size *)
(* and number of failures.                                                 *)
(***************************************************************************)
EXTENDS Registry, TLAPS

(***************************************************************************)
(* The strengthening, in three layers.  Guarded is what MapGuarded and     *)
(* HandlersBeforeControllers need: whoever is past InitPlatform has seen   *)
(* the handlers registered, by itself or by the thread that set the flag.  *)
(***************************************************************************)
PastInit == {"setFlag", "lockAdd", "file", "private", "public", "insert"}

Registered ==
  /\ initialized => filter = "ExMM"
  /\ \A t \in Threads : pc[t] \in PastInit => filter = "ExMM"

Typing ==
  /\ pc \in [Threads -> Labels]
  /\ ioMapMutex \in Threads \cup {NoThread}

Guarded == Typing /\ MapGuarded /\ Registered /\ HandlersBeforeControllers

LEMMA GuardedInit == Init => Guarded
BY ConstantsAssumption
   DEF Init, Guarded, Typing, Labels, MapGuarded, Critical, Registered,
       PastInit, HandlersBeforeControllers

\* A step outside of the mutex.
LEMMA GuardedOutside ==
  ASSUME Guarded, NEW t \in Threads,
         NEW label \in Labels \ Critical, pc[t] \notin Critical,
         Goto(t, label), UNCHANGED <<ioMapMutex, ioMap>>,
         filter = "ExMM" => filter' = "ExMM",
         initialized' => filter' = "ExMM",
         label \in PastInit => filter' = "ExMM"
  PROVE  Guarded'
<1>1. Typing' /\ MapGuarded'
  BY DEF Guarded, Typing, MapGuarded, Goto
<1>2. Registered' /\ HandlersBeforeControllers'
  BY DEF Guarded, Typing, Registered, HandlersBeforeControllers, Goto
<1>3. QED
  BY <1>1, <1>2 DEF Guarded

\* A step of the owner of the mutex that keeps it.
LEMMA GuardedInside ==
  ASSUME Guarded, NEW t \in Threads,
         NEW label \in Labels \cap Critical \cap PastInit,
         pc[t] \in Critical \cap PastInit,
         Goto(t, label), UNCHANGED <<platform, ioMapMutex, ioMap>>
  PROVE  Guarded'
<1>1. Typing' /\ MapGuarded'
  BY DEF Guarded, Typing, MapGuarded, Goto
<1>2. Registered' /\ HandlersBeforeControllers'
  BY DEF Guarded, Typing, Registered, HandlersBeforeControllers, Goto, platform
<1>3. QED
  BY <1>1, <1>2 DEF Guarded

\* A step of the owner of the mutex that gives it back.
LEMMA GuardedUnlock ==
  ASSUME Guarded, NEW t \in Threads, NEW label \in {"idle", "found"},
         pc[t] \in Critical, Goto(t, label), Unlock, UNCHANGED platform,
         ioMap' # {} => ioMap # {} \/ filter = "ExMM"
  PROVE  Guarded'
<1> USE ConstantsAssumption
<1>1. Typing' /\ MapGuarded'
  BY DEF Guarded, Typing, Labels, MapGuarded, Critical, Goto, Unlock
<1>2. Registered' /\ HandlersBeforeControllers'
  BY DEF Guarded, Typing, Registered, PastInit, HandlersBeforeControllers,
         Goto, platform
<1>3. QED
  BY <1>1, <1>2 DEF Guarded

LEMMA GuardedStep ==
  ASSUME Guarded, NEW t \in Threads,
         \/ Continue(t)
         \/ \E c \in Controllers : Construct(t, c) \/ Destruct(t, c)
         \/ \E address \in Addresses : LookUp(t, address)
  PROVE  Guarded'
<1> USE DEF Labels, Critical, PastInit
<1>1. CASE \E c \in Controllers : Construct(t, c)
  BY <1>1, GuardedOutside DEF Guarded, Registered, Construct, platform
<1>2. CASE \E c \in Controllers : Destruct(t, c)
  BY <1>2, GuardedOutside DEF Guarded, Registered, Destruct, platform
<1>3. CASE \E address \in Addresses : LookUp(t, address)
  BY <1>3, GuardedOutside DEF Guarded, Registered, LookUp, platform
<1>4. CASE TestFlag(t)
  <2>1. CASE initialized
    BY <1>4, <2>1, GuardedOutside DEF Guarded, Registered, TestFlag, platform
  <2>2. CASE ~initialized
    BY <1>4, <2>2, GuardedOutside DEF Guarded, Registered, TestFlag, platform
  <2>3. QED
    BY <2>1, <2>2
<1>5. CASE RegisterHandlers(t)
  BY <1>5, GuardedOutside DEF RegisterHandlers
<1>6. CASE SetFlag(t)
  BY <1>6, GuardedOutside DEF Guarded, Registered, SetFlag
<1>7. CASE Handle(t)
  BY <1>7, GuardedOutside DEF Guarded, Registered, Handle, platform
<1>8. CASE LockMap(t)
  <2>1. Typing' /\ MapGuarded'
    BY <1>8, ConstantsAssumption
       DEF LockMap, LockedLabel, Goto, Guarded, Typing, MapGuarded
  <2>2. Registered' /\ HandlersBeforeControllers'
    BY <1>8 DEF LockMap, LockedLabel, Goto, Guarded, Typing, Registered,
                HandlersBeforeControllers, platform
  <2>3. QED
    BY <2>1, <2>2 DEF Guarded
<1>9. CASE OpenFile(t)
  BY <1>9, GuardedInside DEF OpenFile
<1>10. CASE MapPrivate(t)
  BY <1>10, GuardedInside DEF MapPrivate
<1>11. CASE MapPublic(t)
  BY <1>11, GuardedInside DEF MapPublic
<1>12. CASE OpenFileFails(t) \/ MapFails(t)
  BY <1>12, GuardedUnlock DEF OpenFileFails, MapFails, Throw
<1>13. CASE Insert(t)
  BY <1>13, GuardedUnlock DEF Insert, Guarded, Registered
<1>14. CASE Remove(t)
  BY <1>14, GuardedUnlock DEF Remove
<1>15. CASE FindController(t)
  BY <1>15, GuardedUnlock DEF FindController
<1>16. QED
  BY <1>1, <1>2, <1>3, <1>4, <1>5, <1>6, <1>7, <1>8, <1>9, <1>10, <1>11,
     <1>12, <1>13, <1>14, <1>15 DEF Continue

LEMMA GuardedNext == Guarded /\ [Next]_vars => Guarded'
<1> SUFFICES ASSUME Guarded, [Next]_vars PROVE Guarded'
  OBVIOUS
<1>1. CASE Next
  BY <1>1, GuardedStep DEF Next
<1>2. CASE UNCHANGED vars
  BY <1>2 DEF vars, Guarded, Typing, MapGuarded, Registered,
              HandlersBeforeControllers
<1>3. QED
  BY <1>1, <1>2

LEMMA GuardedAlways == Spec => []Guarded
BY GuardedInit, GuardedNext, PTL DEF Spec

\* The map is touched by the owner of ioMapMutex only, and the mutex is free
\* whenever nobody is in Add, Remove or FindController, an exception included.
THEOREM MapIsGuarded == Spec => []MapGuarded
<1>1. Guarded => MapGuarded
  BY DEF Guarded
<1>2. QED
  BY <1>1, GuardedAlways, PTL

\* No controller is in the map before the handlers are registered, however
\* the unsynchronised calls of InitPlatform interleave.
THEOREM HandlersComeFirst == Spec => []HandlersBeforeControllers
<1>1. Guarded => HandlersBeforeControllers
  BY DEF Guarded
<1>2. QED
  BY <1>1, GuardedAlways, PTL

-----------------------------------------------------------------------------
(***************************************************************************)
(* What construction, destruction and failing system calls do to the       *)
(* memory of the controllers, for any number of threads and failures.      *)
(***************************************************************************)

(***************************************************************************)
(* Layer one: a controller is the subject of one thread at a time, and the *)
(* label of that thread tells on which side of the map it is.              *)
(***************************************************************************)
Adding   == {"testFlag", "register", "setFlag", "lockAdd", "file", "private",
             "public", "insert"}
Removing == {"lockRemove", "remove"}

SubjectOf(t) ==
  /\ pc[t] \in Adding => subject[t] \in Controllers \ ioMap
  /\ pc[t] \in Removing => subject[t] \in ioMap
  /\ pc[t] \notin Adding \cup Removing => subject[t] = NoController

Subjects ==
  /\ pc \in [Threads -> Labels]
  /\ subject \in [Threads -> Controllers \cup {NoController}]
  /\ ioMap \subseteq Controllers
  /\ \A t \in Threads : SubjectOf(t)
  /\ \A t, u \in Threads :
       t # u /\ subject[t] = subject[u] => subject[t] = NoController

LEMMA SubjectsInit == Init => Subjects
BY DEF Init, Subjects, SubjectOf, Labels, Adding, Removing

\* A step in the middle of an operation.
LEMMA SubjectsKept ==
  ASSUME Subjects, NEW t \in Threads, NEW label \in Labels, Goto(t, label),
         pc[t] \in Adding <=> label \in Adding,
         pc[t] \in Removing <=> label \in Removing,
         UNCHANGED <<subject, ioMap>>
  PROVE  Subjects'
BY DEF Subjects, SubjectOf, Goto

\* The start of an operation on c, which nobody else is at.
LEMMA SubjectsTaken ==
  ASSUME Subjects, NEW t \in Threads, NEW c \in Controllers,
         NEW label \in Labels, Goto(t, label), pc[t] = "idle",
         \A u \in Threads : subject[u] # c,
         subject' = [subject EXCEPT ![t] = c], UNCHANGED ioMap,
         \/ label \in Adding \ Removing /\ c \notin ioMap
         \/ label \in Removing \ Adding /\ c \in ioMap
  PROVE  Subjects'
<1>1. /\ pc' \in [Threads -> Labels]
      /\ subject' \in [Threads -> Controllers \cup {NoController}]
      /\ ioMap' \subseteq Controllers
  BY DEF Subjects, Goto
<1>2. \A u \in Threads : SubjectOf(u)'
  BY DEF Subjects, SubjectOf, Goto
<1>3. \A u, v \in Threads :
        u # v /\ subject'[u] = subject'[v] => subject'[u] = NoController
  BY DEF Subjects
<1>4. QED
  BY <1>1, <1>2, <1>3 DEF Subjects

\* The end of an operation, which may put its subject in the map or out.
LEMMA SubjectsReleased ==
  ASSUME Subjects, NEW t \in Threads, Goto(t, "idle"),
         pc[t] \in Adding \cup Removing,
         subject' = [subject EXCEPT ![t] = NoController],
         \/ UNCHANGED ioMap
         \/ ioMap' = ioMap \cup {subject[t]}
         \/ ioMap' = ioMap \ {subject[t]}
  PROVE  Subjects'
<1> USE ConstantsAssumption
<1>1. subject[t] \in Controllers
  BY DEF Subjects, SubjectOf, Adding, Removing
<1>2. /\ pc' \in [Threads -> Labels]
      /\ subject' \in [Threads -> Controllers \cup {NoController}]
      /\ ioMap' \subseteq Controllers
  BY <1>1 DEF Subjects, Goto, Labels
<1>3. \A u \in Threads : SubjectOf(u)'
  <2>1. SubjectOf(t)'
    BY DEF Subjects, SubjectOf, Goto, Adding, Removing
  <2>2. ASSUME NEW u \in Threads \ {t}
        PROVE  SubjectOf(u)'
    <3>1. subject'[u] = subject[u] /\ pc'[u] = pc[u] /\ SubjectOf(u)
      BY <2>2 DEF Subjects, Goto
    <3>2. subject[u] # subject[t]
      BY <1>1, <2>2 DEF Subjects
    <3>3. QED
      BY <3>1, <3>2 DEF SubjectOf
  <2>3. QED
    BY <2>1, <2>2
<1>4. \A u, v \in Threads :
        u # v /\ subject'[u] = subject'[v] => subject'[u] = NoController
  BY DEF Subjects
<1>5. QED
  BY <1>2, <1>3, <1>4 DEF Subjects

Step(t) ==
  \/ Continue(t)
  \/ \E c \in Controllers : Construct(t, c) \/ Destruct(t, c)
  \/ \E address \in Addresses : LookUp(t, address)

LEMMA SubjectsStep ==
  ASSUME Subjects, NEW t \in Threads, Step(t)
  PROVE  Subjects'
<1> USE DEF Labels, Adding, Removing
<1>1. CASE \E c \in Controllers : Construct(t, c)
  BY <1>1, SubjectsTaken DEF Construct
<1>2. CASE \E c \in Controllers : Destruct(t, c)
  BY <1>2, SubjectsTaken DEF Destruct
<1>3. CASE \E address \in Addresses : LookUp(t, address)
  BY <1>3, SubjectsKept DEF LookUp
<1>4. CASE TestFlag(t)
  BY <1>4, SubjectsKept DEF TestFlag
<1>5. CASE RegisterHandlers(t) \/ SetFlag(t)
  BY <1>5, SubjectsKept DEF RegisterHandlers, SetFlag
<1>6. CASE LockMap(t)
  BY <1>6, SubjectsKept DEF LockMap, LockedLabel
<1>7. CASE OpenFile(t) \/ MapPrivate(t) \/ MapPublic(t)
  BY <1>7, SubjectsKept DEF OpenFile, MapPrivate, MapPublic
<1>8. CASE FindController(t) \/ Handle(t)
  BY <1>8, SubjectsKept DEF FindController, Handle
<1>9. CASE OpenFileFails(t) \/ MapFails(t)
  BY <1>9, SubjectsReleased DEF OpenFileFails, MapFails, Throw
<1>10. CASE Insert(t) \/ Remove(t)
  BY <1>10, SubjectsReleased DEF Insert, Remove
<1>11. QED
  BY <1>1, <1>2, <1>3, <1>4, <1>5, <1>6, <1>7, <1>8, <1>9, <1>10
     DEF Step, Continue

LEMMA SubjectsNext == Subjects /\ [Next]_vars => Subjects'
<1> SUFFICES ASSUME Subjects, [Next]_vars PROVE Subjects'
  OBVIOUS
<1>1. CASE Next
  BY <1>1, SubjectsStep DEF Next, Step
<1>2. CASE UNCHANGED vars
  BY <1>2 DEF vars, Subjects, SubjectOf
<1>3. QED
  BY <1>1, <1>2

(***************************************************************************)
(* Layer two: types.                                                       *)
(***************************************************************************)
LEMMA PagesForNat ==
  ASSUME NEW size \in Nat
  PROVE  PagesFor(size) \in Nat
BY ConstantsAssumption DEF PagesFor

LEMMA FreeAreasAreAreas ==
  ASSUME NEW size \in Nat
  PROVE  FreeAreas(size) \subseteq Areas
BY ConstantsAssumption, PagesForNat DEF FreeAreas, Areas

LEMMA NoSpaceType ==
  /\ NoSpace \in Spaces
  /\ [NoSpace EXCEPT !.file = "named"] \in Spaces
BY ConstantsAssumption DEF NoSpace, NoArea, Spaces, Areas

LEMMA FoundType ==
  ASSUME TypeOK, NEW t \in Threads, NEW found \in FoundFor(fault[t])
  PROVE  found \in [controller : Controllers \cup {NoController}, offset : Nat]
<1>1. CASE found = NotFound
  BY <1>1 DEF NotFound
<1>2. ASSUME NEW c \in ioMap, Covers(c, fault[t]),
             found = [controller |-> c, offset |-> fault[t] - First(c)]
      PROVE  found \in [controller : Controllers \cup {NoController},
                        offset : Nat]
  <2>1. space[c].public.first \in Nat
    BY <1>2 DEF TypeOK, Spaces, Areas
  <2>2. First(c) \in Nat
    BY <2>1, ConstantsAssumption DEF First
  <2>3. fault[t] \in Nat /\ First(c) <= fault[t]
    BY <1>2 DEF TypeOK, Covers
  <2>4. fault[t] - First(c) \in Nat
    BY <2>2, <2>3
  <2>5. QED
    BY <1>2, <2>4 DEF TypeOK
<1>3. QED
  BY <1>1, <1>2 DEF FoundFor

LEMMA TypeInit == Init => TypeOK
<1> SUFFICES ASSUME Init PROVE TypeOK
  OBVIOUS
<1>1. /\ space \in [Controllers -> Spaces]
      /\ lost \in SUBSET Spaces
  BY NoSpaceType DEF Init
<1>2. failures \in 0 .. MaxFailures
  BY ConstantsAssumption DEF Init
<1>3. answer \in [Threads -> [controller : Controllers \cup {NoController},
                             offset : Nat]]
  BY DEF Init, NotFound
<1>4. /\ pc \in [Threads -> Labels]
      /\ subject \in [Threads -> Controllers \cup {NoController}]
      /\ fault \in [Threads -> Nat]
  BY DEF Init, Labels
<1>5. QED
  BY <1>1, <1>2, <1>3, <1>4 DEF Init, TypeOK

LEMMA TypeStep ==
  ASSUME TypeOK, Subjects, NEW t \in Threads, Step(t)
  PROVE  TypeOK'
<1> USE DEF TypeOK, Goto
<1>1. CASE \E c \in Controllers : Construct(t, c) \/ Destruct(t, c)
  BY <1>1 DEF Construct, Destruct, platform, memory, lookup, Labels
<1>2. CASE \E address \in Addresses : LookUp(t, address)
  <2>1. Addresses \subseteq Nat
    BY DEF Addresses
  <2>2. QED
    BY <1>2, <2>1 DEF LookUp, platform, memory, Labels
<1>3. CASE TestFlag(t) \/ RegisterHandlers(t) \/ SetFlag(t)
  BY <1>3 DEF TestFlag, RegisterHandlers, SetFlag, platform, memory, lookup,
              Labels
<1>4. CASE LockMap(t)
  BY <1>4 DEF LockMap, LockedLabel, platform, memory, lookup, Labels
<1>5. CASE Handle(t)
  BY <1>5 DEF Handle, NotFound, platform, memory, Labels
<1>6. CASE FindController(t)
  <2>1. answer' \in [Threads -> [controller : Controllers \cup {NoController},
                                 offset : Nat]]
    BY <1>6, FoundType DEF FindController
  <2>2. QED
    BY <1>6, <2>1 DEF FindController, Unlock, platform, memory, Labels
<1>7. CASE OpenFile(t) \/ MapPrivate(t) \/ MapPublic(t)
  <2>1. subject[t] \in Controllers
    BY <1>7 DEF OpenFile, MapPrivate, MapPublic, Subjects, SubjectOf, Adding
  <2>2. SizeOf[subject[t]] \in Nat
    BY <2>1, ConstantsAssumption
  <2>3. space[subject[t]] \in Spaces
    BY <2>1
  <2> DEFINE old == space[subject[t]]
  <2>4. PICK new \in Spaces : space' = [space EXCEPT ![subject[t]] = new]
    <3>1. CASE OpenFile(t)
      <4>1. space' = [space EXCEPT ![subject[t]] =
                        [old EXCEPT !.file = "unlinked"]]
        BY <3>1 DEF OpenFile
      <4>2. [old EXCEPT !.file = "unlinked"] \in Spaces
        BY <2>3 DEF Spaces
      <4>3. QED
        BY <4>1, <4>2
    <3>2. CASE MapPrivate(t)
      <4>1. PICK a \in FreeAreas(SizeOf[subject[t]]) :
              space' = [space EXCEPT ![subject[t]] =
                          [old EXCEPT !.private = a]]
        BY <3>2 DEF MapPrivate
      <4>2. a \in Areas
        BY <2>2, FreeAreasAreAreas
      <4>3. [old EXCEPT !.private = a] \in Spaces
        BY <2>3, <4>2 DEF Spaces
      <4>4. QED
        BY <4>1, <4>3
    <3>3. CASE MapPublic(t)
      <4>1. PICK a \in FreeAreas(SizeOf[subject[t]]) :
              space' = [space EXCEPT ![subject[t]] =
                          [old EXCEPT !.public = a]]
        BY <3>3 DEF MapPublic
      <4>2. a \in Areas
        BY <2>2, FreeAreasAreAreas
      <4>3. [old EXCEPT !.public = a] \in Spaces
        BY <2>3, <4>2 DEF Spaces
      <4>4. QED
        BY <4>1, <4>3
    <3>4. QED
      BY <1>7, <3>1, <3>2, <3>3
  <2>5. space' \in [Controllers -> Spaces]
    BY <2>1, <2>4
  <2>6. QED
    BY <1>7, <2>5 DEF OpenFile, MapPrivate, MapPublic, platform, lookup, Labels
<1>8. CASE OpenFileFails(t) \/ MapFails(t)
  <2>1. subject[t] \in Controllers
    BY <1>8 DEF OpenFileFails, MapFails, Subjects, SubjectOf, Adding
  <2>2. space' \in [Controllers -> Spaces] /\ lost' \in SUBSET Spaces
    <3>1. CASE Throw(t)
      BY <2>1, <3>1, NoSpaceType DEF Throw
    <3>2. CASE /\ space' = space
               /\ lost' = lost \cup {[NoSpace EXCEPT !.file = "named"]}
      BY <3>2, NoSpaceType
    <3>3. QED
      BY <1>8, <3>1, <3>2 DEF OpenFileFails, MapFails
  <2>3. failures' \in 0 .. MaxFailures
    <3>1. failures > 0 /\ failures' = failures - 1
      BY <1>8 DEF OpenFileFails, MapFails, Throw
    <3>2. failures \in 0 .. MaxFailures /\ MaxFailures \in Nat
      BY ConstantsAssumption
    <3>3. QED
      BY <3>1, <3>2
  <2>4. QED
    BY <1>8, <2>2, <2>3
       DEF OpenFileFails, MapFails, Throw, Unlock, platform, lookup, Labels
<1>9. CASE Insert(t) \/ Remove(t)
  <2>1. subject[t] \in Controllers
    BY <1>9 DEF Insert, Remove, Subjects, SubjectOf, Adding, Removing
  <2>2. space' \in [Controllers -> Spaces]
    BY <1>9, NoSpaceType DEF Insert, Remove, memory
  <2>3. QED
    BY <1>9, <2>1, <2>2
       DEF Insert, Remove, Unlock, platform, memory, lookup, Labels
<1>10. QED
  BY <1>1, <1>2, <1>3, <1>4, <1>5, <1>6, <1>7, <1>8, <1>9 DEF Step, Continue

TypeInv == TypeOK /\ Subjects

LEMMA TypeInvAlways == Spec => []TypeInv
<1>1. Init => TypeInv
  BY TypeInit, SubjectsInit DEF TypeInv
<1>2. TypeInv /\ [Next]_vars => TypeInv'
  <2> SUFFICES ASSUME TypeInv, [Next]_vars PROVE TypeInv'
    OBVIOUS
  <2>1. CASE Next
    BY <2>1, TypeStep, SubjectsStep DEF Next, Step, TypeInv
  <2>2. CASE UNCHANGED vars
    BY <2>2, SubjectsNext DEF vars, TypeInv, TypeOK
  <2>3. QED
    BY <2>1, <2>2
<1>3. QED
  BY <1>1, <1>2, PTL DEF Spec

\* Every variable of the registry keeps its type.
THEOREM TypeCorrect == Spec => []TypeOK
<1>1. TypeInv => TypeOK
  BY DEF TypeInv
<1>2. QED
  BY <1>1, TypeInvAlways, PTL

(***************************************************************************)
(* Layer three: what each controller owns.  While a controller is being    *)
(* constructed the label of its thread tells how far its IoSpace is, and   *)
(* no page has two owners, the lost IoSpaces included.                     *)
(***************************************************************************)
Complete(c) ==
  /\ space[c].file = "unlinked"
  /\ space[c].private.n = PagesFor(SizeOf[c])
  /\ space[c].public.n = PagesFor(SizeOf[c])
  /\ space[c].public.first + space[c].public.n <= PageCount
  /\ AreaPages(space[c].private) \cap AreaPages(space[c].public) = {}

Stage(t) ==
  LET s == space[subject[t]] IN
  /\ pc[t] \in {"testFlag", "register", "setFlag", "lockAdd", "file"}
       => s = NoSpace
  /\ pc[t] = "private" =>
       s.file = "unlinked" /\ s.private = NoArea /\ s.public = NoArea
  /\ pc[t] = "public" =>
       /\ s.file = "unlinked"
       /\ s.private.n = PagesFor(SizeOf[subject[t]])
       /\ s.public = NoArea
  /\ pc[t] = "insert" => Complete(subject[t])

Apart ==
  /\ \A c, d \in Controllers :
       c # d => Holds(space[c]) \cap Holds(space[d]) = {}
  /\ \A c \in Controllers, s \in lost : Holds(space[c]) \cap Holds(s) = {}

Unused(c) == c \notin ioMap /\ \A t \in Threads : subject[t] # c

Owned ==
  /\ \A t \in Threads : Stage(t)
  /\ \A c \in ioMap : Complete(c)
  /\ \A c \in Controllers : Unused(c) => space[c] = NoSpace
  /\ Apart

LEMMA NothingHeld == AreaPages(NoArea) = {} /\ Holds(NoSpace) = {}
<1>1. AreaPages(NoArea) = {}
  BY ConstantsAssumption DEF AreaPages, NoArea
<1>2. QED
  BY <1>1 DEF Holds, NoSpace

LEMMA OwnedInit == Init => Owned
BY NothingHeld DEF Init, Owned, Stage, Apart

\* A step that leaves the IoSpaces and the map alone.
LEMMA OwnedKept ==
  ASSUME TypeInv, Owned, NEW t \in Threads, NEW label, Goto(t, label),
         UNCHANGED <<ioMap, space, lost>>,
         \A u \in Threads : u # t => subject'[u] = subject[u],
         \A c \in Controllers : Unused(c)' => Unused(c),
         Stage(t)'
  PROVE  Owned'
<1>1. ASSUME NEW u \in Threads PROVE Stage(u)'
  <2>1. CASE u = t
    BY <2>1
  <2>2. CASE u # t
    BY <2>2 DEF TypeInv, TypeOK, Owned, Stage, Complete, Goto
  <2>3. QED
    BY <2>1, <2>2
<1>2. \A c \in ioMap' : Complete(c)'
  BY DEF Owned, Complete
<1>3. Apart'
  BY DEF Owned, Apart
<1>4. QED
  BY <1>1, <1>2, <1>3 DEF Owned

\* A step of the thread whose subject is c that changes the IoSpace of c.
LEMMA OwnedChanged ==
  ASSUME TypeInv, Owned, NEW t \in Threads, NEW c \in Controllers,
         NEW label, Goto(t, label), subject[t] = c,
         \A d \in Controllers : d # c => space'[d] = space[d],
         \A u \in Threads : u # t => subject'[u] = subject[u],
         subject'[t] \in {c, NoController},
         \A d \in Controllers : d # c => (d \in ioMap' <=> d \in ioMap),
         ioMap' \subseteq Controllers,
         Stage(t)', c \in ioMap' => Complete(c)',
         Unused(c)' => space'[c] = NoSpace,
         Apart'
  PROVE  Owned'
<1> USE ConstantsAssumption
<1>1. ASSUME NEW u \in Threads PROVE Stage(u)'
  <2>1. CASE u = t
    BY <2>1
  <2>2. CASE u # t
    <3>1. pc'[u] = pc[u] /\ subject'[u] = subject[u] /\ subject[u] # c
      BY <2>2 DEF TypeInv, TypeOK, Subjects, Goto
    <3>2. CASE subject[u] \in Controllers
      BY <3>1, <3>2 DEF Owned, Stage, Complete
    <3>3. CASE subject[u] = NoController
      BY <3>1, <3>3 DEF TypeInv, Subjects, SubjectOf, Adding, Stage
    <3>4. QED
      BY <3>2, <3>3 DEF TypeInv, TypeOK
  <2>3. QED
    BY <2>1, <2>2
<1>2. \A d \in ioMap' : Complete(d)'
  BY DEF Owned, Complete
<1>3. \A d \in Controllers : Unused(d)' => space'[d] = NoSpace
  BY DEF Owned, Unused
<1>4. QED
  BY <1>1, <1>2, <1>3 DEF Owned

\* mmap gives c pages that nobody has.
LEMMA ApartAfterMap ==
  ASSUME Apart, NEW c \in Controllers, NEW area,
         AreaPages(area) \cap TakenPages = {},
         \A d \in Controllers : d # c => space'[d] = space[d],
         Holds(space'[c]) \subseteq Holds(space[c]) \cup AreaPages(area),
         UNCHANGED lost
  PROVE  Apart'
<1>1. \A d \in Controllers : AreaPages(area) \cap Holds(space[d]) = {}
  BY DEF TakenPages
<1>2. \A s \in lost : AreaPages(area) \cap Holds(s) = {}
  BY DEF TakenPages
<1>3. \A d \in Controllers : d # c => Holds(space'[c]) \cap Holds(space'[d]) = {}
  BY <1>1 DEF Apart
<1>4. \A s \in lost : Holds(space'[c]) \cap Holds(s) = {}
  BY <1>2 DEF Apart
<1>5. \A d, e \in Controllers :
        d # e => Holds(space'[d]) \cap Holds(space'[e]) = {}
  BY <1>3 DEF Apart
<1>6. QED
  BY <1>4, <1>5 DEF Apart

\* c gives up what it has; it may become lost.
LEMMA ApartAfterDrop ==
  ASSUME Apart, NEW c \in Controllers,
         \A d \in Controllers : d # c => space'[d] = space[d],
         space'[c] = NoSpace,
         lost' \subseteq lost \cup {space[c]}
  PROVE  Apart'
<1>1. Holds(space'[c]) = {}
  BY NothingHeld
<1>2. QED
  BY <1>1 DEF Apart

LEMMA OwnedStep ==
  ASSUME TypeInv, Owned, NEW t \in Threads, Step(t)
  PROVE  Owned'
<1> USE ConstantsAssumption
<1>1. CASE \E c \in Controllers : Construct(t, c)
  <2>1. PICK c \in Controllers : Construct(t, c)
    BY <1>1
  <2>2. space[c] = NoSpace
    BY <2>1 DEF Construct, Owned, Unused
  <2>3. /\ pc'[t] = "testFlag" /\ subject'[t] = c
        /\ \A u \in Threads : u # t => subject'[u] = subject[u]
        /\ UNCHANGED <<ioMap, space, lost>>
    BY <2>1 DEF Construct, Goto, memory, TypeInv, TypeOK
  <2>4. Stage(t)'
    BY <2>2, <2>3 DEF Stage
  <2>5. \A d \in Controllers : Unused(d)' => Unused(d)
    BY <2>1, <2>3 DEF Construct, Unused, TypeInv, Subjects, SubjectOf, Adding,
                      Removing
  <2>6. QED
    BY <2>1, <2>3, <2>4, <2>5, OwnedKept DEF Construct
<1>2. CASE \E c \in Controllers : Destruct(t, c)
  <2>1. PICK c \in Controllers : Destruct(t, c)
    BY <1>2
  <2>2. /\ pc'[t] = "lockRemove" /\ subject'[t] = c
        /\ \A u \in Threads : u # t => subject'[u] = subject[u]
        /\ UNCHANGED <<ioMap, space, lost>>
    BY <2>1 DEF Destruct, Goto, memory, TypeInv, TypeOK
  <2>3. Stage(t)'
    BY <2>2 DEF Stage
  <2>4. \A d \in Controllers : Unused(d)' => Unused(d)
    BY <2>1, <2>2 DEF Destruct, Unused, TypeInv, Subjects, SubjectOf, Adding,
                      Removing
  <2>5. QED
    BY <2>1, <2>2, <2>3, <2>4, OwnedKept DEF Destruct
<1>3. CASE \/ \E address \in Addresses : LookUp(t, address)
           \/ TestFlag(t) \/ RegisterHandlers(t) \/ SetFlag(t)
           \/ LockMap(t) \/ FindController(t) \/ Handle(t)
  <2>1. UNCHANGED <<ioMap, space, lost, subject>>
    BY <1>3 DEF LookUp, TestFlag, RegisterHandlers, SetFlag, LockMap,
                FindController, Handle, memory
  <2>2. PICK label : Goto(t, label)
    BY <1>3 DEF LookUp, TestFlag, RegisterHandlers, SetFlag, LockMap,
                FindController, Handle
  <2>3. \/ pc'[t] \in {"lockFind", "found", "idle", "remove", "find"}
        \/ /\ pc'[t] \in {"register", "setFlag", "lockAdd", "file"}
           /\ pc[t] \in {"testFlag", "register", "setFlag", "lockAdd"}
    BY <1>3 DEF LookUp, TestFlag, RegisterHandlers, SetFlag, LockMap,
                LockedLabel, FindController, Handle, Goto, TypeInv, TypeOK
  <2>4. Stage(t)'
    BY <2>1, <2>3 DEF Owned, Stage
  <2>5. \A d \in Controllers : Unused(d)' => Unused(d)
    BY <2>1 DEF Unused
  <2>6. QED
    BY <2>1, <2>2, <2>4, <2>5, OwnedKept
<1>4. CASE OpenFile(t)
  <2> DEFINE c == subject[t]
  <2>1. c \in Controllers /\ c \notin ioMap /\ space[c] = NoSpace
    BY <1>4 DEF OpenFile, TypeInv, Subjects, SubjectOf, Adding, Owned, Stage
  <2>2. /\ \A d \in Controllers : d # c => space'[d] = space[d]
        /\ space'[c].file = "unlinked"
        /\ space'[c].private = NoArea
        /\ space'[c].public = NoArea
    BY <1>4, <2>1 DEF OpenFile, TypeInv, TypeOK, Spaces, NoSpace
  <2>3. pc'[t] = "private" /\ UNCHANGED <<ioMap, lost, subject>>
    BY <1>4 DEF OpenFile, Goto, TypeInv, TypeOK
  <2>4. Stage(t)'
    BY <2>2, <2>3 DEF Stage
  <2>5. Holds(space'[c]) = {}
    BY <2>2, NothingHeld DEF Holds
  <2>6. Apart'
    BY <2>1, <2>2, <2>3, <2>5 DEF Owned, Apart
  <2> HIDE DEF c
  <2>7. QED
    BY <1>4, <2>1, <2>2, <2>3, <2>4, <2>6, OwnedChanged
       DEF c, OpenFile, Unused, TypeInv, TypeOK
<1>5. CASE MapPrivate(t)
  <2> DEFINE c == subject[t]
  <2>1. /\ c \in Controllers /\ c \notin ioMap
        /\ space[c].file = "unlinked" /\ space[c].public = NoArea
    BY <1>5 DEF MapPrivate, TypeInv, Subjects, SubjectOf, Adding, Owned, Stage
  <2>2. PICK a \in FreeAreas(SizeOf[c]) :
          space' = [space EXCEPT ![c].private = a]
    BY <1>5 DEF MapPrivate
  <2>3. /\ \A d \in Controllers : d # c => space'[d] = space[d]
        /\ space'[c].file = "unlinked"
        /\ space'[c].private = a
        /\ space'[c].public = NoArea
    BY <2>1, <2>2 DEF TypeInv, TypeOK, Spaces
  <2>4. a.n = PagesFor(SizeOf[c]) /\ AreaPages(a) \cap TakenPages = {}
    BY <2>2 DEF FreeAreas
  <2>5. pc'[t] = "public" /\ UNCHANGED <<ioMap, lost, subject>>
    BY <1>5 DEF MapPrivate, Goto, TypeInv, TypeOK
  <2>6. Stage(t)'
    BY <2>3, <2>4, <2>5 DEF Stage
  <2>7. Holds(space'[c]) = AreaPages(a)
    BY <2>3, NothingHeld DEF Holds
  <2>8. Apart'
    BY <2>1, <2>3, <2>4, <2>5, <2>7, ApartAfterMap DEF Owned
  <2>9. QED
    BY <1>5, <2>1, <2>3, <2>5, <2>6, <2>8, OwnedChanged
       DEF MapPrivate, Unused, TypeInv, TypeOK
<1>6. CASE MapPublic(t)
  <2> DEFINE c == subject[t]
  <2>1. /\ c \in Controllers /\ c \notin ioMap
        /\ space[c].file = "unlinked"
        /\ space[c].private.n = PagesFor(SizeOf[c])
    BY <1>6 DEF MapPublic, TypeInv, Subjects, SubjectOf, Adding, Owned, Stage
  <2>2. PICK a \in FreeAreas(SizeOf[c]) :
          space' = [space EXCEPT ![c].public = a]
    BY <1>6 DEF MapPublic
  <2>3. /\ \A d \in Controllers : d # c => space'[d] = space[d]
        /\ space'[c].file = "unlinked"
        /\ space'[c].private = space[c].private
        /\ space'[c].public = a
    BY <2>1, <2>2 DEF TypeInv, TypeOK, Spaces
  <2>4. /\ a.n = PagesFor(SizeOf[c]) /\ a.first + a.n <= PageCount
        /\ AreaPages(a) \cap TakenPages = {}
    BY <2>2 DEF FreeAreas
  <2>5. pc'[t] = "insert" /\ UNCHANGED <<ioMap, lost, subject>>
    BY <1>6 DEF MapPublic, Goto, TypeInv, TypeOK
  <2>6. AreaPages(space[c].private) \cap AreaPages(a) = {}
    BY <2>1, <2>4 DEF TakenPages, Holds
  <2>7. Stage(t)'
    BY <2>1, <2>3, <2>4, <2>5, <2>6 DEF Stage, Complete
  <2>8. Holds(space'[c]) \subseteq Holds(space[c]) \cup AreaPages(a)
    BY <2>3 DEF Holds
  <2>9. Apart'
    BY <2>1, <2>3, <2>4, <2>5, <2>8, ApartAfterMap DEF Owned
  <2>10. QED
    BY <1>6, <2>1, <2>3, <2>5, <2>7, <2>9, OwnedChanged
       DEF MapPublic, Unused, TypeInv, TypeOK
<1>7. CASE OpenFileFails(t) \/ MapFails(t)
  <2> DEFINE c == subject[t]
  <2>1. c \in Controllers /\ c \notin ioMap
    BY <1>7 DEF OpenFileFails, MapFails, TypeInv, Subjects, SubjectOf, Adding
  <2>2. /\ Goto(t, "idle") /\ UNCHANGED ioMap
        /\ subject' = [subject EXCEPT ![t] = NoController]
    BY <1>7 DEF OpenFileFails, MapFails, Throw
  <2>3. /\ pc'[t] = "idle" /\ subject'[t] = NoController
        /\ \A u \in Threads : u # t => subject'[u] = subject[u]
    BY <2>2 DEF Goto, TypeInv, TypeOK
  <2>4. /\ \A d \in Controllers : d # c => space'[d] = space[d]
        /\ space'[c] = NoSpace
        /\ Apart'
    <3>1. CASE Throw(t)
      <4>1. /\ \A d \in Controllers : d # c => space'[d] = space[d]
            /\ space'[c] = NoSpace
            /\ lost' \subseteq lost \cup {space[c]}
        BY <2>1, <3>1 DEF Throw, TypeInv, TypeOK
      <4>2. QED
        BY <2>1, <4>1, ApartAfterDrop DEF Owned
    <3>2. CASE /\ pc[t] = "file" /\ space' = space
               /\ lost' = lost \cup {[NoSpace EXCEPT !.file = "named"]}
      <4>1. space[c] = NoSpace
        BY <3>2 DEF Owned, Stage
      <4>2. Holds([NoSpace EXCEPT !.file = "named"]) = {}
        BY NothingHeld DEF Holds, NoSpace
      <4>3. Apart'
        BY <3>2, <4>2 DEF Owned, Apart
      <4>4. QED
        BY <3>2, <4>1, <4>3
    <3>3. QED
      BY <1>7, <3>1, <3>2 DEF OpenFileFails, MapFails
  <2>5. Stage(t)'
    BY <2>3 DEF Stage
  <2>6. QED
    BY <2>1, <2>2, <2>3, <2>4, <2>5, OwnedChanged DEF TypeInv, TypeOK
<1>8. CASE Insert(t)
  <2>1. PICK c \in Controllers : c = subject[t] /\ Complete(c)
    BY <1>8 DEF Insert, TypeInv, Subjects, SubjectOf, Adding, Owned, Stage
  <2>2. /\ Goto(t, "idle") /\ UNCHANGED <<space, lost>>
        /\ ioMap' = ioMap \cup {c}
        /\ subject' = [subject EXCEPT ![t] = NoController]
    BY <1>8, <2>1 DEF Insert, memory
  <2>3. /\ pc'[t] = "idle" /\ subject'[t] = NoController
        /\ \A u \in Threads : u # t => subject'[u] = subject[u]
    BY <2>2 DEF Goto, TypeInv, TypeOK
  <2>4. Stage(t)' /\ Complete(c)' /\ Apart'
    BY <2>1, <2>2, <2>3 DEF Stage, Complete, Owned, Apart
  <2>5. ~Unused(c)' /\ ioMap' \subseteq Controllers
    BY <2>1, <2>2 DEF Unused, TypeInv, TypeOK
  <2>6. QED
    BY <2>1, <2>2, <2>3, <2>4, <2>5, OwnedChanged
<1>9. CASE Remove(t)
  <2>1. PICK c \in Controllers : c = subject[t]
    BY <1>9 DEF Remove, TypeInv, Subjects, SubjectOf, Removing
  <2>2. /\ Goto(t, "idle") /\ UNCHANGED lost
        /\ ioMap' = ioMap \ {c}
        /\ space' = [space EXCEPT ![c] = NoSpace]
        /\ subject' = [subject EXCEPT ![t] = NoController]
    BY <1>9, <2>1 DEF Remove
  <2>3. /\ pc'[t] = "idle" /\ subject'[t] = NoController
        /\ \A u \in Threads : u # t => subject'[u] = subject[u]
        /\ space'[c] = NoSpace
        /\ \A d \in Controllers : d # c => space'[d] = space[d]
    BY <2>1, <2>2 DEF Goto, TypeInv, TypeOK
  <2>4. Stage(t)'
    BY <2>3 DEF Stage
  <2>5. Apart'
    BY <2>1, <2>2, <2>3, ApartAfterDrop DEF Owned
  <2>6. /\ ioMap' \subseteq Controllers /\ c \notin ioMap'
        /\ \A d \in Controllers : d # c => (d \in ioMap' <=> d \in ioMap)
    BY <2>2 DEF TypeInv, TypeOK
  <2>7. Goto(t, "idle")
    BY <2>2
  <2>8. QED
    BY <2>1, <2>3, <2>4, <2>5, <2>6, <2>7, OwnedChanged
<1>10. QED
  BY <1>1, <1>2, <1>3, <1>4, <1>5, <1>6, <1>7, <1>8, <1>9 DEF Step, Continue

SpaceInv == TypeInv /\ Owned

LEMMA SpaceInvAlways == Spec => []SpaceInv
<1>1. Init => Owned
  BY OwnedInit
<1>2. TypeInv /\ Owned /\ [Next]_vars => Owned'
  <2> SUFFICES ASSUME TypeInv, Owned, [Next]_vars PROVE Owned'
    OBVIOUS
  <2>1. CASE Next
    BY <2>1, OwnedStep DEF Next, Step
  <2>2. CASE UNCHANGED vars
    BY <2>2 DEF vars, Owned, Stage, Complete, Unused, Apart
  <2>3. QED
    BY <2>1, <2>2
<1>3. QED
  BY <1>1, <1>2, TypeInvAlways, PTL DEF Spec, SpaceInv

\* A registered controller owns its file and two disjoint areas on pages
\* nobody else has, and a controller that is neither registered nor on its
\* way in or out owns nothing, however often system calls fail.
THEOREM SpacesFollow == Spec => []SpacesFollowControllers
<1>1. SpaceInv => SpacesFollowControllers
  <2> SUFFICES ASSUME SpaceInv PROVE SpacesFollowControllers
    OBVIOUS
  <2>1. ioMap \subseteq Controllers
    BY DEF SpaceInv, TypeInv, TypeOK
  <2>2. QED
    BY <2>1 DEF SpaceInv, Owned, Complete, Unused, Apart,
                SpacesFollowControllers
<1>2. QED
  BY <1>1, SpaceInvAlways, PTL

LEMMA LostStep ==
  ASSUME TypeInv, LostByFailureOnly, NEW t \in Threads, Step(t)
  PROVE  LostByFailureOnly'
<1> USE ConstantsAssumption
<1>1. CASE failures > 0 /\ failures' = failures - 1
  <2>1. failures \in 0 .. MaxFailures
    BY DEF TypeInv, TypeOK
  <2>2. failures' # MaxFailures
    BY <1>1, <2>1
  <2>3. QED
    BY <2>2 DEF LostByFailureOnly
<1>2. CASE UNCHANGED <<failures, lost>>
  BY <1>2 DEF LostByFailureOnly
<1>3. QED
  BY <1>1, <1>2
     DEF Step, Continue, Construct, Destruct, LookUp, TestFlag,
         RegisterHandlers, SetFlag, LockMap, OpenFile, OpenFileFails,
         MapPrivate, MapPublic, MapFails, Throw, Insert, Remove,
         FindController, Handle, memory

\* As long as no system call has failed, nothing is lost.
THEOREM NothingLostBefore == Spec => []LostByFailureOnly
<1>1. Init => LostByFailureOnly
  BY DEF Init, LostByFailureOnly
<1>2. TypeInv /\ LostByFailureOnly /\ [Next]_vars => LostByFailureOnly'
  <2> SUFFICES ASSUME TypeInv, LostByFailureOnly, [Next]_vars
               PROVE  LostByFailureOnly'
    OBVIOUS
  <2>1. CASE Next
    BY <2>1, LostStep DEF Next, Step
  <2>2. CASE UNCHANGED vars
    BY <2>2 DEF vars, LostByFailureOnly
  <2>3. QED
    BY <2>1, <2>2
<1>3. QED
  BY <1>1, <1>2, TypeInvAlways, PTL DEF Spec

-----------------------------------------------------------------------------
(***************************************************************************)
(* The lookup of a fault finds the owner of the address, for register      *)
(* files of any size.                                                      *)
(***************************************************************************)

(***************************************************************************)
(* Bytes and pages.                                                        *)
(***************************************************************************)
LEMMA TimesMonotone ==
  ASSUME NEW x \in Nat, NEW y \in Nat, NEW k \in Nat, x <= y
  PROVE  x * k <= y * k
<1>1. PICK d \in Nat : y = x + d
  <2>1. y - x \in Nat /\ y = x + (y - x)
    OBVIOUS
  <2>2. QED
    BY <2>1
<1>2. y * k = x * k + d * k
  BY <1>1
<1>3. d * k \in Nat
  OBVIOUS
<1>4. QED
  BY <1>2, <1>3

LEMMA Division ==
  ASSUME NEW a \in Nat, NEW k \in Nat \ {0}
  PROVE  /\ a \div k \in Nat
         /\ (a \div k) * k <= a
         /\ a < (a \div k + 1) * k
OBVIOUS

\* An address is on one of n pages from page f if it is in their bytes.
LEMMA BytesOfPages ==
  ASSUME NEW a \in Nat, NEW f \in Nat, NEW n \in Nat, NEW k \in Nat \ {0}
  PROVE  /\ f <= a \div k
         /\ a \div k < f + n
         <=> f * k <= a /\ a < f * k + n * k
<1> DEFINE q == a \div k
<1>1. q \in Nat /\ q * k <= a /\ a < (q + 1) * k
  BY Division
<1> HIDE DEF q
<1>2. f <= q => f * k <= q * k
  BY <1>1, TimesMonotone
<1>3. q + 1 <= f => (q + 1) * k <= f * k
  BY <1>1, TimesMonotone
<1>4. q + 1 <= f + n => (q + 1) * k <= (f + n) * k
  BY <1>1, TimesMonotone
<1>5. f + n <= q => (f + n) * k <= q * k
  BY <1>1, TimesMonotone
<1>6. (f + n) * k = f * k + n * k
  OBVIOUS
<1>7. f * k \in Nat /\ n * k \in Nat /\ q * k \in Nat /\ (q + 1) * k \in Nat
  BY <1>1
<1>8. QED
  BY <1>1, <1>2, <1>3, <1>4, <1>5, <1>6, <1>7 DEF q

\* The pages of a register file hold all of it.
LEMMA PagesSuffice ==
  ASSUME NEW size \in Nat
  PROVE  /\ PagesFor(size) \in Nat
         /\ size <= PagesFor(size) * PageSize
<1> USE ConstantsAssumption
<1> DEFINE q == (size + PageSize - 1) \div PageSize
<1>1. size + PageSize - 1 \in Nat
  OBVIOUS
<1>2. q \in Nat /\ size + PageSize - 1 < (q + 1) * PageSize
  BY <1>1, Division
<1> HIDE DEF q
<1>3. (q + 1) * PageSize = q * PageSize + PageSize /\ q * PageSize \in Nat
  BY <1>2
<1>4. size <= q * PageSize
  BY <1>2, <1>3
<1>5. QED
  BY <1>2, <1>4 DEF PagesFor, q

\* What FindController compares, in terms of the pages that fault: the
\* address is on a page of the register file and in the register file.
LEMMA CoversItsPages ==
  ASSUME TypeInv, NEW c \in ioMap, Complete(c), NEW a \in Nat
  PROVE  Covers(c, a) <=> OnPublicPage(c, a) /\ Place(c, a) < SizeOf[c]
<1> DEFINE f == space[c].public.first
           n == space[c].public.n
<1> USE ConstantsAssumption
<1>1. c \in Controllers /\ f \in Nat /\ n \in Nat
  BY DEF TypeInv, TypeOK, Spaces, Areas
<1>2. SizeOf[c] <= n * PageSize /\ n * PageSize \in Nat /\ f + n <= PageCount
  BY <1>1, PagesSuffice DEF Complete
<1>3. f * PageSize \in Nat /\ SizeOf[c] \in Nat
  BY <1>1
<1>4. PageOf(a) \in Nat
  BY Division DEF PageOf
<1>5. OnPublicPage(c, a) <=> f <= PageOf(a) /\ PageOf(a) < f + n
  BY <1>1, <1>2, <1>4 DEF OnPublicPage, AreaPages
<1>6. OnPublicPage(c, a)
        <=> f * PageSize <= a /\ a < f * PageSize + n * PageSize
  BY <1>1, <1>5, BytesOfPages DEF PageOf
<1> HIDE DEF f, n
<1>7. Covers(c, a)
        <=> f * PageSize <= a /\ a < f * PageSize + SizeOf[c]
  BY DEF Covers, First, f
<1>8. Place(c, a) = a - f * PageSize
  BY DEF Place, First, f
<1>9. QED
  BY <1>2, <1>3, <1>6, <1>7, <1>8

(***************************************************************************)
(* The only step from "find" to "found".                                   *)
(***************************************************************************)
LEMMA OnlyFindController ==
  ASSUME TypeInv, NEW t \in Threads, NEW u \in Threads, Step(u),
         pc[t] = "find", pc'[t] = "found"
  PROVE  FindController(t)
<1>1. PICK label : Goto(u, label)
  BY DEF Step, Continue, Construct, Destruct, LookUp, TestFlag,
         RegisterHandlers, SetFlag, LockMap, OpenFile, OpenFileFails,
         MapPrivate, MapPublic, MapFails, Throw, Insert, Remove,
         FindController, Handle
<1>2. u = t
  BY <1>1 DEF Goto, TypeInv, TypeOK
<1>3. QED
  BY <1>2
     DEF Step, Continue, Construct, Destruct, LookUp, TestFlag,
         RegisterHandlers, SetFlag, LockMap, LockedLabel, OpenFile,
         OpenFileFails, MapPrivate, MapPublic, MapFails, Insert, Remove, Handle

OwnerFound(t) ==
  /\ \A c \in ioMap : OnPublicPage(c, fault[t]) =>
       answer'[t] = IF Place(c, fault[t]) < SizeOf[c]
                    THEN [controller |-> c, offset |-> Place(c, fault[t])]
                    ELSE NotFound
  /\ (\A c \in ioMap : ~ OnPublicPage(c, fault[t])) => answer'[t] = NotFound

\* No page belongs to two register files.
LEMMA OnePagePerController ==
  ASSUME SpaceInv, NEW c \in ioMap, NEW d \in ioMap, NEW a,
         OnPublicPage(c, a), OnPublicPage(d, a)
  PROVE  c = d
<1>1. c \in Controllers /\ d \in Controllers
  BY DEF SpaceInv, TypeInv, TypeOK
<1>2. PageOf(a) \in Holds(space[c]) \cap Holds(space[d])
  BY DEF OnPublicPage, Holds
<1>3. QED
  BY <1>1, <1>2 DEF SpaceInv, Owned, Apart

LEMMA FindFindsOwner ==
  ASSUME SpaceInv, NEW t \in Threads, FindController(t)
  PROVE  OwnerFound(t)
<1> DEFINE a == fault[t]
           owners == {c \in ioMap : Covers(c, a)}
<1>1. a \in Nat
  BY DEF SpaceInv, TypeInv, TypeOK
<1>2. \A c \in ioMap :
        Covers(c, a) <=> OnPublicPage(c, a) /\ Place(c, a) < SizeOf[c]
  BY <1>1, CoversItsPages DEF SpaceInv, Owned
<1>3. PICK found \in FoundFor(a) : answer' = [answer EXCEPT ![t] = found]
  BY DEF FindController
<1>4. answer'[t] = found
  BY <1>3 DEF SpaceInv, TypeInv, TypeOK
<1>5. /\ owners = {} => found = NotFound
      /\ \A c \in ioMap : owners = {c} =>
           found = [controller |-> c, offset |-> Place(c, a)]
  BY <1>3 DEF FoundFor, Place
<1>6. ASSUME NEW c \in ioMap, OnPublicPage(c, a)
      PROVE  found = IF Place(c, a) < SizeOf[c]
                     THEN [controller |-> c, offset |-> Place(c, a)]
                     ELSE NotFound
  <2>1. owners \subseteq {c}
    BY <1>2, <1>6, OnePagePerController
  <2>2. CASE Place(c, a) < SizeOf[c]
    BY <1>2, <1>5, <1>6, <2>1, <2>2
  <2>3. CASE ~ (Place(c, a) < SizeOf[c])
    BY <1>2, <1>5, <1>6, <2>1, <2>3
  <2>4. QED
    BY <2>2, <2>3
<1>7. ASSUME \A c \in ioMap : ~ OnPublicPage(c, a)
      PROVE  found = NotFound
  BY <1>2, <1>5, <1>7
<1>8. QED
  BY <1>4, <1>6, <1>7 DEF OwnerFound

\* Whatever other threads construct and destroy meanwhile, and whatever the
\* sizes of the register files, the lookup of an address in a register file
\* gives its controller and the place in it; an address behind it on its last
\* page, and one on no page of a register file, is nobody's.
THEOREM LookupFindsOwner == Spec => FaultFindsOwner
<1> DEFINE Found == \A t \in Threads : pc[t] = "find" /\ pc'[t] = "found"
                                         => OwnerFound(t)
<1>1. SpaceInv /\ [Next]_vars => [Found]_vars
  <2> SUFFICES ASSUME SpaceInv, Next, NEW t \in Threads,
                      pc[t] = "find", pc'[t] = "found"
               PROVE  OwnerFound(t)
    OBVIOUS
  <2>1. PICK u \in Threads : Step(u)
    BY DEF Next, Step
  <2>2. FindController(t)
    BY <2>1, OnlyFindController DEF SpaceInv
  <2>3. QED
    BY <2>2, FindFindsOwner
<1>2. Spec => [][Found]_vars
  BY <1>1, SpaceInvAlways, PTL DEF Spec
<1>3. QED
  BY <1>2 DEF FaultFindsOwner, OwnerFound
=============================================================================
