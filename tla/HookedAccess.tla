---------------------------- MODULE HookedAccess ----------------------------
(***************************************************************************)
(* What ExMM promises to the two sides of a register file, whatever the    *)
(* signals, pages and locks behind it: a driver's load is preceded by one  *)
(* HookRead, so that it returns what the controller has just prepared; a   *)
(* store is followed by one HookWrite, which sees what the driver has just *)
(* stored; and no other access to the same controller comes between the    *)
(* hook and its instruction.  docs/hooking.md describes the two sequences. *)
(***************************************************************************)
EXTENDS Naturals

CONSTANTS Threads, Accesses, NoAccess,
          HookedLoads,    \* the accesses that are to be preceded by a hook
          HookedStores    \* the accesses that are to be followed by a hook

VARIABLES op,      \* the access each thread is making, or made last
          hooks,   \* hook calls made for it
          done     \* has its instruction taken effect?

vars == <<op, hooks, done>>

Finished(t) ==
  \/ op[t] = NoAccess
  \/ done[t] /\ (op[t] \in HookedStores => hooks[t] = 1)

\* The instruction of u and its hook belong together, and one is missing.
HalfDone(u) ==
  \/ op[u] \in HookedLoads  /\ hooks[u] = 1 /\ ~done[u]
  \/ op[u] \in HookedStores /\ hooks[u] = 0 /\ done[u]

Alone(t) ==
  \A u \in Threads \ {t} : HalfDone(u) => op[u].c # op[t].c

Begin(t, a) ==
  /\ Finished(t)
  /\ op' = [op EXCEPT ![t] = a]
  /\ hooks' = [hooks EXCEPT ![t] = 0]
  /\ done' = [done EXCEPT ![t] = FALSE]

Hook(t) ==
  /\ hooks[t] = 0
  /\ \/ op[t] \in HookedLoads /\ ~done[t]
     \/ op[t] \in HookedStores /\ done[t]
  /\ Alone(t)
  /\ hooks' = [hooks EXCEPT ![t] = 1]
  /\ UNCHANGED <<op, done>>

Perform(t) ==
  /\ op[t] # NoAccess
  /\ ~done[t]
  /\ op[t] \in HookedLoads => hooks[t] = 1
  /\ Alone(t)
  /\ done' = [done EXCEPT ![t] = TRUE]
  /\ UNCHANGED <<op, hooks>>

Init ==
  /\ op = [t \in Threads |-> NoAccess]
  /\ hooks = [t \in Threads |-> 0]
  /\ done = [t \in Threads |-> FALSE]

Next ==
  \E t \in Threads : Hook(t) \/ Perform(t) \/ \E a \in Accesses : Begin(t, a)

Spec == Init /\ [][Next]_vars
=============================================================================
