---------------------------- MODULE MCHookEngine ----------------------------
(***************************************************************************)
(* Instances of HookEngine for TLC.  The .cfg files choose among these     *)
(* values of the constants that are functions.                             *)
(***************************************************************************)
EXTENDS HookEngine, TLC

CONSTANTS t1, t2, c1, c2

\* One controller, used by both threads; its routines use it too.
OneReadWrite == c1 :> "ReadWrite"
OneByBoth    == c1 :> {t1, t2}
NestsOne     == c1 :> {c1}

\* Two controllers that hook different things, used by both threads, or the
\* second one by t2 only.
ReadWriteAndWrite == c1 :> "ReadWrite" @@ c2 :> "Write"
ReadAndWrite      == c1 :> "Read" @@ c2 :> "Write"
BothByBoth        == c1 :> {t1, t2} @@ c2 :> {t1, t2}
SharedAndOwned    == c1 :> {t1, t2} @@ c2 :> {t2}

\* While c2's lock is held c1 may be used, but not the other way round.
NestsOrdered == c1 :> {c1} @@ c2 :> {c1, c2}
=============================================================================
