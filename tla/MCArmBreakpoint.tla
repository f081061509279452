--------------------------- MODULE MCArmBreakpoint ---------------------------
(***************************************************************************)
(* Instances of ArmBreakpoint for TLC: what two threads run.               *)
(***************************************************************************)
EXTENDS ArmBreakpoint, TLC

CONSTANTS t1, t2, c1, c2, c3

ReadWriteWriteRead == c1 :> "ReadWrite" @@ c2 :> "Write" @@ c3 :> "Read"

I(address, size, kind, c) ==
  [address |-> address, size |-> size, kind |-> kind, c |-> c]

\* Two functions that join in an instruction that is no access, where the
\* breakpoint of the first one is; base is where they begin.
Thumb(base) ==
  [set |-> "thumb",
   route |->
     t1 :> <<I(base, 1, "write", c1), I(base + 1, 2, "read", c1),
             I(base + 3, 2, "none", c1), I(base + 5, 1, "none", c1)>> @@
     t2 :> <<I(base + 7, 1, "read", c2), I(base + 8, 2, "write", c2),
             I(base + 10, 1, "none", c2), I(base + 3, 2, "none", c1),
             I(base + 5, 1, "none", c1)>>]

\* The same in ARM code.
Arm(base) ==
  [set |-> "arm",
   route |->
     t1 :> <<I(base, 2, "read", c1), I(base + 2, 2, "write", c1),
             I(base + 4, 2, "none", c1), I(base + 6, 2, "none", c1)>> @@
     t2 :> <<I(base + 8, 2, "write", c2), I(base + 10, 2, "read", c2),
             I(base + 12, 2, "none", c2), I(base + 4, 2, "none", c1),
             I(base + 6, 2, "none", c1)>>]

\* The second thread reads a register whose HookRead may be reentrant.
WithReader(l) ==
  [l EXCEPT !.route[t2] = <<I(30, 2, "read", c3), I(32, 2, "none", c3)>> \o @]

\* Both do it all again.
Twice(l) == [l EXCEPT !.route = [t \in Threads |-> @[t] \o @[t]]]

\* Code that stores and loads under the lock of the register file ...
Locked(base, size) ==
  <<I(base, 1, "lock", c1), I(base + 1, size, "write", c1),
    I(base + size + 1, size, "read", c1),
    I(base + 2 * size + 1, size, "unlock", c1)>>

\* ... run by both threads, one of which first does so elsewhere.
ThumbLocked(base, size) ==
  [set |-> "thumb",
   route |-> t1 :> Locked(base, size) @@
             t2 :> Locked(base + 8, 3 - size) \o Locked(base, size)]

ArmLocked(base) ==
  [set |-> "arm",
   route |->
     [t \in Threads |->
        <<I(base, 2, "lock", c1), I(base + 2, 2, "read", c1),
          I(base + 4, 2, "unlock", c1), I(base + 6, 2, "none", c1)>>]]

\* Each of them with pages that end everywhere.
Everywhere ==
  UNION {{Twice(Thumb(base)), WithReader(Thumb(base)),
          Twice(Arm(2 * (base \div 2))),
          ThumbLocked(base, 1), ThumbLocked(base, 2),
          Twice(ArmLocked(2 * (base \div 2)))} : base \in 0 .. 15}

ASSUME EverywhereDisciplined == \A l \in Layouts : Disciplined(l)

=============================================================================
