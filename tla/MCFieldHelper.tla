---------------------------- MODULE MCFieldHelper ----------------------------
(***************************************************************************)
(* Instances of FieldHelper for TLC.  The register file has every kind of  *)
(* field, a hole and elements of several sizes, in bytes:                  *)
(*                                                                         *)
(*    0  Control            4  Log[3], 2 each     10  Mode, 1; hole        *)
(*   12  Timers[2], 8 each  28  State, 4          32  end                  *)
(*                                                                         *)
(* A Timer is a Value of 4 bytes and Flags[2] of 1 byte and has a tail of  *)
(* 2 bytes; a Status is a Code and a Cause of 2 bytes each; a Byte is one  *)
(* register of one byte.                                                   *)
(***************************************************************************)
EXTENDS FieldHelper, FiniteSets

Plain(from, size) ==
  [from |-> from, size |-> size, count |-> 1, type |-> Scalar]
Array(from, size, count) ==
  [from |-> from, size |-> size, count |-> count, type |-> Scalar]

MCLayout ==
  [Registers |-> [Control |-> Plain(0, 4),
                  Log     |-> Array(4, 2, 3),
                  Mode    |-> [from |-> 10, size |-> 1, count |-> 1,
                               type |-> "Byte"],
                  Timers  |-> [from |-> 12, size |-> 8, count |-> 2,
                               type |-> "Timer"],
                  State   |-> [from |-> 28, size |-> 4, count |-> 1,
                               type |-> "Status"]],
   Timer     |-> [Value |-> Plain(0, 4), Flags |-> Array(4, 1, 2)],
   Status    |-> [Code |-> Plain(0, 2), Cause |-> Plain(2, 2)],
   Byte      |-> [Bits |-> Plain(0, 1)]]

On(method, field) == [method |-> method, field |-> field]

\* All orders of the calls in a chain, with Else at the end.
Orders(calls) ==
  LET n == Cardinality(calls)
      perms == {p \in [1 .. n -> calls] :
                  \A i, j \in 1 .. n : p[i] = p[j] => i = j}
  IN {p \o <<On("Else", "")>> : p \in perms}

TimerChains  == Orders({On("Case", "Value"), On("CaseArray", "Flags")})
StatusChains == Orders({On("Case", "Code"), On("Case", "Cause")})

AllBytes == 0 .. 31

\* The calls of hooks on the register file, but for State: Mode, of one byte,
\* is reached with Inside.
RegisterCalls == {On("Case", "Control"), On("CaseArray", "Log"),
                  On("Inside", "Mode"), On("InsideArray", "Timers")}

\* State is reached as an array (a Status[1]) or as the plain Status it is.
MCChains ==
  [Registers |-> Orders(RegisterCalls \cup {On("InsideArray", "State")})
                   \cup Orders(RegisterCalls \cup {On("Inside", "State")}),
   Timer     |-> TimerChains,
   Status    |-> StatusChains,
   Byte      |-> Orders({On("Case", "Bits")})]

\* What the proofs assume of layouts and chains is true of these.
ASSUME InstanceIsComplete == LaidOut /\ OneLevel /\ ChainsComplete
=============================================================================
