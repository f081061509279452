----------------------------- MODULE FieldHelper -----------------------------
(***************************************************************************)
(* The field selector of a hook (exmm/dsl/v1/fieldhelper.hpp).  A hook is  *)
(* given the byte offset of an access inside the register file and passes  *)
(* it through a chain of calls                                             *)
(*                                                                         *)
(*    SwitchField(data, offset).Case(...).InsideArray(...)...Else(...)     *)
(*                                                                         *)
(* each of which compares the offset with one field and may run its        *)
(* callback.  The callback of Inside and InsideArray gets a selector of    *)
(* the nested structure and runs a chain of its own on it.                 *)
(*                                                                         *)
(* A step is one call of a chain.  Callbacks are recorded, not run.        *)
(*                                                                         *)
(* A definition Faulty_D is D with a plausible bug.  The specification     *)
(* does not use it: put in the place of D it must break a property.        *)
(***************************************************************************)
EXTENDS Naturals, Sequences

CONSTANTS
  Structs,  \* register structures; the outermost one is Registers
  Registers,
  Layout,   \* Layout[s][f]: where field f of structure s is, see FieldInfo
  Size,     \* sizeof(Registers)
  Offsets,  \* the bytes at which drivers access the register file
  Chains,   \* Chains[s]: the chains of calls that hooks make on an s
  Scalar    \* the type of a field that is not a structure

\* An element of a field takes size bytes; a plain field has one element.
FieldInfo == [from : Nat, size : Nat \ {0}, count : Nat \ {0},
              type : Structs \cup {Scalar}]

Calls == [method : {"Case", "CaseArray", "Inside", "InsideArray", "Else"},
          field  : STRING]

ASSUME LayoutAssumption ==
  /\ Registers \in Structs
  /\ Size \in Nat
  /\ Offsets \subseteq 0 .. Size - 1
  /\ Scalar \notin Structs
  /\ \A s \in Structs : \A f \in DOMAIN Layout[s] : Layout[s][f] \in FieldInfo
  /\ \A s \in Structs : \A chain \in Chains[s] :
       /\ chain \in Seq(Calls)
       /\ \A i \in DOMAIN chain :
            /\ chain[i].method # "Else" => chain[i].field \in DOMAIN Layout[s]
            /\ chain[i].method \in {"Inside", "InsideArray"} =>
                 Layout[s][chain[i].field].type \in Structs
            /\ chain[i].method = "Else" => i = Len(chain)

VARIABLES
  access,     \* the byte of the register file that was accessed
  frames,     \* the selectors whose chains are being run, innermost first
  callbacks,  \* callbacks of Case and CaseArray that were run, by address
  others      \* offsets the callbacks of Else were run with

vars == <<access, frames, callbacks, others>>

-----------------------------------------------------------------------------
(* The comparisons of an offset with a field. *)

SameField(offset, f) == f.from = offset

InArray(offset, f) == f.from <= offset /\ offset < f.from + f.size * f.count

Faulty_SameElement(offset, f) == InArray(offset, f)

\* The array version of SameField: the offset is that of an element.
SameElement(offset, f) ==
  InArray(offset, f) /\ (offset - f.from) % f.size = 0

Faulty_Index(offset, f) == offset - f.from

Index(offset, f) == (offset - f.from) \div f.size

\* InsideField has the field's place and the offset the wrong way round.
InsideField(offset, f) == f.from >= offset /\ f.from < offset + f.size

NestedOffset(offset, f) == f.from - offset

Faulty_NestedArrayOffset(offset, f) == offset - f.from

NestedArrayOffset(offset, f) == (offset - f.from) % f.size

-----------------------------------------------------------------------------
(* A selector: its structure, where it is in the register file, the offset *)
(* it compares, the calls still to be made and somethingMatched.           *)

Selector(s, base, offset, chain) ==
  [struct |-> s, base |-> base, offset |-> offset, chain |-> chain,
   matched |-> FALSE]

Top  == frames[1]
Call == Top.chain[1]
Field == Layout[Top.struct][Call.field]

\* A call of this method is next.
Calling(method) ==
  /\ frames # <<>>
  /\ Top.chain # <<>>
  /\ Call.method = method

Advance(matched) ==
  [Top EXCEPT !.chain = Tail(@), !.matched = @ \/ matched]

Skip ==
  /\ frames' = <<Advance(FALSE)>> \o Tail(frames)
  /\ UNCHANGED <<access, callbacks, others>>

\* callback(registers->*field), with the address of what it gets.
Run(address) ==
  /\ callbacks' = Append(callbacks, address)
  /\ frames' = <<Advance(TRUE)>> \o Tail(frames)
  /\ UNCHANGED <<access, others>>

\* callback(FieldHelper<F>(...)): the callback runs one of the chains.
Enter(s, base, offset) ==
  /\ \E chain \in Chains[s] :
       frames' = <<Selector(s, base, offset, chain), Advance(TRUE)>>
                    \o Tail(frames)
  /\ UNCHANGED <<access, callbacks, others>>

ElementBase(index) == Top.base + Field.from + Field.size * index

Case ==
  /\ Calling("Case")
  /\ \/ SameField(Top.offset, Field) /\ Run(ElementBase(0))
     \/ ~SameField(Top.offset, Field) /\ Skip

CaseArray ==
  /\ Calling("CaseArray")
  /\ \/ /\ SameElement(Top.offset, Field)
        /\ Run(ElementBase(Index(Top.offset, Field)))
     \/ ~SameElement(Top.offset, Field) /\ Skip

Inside ==
  /\ Calling("Inside")
  /\ \/ /\ InsideField(Top.offset, Field)
        /\ Enter(Field.type, ElementBase(0), NestedOffset(Top.offset, Field))
     \/ ~InsideField(Top.offset, Field) /\ Skip

InsideArray ==
  /\ Calling("InsideArray")
  /\ \/ /\ InArray(Top.offset, Field)
        /\ Enter(Field.type, ElementBase(Index(Top.offset, Field)),
                 NestedArrayOffset(Top.offset, Field))
     \/ ~InArray(Top.offset, Field) /\ Skip

Else ==
  /\ Calling("Else")
  /\ \/ /\ ~Top.matched
        /\ others' = Append(others, Top.offset)
        /\ frames' = <<Advance(FALSE)>> \o Tail(frames)
        /\ UNCHANGED <<access, callbacks>>
     \/ Top.matched /\ Skip

\* The chain is over: back in the callback's caller, or in the hook's.
Return ==
  /\ frames # <<>>
  /\ Top.chain = <<>>
  /\ frames' = Tail(frames)
  /\ UNCHANGED <<access, callbacks, others>>

Init ==
  /\ access \in Offsets
  /\ \E chain \in Chains[Registers] :
       frames = <<Selector(Registers, 0, access, chain)>>
  /\ callbacks = <<>>
  /\ others = <<>>

Finished == frames = <<>> /\ UNCHANGED vars

Next == Case \/ CaseArray \/ Inside \/ InsideArray \/ Else \/ Return \/ Finished

Spec == Init /\ [][Next]_vars

-----------------------------------------------------------------------------
(* Properties, against the layout itself. *)

Done == frames = <<>>

\* Every variable holds a value of its type.
TypeOK ==
  /\ access \in Offsets
  /\ \A i \in DOMAIN frames :
       /\ frames[i].struct \in Structs
       /\ frames[i].base \in 0 .. Size - 1
       /\ frames[i].offset \in 0 .. Size - 1
       /\ frames[i].matched \in BOOLEAN
  /\ \A i \in DOMAIN callbacks : callbacks[i] \in 0 .. Size - 1
  /\ \A i \in DOMAIN others : others[i] \in 0 .. Size - 1

\* The first bytes of the scalar elements of structure s placed at base, and
\* of those of the structures inside it (structures nest one level deep).
OwnElements(s, base) ==
  UNION {{base + Layout[s][f].from + Layout[s][f].size * i :
            i \in 0 .. Layout[s][f].count - 1} :
           f \in {g \in DOMAIN Layout[s] : Layout[s][g].type = Scalar}}

NestedElements(s, base) ==
  UNION {UNION {OwnElements(Layout[s][f].type,
                            base + Layout[s][f].from + Layout[s][f].size * i) :
                  i \in 0 .. Layout[s][f].count - 1} :
           f \in {g \in DOMAIN Layout[s] : Layout[s][g].type # Scalar}}

ElementStarts == OwnElements(Registers, 0) \cup NestedElements(Registers, 0)

\* Inside looks for the offset of an access at the wrong side of the field's
\* first byte.  It judges an offset rightly that is the field's, and one that
\* is further from it than its size; the others lie beside the field.
BesideField(offset, f) ==
  /\ offset # f.from
  /\ f.from < offset + f.size
  /\ offset < f.from + f.size

\* The fields of s that some hook reaches with Inside, and the offsets that
\* lie beside one of them.
InsideFields ==
  [s \in Structs |->
     {f \in DOMAIN Layout[s] :
        \E chain \in Chains[s] : \E i \in DOMAIN chain :
          chain[i].method = "Inside" /\ chain[i].field = f}]

Beside(s, offset) ==
  \E f \in InsideFields[s] : BesideField(offset, Layout[s][f])

\* A selector never loses the access: what it compares is the accessed byte
\* seen from the place of its structure, unless the way to it led past an
\* Inside that the offset lay beside.
OffsetsRelative ==
  \A i \in DOMAIN frames :
    (\A j \in DOMAIN frames :
       j > i => ~Beside(frames[j].struct, frames[j].offset))
    => frames[i].base + frames[i].offset = access

\* What a compiler makes of structures: fields do not overlap, those of the
\* register file fit in it and those of a nested structure in the structure.
End(f) == f.from + f.size * f.count

LaidOut ==
  /\ \A s \in Structs : \A f, g \in DOMAIN Layout[s] :
       f # g => \/ End(Layout[s][f]) <= Layout[s][g].from
                \/ End(Layout[s][g]) <= Layout[s][f].from
  /\ \A f \in DOMAIN Layout[Registers] : End(Layout[Registers][f]) <= Size
  /\ \A s \in Structs : \A f \in DOMAIN Layout[s] :
       Layout[s][f].type \in Structs =>
         \A g \in DOMAIN Layout[Layout[s][f].type] :
           End(Layout[Layout[s][f].type][g]) <= Layout[s][f].size

\* A structure without structures inside.
Flat(s) == \A f \in DOMAIN Layout[s] : Layout[s][f].type = Scalar

OneLevel ==
  \A f \in DOMAIN Layout[Registers] :
    Layout[Registers][f].type \in Structs => Flat(Layout[Registers][f].type)

\* The call is one of those there are for a field like this.
Suits(method, f) ==
  CASE method = "Case"        -> f.type = Scalar /\ f.count = 1
    [] method = "CaseArray"   -> f.type = Scalar
    [] method = "Inside"      -> f.type \in Structs /\ f.count = 1
    [] method = "InsideArray" -> f.type \in Structs
    [] OTHER                  -> FALSE

\* A chain that handles all of its structure: one call per field, in any
\* order, and Else.
Complete(s, chain) ==
  LET calls == 1 .. Len(chain) - 1
  IN  /\ chain # <<>> /\ chain[Len(chain)].method = "Else"
      /\ \A i \in calls :
           Suits(chain[i].method, Layout[s][chain[i].field])
      /\ \A f \in DOMAIN Layout[s] : \E i \in calls : chain[i].field = f
      /\ \A i, j \in calls : chain[i].field = chain[j].field => i = j

ChainsComplete ==
  \A s \in Structs : \A chain \in Chains[s] : Complete(s, chain)

\* The chain as a whole runs one callback: that of the register element the
\* driver accessed when the access is at the start of one, Else otherwise.
\* Nothing is said of an access beside a field that is reached with Inside.
Dispatch ==
  Done /\ ~Beside(Registers, access) =>
    IF access \in ElementStarts
    THEN callbacks = <<access>> /\ others = <<>>
    ELSE callbacks = <<>> /\ Len(others) = 1

\* Inside runs its callback if and only if the access is inside the field.
InsideReachesField ==
  [][Calling("Inside") =>
       (InArray(Top.offset, Field) <=> Len(frames') = Len(frames) + 1)]_vars
=============================================================================
