-------------------------- MODULE FieldHelperProofs --------------------------
(***************************************************************************)
(* What holds of FieldHelper for every layout and whatever calls the hooks *)
(* make: selectors and callbacks stay inside the register file, and the    *)
(* offset stays that of the accessed byte until an Inside is asked about a *)
(* field the access lies beside.  Complete chains, in any order, dispatch  *)
(* every other access to one callback.                                     *)
(***************************************************************************)
EXTENDS FieldHelper, SequenceTheorems, TLAPS

(***************************************************************************)
(* Every selector is well formed, what is left of its chain included.      *)
(***************************************************************************)
Frames == [struct : Structs, base : Nat, offset : Nat, chain : Seq(Calls),
           matched : BOOLEAN]

\* A call that some hook makes on an s.
Known(s, call) ==
  \E chain \in Chains[s] : \E i \in DOMAIN chain : call = chain[i]

Good(f) ==
  /\ f \in Frames
  /\ \A i \in DOMAIN f.chain : Known(f.struct, f.chain[i])

GoodFrames ==
  /\ access \in Nat
  /\ frames \in Seq(Frames)
  /\ \A i \in DOMAIN frames : Good(frames[i])

LEMMA EndOfField ==
  ASSUME NEW f \in FieldInfo
  PROVE  End(f) \in Nat /\ f.size \in Nat \ {0}
<1>1. f.from \in Nat /\ f.size \in Nat \ {0} /\ f.count \in Nat
  BY DEF FieldInfo
<1>2. f.size * f.count \in Nat
  BY <1>1
<1>3. QED
  BY <1>1, <1>2 DEF End

LEMMA DivMod ==
  ASSUME NEW a \in Nat, NEW k \in Nat \ {0}
  PROVE  /\ a \div k \in Nat
         /\ a % k \in Nat /\ a % k < k
         /\ k * (a \div k) + (a % k) = a
OBVIOUS

LEMMA Shifted ==
  ASSUME NEW base \in Nat, NEW from \in Nat, NEW offset \in Nat,
         NEW skipped \in Nat, NEW rest \in Nat,
         skipped + rest = offset - from
  PROVE  /\ base + from + skipped \in Nat
         /\ (base + from + skipped) + rest = base + offset
OBVIOUS

LEMMA KnownFits ==
  ASSUME NEW s \in Structs, NEW call, Known(s, call)
  PROVE  /\ call.method # "Else" => call.field \in DOMAIN Layout[s]
         /\ call.method \in {"Inside", "InsideArray"} =>
              Layout[s][call.field].type \in Structs
         /\ call.method = "Inside" => call.field \in InsideFields[s]
<1>1. PICK chain \in Chains[s] : \E i \in DOMAIN chain : call = chain[i]
  BY DEF Known
<1>2. PICK i \in DOMAIN chain : call = chain[i]
  BY <1>1
<1>3. /\ call.method # "Else" => call.field \in DOMAIN Layout[s]
      /\ call.method \in {"Inside", "InsideArray"} =>
           Layout[s][call.field].type \in Structs
  BY <1>2, LayoutAssumption
<1>4. call.method = "Inside" => call.field \in InsideFields[s]
  BY <1>2, <1>3 DEF InsideFields
<1>5. QED
  BY <1>3, <1>4

LEMMA TopIsGood ==
  ASSUME GoodFrames, frames # <<>>
  PROVE  Good(Top)
BY DEF GoodFrames, Top

\* The call that is next is on a field of the structure.
LEMMA FieldFits ==
  ASSUME GoodFrames, NEW method, method # "Else", Calling(method)
  PROVE  /\ Field \in FieldInfo
         /\ Call.field \in DOMAIN Layout[Top.struct]
         /\ method \in {"Inside", "InsideArray"} => Field.type \in Structs
         /\ method = "Inside" => Call.field \in InsideFields[Top.struct]
<1>1. Good(Top) /\ Top.chain # <<>> /\ Call.method = method
  BY TopIsGood DEF Calling
<1>2. 1 \in DOMAIN Top.chain /\ Top.struct \in Structs
  BY <1>1 DEF Good, Frames
<1>3. Known(Top.struct, Call)
  BY <1>1, <1>2 DEF Good, Call
<1>4. QED
  BY <1>1, <1>2, <1>3, KnownFits, LayoutAssumption DEF Field

LEMMA AdvanceIsGood ==
  ASSUME GoodFrames, frames # <<>>, Top.chain # <<>>,
         NEW matched \in BOOLEAN
  PROVE  /\ Good(Advance(matched))
         /\ Advance(matched).struct = Top.struct
         /\ Advance(matched).chain = Tail(Top.chain)
         /\ Advance(matched).base = Top.base
         /\ Advance(matched).offset = Top.offset
<1>1. Good(Top)
  BY TopIsGood
<1>2. /\ Tail(Top.chain) \in Seq(Calls)
      /\ \A i \in DOMAIN Tail(Top.chain) : Known(Top.struct, Tail(Top.chain)[i])
  BY <1>1 DEF Good, Frames
<1>3. /\ Advance(matched) \in Frames
      /\ Advance(matched).struct = Top.struct
      /\ Advance(matched).chain = Tail(Top.chain)
      /\ Advance(matched).base = Top.base
      /\ Advance(matched).offset = Top.offset
  BY <1>1, <1>2 DEF Good, Frames, Advance
<1>4. QED
  BY <1>1, <1>2, <1>3 DEF Good

LEMMA SelectorIsGood ==
  ASSUME NEW s \in Structs, NEW base \in Nat, NEW offset \in Nat,
         NEW chain \in Chains[s]
  PROVE  Good(Selector(s, base, offset, chain))
<1>1. chain \in Seq(Calls) /\ \A i \in DOMAIN chain : Known(s, chain[i])
  BY LayoutAssumption DEF Known
<1>2. QED
  BY <1>1 DEF Selector, Good, Frames

-----------------------------------------------------------------------------
(***************************************************************************)
(* The ways the stack of selectors changes.                                *)
(***************************************************************************)
\* A selector of an element of the current field is pushed.
Entering(base, offset) ==
  /\ base \in Nat /\ offset \in Nat
  /\ Field \in FieldInfo /\ Field.type \in Structs
  /\ Call.field \in DOMAIN Layout[Top.struct]
  /\ \E chain \in Chains[Field.type] :
       frames' = <<Selector(Field.type, base, offset, chain), Advance(TRUE)>>
                    \o Tail(frames)
  /\ ~Beside(Top.struct, Top.offset) => base + offset = Top.base + Top.offset
  /\ offset < Field.size
  /\ base + Field.size <= Top.base + End(Field)

StackStep ==
  \/ UNCHANGED frames
  \/ frames # <<>> /\ frames' = Tail(frames)
  \/ /\ frames # <<>> /\ Top.chain # <<>>
     /\ \E matched \in BOOLEAN : frames' = <<Advance(matched)>> \o Tail(frames)
  \/ /\ frames # <<>> /\ Top.chain # <<>>
     /\ \E base, offset \in Nat : Entering(base, offset)

LEMMA TimesLess ==
  ASSUME NEW k \in Nat \ {0}, NEW i \in Nat, NEW j \in Nat, i < j
  PROVE  k * i + k <= k * j
<1>1. j = i + 1 + (j - i - 1) /\ j - i - 1 \in Nat
  OBVIOUS
<1>2. k * j = k * i + k + k * (j - i - 1)
  BY <1>1
<1>3. k * (j - i - 1) \in Nat
  BY <1>1
<1>4. k * i \in Nat /\ k * j \in Nat
  OBVIOUS
<1>5. QED
  BY <1>2, <1>3, <1>4

LEMMA ElementOf ==
  ASSUME NEW f \in FieldInfo, NEW offset \in Nat, InArray(offset, f)
  PROVE  /\ Index(offset, f) \in 0 .. f.count - 1
         /\ NestedArrayOffset(offset, f) \in 0 .. f.size - 1
         /\ offset = f.from + f.size * Index(offset, f)
                       + NestedArrayOffset(offset, f)
<1> DEFINE a == offset - f.from
           q == a \div f.size
           r == a % f.size
<1>1. f.from \in Nat /\ f.size \in Nat \ {0} /\ f.count \in Nat
  BY DEF FieldInfo
<1>2. f.size * f.count \in Nat
  BY <1>1
<1>3. a \in Nat /\ a < f.size * f.count /\ offset = f.from + a
  BY <1>1, <1>2 DEF InArray
<1>4. q \in Nat /\ r \in Nat /\ r < f.size /\ f.size * q + r = a
  BY <1>1, <1>3, DivMod
<1>5. Index(offset, f) = q /\ NestedArrayOffset(offset, f) = r
  BY DEF Index, NestedArrayOffset
<1> HIDE DEF a, q, r
<1>6. f.size * q \in Nat
  BY <1>1, <1>4
<1>7. q < f.count
  <2>1. f.count < q => f.size * f.count + f.size <= f.size * q
    BY <1>1, <1>4, TimesLess
  <2>2. CASE f.count < q
    BY <1>1, <1>2, <1>3, <1>4, <1>6, <2>1, <2>2
  <2>3. CASE f.count = q
    BY <1>2, <1>3, <1>4, <1>6, <2>3
  <2>4. QED
    BY <1>1, <1>4, <2>2, <2>3
<1>8. q \in 0 .. f.count - 1 /\ r \in 0 .. f.size - 1
  BY <1>1, <1>4, <1>7
<1>9. offset = f.from + f.size * q + r
  BY <1>1, <1>3, <1>4, <1>6
<1>10. QED
  BY <1>5, <1>8, <1>9

LEMMA InsideEnters ==
  ASSUME GoodFrames, Inside, ~Skip
  PROVE  /\ frames # <<>> /\ Top.chain # <<>> /\ UNCHANGED access
         /\ \E base, offset \in Nat : Entering(base, offset)
<1> DEFINE base == ElementBase(0)
           rest == NestedOffset(Top.offset, Field)
<1>1. /\ frames # <<>> /\ Top.chain # <<>> /\ InsideField(Top.offset, Field)
      /\ Enter(Field.type, base, rest)
  BY DEF Inside, Calling
<1>2. /\ Field \in FieldInfo /\ Field.type \in Structs
      /\ Call.field \in InsideFields[Top.struct]
      /\ Call.field \in DOMAIN Layout[Top.struct]
  BY FieldFits DEF Inside
<1>3. /\ Field.from \in Nat /\ Field.size \in Nat \ {0}
      /\ Field.count \in Nat \ {0} /\ Top.base \in Nat /\ Top.offset \in Nat
  BY <1>1, <1>2, TopIsGood DEF Good, Frames, FieldInfo
<1>4. base = Top.base + Field.from /\ rest = Field.from - Top.offset
  BY <1>3 DEF ElementBase, NestedOffset
<1>5. base \in Nat /\ rest \in Nat /\ rest < Field.size
  BY <1>1, <1>3, <1>4 DEF InsideField
<1>6. ~Beside(Top.struct, Top.offset) => base + rest = Top.base + Top.offset
  <2>1. ~Beside(Top.struct, Top.offset) => ~BesideField(Top.offset, Field)
    BY <1>2 DEF Beside, Field
  <2>2. ~BesideField(Top.offset, Field) => Top.offset = Field.from
    BY <1>1, <1>3 DEF BesideField, InsideField
  <2>3. QED
    BY <1>3, <1>4, <2>1, <2>2
<1>7. base + Field.size <= Top.base + End(Field)
  <2>1. Field.size * Field.count \in Nat
    BY <1>3
  <2>2. Field.size * 0 + Field.size <= Field.size * Field.count
    BY <1>3, TimesLess
  <2>3. Field.size * 0 = 0
    BY <1>3
  <2>4. QED
    BY <1>3, <1>4, <2>1, <2>2, <2>3 DEF End
<1> HIDE DEF base, rest
<1>8. Entering(base, rest)
  BY <1>1, <1>2, <1>5, <1>6, <1>7 DEF Entering, Enter
<1>9. QED
  BY <1>1, <1>5, <1>8 DEF Enter

LEMMA InsideArrayEnters ==
  ASSUME GoodFrames, InsideArray, ~Skip
  PROVE  /\ frames # <<>> /\ Top.chain # <<>> /\ UNCHANGED access
         /\ \E base, offset \in Nat : Entering(base, offset)
<1> DEFINE i    == Index(Top.offset, Field)
           base == ElementBase(i)
           rest == NestedArrayOffset(Top.offset, Field)
<1>1. /\ frames # <<>> /\ Top.chain # <<>> /\ InArray(Top.offset, Field)
      /\ Enter(Field.type, base, rest)
  BY DEF InsideArray, Calling
<1>2. /\ Field \in FieldInfo /\ Field.type \in Structs
      /\ Call.field \in DOMAIN Layout[Top.struct]
  BY FieldFits DEF InsideArray
<1>3. /\ Field.from \in Nat /\ Field.size \in Nat \ {0}
      /\ Field.count \in Nat \ {0} /\ Top.base \in Nat /\ Top.offset \in Nat
  BY <1>1, <1>2, TopIsGood DEF Good, Frames, FieldInfo
<1>4. /\ i \in 0 .. Field.count - 1 /\ rest \in 0 .. Field.size - 1
      /\ Top.offset = Field.from + Field.size * i + rest
  BY <1>1, <1>2, <1>3, ElementOf
<1>5. base = Top.base + Field.from + Field.size * i
  BY DEF ElementBase
<1> HIDE DEF i, base, rest
<1>6. i \in Nat /\ i < Field.count /\ rest \in Nat /\ rest < Field.size
  BY <1>3, <1>4
<1>7. Field.size * i \in Nat /\ Field.size * Field.count \in Nat
  BY <1>3, <1>6
<1>8. base \in Nat /\ base + rest = Top.base + Top.offset
  BY <1>3, <1>4, <1>5, <1>6, <1>7
<1>9. base + Field.size <= Top.base + End(Field)
  <2>1. Field.size * i + Field.size <= Field.size * Field.count
    BY <1>3, <1>6, TimesLess
  <2>2. QED
    BY <1>3, <1>5, <1>7, <2>1 DEF End
<1>10. Entering(base, rest)
  BY <1>1, <1>2, <1>6, <1>8, <1>9 DEF Entering, Enter
<1>11. QED
  BY <1>1, <1>6, <1>8, <1>10 DEF Enter

LEMMA StackSteps ==
  ASSUME GoodFrames, [Next]_vars
  PROVE  UNCHANGED access /\ StackStep
<1>1. CASE Case \/ CaseArray \/ Else
  <2>1. frames # <<>> /\ Top.chain # <<>> /\ UNCHANGED access
    BY <1>1 DEF Case, CaseArray, Else, Calling, Run, Skip
  <2>2. \E matched \in BOOLEAN :
          frames' = <<Advance(matched)>> \o Tail(frames)
    BY <1>1 DEF Case, CaseArray, Else, Run, Skip
  <2>3. QED
    BY <2>1, <2>2 DEF StackStep
<1>2. CASE (Inside \/ InsideArray) /\ Skip
  BY <1>2 DEF Inside, InsideArray, Calling, Skip, StackStep
<1>3. CASE (Inside \/ InsideArray) /\ ~Skip
  BY <1>3, InsideEnters, InsideArrayEnters DEF StackStep
<1>4. CASE Return
  BY <1>4 DEF Return, StackStep
<1>5. CASE Finished \/ UNCHANGED vars
  BY <1>5 DEF Finished, vars, StackStep
<1>6. QED
  BY <1>1, <1>2, <1>3, <1>4, <1>5 DEF Next

\* What the stacks are that a step makes.
LEMMA TopOfStack ==
  ASSUME GoodFrames, frames # <<>>
  PROVE  /\ Len(frames) \in Nat \ {0} /\ Top = frames[1]
         /\ DOMAIN frames = 1 .. Len(frames) /\ 1 \in DOMAIN frames
BY EmptySeq DEF GoodFrames, Top

LEMMA TailOfStack ==
  ASSUME GoodFrames, frames # <<>>
  PROVE  /\ DOMAIN Tail(frames) = 1 .. Len(frames) - 1
         /\ \A i \in 1 .. Len(frames) - 1 : Tail(frames)[i] = frames[i + 1]
BY EmptySeq DEF GoodFrames

LEMMA StackWithTop ==
  ASSUME GoodFrames, frames # <<>>, NEW f
  PROVE  /\ DOMAIN (<<f>> \o Tail(frames)) = 1 .. Len(frames)
         /\ \A i \in 1 .. Len(frames) :
              (<<f>> \o Tail(frames))[i] = IF i = 1 THEN f ELSE frames[i]
BY EmptySeq DEF GoodFrames

LEMMA StackPushed ==
  ASSUME GoodFrames, frames # <<>>, NEW f, NEW g
  PROVE  /\ DOMAIN (<<f, g>> \o Tail(frames)) = 1 .. Len(frames) + 1
         /\ \A i \in 1 .. Len(frames) + 1 :
              (<<f, g>> \o Tail(frames))[i]
                = IF i = 1 THEN f ELSE IF i = 2 THEN g ELSE frames[i - 1]
BY EmptySeq DEF GoodFrames

LEMMA GoodInit == Init => GoodFrames
<1> SUFFICES ASSUME Init PROVE GoodFrames
  OBVIOUS
<1>1. access \in Nat
  BY LayoutAssumption DEF Init
<1>2. PICK chain \in Chains[Registers] :
        frames = <<Selector(Registers, 0, access, chain)>>
  BY DEF Init
<1>3. Good(Selector(Registers, 0, access, chain))
  BY <1>1, SelectorIsGood, LayoutAssumption
<1>4. QED
  BY <1>1, <1>2, <1>3 DEF GoodFrames, Good

LEMMA GoodNext ==
  ASSUME GoodFrames, [Next]_vars
  PROVE  GoodFrames'
<1>1. UNCHANGED access /\ StackStep
  BY StackSteps
<1>2. SUFFICES frames' \in Seq(Frames) /\ \A i \in DOMAIN frames' : Good(frames'[i])
  BY <1>1 DEF GoodFrames, Good, Known
<1>3. CASE UNCHANGED frames
  BY <1>3 DEF GoodFrames
<1>4. CASE frames # <<>> /\ frames' = Tail(frames)
  BY <1>4 DEF GoodFrames
<1>5. ASSUME frames # <<>>, Top.chain # <<>>, NEW matched \in BOOLEAN,
             frames' = <<Advance(matched)>> \o Tail(frames)
      PROVE  frames' \in Seq(Frames) /\ \A i \in DOMAIN frames' : Good(frames'[i])
  <2>1. Good(Advance(matched))
    BY <1>5, AdvanceIsGood
  <2>2. Advance(matched) \in Frames
    BY <2>1 DEF Good
  <2>3. QED
    BY <1>5, <2>1, <2>2, TopOfStack, StackWithTop DEF GoodFrames
<1>6. ASSUME frames # <<>>, Top.chain # <<>>,
             NEW base \in Nat, NEW offset \in Nat, Entering(base, offset)
      PROVE  frames' \in Seq(Frames) /\ \A i \in DOMAIN frames' : Good(frames'[i])
  <2>1. PICK chain \in Chains[Field.type] :
          frames' = <<Selector(Field.type, base, offset, chain),
                      Advance(TRUE)>> \o Tail(frames)
    BY <1>6 DEF Entering
  <2> DEFINE f == Selector(Field.type, base, offset, chain)
  <2>2. Good(f) /\ Good(Advance(TRUE))
    BY <1>6, SelectorIsGood, AdvanceIsGood DEF Entering
  <2>3. f \in Frames /\ Advance(TRUE) \in Frames
    BY <2>2 DEF Good
  <2> HIDE DEF f
  <2>4. frames' = <<f, Advance(TRUE)>> \o Tail(frames)
    BY <2>1 DEF f
  <2> DEFINE g == Advance(TRUE)
  <2> HIDE DEF g
  <2>5. f \in Frames /\ g \in Frames /\ Good(f) /\ Good(g)
    BY <2>2, <2>3 DEF g
  <2>6. frames' = <<f, g>> \o Tail(frames)
    BY <2>4 DEF g
  <2>7. frames' \in Seq(Frames)
    BY <1>6, <2>5, <2>6 DEF GoodFrames
  <2>8. \A i \in DOMAIN frames' : Good(frames'[i])
    <3>1. ASSUME NEW i \in 1 .. Len(frames) + 1
          PROVE  Good((<<f, g>> \o Tail(frames))[i])
      <4>1. (<<f, g>> \o Tail(frames))[i]
               = IF i = 1 THEN f ELSE IF i = 2 THEN g ELSE frames[i - 1]
        BY <1>6, StackPushed
      <4>2. i # 1 => i - 1 \in DOMAIN frames
        BY <1>6, TopOfStack
      <4>3. QED
        BY <2>5, <4>1, <4>2 DEF GoodFrames
    <3>2. QED
      BY <1>6, <2>6, <3>1, StackPushed
  <2>9. QED
    BY <2>7, <2>8
<1>7. QED
  BY <1>1, <1>3, <1>4, <1>5, <1>6 DEF StackStep

LEMMA GoodAlways == Spec => []GoodFrames
<1>1. GoodFrames /\ [Next]_vars => GoodFrames'
  BY GoodNext
<1>2. QED
  BY <1>1, GoodInit, PTL DEF Spec

-----------------------------------------------------------------------------
(***************************************************************************)
(* The offset stays that of the accessed byte.                             *)
(***************************************************************************)
Led(i) ==
  \A j \in DOMAIN frames :
    j > i => ~Beside(frames[j].struct, frames[j].offset)

LEMMA RelativeInit == Init => OffsetsRelative
<1> SUFFICES ASSUME Init PROVE OffsetsRelative
  OBVIOUS
<1>1. PICK chain \in Chains[Registers] :
        frames = <<Selector(Registers, 0, access, chain)>>
  BY DEF Init
<1>2. access \in Nat
  BY GoodInit DEF GoodFrames
<1>3. DOMAIN frames = {1} /\ frames[1].base = 0 /\ frames[1].offset = access
  BY <1>1 DEF Selector
<1>4. QED
  BY <1>2, <1>3 DEF OffsetsRelative

LEMMA RelativeNext ==
  ASSUME GoodFrames, OffsetsRelative, [Next]_vars
  PROVE  OffsetsRelative'
<1>1. UNCHANGED access /\ StackStep
  BY StackSteps
<1>2. \A i \in DOMAIN frames :
        Led(i) => frames[i].base + frames[i].offset = access
  BY DEF OffsetsRelative, Led
<1>3. ASSUME NEW s, NEW offset
      PROVE  Beside(s, offset)' <=> Beside(s, offset)
  BY DEF Beside
<1>4. SUFFICES ASSUME NEW i \in DOMAIN frames', Led(i)'
               PROVE  frames'[i].base + frames'[i].offset = access
  BY <1>1 DEF OffsetsRelative, Led
<1>5. \A j \in DOMAIN frames' :
        j > i => ~Beside(frames'[j].struct, frames'[j].offset)
  BY <1>4 DEF Led, Beside
<1>6. CASE UNCHANGED frames
  BY <1>2, <1>5, <1>6 DEF Led
<1>7. CASE frames # <<>> /\ frames' = Tail(frames)
  <2>1. /\ DOMAIN frames' = 1 .. Len(frames) - 1
        /\ DOMAIN frames = 1 .. Len(frames) /\ Len(frames) \in Nat
        /\ \A j \in 1 .. Len(frames) - 1 : frames'[j] = frames[j + 1]
    BY <1>7, TopOfStack, TailOfStack
  <2>2. i + 1 \in DOMAIN frames /\ frames'[i] = frames[i + 1]
    BY <2>1
  <2>3. ASSUME NEW j \in DOMAIN frames, j > i + 1
        PROVE  ~Beside(frames[j].struct, frames[j].offset)
    <3>1. j - 1 \in DOMAIN frames' /\ j - 1 > i /\ frames'[j - 1] = frames[j]
      BY <2>1, <2>3
    <3>2. QED
      BY <1>5, <3>1
  <2>4. QED
    BY <1>2, <2>2, <2>3 DEF Led
<1>8. ASSUME frames # <<>>, Top.chain # <<>>, NEW matched \in BOOLEAN,
             frames' = <<Advance(matched)>> \o Tail(frames)
      PROVE  frames'[i].base + frames'[i].offset = access
  <2>1. /\ DOMAIN frames' = DOMAIN frames
        /\ \A j \in DOMAIN frames :
             /\ frames'[j].struct = frames[j].struct
             /\ frames'[j].base = frames[j].base
             /\ frames'[j].offset = frames[j].offset
    <3> DEFINE f == Advance(matched)
    <3>1. /\ f.struct = Top.struct /\ f.base = Top.base
          /\ f.offset = Top.offset
      BY <1>8, AdvanceIsGood
    <3> HIDE DEF f
    <3>2. frames' = <<f>> \o Tail(frames)
      BY <1>8 DEF f
    <3>3. QED
      BY <1>8, <3>1, <3>2, TopOfStack, StackWithTop
  <2>2. QED
    BY <1>2, <1>5, <2>1 DEF Led
<1>9. ASSUME frames # <<>>, Top.chain # <<>>,
             NEW base \in Nat, NEW offset \in Nat, Entering(base, offset)
      PROVE  frames'[i].base + frames'[i].offset = access
  <2>1. PICK chain \in Chains[Field.type] :
          frames' = <<Selector(Field.type, base, offset, chain),
                      Advance(TRUE)>> \o Tail(frames)
    BY <1>9 DEF Entering
  <2>2. /\ DOMAIN frames' = 1 .. Len(frames) + 1 /\ Len(frames) \in Nat \ {0}
        /\ DOMAIN frames = 1 .. Len(frames) /\ Top = frames[1]
        /\ \A j \in 1 .. Len(frames) + 1 :
             frames'[j] = IF j = 1 THEN Selector(Field.type, base, offset, chain)
                          ELSE IF j = 2 THEN Advance(TRUE) ELSE frames[j - 1]
    <3> DEFINE f == Selector(Field.type, base, offset, chain)
               g == Advance(TRUE)
    <3>1. frames' = <<f, g>> \o Tail(frames)
      BY <2>1
    <3> HIDE DEF f, g
    <3>2. /\ DOMAIN frames' = 1 .. Len(frames) + 1
          /\ \A j \in 1 .. Len(frames) + 1 :
               frames'[j] = IF j = 1 THEN f ELSE IF j = 2 THEN g
                            ELSE frames[j - 1]
      BY <1>9, <3>1, StackPushed
    <3>3. QED
      BY <1>9, <3>2, TopOfStack DEF f, g
  <2>3. /\ frames'[1].base = base /\ frames'[1].offset = offset
        /\ \A j \in 2 .. Len(frames) + 1 :
             /\ frames'[j].struct = frames[j - 1].struct
             /\ frames'[j].base = frames[j - 1].base
             /\ frames'[j].offset = frames[j - 1].offset
    <3> DEFINE f == Selector(Field.type, base, offset, chain)
               g == Advance(TRUE)
    <3>1. /\ g.struct = Top.struct /\ g.base = Top.base
          /\ g.offset = Top.offset
      BY <1>9, AdvanceIsGood
    <3>2. f.base = base /\ f.offset = offset
      BY DEF Selector
    <3> HIDE DEF f, g
    <3>3. \A j \in 1 .. Len(frames) + 1 :
            frames'[j] = IF j = 1 THEN f ELSE IF j = 2 THEN g
                         ELSE frames[j - 1]
      BY <2>2 DEF f, g
    <3>4. 1 \in 1 .. Len(frames) + 1
      BY <2>2
    <3>5. ASSUME NEW j \in 2 .. Len(frames) + 1
          PROVE  /\ frames'[j].struct = frames[j - 1].struct
                 /\ frames'[j].base = frames[j - 1].base
                 /\ frames'[j].offset = frames[j - 1].offset
      <4>1. j \in 1 .. Len(frames) + 1 /\ j # 1 /\ (j = 2 => j - 1 = 1)
        BY <2>2
      <4>2. QED
        BY <2>2, <3>1, <3>3, <4>1
    <3>6. QED
      BY <3>2, <3>3, <3>4, <3>5
  <2>4. ASSUME NEW k \in DOMAIN frames, k >= i
        PROVE  ~Beside(frames[k].struct, frames[k].offset)
    <3>1. k + 1 \in 2 .. Len(frames) + 1 /\ (k + 1) - 1 = k /\ k + 1 > i
      BY <2>2, <2>4
    <3>2. QED
      BY <1>5, <2>2, <2>3, <3>1
  <2>5. CASE i = 1
    <3>1. 1 \in DOMAIN frames /\ Led(1) /\ ~Beside(Top.struct, Top.offset)
      BY <2>2, <2>4, <2>5 DEF Led
    <3>2. base + offset = Top.base + Top.offset
      BY <1>9, <3>1 DEF Entering
    <3>3. QED
      BY <1>2, <2>2, <2>3, <2>5, <3>1, <3>2
  <2>6. CASE i # 1
    <3>1. i - 1 \in DOMAIN frames /\ i \in 2 .. Len(frames) + 1
      BY <2>2, <2>6
    <3>2. Led(i - 1)
      BY <2>2, <2>4 DEF Led
    <3>3. QED
      BY <1>2, <2>3, <3>1, <3>2
  <2>7. QED
    BY <2>5, <2>6
<1>10. QED
  BY <1>1, <1>6, <1>7, <1>8, <1>9 DEF StackStep

\* However deep structures nest, and whatever the hooks call, the offset a
\* selector compares is that of the accessed byte in its structure until an
\* Inside is asked about a field the access lies beside.  Run "dsl_inside"
\* shows what happens then.
THEOREM OffsetsStayRelative == Spec => []OffsetsRelative
<1>1. GoodFrames /\ OffsetsRelative /\ [Next]_vars => OffsetsRelative'
  BY RelativeNext
<1>2. QED
  BY <1>1, RelativeInit, GoodAlways, PTL DEF Spec

-----------------------------------------------------------------------------
(***************************************************************************)
(* Types: nothing leaves the register file.                                *)
(***************************************************************************)
Room(f) ==
  /\ f.base < Size /\ f.offset < Size
  /\ \A g \in DOMAIN Layout[f.struct] :
       f.base + End(Layout[f.struct][g]) <= Size

InRange ==
  /\ access \in Offsets
  /\ \A i \in DOMAIN frames : Room(frames[i])
  /\ callbacks \in Seq(0 .. Size - 1)
  /\ others \in Seq(0 .. Size - 1)

LEMMA ItemsAreIn ==
  ASSUME NEW S, NEW seq \in Seq(S)
  PROVE  \A i \in DOMAIN seq : seq[i] \in S
OBVIOUS

LEMMA RangeInit == LaidOut /\ Init => InRange
<1> SUFFICES ASSUME LaidOut, Init PROVE InRange
  OBVIOUS
<1>1. access \in Offsets /\ access \in 0 .. Size - 1
  BY LayoutAssumption DEF Init
<1>2. PICK chain \in Chains[Registers] :
        frames = <<Selector(Registers, 0, access, chain)>>
  BY DEF Init
<1>3. \A f \in DOMAIN Layout[Registers] :
        End(Layout[Registers][f]) \in Nat /\ End(Layout[Registers][f]) <= Size
  <2>1. ASSUME NEW f \in DOMAIN Layout[Registers]
        PROVE  End(Layout[Registers][f]) \in Nat
    <3>1. Layout[Registers][f] \in FieldInfo
      BY LayoutAssumption
    <3>2. QED
      BY <3>1, EndOfField
  <2>2. QED
    BY <2>1 DEF LaidOut
<1>4. Room(Selector(Registers, 0, access, chain))
  BY <1>1, <1>3, LayoutAssumption DEF Room, Selector
<1>5. QED
  BY <1>1, <1>2, <1>4 DEF InRange, Init

LEMMA RoomsNext ==
  ASSUME LaidOut, GoodFrames, InRange, [Next]_vars
  PROVE  \A i \in DOMAIN frames' : Room(frames'[i])
<1>1. StackStep
  BY StackSteps
<1>2. \A i \in DOMAIN frames : Room(frames[i])
  BY DEF InRange
<1>3. CASE UNCHANGED frames
  BY <1>2, <1>3
<1>4. CASE frames # <<>> /\ frames' = Tail(frames)
  BY <1>2, <1>4, TopOfStack, TailOfStack
<1>5. ASSUME frames # <<>>, Top.chain # <<>>, NEW matched \in BOOLEAN,
             frames' = <<Advance(matched)>> \o Tail(frames)
      PROVE  \A i \in DOMAIN frames' : Room(frames'[i])
  <2>1. Room(Advance(matched)) <=> Room(Top)
    BY <1>5, AdvanceIsGood DEF Room
  <2>2. QED
    <3> DEFINE f == Advance(matched)
    <3>1. Room(f)
      BY <1>2, <1>5, <2>1, TopOfStack
    <3> HIDE DEF f
    <3>2. frames' = <<f>> \o Tail(frames)
      BY <1>5 DEF f
    <3>3. QED
      BY <1>2, <1>5, <3>1, <3>2, TopOfStack, StackWithTop
<1>6. ASSUME frames # <<>>, Top.chain # <<>>,
             NEW base \in Nat, NEW offset \in Nat, Entering(base, offset)
      PROVE  \A i \in DOMAIN frames' : Room(frames'[i])
  <2>1. PICK chain \in Chains[Field.type] :
          frames' = <<Selector(Field.type, base, offset, chain),
                      Advance(TRUE)>> \o Tail(frames)
    BY <1>6 DEF Entering
  <2> DEFINE f == Selector(Field.type, base, offset, chain)
             g == Advance(TRUE)
  <2>2. Room(g)
    <3>1. Room(Top)
      BY <1>2, <1>6, TopOfStack
    <3>2. QED
      BY <1>6, <3>1, AdvanceIsGood DEF Room
  <2>3. Room(f)
    <3>1. /\ Field \in FieldInfo /\ Field.type \in Structs
          /\ Call.field \in DOMAIN Layout[Top.struct]
          /\ offset < Field.size /\ base + Field.size <= Top.base + End(Field)
      BY <1>6 DEF Entering
    <3>2. /\ Top.base \in Nat /\ Top.struct \in Structs
          /\ Top.base + End(Field) <= Size
      <4>1. Room(Top) /\ Good(Top)
        BY <1>2, <1>6, TopOfStack, TopIsGood
      <4>2. QED
        BY <3>1, <4>1 DEF Room, Good, Frames, Field
    <3>3. End(Field) \in Nat /\ Field.size \in Nat \ {0} /\ Size \in Nat
      BY <3>1, EndOfField, LayoutAssumption
    <3>4. base + Field.size <= Size
      BY <3>1, <3>2, <3>3
    <3>5. ASSUME NEW h \in DOMAIN Layout[Field.type]
          PROVE  base + End(Layout[Field.type][h]) <= Size
      <4>1. Layout[Field.type][h] \in FieldInfo
        BY <3>1, LayoutAssumption
      <4>2. End(Layout[Field.type][h]) \in Nat
        BY <4>1, EndOfField
      <4>3. End(Layout[Field.type][h]) <= Field.size
        BY <3>1, <3>2 DEF LaidOut, Field
      <4>4. QED
        BY <3>3, <3>4, <4>2, <4>3
    <3>6. f.base = base /\ f.offset = offset /\ f.struct = Field.type
      BY DEF Selector
    <3>7. QED
      BY <3>1, <3>3, <3>4, <3>5, <3>6 DEF Room
  <2> HIDE DEF f, g
  <2>4. frames' = <<f, g>> \o Tail(frames)
    BY <2>1 DEF f, g
  <2>5. QED
    <3>1. /\ DOMAIN frames' = 1 .. Len(frames) + 1
          /\ \A i \in 1 .. Len(frames) + 1 :
               frames'[i] = IF i = 1 THEN f ELSE IF i = 2 THEN g
                            ELSE frames[i - 1]
      BY <1>6, <2>4, StackPushed
    <3>2. \A i \in 1 .. Len(frames) + 1 :
            i = 1 \/ i = 2 \/ i - 1 \in DOMAIN frames
      BY <1>6, TopOfStack
    <3>3. QED
      BY <1>2, <2>2, <2>3, <3>1, <3>2
<1>7. QED
  BY <1>1, <1>3, <1>4, <1>5, <1>6 DEF StackStep

\* The element a callback gets is in the register file.
LEMMA ElementFits ==
  ASSUME GoodFrames, InRange, NEW method \in {"Case", "CaseArray"},
         Calling(method)
  PROVE  /\ SameField(Top.offset, Field) => ElementBase(0) \in 0 .. Size - 1
         /\ SameElement(Top.offset, Field) =>
              ElementBase(Index(Top.offset, Field)) \in 0 .. Size - 1
<1>1. /\ Field \in FieldInfo /\ Good(Top) /\ Room(Top)
      /\ Call.field \in DOMAIN Layout[Top.struct]
  BY FieldFits, TopIsGood, TopOfStack DEF Calling, InRange
<1>2. /\ Field.from \in Nat /\ Field.size \in Nat \ {0}
      /\ Field.count \in Nat \ {0}
      /\ Top.base \in Nat /\ Top.offset \in Nat
  BY <1>1 DEF Good, Frames, FieldInfo
<1>3. Top.base + End(Field) <= Size /\ End(Field) \in Nat /\ Size \in Nat
  <2>1. End(Field) \in Nat /\ Size \in Nat
    BY <1>2, LayoutAssumption DEF End
  <2>2. QED
    BY <1>1, <2>1 DEF Room, Field
<1>4. ASSUME NEW i \in 0 .. Field.count - 1
      PROVE  ElementBase(i) \in 0 .. Size - 1
  <2>1. i \in Nat /\ i < Field.count
    BY <1>2
  <2>2. Field.size * i + Field.size <= Field.size * Field.count
    BY <1>2, <2>1, TimesLess
  <2>3. Field.size * i \in Nat /\ Field.size * Field.count \in Nat
    BY <1>2, <2>1
  <2>4. QED
    BY <1>2, <1>3, <2>2, <2>3 DEF ElementBase, End
<1>5. 0 \in 0 .. Field.count - 1
  BY <1>2
<1>6. SameElement(Top.offset, Field)
        => Index(Top.offset, Field) \in 0 .. Field.count - 1
  BY <1>1, <1>2, ElementOf DEF SameElement
<1>7. QED
  BY <1>4, <1>5, <1>6

LEMMA RangeNext ==
  ASSUME LaidOut, GoodFrames, InRange, [Next]_vars
  PROVE  InRange'
<1> DEFINE Bytes == 0 .. Size - 1
<1>1. UNCHANGED access /\ \A i \in DOMAIN frames' : Room(frames'[i])
  BY StackSteps, RoomsNext
<1>2. SUFFICES callbacks' \in Seq(Bytes) /\ others' \in Seq(Bytes)
  BY <1>1 DEF InRange, Room
<1>3. callbacks \in Seq(Bytes) /\ others \in Seq(Bytes)
  BY DEF InRange
<1>4. CASE UNCHANGED <<callbacks, others>>
  BY <1>3, <1>4
<1>5. CASE Case \/ CaseArray
  <2>1. CASE Skip
    BY <1>4, <2>1 DEF Skip
  <2>2. ASSUME NEW address \in Bytes, Run(address)
        PROVE  callbacks' \in Seq(Bytes) /\ others' \in Seq(Bytes)
    BY <1>3, <2>2 DEF Run
  <2>3. QED
    BY <1>5, <2>1, <2>2, ElementFits DEF Case, CaseArray
<1>6. CASE Inside \/ InsideArray
  BY <1>4, <1>6 DEF Inside, InsideArray, Skip, Enter
<1>7. CASE Else
  <2>1. CASE Skip
    BY <1>4, <2>1 DEF Skip
  <2>2. CASE others' = Append(others, Top.offset) /\ UNCHANGED callbacks
    <3>1. Good(Top) /\ Room(Top)
      BY <1>7, TopIsGood, TopOfStack DEF Else, Calling, InRange
    <3>2. Top.offset \in Bytes
      BY <3>1, LayoutAssumption DEF Good, Frames, Room
    <3>3. QED
      BY <1>3, <2>2, <3>2
  <2>3. QED
    BY <1>7, <2>1, <2>2 DEF Else
<1>8. CASE Return \/ Finished \/ UNCHANGED vars
  BY <1>4, <1>8 DEF Return, Finished, vars
<1>9. QED
  BY <1>5, <1>6, <1>7, <1>8 DEF Next

\* Every variable keeps its type: no selector, and no callback, gets an
\* address outside of the register file, however structures nest and
\* whatever the hooks call, an Inside that is mistaken included.
THEOREM TypeCorrect == LaidOut /\ Spec => []TypeOK
<1>1. SUFFICES ASSUME LaidOut PROVE Spec => []TypeOK
  OBVIOUS
<1>2. GoodFrames /\ InRange => TypeOK
  <2> SUFFICES ASSUME GoodFrames, InRange PROVE TypeOK
    OBVIOUS
  <2>1. ASSUME NEW i \in DOMAIN frames
        PROVE  /\ frames[i].struct \in Structs
               /\ frames[i].base \in 0 .. Size - 1
               /\ frames[i].offset \in 0 .. Size - 1
               /\ frames[i].matched \in BOOLEAN
    <3>1. Good(frames[i]) /\ Room(frames[i])
      BY DEF GoodFrames, InRange
    <3>2. QED
      BY <3>1, LayoutAssumption DEF Good, Frames, Room
  <2>2. /\ \A i \in DOMAIN callbacks : callbacks[i] \in 0 .. Size - 1
        /\ \A i \in DOMAIN others : others[i] \in 0 .. Size - 1
    BY ItemsAreIn DEF InRange
  <2>3. QED
    BY <2>1, <2>2 DEF TypeOK, InRange
<1>3. Init => InRange
  BY <1>1, RangeInit
<1>4. GoodFrames /\ InRange /\ [Next]_vars => InRange'
  BY <1>1, RangeNext
<1>5. QED
  BY <1>2, <1>3, <1>4, GoodAlways, PTL DEF Spec

-----------------------------------------------------------------------------
(***************************************************************************)
(* Dispatch.  Until one call of the chains has run a callback of its own,  *)
(* nothing has happened, and the innermost selector still has before it    *)
(* the call for whatever its offset hits; afterwards what is to happen has *)
(* happened, and no call that is left of any chain does anything.          *)
(***************************************************************************)
\* The offset is that of an element of the field, or inside a structure.
StartsIn(offset, f) ==
  \E i \in 0 .. f.count - 1 : offset = f.from + f.size * i

Hit(offset, f) ==
  IF f.type = Scalar THEN StartsIn(offset, f) ELSE InArray(offset, f)

\* What is left of a chain: a call for each field of a set, and Else.
Left(s, chain) ==
  LET calls == 1 .. Len(chain) - 1
  IN  /\ chain # <<>> /\ chain[Len(chain)].method = "Else"
      /\ \A i \in calls :
           Suits(chain[i].method, Layout[s][chain[i].field])
      /\ \A i, j \in calls : chain[i].field = chain[j].field => i = j

Remaining(chain) == {chain[i].field : i \in 1 .. Len(chain) - 1}

Live(f) ==
  /\ ~f.matched
  /\ Left(f.struct, f.chain)
  /\ \A g \in DOMAIN Layout[f.struct] :
       Hit(f.offset, Layout[f.struct][g]) => g \in Remaining(f.chain)

Idle(f) ==
  \/ f.chain = <<>>
  \/ /\ f.matched
     /\ Left(f.struct, f.chain)
     /\ \A g \in Remaining(f.chain) : ~Hit(f.offset, Layout[f.struct][g])

\* A selector that decides for the whole register file: the outermost one,
\* or that of a nested structure with the access in it.
Decides(f) ==
  \/ f.struct = Registers /\ f.base = 0
  \/ /\ \A g \in DOMAIN Layout[f.struct] : Layout[f.struct][g].type = Scalar
     /\ access \in ElementStarts <=>
          \E g \in DOMAIN Layout[f.struct] :
            StartsIn(f.offset, Layout[f.struct][g])

Undecided ==
  /\ callbacks = <<>> /\ others = <<>>
  /\ frames # <<>> /\ Live(Top) /\ Decides(Top)
  /\ \A i \in DOMAIN frames \ {1} : Idle(frames[i])

Settled ==
  IF access \in ElementStarts
  THEN callbacks = <<access>> /\ others = <<>>
  ELSE callbacks = <<>> /\ Len(others) = 1

Decided == Settled /\ \A i \in DOMAIN frames : Idle(frames[i])

(***************************************************************************)
(* Where structures nest one level deep, the outermost selector is the     *)
(* only one that may call Inside; if the access is not beside a field it   *)
(* asks about, every selector has the place of the access.                 *)
(***************************************************************************)
Level(f) ==
  \/ f.struct = Registers /\ f.base = 0 /\ f.offset = access
  \/ Flat(f.struct)

Levels == \A i \in DOMAIN frames : Level(frames[i])

Straight ==
  \A i \in DOMAIN frames :
    /\ ~Beside(frames[i].struct, frames[i].offset)
    /\ frames[i].base + frames[i].offset = access

LEMMA LevelsNext ==
  ASSUME OneLevel, GoodFrames, Levels, [Next]_vars
  PROVE  Levels'
<1>1. UNCHANGED access /\ StackStep
  BY StackSteps
<1>2. SUFFICES \A i \in DOMAIN frames' : Level(frames'[i])
  BY <1>1 DEF Levels, Level, Flat
<1>3. CASE UNCHANGED frames
  BY <1>3 DEF Levels
<1>4. CASE frames # <<>> /\ frames' = Tail(frames)
  BY <1>4, TopOfStack, TailOfStack DEF Levels
<1>5. ASSUME frames # <<>>, Top.chain # <<>>, NEW matched \in BOOLEAN,
             frames' = <<Advance(matched)>> \o Tail(frames)
      PROVE  \A i \in DOMAIN frames' : Level(frames'[i])
  <2> DEFINE f == Advance(matched)
  <2>1. Level(f)
    BY <1>5, AdvanceIsGood, TopOfStack DEF Levels, Level
  <2> HIDE DEF f
  <2>2. frames' = <<f>> \o Tail(frames)
    BY <1>5 DEF f
  <2>3. QED
    BY <1>5, <2>1, <2>2, TopOfStack, StackWithTop DEF Levels
<1>6. ASSUME frames # <<>>, Top.chain # <<>>,
             NEW base \in Nat, NEW offset \in Nat, Entering(base, offset)
      PROVE  \A i \in DOMAIN frames' : Level(frames'[i])
  <2>1. PICK chain \in Chains[Field.type] :
          frames' = <<Selector(Field.type, base, offset, chain),
                      Advance(TRUE)>> \o Tail(frames)
    BY <1>6 DEF Entering
  <2> DEFINE f == Selector(Field.type, base, offset, chain)
             g == Advance(TRUE)
  <2>2. Level(Top)
    BY <1>6, TopOfStack DEF Levels
  <2>3. Level(g)
    BY <1>6, <2>2, AdvanceIsGood DEF Level
  <2>4. Level(f)
    <3>1. /\ Call.field \in DOMAIN Layout[Top.struct]
          /\ Field.type \in Structs /\ Scalar \notin Structs
      BY <1>6, LayoutAssumption DEF Entering
    <3>2. Top.struct = Registers
      BY <2>2, <3>1 DEF Level, Flat, Field
    <3>3. Flat(Field.type)
      BY <3>1, <3>2 DEF OneLevel, Field
    <3>4. QED
      BY <3>3 DEF Level, Selector
  <2> HIDE DEF f, g
  <2>5. frames' = <<f, g>> \o Tail(frames)
    BY <2>1 DEF f, g
  <2>6. /\ DOMAIN frames' = 1 .. Len(frames) + 1
        /\ \A i \in 1 .. Len(frames) + 1 :
             frames'[i] = IF i = 1 THEN f ELSE IF i = 2 THEN g
                          ELSE frames[i - 1]
    BY <1>6, <2>5, StackPushed
  <2>7. \A i \in 1 .. Len(frames) + 1 :
          i = 1 \/ i = 2 \/ i - 1 \in DOMAIN frames
    BY <1>6, TopOfStack
  <2>8. QED
    BY <2>3, <2>4, <2>6, <2>7 DEF Levels
<1>7. QED
  BY <1>1, <1>3, <1>4, <1>5, <1>6 DEF StackStep

LEMMA StraightWhen ==
  ASSUME GoodFrames, Levels, OffsetsRelative, ~Beside(Registers, access)
  PROVE  Straight
<1>1. ASSUME NEW s \in Structs, Flat(s), NEW offset
      PROVE  ~Beside(s, offset)
  <2>1. ASSUME NEW f \in InsideFields[s]
        PROVE  FALSE
    <3>1. PICK chain \in Chains[s] : \E i \in DOMAIN chain :
            chain[i].method = "Inside" /\ chain[i].field = f
      BY <2>1 DEF InsideFields
    <3>2. f \in DOMAIN Layout[s] /\ Layout[s][f].type \in Structs
      BY <2>1, <3>1, LayoutAssumption DEF InsideFields
    <3>3. QED
      BY <1>1, <3>2, LayoutAssumption DEF Flat
  <2>2. QED
    BY <2>1 DEF Beside
<1>2. ASSUME NEW i \in DOMAIN frames
      PROVE  ~Beside(frames[i].struct, frames[i].offset)
  <2>1. Level(frames[i]) /\ frames[i].struct \in Structs
    BY DEF Levels, GoodFrames, Good, Frames
  <2>2. QED
    BY <1>1, <2>1 DEF Level
<1>3. QED
  BY <1>2 DEF Straight, OffsetsRelative

LEMMA TopIsStraight ==
  ASSUME GoodFrames, Straight, frames # <<>>
  PROVE  /\ ~Beside(Top.struct, Top.offset)
         /\ Top.base \in Nat /\ Top.offset \in Nat
         /\ Top.base + Top.offset = access
BY TopIsGood, TopOfStack DEF Straight, Good, Frames

-----------------------------------------------------------------------------
(***************************************************************************)
(* Elements and fields.                                                    *)
(***************************************************************************)
\* A place inside an element gives the element and the place.
LEMMA Division ==
  ASSUME NEW k \in Nat \ {0}, NEW i \in Nat, NEW r \in 0 .. k - 1
  PROVE  (k * i + r) \div k = i /\ (k * i + r) % k = r
<1> DEFINE a == k * i + r
           q == a \div k
           s == a % k
<1>1. k * i \in Nat /\ a \in Nat
  OBVIOUS
<1>2. q \in Nat /\ s \in Nat /\ s < k /\ k * q + s = a
  BY <1>1, DivMod
<1>3. a = k * i + r
  OBVIOUS
<1> HIDE DEF a, q, s
<1>4. k * q \in Nat
  BY <1>2
<1>5. ~(q < i)
  <2>1. q < i => k * q + k <= k * i
    BY <1>2, TimesLess
  <2>2. QED
    BY <1>1, <1>2, <1>3, <1>4, <2>1
<1>6. ~(i < q)
  <2>1. i < q => k * i + k <= k * q
    BY <1>2, TimesLess
  <2>2. QED
    BY <1>1, <1>2, <1>3, <1>4, <2>1
<1>7. q = i
  BY <1>2, <1>5, <1>6
<1>8. s = r
  BY <1>1, <1>2, <1>3, <1>7
<1>9. QED
  BY <1>7, <1>8 DEF a, q, s

LEMMA InElement ==
  ASSUME NEW f \in FieldInfo, NEW i \in 0 .. f.count - 1,
         NEW r \in 0 .. f.size - 1
  PROVE  LET offset == f.from + f.size * i + r
         IN  /\ offset \in Nat /\ InArray(offset, f)
             /\ Index(offset, f) = i
             /\ NestedArrayOffset(offset, f) = r
<1> DEFINE offset == f.from + f.size * i + r
<1>1. f.from \in Nat /\ f.size \in Nat \ {0} /\ f.count \in Nat
  BY DEF FieldInfo
<1>2. i \in Nat /\ i < f.count /\ r \in Nat /\ r < f.size
  BY <1>1
<1>3. f.size * i + f.size <= f.size * f.count
  BY <1>1, <1>2, TimesLess
<1>4. f.size * i \in Nat /\ f.size * f.count \in Nat
  BY <1>1, <1>2
<1>5. offset \in Nat /\ offset - f.from = f.size * i + r
  BY <1>1, <1>2, <1>4
<1>6. InArray(offset, f)
  BY <1>1, <1>2, <1>3, <1>4 DEF InArray
<1>7. (f.size * i + r) \div f.size = i /\ (f.size * i + r) % f.size = r
  BY <1>1, <1>2, Division
<1> HIDE DEF offset
<1>8. QED
  BY <1>5, <1>6, <1>7 DEF Index, NestedArrayOffset, offset

\* The comparisons of Case and CaseArray are about elements.
LEMMA ComparesElements ==
  ASSUME NEW f \in FieldInfo, NEW offset \in Nat
  PROVE  /\ StartsIn(offset, f) => InArray(offset, f)
         /\ SameElement(offset, f) <=> StartsIn(offset, f)
         /\ f.count = 1 => (SameField(offset, f) <=> StartsIn(offset, f))
<1>1. /\ f.from \in Nat /\ f.size \in Nat \ {0} /\ f.count \in Nat \ {0}
      /\ 0 \in 0 .. f.size - 1
  BY DEF FieldInfo
<1>2. ASSUME StartsIn(offset, f)
      PROVE  SameElement(offset, f) /\ InArray(offset, f)
  <2>1. PICK i \in 0 .. f.count - 1 : offset = f.from + f.size * i
    BY <1>2 DEF StartsIn
  <2>2. f.size * i \in Nat
    BY <1>1
  <2>3. offset = f.from + f.size * i + 0
    BY <1>1, <2>1, <2>2
  <2>4. InArray(offset, f) /\ NestedArrayOffset(offset, f) = 0
    BY <1>1, <2>3, InElement
  <2>5. QED
    BY <2>4 DEF SameElement, NestedArrayOffset
<1>3. ASSUME SameElement(offset, f)
      PROVE  StartsIn(offset, f)
  <2>1. InArray(offset, f) /\ NestedArrayOffset(offset, f) = 0
    BY <1>3 DEF SameElement, NestedArrayOffset
  <2>2. /\ Index(offset, f) \in 0 .. f.count - 1
        /\ offset = f.from + f.size * Index(offset, f) + 0
    BY <2>1, ElementOf
  <2>3. ASSUME NEW i \in 0 .. f.count - 1, offset = f.from + f.size * i + 0
        PROVE  offset = f.from + f.size * i
    <3>1. f.from + f.size * i \in Nat
      BY <1>1
    <3>2. QED
      BY <2>3, <3>1
  <2>4. QED
    BY <2>2, <2>3 DEF StartsIn
<1>4. ASSUME f.count = 1
      PROVE  SameField(offset, f) <=> StartsIn(offset, f)
  <2>1. \A i : i \in 0 .. f.count - 1 <=> i = 0
    BY <1>4
  <2>2. f.from + f.size * 0 = f.from
    BY <1>1
  <2>3. QED
    BY <2>1, <2>2 DEF SameField, StartsIn
<1>5. QED
  BY <1>2, <1>3, <1>4

-----------------------------------------------------------------------------
(***************************************************************************)
(* Structures.                                                             *)
(***************************************************************************)
LEMMA FieldTyped ==
  ASSUME NEW s \in Structs, NEW f \in DOMAIN Layout[s]
  PROVE  Layout[s][f] \in FieldInfo
BY LayoutAssumption

LEMMA HitInside ==
  ASSUME NEW f \in FieldInfo, NEW offset \in Nat, Hit(offset, f)
  PROVE  InArray(offset, f)
BY ComparesElements DEF Hit

LEMMA OneField ==
  ASSUME LaidOut, NEW s \in Structs, NEW offset \in Nat,
         NEW f \in DOMAIN Layout[s], NEW g \in DOMAIN Layout[s],
         InArray(offset, Layout[s][f]), InArray(offset, Layout[s][g])
  PROVE  f = g
<1>1. Layout[s][f] \in FieldInfo /\ Layout[s][g] \in FieldInfo
  BY FieldTyped
<1>2. ASSUME NEW F \in FieldInfo
      PROVE  F.from \in Nat /\ End(F) \in Nat
  BY <1>2, EndOfField DEF FieldInfo
<1>3. /\ ~(End(Layout[s][f]) <= Layout[s][g].from)
      /\ ~(End(Layout[s][g]) <= Layout[s][f].from)
  <2>1. /\ Layout[s][f].from <= offset /\ offset < End(Layout[s][f])
        /\ Layout[s][g].from <= offset /\ offset < End(Layout[s][g])
    BY DEF InArray, End
  <2>2. QED
    BY <1>1, <1>2, <2>1
<1>4. QED
  BY <1>3 DEF LaidOut

\* The elements of a structure, seen from where it is.
LEMMA OwnElementsAre ==
  ASSUME NEW s \in Structs, NEW base \in Nat, NEW x
  PROVE  x \in OwnElements(s, base) <=>
           \E offset \in Nat : \E f \in DOMAIN Layout[s] :
             /\ x = base + offset
             /\ Layout[s][f].type = Scalar /\ StartsIn(offset, Layout[s][f])
<1>1. x \in OwnElements(s, base) <=>
        \E f \in DOMAIN Layout[s] :
          /\ Layout[s][f].type = Scalar
          /\ \E i \in 0 .. Layout[s][f].count - 1 :
               x = base + Layout[s][f].from + Layout[s][f].size * i
  BY DEF OwnElements
<1>2. ASSUME NEW F \in FieldInfo, NEW i \in 0 .. F.count - 1
      PROVE  /\ F.from + F.size * i \in Nat
             /\ base + F.from + F.size * i = base + (F.from + F.size * i)
  <2>1. F.from \in Nat /\ F.size * i \in Nat
    BY <1>2 DEF FieldInfo
  <2>2. QED
    BY <2>1
<1>3. ASSUME NEW f \in DOMAIN Layout[s]
      PROVE  (\E i \in 0 .. Layout[s][f].count - 1 :
                x = base + Layout[s][f].from + Layout[s][f].size * i)
             <=> \E offset \in Nat :
                   x = base + offset /\ StartsIn(offset, Layout[s][f])
  BY <1>2, <1>3, FieldTyped DEF StartsIn
<1>4. QED
  BY <1>1, <1>3

LEMMA SameSum ==
  ASSUME NEW a \in Nat, NEW b \in Nat, NEW c \in Nat, a + b = a + c
  PROVE  b = c
OBVIOUS

LEMMA NestedElementsAre ==
  ASSUME NEW x
  PROVE  x \in NestedElements(Registers, 0) <=>
           \E f \in DOMAIN Layout[Registers] :
             /\ Layout[Registers][f].type # Scalar
             /\ \E i \in 0 .. Layout[Registers][f].count - 1 :
                  x \in OwnElements(Layout[Registers][f].type,
                                    Layout[Registers][f].from
                                      + Layout[Registers][f].size * i)
<1>1. ASSUME NEW F \in FieldInfo, NEW i \in 0 .. F.count - 1
      PROVE  0 + F.from + F.size * i = F.from + F.size * i
  BY <1>1 DEF FieldInfo
<1>2. \A f \in DOMAIN Layout[Registers] : Layout[Registers][f] \in FieldInfo
  BY FieldTyped, LayoutAssumption
<1>3. x \in NestedElements(Registers, 0) <=>
        \E f \in DOMAIN Layout[Registers] :
          /\ Layout[Registers][f].type # Scalar
          /\ \E i \in 0 .. Layout[Registers][f].count - 1 :
               x \in OwnElements(Layout[Registers][f].type,
                                 0 + Layout[Registers][f].from
                                   + Layout[Registers][f].size * i)
  BY DEF NestedElements
<1>4. QED
  BY <1>1, <1>2, <1>3

\* Elements of nested structures are inside them.
LEMMA NestedIsInside ==
  ASSUME LaidOut, NEW f \in DOMAIN Layout[Registers],
         Layout[Registers][f].type \in Structs,
         NEW i \in 0 .. Layout[Registers][f].count - 1, NEW x,
         x \in OwnElements(Layout[Registers][f].type,
                           Layout[Registers][f].from
                             + Layout[Registers][f].size * i)
  PROVE  /\ x \in Nat /\ InArray(x, Layout[Registers][f])
         /\ Index(x, Layout[Registers][f]) = i
<1> DEFINE F == Layout[Registers][f]
<1>1. F \in FieldInfo /\ F.type \in Structs
  BY FieldTyped, LayoutAssumption
<1>2. F.from + F.size * i \in Nat
  BY <1>1 DEF FieldInfo
<1>3. PICK offset \in Nat, g \in DOMAIN Layout[F.type] :
        /\ x = (F.from + F.size * i) + offset
        /\ StartsIn(offset, Layout[F.type][g])
  BY <1>1, <1>2, OwnElementsAre
<1>4. Layout[F.type][g] \in FieldInfo
  BY <1>1, <1>3, FieldTyped
<1>5. offset < End(Layout[F.type][g]) /\ End(Layout[F.type][g]) <= F.size
  BY <1>1, <1>3, <1>4, ComparesElements, LayoutAssumption
     DEF LaidOut, InArray, End
<1>6. End(Layout[F.type][g]) \in Nat /\ F.size \in Nat
  BY <1>1, <1>4, EndOfField DEF FieldInfo
<1>7. offset \in 0 .. F.size - 1
  BY <1>3, <1>5, <1>6
<1> HIDE DEF F
<1>8. x \in Nat /\ InArray(x, F) /\ Index(x, F) = i
  BY <1>1, <1>3, <1>7, InElement DEF F
<1>9. QED
  BY <1>8 DEF F

LEMMA ElementHit ==
  ASSUME NEW a \in Nat, NEW g \in DOMAIN Layout[Registers],
         Layout[Registers][g].type = Scalar,
         StartsIn(a, Layout[Registers][g])
  PROVE  a \in ElementStarts
<1>1. a = 0 + a /\ 0 \in Nat
  OBVIOUS
<1>2. a \in OwnElements(Registers, 0)
  BY <1>1, OwnElementsAre, LayoutAssumption
<1>3. QED
  BY <1>2 DEF ElementStarts

LEMMA NothingHit ==
  ASSUME LaidOut, NEW a \in Nat,
         \A g \in DOMAIN Layout[Registers] : ~Hit(a, Layout[Registers][g])
  PROVE  a \notin ElementStarts
<1>1. a \notin OwnElements(Registers, 0)
  <2>1. SUFFICES ASSUME a \in OwnElements(Registers, 0) PROVE FALSE
    OBVIOUS
  <2>2. PICK offset \in Nat, g \in DOMAIN Layout[Registers] :
          /\ a = 0 + offset /\ Layout[Registers][g].type = Scalar
          /\ StartsIn(offset, Layout[Registers][g])
    BY <2>1, OwnElementsAre, LayoutAssumption
  <2>3. a = offset
    BY <2>2
  <2>4. QED
    BY <2>2, <2>3 DEF Hit
<1>2. a \notin NestedElements(Registers, 0)
  <2>1. SUFFICES ASSUME a \in NestedElements(Registers, 0) PROVE FALSE
    OBVIOUS
  <2>2. PICK f \in DOMAIN Layout[Registers] :
          /\ Layout[Registers][f].type # Scalar
          /\ \E i \in 0 .. Layout[Registers][f].count - 1 :
               a \in OwnElements(Layout[Registers][f].type,
                                 Layout[Registers][f].from
                                   + Layout[Registers][f].size * i)
    BY <2>1, NestedElementsAre
  <2>3. Layout[Registers][f].type \in Structs
    BY <2>2, FieldTyped, LayoutAssumption DEF FieldInfo
  <2>4. InArray(a, Layout[Registers][f])
    BY <2>2, <2>3, NestedIsInside
  <2>5. QED
    BY <2>2, <2>4 DEF Hit
<1>3. QED
  BY <1>1, <1>2 DEF ElementStarts

\* An access inside a nested structure is decided there.
LEMMA NestedDecides ==
  ASSUME LaidOut, OneLevel, NEW a \in Nat,
         NEW f \in DOMAIN Layout[Registers],
         Layout[Registers][f].type \in Structs,
         InArray(a, Layout[Registers][f])
  PROVE  LET F == Layout[Registers][f]
         IN  /\ \A g \in DOMAIN Layout[F.type] :
                  Layout[F.type][g].type = Scalar
             /\ a \in ElementStarts <=>
                  \E g \in DOMAIN Layout[F.type] :
                    StartsIn(NestedArrayOffset(a, F), Layout[F.type][g])
<1> DEFINE F    == Layout[Registers][f]
           rest == NestedArrayOffset(a, F)
           i    == Index(a, F)
           base == F.from + F.size * i
<1>1. F \in FieldInfo /\ F.type \in Structs /\ F.type # Scalar
  BY FieldTyped, LayoutAssumption
<1>2. \A g \in DOMAIN Layout[F.type] : Layout[F.type][g].type = Scalar
  BY <1>1 DEF OneLevel, Flat
<1>3. /\ i \in 0 .. F.count - 1 /\ rest \in 0 .. F.size - 1
      /\ a = base + rest
  BY <1>1, ElementOf
<1>4. base \in Nat /\ rest \in Nat
  BY <1>1, <1>3 DEF FieldInfo
<1>5. a \in OwnElements(F.type, base) <=>
        \E g \in DOMAIN Layout[F.type] : StartsIn(rest, Layout[F.type][g])
  <2>1. a \in OwnElements(F.type, base) <=>
          \E offset \in Nat : \E g \in DOMAIN Layout[F.type] :
            /\ a = base + offset
            /\ Layout[F.type][g].type = Scalar
            /\ StartsIn(offset, Layout[F.type][g])
    BY <1>1, <1>4, OwnElementsAre
  <2>2. \A offset \in Nat : a = base + offset => offset = rest
    BY <1>3, <1>4, SameSum
  <2> HIDE DEF F, base, rest
  <2>3. QED
    BY <1>2, <1>3, <1>4, <2>1, <2>2
<1>6. a \in OwnElements(F.type, base) => a \in NestedElements(Registers, 0)
  BY <1>1, <1>3, NestedElementsAre
<1>7. a \in NestedElements(Registers, 0) => a \in OwnElements(F.type, base)
  <2>1. SUFFICES ASSUME a \in NestedElements(Registers, 0)
                 PROVE  a \in OwnElements(F.type, base)
    OBVIOUS
  <2>2. PICK e \in DOMAIN Layout[Registers] :
          /\ Layout[Registers][e].type # Scalar
          /\ \E j \in 0 .. Layout[Registers][e].count - 1 :
               a \in OwnElements(Layout[Registers][e].type,
                                 Layout[Registers][e].from
                                   + Layout[Registers][e].size * j)
    BY <2>1, NestedElementsAre
  <2>3. PICK j \in 0 .. Layout[Registers][e].count - 1 :
          a \in OwnElements(Layout[Registers][e].type,
                            Layout[Registers][e].from
                              + Layout[Registers][e].size * j)
    BY <2>2
  <2>4. Layout[Registers][e].type \in Structs
    BY <2>2, FieldTyped, LayoutAssumption DEF FieldInfo
  <2>5. /\ InArray(a, Layout[Registers][e])
        /\ Index(a, Layout[Registers][e]) = j
    BY <2>3, <2>4, NestedIsInside
  <2>6. e = f
    BY <2>5, OneField, LayoutAssumption
  <2>7. QED
    BY <2>3, <2>5, <2>6
<1>8. a \notin OwnElements(Registers, 0)
  <2>1. SUFFICES ASSUME a \in OwnElements(Registers, 0) PROVE FALSE
    OBVIOUS
  <2>2. PICK offset \in Nat, g \in DOMAIN Layout[Registers] :
          /\ a = 0 + offset /\ Layout[Registers][g].type = Scalar
          /\ StartsIn(offset, Layout[Registers][g])
    BY <2>1, OwnElementsAre, LayoutAssumption
  <2>3. InArray(a, Layout[Registers][g])
    BY <2>2, FieldTyped, ComparesElements, LayoutAssumption
  <2>4. g = f
    BY <2>3, OneField, LayoutAssumption
  <2>5. QED
    BY <1>1, <2>2, <2>4
<1>9. a \in ElementStarts <=>
        \E g \in DOMAIN Layout[F.type] : StartsIn(rest, Layout[F.type][g])
  BY <1>5, <1>6, <1>7, <1>8 DEF ElementStarts
<1>10. QED
  BY <1>2, <1>9

-----------------------------------------------------------------------------
(***************************************************************************)
(* Chains.                                                                 *)
(***************************************************************************)
LEMMA CallNext ==
  ASSUME NEW s, NEW chain \in Seq(Calls), Left(s, chain),
         chain[1].method # "Else"
  PROVE  /\ Suits(chain[1].method, Layout[s][chain[1].field])
         /\ chain[1].field \in Remaining(chain)
         /\ Left(s, Tail(chain))
         /\ Remaining(chain) = {chain[1].field} \cup Remaining(Tail(chain))
         /\ chain[1].field \notin Remaining(Tail(chain))
<1> DEFINE n    == Len(chain)
           rest == Tail(chain)
<1>1. n \in Nat /\ chain # <<>> /\ chain[n].method = "Else"
  BY DEF Left
<1>2. n >= 2
  BY <1>1
<1>3. /\ Len(rest) = n - 1
      /\ \A i \in 1 .. n - 1 : rest[i] = chain[i + 1]
  BY <1>1
<1>4. /\ \A i \in 1 .. n - 1 :
           Suits(chain[i].method, Layout[s][chain[i].field])
      /\ \A i, j \in 1 .. n - 1 : chain[i].field = chain[j].field => i = j
  BY DEF Left
<1> HIDE DEF n, rest
<1>5. \A i \in 1 .. n - 2 : i \in 1 .. n - 1 /\ i + 1 \in 1 .. n - 1 /\ i + 1 # 1
  BY <1>1, <1>2
<1>6. 1 \in 1 .. n - 1 /\ n - 1 \in 1 .. n - 1 /\ (n - 1) - 1 = n - 2
      /\ (n - 1) + 1 = n
  BY <1>1, <1>2
<1>7. rest # <<>> /\ rest[Len(rest)].method = "Else"
  <2>1. rest[n - 1] = chain[n]
    BY <1>3, <1>6
  <2>2. rest # <<>>
    <3>1. Len(rest) # 0
      BY <1>1, <1>2, <1>3
    <3>2. QED
      BY <3>1
  <2>3. QED
    BY <1>1, <1>3, <2>1, <2>2
<1>8. Left(s, rest)
  <2>1. ASSUME NEW i \in 1 .. n - 2
        PROVE  Suits(rest[i].method, Layout[s][rest[i].field])
    BY <1>3, <1>4, <1>5
  <2>2. ASSUME NEW i \in 1 .. n - 2, NEW j \in 1 .. n - 2,
               rest[i].field = rest[j].field
        PROVE  i = j
    <3>1. i + 1 = j + 1
      BY <1>3, <1>4, <1>5, <2>2
    <3>2. QED
      BY <1>1, <3>1
  <2>3. Len(rest) - 1 = n - 2
    BY <1>3, <1>6
  <2>4. QED
    BY <1>7, <2>1, <2>2, <2>3 DEF Left
<1>9. Remaining(rest) = {chain[i + 1].field : i \in 1 .. n - 2}
  BY <1>3, <1>5, <1>6 DEF Remaining
<1>10. Remaining(chain) = {chain[i].field : i \in 1 .. n - 1}
  BY DEF Remaining, n
<1>11. ASSUME NEW i \in 1 .. n - 1, i # 1
       PROVE  \E j \in 1 .. n - 2 : i = j + 1
  <2>1. i - 1 \in 1 .. n - 2 /\ i = (i - 1) + 1
    BY <1>1, <1>2, <1>11
  <2>2. QED
    BY <2>1
<1>12. Remaining(chain) = {chain[1].field} \cup Remaining(rest)
  BY <1>5, <1>6, <1>9, <1>10, <1>11
<1>13. chain[1].field \notin Remaining(rest)
  BY <1>4, <1>5, <1>6, <1>9
<1>14. QED
  BY <1>4, <1>6, <1>8, <1>12, <1>13 DEF rest

LEMMA ElseNext ==
  ASSUME NEW s, NEW chain \in Seq(Calls), Left(s, chain),
         chain[1].method = "Else"
  PROVE  Tail(chain) = <<>> /\ Remaining(chain) = {}
<1>1. Len(chain) \in Nat \ {0}
  BY DEF Left
<1>2. ~(1 \in 1 .. Len(chain) - 1)
  BY DEF Left, Suits
<1>3. \A n \in Nat \ {0} : ~(1 \in 1 .. n - 1) => n = 1
  OBVIOUS
<1>4. Len(chain) = 1
  BY <1>1, <1>2, <1>3
<1>5. Tail(chain) \in Seq(Calls) /\ Len(Tail(chain)) = 0
  BY <1>4, HeadTailProperties DEF Left
<1>6. Tail(chain) = <<>>
  BY <1>5, EmptySeq
<1>7. \A i : i \notin 1 .. 1 - 1
  OBVIOUS
<1>8. Remaining(chain) = {}
  BY <1>4, <1>7 DEF Remaining
<1>9. QED
  BY <1>6, <1>8

\* The chain a callback runs has a call for everything.
LEMMA CompleteIsLeft ==
  ASSUME ChainsComplete, NEW s \in Structs, NEW chain \in Chains[s]
  PROVE  Left(s, chain) /\ DOMAIN Layout[s] \subseteq Remaining(chain)
<1>1. Complete(s, chain)
  BY DEF ChainsComplete
<1>2. Left(s, chain)
  BY <1>1 DEF Complete, Left
<1>3. ASSUME NEW f \in DOMAIN Layout[s]
      PROVE  f \in Remaining(chain)
  BY <1>1, <1>3 DEF Complete, Remaining
<1>4. QED
  BY <1>2, <1>3

LEMMA SelectorIsLive ==
  ASSUME ChainsComplete, NEW s \in Structs, NEW base, NEW offset,
         NEW chain \in Chains[s]
  PROVE  Live(Selector(s, base, offset, chain))
BY CompleteIsLeft DEF Live, Selector

-----------------------------------------------------------------------------
(***************************************************************************)
(* Steps.                                                                  *)
(***************************************************************************)
\* The element of the comparison that holds is the accessed one.
LEMMA ElementAddress ==
  ASSUME GoodFrames, Straight, NEW method, method # "Else", Calling(method)
  PROVE  /\ SameField(Top.offset, Field) => ElementBase(0) = access
         /\ SameElement(Top.offset, Field) =>
              ElementBase(Index(Top.offset, Field)) = access
<1>1. Field \in FieldInfo
  BY FieldFits DEF Calling
<1>2. /\ Field.from \in Nat /\ Field.size \in Nat \ {0}
      /\ Top.base \in Nat /\ Top.offset \in Nat
      /\ Top.base + Top.offset = access
  BY <1>1, TopIsStraight DEF Calling, FieldInfo
<1>3. SameField(Top.offset, Field) => ElementBase(0) = access
  BY <1>2 DEF SameField, ElementBase
<1>4. ASSUME SameElement(Top.offset, Field)
      PROVE  ElementBase(Index(Top.offset, Field)) = access
  <2> DEFINE i == Index(Top.offset, Field)
             a == Top.offset - Field.from
  <2>1. a \in Nat /\ a % Field.size = 0 /\ i = a \div Field.size
    BY <1>2, <1>4 DEF SameElement, InArray, Index
  <2>2. i \in Nat /\ Field.size * i + 0 = a
    BY <1>2, <2>1, DivMod
  <2>3. ElementBase(i) = Top.base + Field.from + Field.size * i
    BY DEF ElementBase
  <2> HIDE DEF i
  <2>4. Field.size * i \in Nat
    BY <1>2, <2>2
  <2>5. Top.base + Field.from + Field.size * i = access
    <3>1. /\ Top.base + Field.from + Field.size * i \in Nat
          /\ (Top.base + Field.from + Field.size * i) + 0
               = Top.base + Top.offset
      BY <1>2, <2>2, <2>4, Shifted
    <3>2. \A n \in Nat : n + 0 = n
      OBVIOUS
    <3>3. QED
      BY <1>2, <3>1, <3>2
  <2>6. ElementBase(i) = access
    BY <2>3, <2>5
  <2>7. QED
    BY <2>6 DEF i
<1>5. QED
  BY <1>3, <1>4

\* The comparison of each call is that of a hit: what Case, CaseArray,
\* Inside and InsideArray do is to skip, to run a callback or to enter.
LEMMA CallStep ==
  ASSUME GoodFrames, Straight, frames # <<>>, Top.chain # <<>>,
         Call.method # "Else", Suits(Call.method, Field), Next
  PROVE  \/ ~Hit(Top.offset, Field) /\ Skip
         \/ Hit(Top.offset, Field) /\ Field.type = Scalar /\ Run(access)
         \/ /\ Hit(Top.offset, Field) /\ Field.type \in Structs
            /\ InArray(Top.offset, Field)
            /\ Enter(Field.type,
                     ElementBase(Index(Top.offset, Field)),
                     NestedArrayOffset(Top.offset, Field))
<1>1. Calling(Call.method)
  BY DEF Calling
<1>2. /\ Top \in Frames /\ Field \in FieldInfo
      /\ Top.offset \in Nat /\ Scalar \notin Structs
  BY <1>1, TopIsGood, FieldFits, LayoutAssumption DEF Good, Frames
<1>3. CASE Case
  <2>1. Field.type = Scalar /\ Field.count = 1
    BY <1>3 DEF Case, Calling, Suits
  <2>2. SameField(Top.offset, Field) <=> Hit(Top.offset, Field)
    BY <1>2, <2>1, ComparesElements DEF Hit
  <2>3. SameField(Top.offset, Field) => ElementBase(0) = access
    BY <1>1, ElementAddress
  <2>4. QED
    BY <1>3, <2>1, <2>2, <2>3 DEF Case
<1>4. CASE CaseArray
  <2>1. Field.type = Scalar
    BY <1>4 DEF CaseArray, Calling, Suits
  <2>2. SameElement(Top.offset, Field) <=> Hit(Top.offset, Field)
    BY <1>2, <2>1, ComparesElements DEF Hit
  <2>3. SameElement(Top.offset, Field)
          => ElementBase(Index(Top.offset, Field)) = access
    BY <1>1, ElementAddress
  <2>4. QED
    BY <1>4, <2>1, <2>2, <2>3 DEF CaseArray
<1>5. CASE Inside
  <2>1. /\ Field.type \in Structs /\ Field.count = 1
        /\ Field.from \in Nat /\ Field.size \in Nat \ {0}
        /\ Call.field \in InsideFields[Top.struct]
    BY <1>1, <1>2, <1>5, FieldFits DEF Inside, Calling, Suits, FieldInfo
  <2>2. ~BesideField(Top.offset, Field)
    BY <2>1, TopIsStraight DEF Beside, Field
  <2>3. Field.size * Field.count = Field.size
    BY <2>1
  <2>4. /\ InsideField(Top.offset, Field) <=> Top.offset = Field.from
        /\ InArray(Top.offset, Field) <=> Top.offset = Field.from
    BY <1>2, <2>1, <2>2, <2>3 DEF InsideField, InArray, BesideField
  <2>5. Hit(Top.offset, Field) <=> InArray(Top.offset, Field)
    BY <1>2, <2>1 DEF Hit
  <2>6. ASSUME Top.offset = Field.from
        PROVE  /\ Index(Top.offset, Field) = 0
               /\ NestedArrayOffset(Top.offset, Field) = 0
               /\ NestedOffset(Top.offset, Field) = 0
    <3>1. Top.offset - Field.from = 0 /\ Field.from - Top.offset = 0
      BY <2>1, <2>6
    <3>2. 0 \div Field.size = 0 /\ 0 % Field.size = 0
      BY <2>1
    <3>3. QED
      BY <3>1, <3>2 DEF Index, NestedArrayOffset, NestedOffset
  <2>7. QED
    BY <1>5, <2>1, <2>4, <2>5, <2>6 DEF Inside
<1>6. CASE InsideArray
  <2>1. Field.type \in Structs
    BY <1>6 DEF InsideArray, Calling, Suits
  <2>2. InArray(Top.offset, Field) <=> Hit(Top.offset, Field)
    BY <1>2, <2>1 DEF Hit
  <2>3. QED
    BY <1>6, <2>1, <2>2 DEF InsideArray
<1>7. QED
  BY <1>3, <1>4, <1>5, <1>6 DEF Next, Else, Return, Finished, Calling

\* The call that is next, of a chain with calls and Else left.
LEMMA TopCall ==
  ASSUME GoodFrames, frames # <<>>, Left(Top.struct, Top.chain),
         Call.method # "Else"
  PROVE  /\ Top.struct \in Structs /\ Top.offset \in Nat
         /\ Call.field \in DOMAIN Layout[Top.struct]
         /\ Field = Layout[Top.struct][Call.field]
         /\ Suits(Call.method, Field)
         /\ Call.field \in Remaining(Top.chain)
         /\ Left(Top.struct, Tail(Top.chain))
         /\ Remaining(Top.chain)
              = {Call.field} \cup Remaining(Tail(Top.chain))
         /\ Call.field \notin Remaining(Tail(Top.chain))
<1>1. Good(Top) /\ Top.chain # <<>>
  BY TopIsGood DEF Left
<1>2. Top.struct \in Structs /\ Top.offset \in Nat /\ Top.chain \in Seq(Calls)
  BY <1>1 DEF Good, Frames
<1>3. 1 \in DOMAIN Top.chain
  BY <1>1, <1>2
<1>4. Call.field \in DOMAIN Layout[Top.struct]
  BY <1>1, <1>2, <1>3, KnownFits DEF Good, Call
<1>5. QED
  BY <1>2, <1>4, CallNext DEF Call, Field

\* A selector after its call.
LEMMA Advanced ==
  ASSUME GoodFrames, frames # <<>>, NEW matched \in BOOLEAN
  PROVE  /\ Advance(matched).struct = Top.struct
         /\ Advance(matched).base = Top.base
         /\ Advance(matched).offset = Top.offset
         /\ Advance(matched).chain = Tail(Top.chain)
         /\ Advance(matched).matched = (Top.matched \/ matched)
<1>1. Top \in Frames
  BY TopIsGood DEF Good
<1>2. QED
  BY <1>1 DEF Frames, Advance

\* The selectors below the innermost one, of a stack with a new top.
LEMMA TailIdle ==
  ASSUME GoodFrames, frames # <<>>,
         \A i \in DOMAIN frames \ {1} : Idle(frames[i]), NEW f
  PROVE  /\ \A i \in DOMAIN (<<f>> \o Tail(frames)) \ {1} :
              Idle((<<f>> \o Tail(frames))[i])
         /\ \A i \in DOMAIN Tail(frames) : Idle(Tail(frames)[i])
         /\ (<<f>> \o Tail(frames))[1] = f
         /\ <<f>> \o Tail(frames) # <<>>
<1>1. frames \in Seq(Frames) /\ Len(frames) \in Nat \ {0}
  BY EmptySeq DEF GoodFrames
<1>2. QED
  BY <1>1

\* Once the outcome is settled nothing else happens.
LEMMA DecidedNext ==
  ASSUME GoodFrames, Straight, Decided, Next
  PROVE  Decided'
<1>1. UNCHANGED <<access, callbacks, others>> => (Settled' <=> Settled)
  BY DEF Settled, ElementStarts, OwnElements, NestedElements
<1>2. CASE frames = <<>>
  BY <1>1, <1>2
     DEF Next, Case, CaseArray, Inside, InsideArray, Else, Calling, Return,
         Finished, vars, Decided, Idle, Left, Remaining
<1>3. CASE frames # <<>>
  <2>1. Idle(Top) /\ \A i \in DOMAIN frames \ {1} : Idle(frames[i])
    <3>1. 1 \in DOMAIN frames
      BY <1>3 DEF GoodFrames
    <3>2. QED
      BY <3>1 DEF Decided, Top
  <2>2. ASSUME Skip, Idle(Advance(FALSE))
        PROVE  Decided'
    <3>1. /\ frames' = <<Advance(FALSE)>> \o Tail(frames)
          /\ UNCHANGED <<access, callbacks, others>>
      BY <2>2 DEF Skip
    <3>2. \A i \in DOMAIN frames' : Idle(frames'[i])
      BY <1>3, <2>1, <2>2, <3>1, TailIdle
    <3>3. QED
      BY <1>1, <3>1, <3>2 DEF Decided
  <2>3. CASE Top.chain = <<>>
    <3>1. Return
      BY <1>3, <2>3
         DEF Next, Case, CaseArray, Inside, InsideArray, Else, Calling,
             Finished
    <3>2. frames' = Tail(frames) /\ UNCHANGED <<access, callbacks, others>>
      BY <3>1 DEF Return
    <3>3. \A i \in DOMAIN frames' : Idle(frames'[i])
      BY <1>3, <2>1, <3>2, TailIdle
    <3>4. QED
      BY <1>1, <3>2, <3>3 DEF Decided
  <2>4. CASE Top.chain # <<>> /\ Call.method = "Else"
    <3>1. Top.matched /\ Left(Top.struct, Top.chain)
      BY <2>1, <2>4 DEF Idle
    <3>2. Skip
      BY <1>3, <2>4, <3>1
         DEF Next, Case, CaseArray, Inside, InsideArray, Else, Calling,
             Return, Finished
    <3>3. Top.chain \in Seq(Calls)
      BY <1>3, TopIsGood DEF Good, Frames
    <3>4. Tail(Top.chain) = <<>>
      BY <2>4, <3>1, <3>3, ElseNext DEF Call
    <3>5. Idle(Advance(FALSE))
      BY <1>3, <3>4, Advanced DEF Idle
    <3>6. QED
      BY <2>2, <3>2, <3>5
  <2>5. CASE Top.chain # <<>> /\ Call.method # "Else"
    <3>1. /\ Top.matched /\ Left(Top.struct, Top.chain)
          /\ \A g \in Remaining(Top.chain) :
               ~Hit(Top.offset, Layout[Top.struct][g])
      BY <2>1, <2>5 DEF Idle
    <3>2. /\ Field = Layout[Top.struct][Call.field]
          /\ Suits(Call.method, Field)
          /\ Call.field \in Remaining(Top.chain)
          /\ Left(Top.struct, Tail(Top.chain))
          /\ Remaining(Tail(Top.chain)) \subseteq Remaining(Top.chain)
      BY <1>3, <2>5, <3>1, TopCall
    <3>3. Skip
      BY <1>3, <2>5, <3>1, <3>2, CallStep
    <3>4. Idle(Advance(FALSE))
      BY <1>3, <3>1, <3>2, Advanced DEF Idle
    <3>5. QED
      BY <2>2, <3>3, <3>4
  <2>6. QED
    BY <2>3, <2>4, <2>5
<1>4. QED
  BY <1>2, <1>3

\* A selector whose call has been made: it has done its part if the call was
\* the one its offset hits, and is as it was otherwise.
LEMMA AfterCall ==
  ASSUME LaidOut, GoodFrames, frames # <<>>, Live(Top), Call.method # "Else"
  PROVE  /\ Hit(Top.offset, Field) => Idle(Advance(TRUE))
         /\ ~Hit(Top.offset, Field) => Live(Advance(FALSE))
<1>1. Left(Top.struct, Top.chain) /\ ~Top.matched
  BY DEF Live
<1>2. /\ Top.struct \in Structs /\ Top.offset \in Nat
      /\ Call.field \in DOMAIN Layout[Top.struct]
      /\ Field = Layout[Top.struct][Call.field]
      /\ Left(Top.struct, Tail(Top.chain))
      /\ Remaining(Top.chain) = {Call.field} \cup Remaining(Tail(Top.chain))
      /\ Call.field \notin Remaining(Tail(Top.chain))
  BY <1>1, TopCall
<1>3. ASSUME Hit(Top.offset, Field)
      PROVE  Idle(Advance(TRUE))
  <2>1. ASSUME NEW g \in Remaining(Tail(Top.chain)),
               Hit(Top.offset, Layout[Top.struct][g])
        PROVE  FALSE
    <3>1. g \in DOMAIN Layout[Top.struct]
      <4>1. Good(Top) /\ Top.chain \in Seq(Calls) /\ Top.chain # <<>>
        BY <1>1, TopIsGood DEF Good, Frames, Left
      <4>2. g \in Remaining(Top.chain)
        BY <1>2, <2>1
      <4>3. PICK i \in 1 .. Len(Top.chain) - 1 : g = Top.chain[i].field
        BY <4>2 DEF Remaining
      <4>4. Suits(Top.chain[i].method, Layout[Top.struct][Top.chain[i].field])
        BY <1>1, <4>3 DEF Left
      <4>5. i \in DOMAIN Top.chain /\ Top.chain[i].method # "Else"
        BY <4>1, <4>3, <4>4 DEF Suits
      <4>6. QED
        BY <1>2, <4>1, <4>3, <4>5, KnownFits DEF Good
    <3>2. /\ InArray(Top.offset, Layout[Top.struct][g])
          /\ InArray(Top.offset, Layout[Top.struct][Call.field])
      BY <1>2, <1>3, <2>1, <3>1, FieldTyped, HitInside
    <3>3. g = Call.field
      BY <1>2, <3>1, <3>2, OneField
    <3>4. QED
      BY <1>2, <2>1, <3>3
  <2>2. QED
    BY <1>2, <2>1, Advanced DEF Idle
<1>4. ASSUME ~Hit(Top.offset, Field)
      PROVE  Live(Advance(FALSE))
  BY <1>1, <1>2, <1>4, Advanced DEF Live
<1>5. QED
  BY <1>3, <1>4

\* Decides, in terms of hits: what is hit decides, and what is not.
LEMMA HitDecides ==
  ASSUME LaidOut, GoodFrames, Straight, frames # <<>>, Live(Top),
         Decides(Top)
  PROVE  /\ \A g \in DOMAIN Layout[Top.struct] :
              Layout[Top.struct][g].type = Scalar
                /\ Hit(Top.offset, Layout[Top.struct][g])
              => access \in ElementStarts
         /\ (\A g \in DOMAIN Layout[Top.struct] :
               ~Hit(Top.offset, Layout[Top.struct][g]))
              => access \notin ElementStarts
<1>1. /\ Top.offset \in Nat /\ Top.base \in Nat /\ access \in Nat
      /\ Top.base + Top.offset = access
  BY TopIsStraight DEF GoodFrames
<1>2. CASE Top.struct = Registers /\ Top.base = 0
  <2>1. Top.offset = access
    BY <1>1, <1>2
  <2>2. QED
    BY <1>1, <1>2, <2>1, ElementHit, NothingHit DEF Hit
<1>3. CASE /\ \A g \in DOMAIN Layout[Top.struct] :
                Layout[Top.struct][g].type = Scalar
           /\ access \in ElementStarts <=>
                \E g \in DOMAIN Layout[Top.struct] :
                  StartsIn(Top.offset, Layout[Top.struct][g])
  BY <1>3 DEF Hit
<1>4. QED
  BY <1>2, <1>3 DEF Decides

LEMMA EnteredIdle ==
  ASSUME GoodFrames, frames # <<>>,
         \A i \in DOMAIN frames \ {1} : Idle(frames[i]), NEW f, NEW g, Idle(g)
  PROVE  /\ \A i \in DOMAIN (<<f, g>> \o Tail(frames)) \ {1} :
              Idle((<<f, g>> \o Tail(frames))[i])
         /\ (<<f, g>> \o Tail(frames))[1] = f
         /\ <<f, g>> \o Tail(frames) # <<>>
<1>1. frames \in Seq(Frames) /\ Len(frames) \in Nat \ {0}
  BY EmptySeq DEF GoodFrames
<1>2. QED
  BY <1>1

LEMMA UndecidedNext ==
  ASSUME LaidOut, OneLevel, ChainsComplete, GoodFrames, Straight, Undecided,
         Next
  PROVE  Undecided' \/ Decided'
<1>1. /\ callbacks = <<>> /\ others = <<>> /\ frames # <<>>
      /\ Live(Top) /\ Decides(Top) /\ Top.chain # <<>>
      /\ Left(Top.struct, Top.chain)
      /\ \A i \in DOMAIN frames \ {1} : Idle(frames[i])
  BY DEF Undecided, Live, Left
<1>2. /\ Good(Top) /\ Top.struct \in Structs /\ Top.offset \in Nat
      /\ Top.base \in Nat /\ Top.base + Top.offset = access /\ access \in Nat
      /\ Top.chain \in Seq(Calls)
  BY <1>1, TopIsGood, TopIsStraight DEF Good, Frames, GoodFrames
<1>3. ASSUME UNCHANGED access, NEW f, Decides(f)
      PROVE  Decides(f)'
  BY <1>3 DEF Decides, ElementStarts, OwnElements, NestedElements
<1>4. UNCHANGED access => ElementStarts' = ElementStarts
  BY DEF ElementStarts, OwnElements, NestedElements
<1>5. ASSUME UNCHANGED access, Settled', NEW matched \in BOOLEAN,
             frames' = <<Advance(matched)>> \o Tail(frames),
             Idle(Advance(matched))
      PROVE  Decided'
  <2>1. /\ \A i \in DOMAIN frames' \ {1} : Idle(frames'[i])
        /\ frames'[1] = Advance(matched)
    BY <1>1, <1>5, TailIdle
  <2>2. \A i \in DOMAIN frames' : Idle(frames'[i])
    BY <1>5, <2>1
  <2>3. QED
    BY <1>5, <2>2 DEF Decided
<1>6. CASE Call.method = "Else"
  <2>1. /\ ~Top.matched /\ Tail(Top.chain) = <<>>
        /\ Remaining(Top.chain) = {}
    BY <1>1, <1>2, <1>6, ElseNext DEF Live, Call
  <2>2. /\ others' = Append(others, Top.offset)
        /\ frames' = <<Advance(FALSE)>> \o Tail(frames)
        /\ UNCHANGED <<access, callbacks>>
    BY <1>1, <1>6, <2>1
       DEF Next, Case, CaseArray, Inside, InsideArray, Else, Calling, Return,
           Finished
  <2>3. access \notin ElementStarts
    BY <1>1, <2>1, HitDecides DEF Live
  <2>4. callbacks' = <<>> /\ Len(others') = 1
    <3>1. others \in Seq(Nat) /\ Len(others) = 0
      BY <1>1
    <3>2. QED
      BY <1>1, <1>2, <2>2, <3>1
  <2>5. Settled'
    BY <1>4, <2>2, <2>3, <2>4 DEF Settled
  <2>6. Idle(Advance(FALSE))
    BY <1>1, <2>1, Advanced DEF Idle
  <2>7. QED
    BY <1>5, <2>2, <2>5, <2>6
<1>7. CASE Call.method # "Else"
  <2>1. /\ Call.field \in DOMAIN Layout[Top.struct]
        /\ Field = Layout[Top.struct][Call.field]
        /\ Suits(Call.method, Field)
    BY <1>1, <1>7, TopCall
  <2>2. CASE ~Hit(Top.offset, Field) /\ Skip
    <3>1. /\ frames' = <<Advance(FALSE)>> \o Tail(frames)
          /\ UNCHANGED <<access, callbacks, others>>
      BY <2>2 DEF Skip
    <3>2. /\ \A i \in DOMAIN frames' \ {1} : Idle(frames'[i])
          /\ Top' = Advance(FALSE) /\ frames' # <<>>
      BY <1>1, <3>1, TailIdle DEF Top
    <3>3. Live(Advance(FALSE))
      BY <1>1, <1>7, <2>2, AfterCall
    <3>4. Decides(Advance(FALSE))
      BY <1>1, Advanced DEF Decides
    <3>5. Decides(Top)'
      BY <1>3, <3>1, <3>2, <3>4 DEF Decides
    <3>6. QED
      BY <1>1, <3>1, <3>2, <3>3, <3>5 DEF Undecided
  <2>3. CASE Hit(Top.offset, Field) /\ Field.type = Scalar /\ Run(access)
    <3>1. /\ frames' = <<Advance(TRUE)>> \o Tail(frames)
          /\ callbacks' = Append(callbacks, access)
          /\ UNCHANGED <<access, others>>
      BY <2>3 DEF Run
    <3>2. access \in ElementStarts
      BY <1>1, <2>1, <2>3, HitDecides
    <3>3. callbacks' = <<access>> /\ others' = <<>>
      BY <1>1, <3>1
    <3>4. Settled'
      BY <1>4, <3>1, <3>2, <3>3 DEF Settled
    <3>5. Idle(Advance(TRUE))
      BY <1>1, <1>7, <2>3, AfterCall
    <3>6. QED
      BY <1>5, <3>1, <3>4, <3>5
  <2>4. CASE /\ Hit(Top.offset, Field) /\ Field.type \in Structs
             /\ InArray(Top.offset, Field)
             /\ Enter(Field.type,
                      ElementBase(Index(Top.offset, Field)),
                      NestedArrayOffset(Top.offset, Field))
    <3> DEFINE base == ElementBase(Index(Top.offset, Field))
               rest == NestedArrayOffset(Top.offset, Field)
    <3>1. PICK chain \in Chains[Field.type] :
            frames' = <<Selector(Field.type, base, rest, chain),
                        Advance(TRUE)>> \o Tail(frames)
      BY <2>4 DEF Enter
    <3>2. UNCHANGED <<access, callbacks, others>>
      BY <2>4 DEF Enter
    <3>3. Scalar \notin Structs
      BY LayoutAssumption
    <3>4. Top.struct = Registers /\ Top.base = 0 /\ Top.offset = access
      <4>1. Top.struct = Registers /\ Top.base = 0
        BY <1>1, <2>1, <2>4, <3>3 DEF Decides
      <4>2. QED
        BY <1>2, <4>1
    <3> DEFINE f == Selector(Field.type, base, rest, chain)
    <3>5. f.struct = Field.type /\ f.offset = rest
      BY DEF Selector
    <3>6. /\ \A g \in DOMAIN Layout[Field.type] :
               Layout[Field.type][g].type = Scalar
          /\ access \in ElementStarts <=>
               \E g \in DOMAIN Layout[Field.type] :
                 StartsIn(rest, Layout[Field.type][g])
      <4> DEFINE F == Layout[Registers][Call.field]
      <4>1. /\ Call.field \in DOMAIN Layout[Registers] /\ F = Field
            /\ F.type \in Structs /\ InArray(access, F)
            /\ rest = NestedArrayOffset(access, F)
        BY <2>1, <2>4, <3>4
      <4>2. /\ \A g \in DOMAIN Layout[F.type] :
                 Layout[F.type][g].type = Scalar
            /\ access \in ElementStarts <=>
                 \E g \in DOMAIN Layout[F.type] :
                   StartsIn(NestedArrayOffset(access, F), Layout[F.type][g])
        BY <1>2, <4>1, NestedDecides
      <4> HIDE DEF F, rest
      <4>3. QED
        BY <4>1, <4>2
    <3>7. Live(f)
      BY <2>4, SelectorIsLive
    <3> HIDE DEF f, base, rest
    <3>8. Decides(f)
      BY <3>5, <3>6 DEF Decides
    <3>9. Idle(Advance(TRUE))
      BY <1>1, <1>7, <2>4, AfterCall
    <3>10. frames' = <<f, Advance(TRUE)>> \o Tail(frames)
      BY <3>1 DEF f, base, rest
    <3>11. /\ frames' # <<>> /\ Top' = f
           /\ \A i \in DOMAIN frames' \ {1} : Idle(frames'[i])
      BY <1>1, <3>9, <3>10, EnteredIdle DEF Top
    <3>12. Decides(Top)'
      BY <1>3, <3>2, <3>8, <3>11 DEF Decides
    <3>13. QED
      BY <1>1, <3>2, <3>7, <3>11, <3>12 DEF Undecided
  <2>5. QED
    BY <1>1, <1>7, <2>1, <2>2, <2>3, <2>4, CallStep
<1>8. QED
  BY <1>6, <1>7

\* For every layout, every order of the calls and whatever is reached with
\* Inside: hooks that handle all of their registers run one callback for an
\* access, that of the accessed element, and Else for an access that is not at
\* the start of one.  Excepted are the accesses beside a field reached with
\* Inside, for which run "dsl_inside" shows the dispatch wrong.
THEOREM DispatchesOnce ==
  LaidOut /\ OneLevel /\ ChainsComplete /\ Spec => []Dispatch
<1> DEFINE H == ~Beside(Registers, access)
           I == H => Levels /\ (Undecided \/ Decided)
<1>1. SUFFICES ASSUME LaidOut, OneLevel, ChainsComplete
               PROVE  Spec => []Dispatch
  OBVIOUS
<1>2. Init => I
  <2> SUFFICES ASSUME Init PROVE Levels /\ Undecided
    OBVIOUS
  <2>1. PICK chain \in Chains[Registers] :
          frames = <<Selector(Registers, 0, access, chain)>>
    BY DEF Init
  <2>2. /\ frames # <<>> /\ DOMAIN frames = {1} /\ DOMAIN frames \ {1} = {}
        /\ frames[1] = Top /\ Top = Selector(Registers, 0, access, chain)
    BY <2>1 DEF Top
  <2>3. Live(Top)
    BY <1>1, <2>2, SelectorIsLive, LayoutAssumption
  <2>4. Decides(Top) /\ Level(Top)
    BY <2>2 DEF Decides, Level, Selector
  <2>5. QED
    BY <2>2, <2>3, <2>4 DEF Init, Undecided, Levels
<1>3. GoodFrames /\ OffsetsRelative /\ I /\ [Next]_vars => I'
  <2> SUFFICES ASSUME GoodFrames, OffsetsRelative, I, [Next]_vars, H'
               PROVE  Levels' /\ (Undecided' \/ Decided')
    OBVIOUS
  <2>1. H
    BY StackSteps DEF Beside
  <2>2. Levels /\ (Undecided \/ Decided) /\ Straight
    BY <2>1, StraightWhen
  <2>3. Levels'
    BY <1>1, <2>2, LevelsNext
  <2>4. CASE UNCHANGED vars
    <3>1. /\ UNCHANGED <<access, frames, callbacks, others, Top>>
          /\ ElementStarts' = ElementStarts
      BY <2>4 DEF vars, Top, ElementStarts, OwnElements, NestedElements
    <3>2. Decides(Top)' <=> Decides(Top)
      BY <3>1 DEF Decides
    <3>3. Undecided' <=> Undecided
      BY <3>1, <3>2 DEF Undecided
    <3>4. Decided' <=> Decided
      BY <3>1 DEF Decided, Settled
    <3>5. QED
      BY <2>2, <2>3, <3>3, <3>4
  <2>5. CASE Next
    BY <1>1, <2>2, <2>3, <2>5, DecidedNext, UndecidedNext
  <2>6. QED
    BY <2>4, <2>5
<1>4. I => Dispatch
  BY DEF Dispatch, Done, Undecided, Decided, Settled
<1>5. QED
  BY <1>2, <1>3, <1>4, GoodAlways, OffsetsStayRelative, PTL DEF Spec
=============================================================================
