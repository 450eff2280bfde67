------------------------ MODULE RegisterStackProofs ------------------------
(***************************************************************************)
(* For every set of instructions and every size: the register stack keeps  *)
(* its type, never has a hole, and implements InstructionStack, as long as *)
(* callers keep PushContract.                                              *)
(***************************************************************************)
EXTENDS RegisterStack, Sums, SequenceTheorems

\* The slots that hold an instruction are a finite set.
LEMMA HeldFinite ==
    ASSUME NEW new, NEW max
    PROVE  IsFiniteSet(Held(new, max)) /\ Placed(new, max) \in 0..NewMax
<1>1. IsFiniteSet(NewSlots) /\ Cardinality(NewSlots) = NewMax
  BY SizeAssumption, FS_Interval DEF NewSlots
<1>2. Held(new, max) \in SUBSET NewSlots
  BY DEF Held
<1>3. IsFiniteSet(Held(new, max)) /\ Cardinality(Held(new, max)) <= NewMax
  BY <1>1, <1>2, FS_Subset
<1> QED BY <1>3, FS_CardinalityType, SizeAssumption DEF Placed

\* Ranks and the number of placed instructions are small naturals.
LEMMA RankType ==
    ASSUME NEW new, NEW max
    PROVE  /\ Placed(new, max) \in Nat
           /\ \A x \in Int : Rank(new, max, x) \in 0..Placed(new, max)
<1>1. Placed(new, max) \in Nat
  BY HeldFinite, SizeAssumption
<1>2. ASSUME NEW i \in Int
      PROVE  Rank(new, max, i) \in 0..Placed(new, max)
  <2> DEFINE T == {k \in Held(new, max) : k < i}
  <2>1. T \in SUBSET Held(new, max)
    OBVIOUS
  <2> HIDE DEF T
  <2>2. IsFiniteSet(T) /\ Cardinality(T) <= Cardinality(Held(new, max))
    BY <2>1, HeldFinite, FS_Subset
  <2>3. Cardinality(T) \in Nat
    BY <2>2, FS_CardinalityType
  <2>4. Rank(new, max, i) = Cardinality(T)
    BY DEF Rank, T
  <2> QED BY <1>1, <2>2, <2>3, <2>4 DEF Placed
<1> QED BY <1>1, <1>2

\* The rank of a held slot is one more than the rank of the held slot before it.
LEMMA RankStep ==
    ASSUME NEW new, NEW max, NEW i \in Int, Rank(new, max, i) # 0
    PROVE  \E m \in Held(new, max) : m < i /\ Rank(new, max, i) = Rank(new, max, m) + 1
<1> DEFINE H == Held(new, max)
           T == {k \in H : k < i}
<1>1. T # {}
  BY FS_EmptySet DEF Rank
<1>2. H \subseteq Nat /\ \A k \in H : k < NewMax
  BY SizeAssumption DEF Held, NewSlots
<1>3. PICK m \in T : \A k \in T : k <= m
  <2> DEFINE U == {NewMax - k : k \in T}
  <2>1. U \subseteq Nat /\ U # {}
    BY <1>1, <1>2, SizeAssumption
  <2> HIDE DEF U
  <2>2. PICK d \in U : \A x \in U : d <= x
    BY <2>1, LeastNatural
  <2>3. PICK m \in T : d = NewMax - m
    BY DEF U
  <2>4. \A k \in T : NewMax - m <= NewMax - k
    BY <2>2, <2>3 DEF U
  <2> QED BY <2>4, <1>2, SizeAssumption
<1>4. {k \in H : k < i} = {k \in H : k < m} \union {m}
  BY <1>2, <1>3
<1>5. m \notin {k \in H : k < m} /\ m \in Int
  BY <1>2
<1>6. IsFiniteSet({k \in H : k < m})
  <2>1. {k \in H : k < m} \in SUBSET Held(new, max)
    OBVIOUS
  <2> QED BY <2>1, HeldFinite, FS_Subset
<1>7. Cardinality({k \in H : k < m} \union {m}) = Cardinality({k \in H : k < m}) + 1
  BY <1>5, <1>6, FS_AddElement
<1>8. Rank(new, max, i) = Rank(new, max, m) + 1
  BY <1>4, <1>7 DEF Rank
<1> QED BY <1>8

\* Every place below the number of instructions is the rank of a held slot.
LEMMA RankExists ==
    ASSUME NEW new, NEW max, NEW j \in 0..Placed(new, max) - 1
    PROVE  \E i \in Held(new, max) : Rank(new, max, i) = j
<1> DEFINE U == {i \in Nat : Rank(new, max, i) > j}
<1>0. /\ Placed(new, max) \in Nat /\ j \in Nat
      /\ \A x \in Int : Rank(new, max, x) \in 0..Placed(new, max)
  BY RankType
<1>1. NewMax \in U
  <2>1. {k \in Held(new, max) : k < NewMax} = Held(new, max)
    BY SizeAssumption DEF Held, NewSlots
  <2>2. Rank(new, max, NewMax) = Placed(new, max)
    BY <2>1 DEF Rank, Placed
  <2> QED BY <2>2, <1>0, SizeAssumption
<1> HIDE DEF U
<1>2. PICK i \in U : \A x \in U : i <= x
  BY <1>1, LeastNatural DEF U
<1>3. i \in Nat /\ Rank(new, max, i) > j /\ Rank(new, max, i) \in Nat
  BY <1>0, <1>2 DEF U
<1>4. PICK m \in Held(new, max) :
          m < i /\ Rank(new, max, i) = Rank(new, max, m) + 1
  BY <1>0, <1>3, RankStep
<1>5. m \in Nat /\ Rank(new, max, m) \in Nat
  BY <1>0 DEF Held, NewSlots
<1>6. ~ (Rank(new, max, m) > j)
  BY <1>2, <1>3, <1>4, <1>5 DEF U
<1>7. Rank(new, max, m) = j
  BY <1>0, <1>3, <1>4, <1>5, <1>6
<1> QED BY <1>7

\* "Stack new elements to the left without holes": the first Placed registers of
\* the compacted batch hold instructions, and nothing follows them.
THEOREM CompactHasNoHoles ==
    ASSUME NEW new \in [NewSlots -> Register], NEW max
    PROVE  /\ Compact(new, max) \in [NewSlots -> Register]
           /\ \A j \in NewSlots : Compact(new, max)[j] # Empty <=> j < Placed(new, max)
<1>1. ASSUME NEW j \in NewSlots
      PROVE  /\ Compact(new, max)[j] \in Register
             /\ Compact(new, max)[j] # Empty <=> j < Placed(new, max)
  <2>1. CASE j < Placed(new, max)
    <3> DEFINE i == CHOOSE i \in Held(new, max) : Rank(new, max, i) = j
    <3>1. j \in 0..Placed(new, max) - 1
      BY <2>1, RankType DEF NewSlots
    <3>2. i \in Held(new, max)
      BY <3>1, RankExists
    <3>3. Compact(new, max)[j] = new[i]
      BY <2>1 DEF Compact
    <3> QED BY <2>1, <3>2, <3>3 DEF Held
  <2>2. CASE ~ (j < Placed(new, max))
    BY <2>2 DEF Compact, Register
  <2> QED BY <2>1, <2>2
<1> QED BY <1>1 DEF Compact

-----------------------------------------------------------------------------

\* The inductive invariant: an empty base register must mean an empty stack, or
\* the shift would leave a hole.
IInv == TypeOK /\ NoHoles

\* The same of any registers r and any count c.
NoHolesIn(r, c) ==
    /\ r = [i \in Slots |-> r[i]]
    /\ c \in 0..Depth
    /\ \A i \in Slots : r[i] # Empty <=> i < c

\* Where everything is after a push: the batch on top, what was there below it.
LEMMA PushResult ==
    ASSUME NEW r, NEW c, NoHolesIn(r, c),
           NEW max \in Widths, NEW new,
           PushContract(r, Placed(new, max), max),
           Placed(new, max) # 0,
           PushAllowed(c, new, Placed(new, max), max)
    PROVE  LET n == Placed(new, max)
           IN  /\ n \in 1..NewMax
               /\ c + n <= Depth
               /\ \A i \in Slots :
                      PushInstructions(r, new, n, max)[i] =
                        IF i < n THEN Compact(new, max)[i]
                        ELSE IF i - n < c THEN r[i - n] ELSE Empty
<1> DEFINE n == Placed(new, max)
<1>1. n \in 1..NewMax /\ n \in Nat /\ max \in Nat
  BY HeldFinite, SizeAssumption
<1>2. c + n <= Depth
  BY DEF PushAllowed
<1>3. ASSUME NEW i \in Slots
      PROVE  PushInstructions(r, new, n, max)[i] =
               IF i < n THEN Compact(new, max)[i]
               ELSE IF i - n < c THEN r[i - n] ELSE Empty
  <2>1. PushInstructions(r, new, n, max)[i] =
          IF i < n THEN Compact(new, max)[i] ELSE ShiftRight(r, n, max)[i]
    BY DEF PushInstructions
  <2> HIDE DEF n
  <2>2. 0 \in Slots /\ i \in Nat /\ c \in Nat
    BY SizeAssumption DEF NoHolesIn, Slots
  <2>3. CASE r[0] = Empty
    <3>1. c = 0
      BY <2>2, <2>3 DEF NoHolesIn
    <3>2. \A j \in Slots : r[j] = Empty
      BY <3>1 DEF NoHolesIn, Slots
    <3>3. \A a \in Nat : i >= a => i - a \in Slots
      BY <2>2, SizeAssumption DEF Slots
    <3>4. ShiftRight(r, n, max)[i] = Empty
      <4>1. ShiftRight(r, n, max)[i] =
                IF n - 1 \in 1..max-1 /\ i >= n - 1 THEN r[i - (n - 1)] ELSE r[i]
        BY <2>3 DEF ShiftRight
      <4>2. n - 1 \in Nat
        BY <1>1
      <4>3. i >= n - 1 => i - (n - 1) \in Slots
        BY <3>3, <4>2
      <4> QED BY <3>2, <4>1, <4>3
    <3> QED BY <1>1, <2>1, <2>2, <3>1, <3>4
  <2>4. CASE r[0] # Empty
    <3>1. n \in 1..max-1
      BY <1>1, <2>4 DEF PushContract, n
    <3>2. ShiftRight(r, n, max)[i] = IF i >= n THEN r[i - n] ELSE r[i]
      BY <2>4, <3>1 DEF ShiftRight
    <3>3. i >= n => i - n \in Slots
      BY <1>1, <2>2, SizeAssumption DEF Slots
    <3>4. i >= n /\ ~ (i - n < c) => r[i - n] = Empty
      BY <3>3 DEF NoHolesIn
    <3> QED BY <1>1, <2>1, <2>2, <3>2, <3>4
  <2> QED BY <2>3, <2>4
<1> QED BY <1>1, <1>2, <1>3

\* The slot from which register j of a batch comes.
SlotOf(new, max, j) == CHOOSE i \in Held(new, max) : Rank(new, max, i) = j

\* Each register of a batch has the instruction of a slot of its own.
LEMMA CompactPlaces ==
    ASSUME NEW new, NEW max, NEW j \in 0..Placed(new, max) - 1
    PROVE  /\ j \in NewSlots
           /\ SlotOf(new, max, j) \in Held(new, max)
           /\ Rank(new, max, SlotOf(new, max, j)) = j
           /\ Compact(new, max)[j] = new[SlotOf(new, max, j)]
<1>1. /\ SlotOf(new, max, j) \in Held(new, max)
      /\ Rank(new, max, SlotOf(new, max, j)) = j
  BY RankExists DEF SlotOf
<1>2. j \in NewSlots /\ j < Placed(new, max)
  BY HeldFinite, SizeAssumption DEF NewSlots
<1> QED BY <1>1, <1>2 DEF Compact, SlotOf

\* The registers of a batch are in the order of their slots.
LEMMA SlotsOrdered ==
    ASSUME NEW new, NEW max, NEW j \in 0..Placed(new, max) - 1,
           NEW k \in 0..Placed(new, max) - 1, j < k
    PROVE  SlotOf(new, max, j) < SlotOf(new, max, k)
<1> DEFINE x == SlotOf(new, max, j)
           y == SlotOf(new, max, k)
           below(i) == {h \in Held(new, max) : h < i}
<1>1. x \in Held(new, max) /\ y \in Held(new, max) /\ Rank(new, max, x) = j /\ Rank(new, max, y) = k
  BY CompactPlaces
<1>2. x \in Int /\ y \in Int /\ Held(new, max) \subseteq Int
  BY <1>1, SizeAssumption DEF Held, NewSlots
<1> HIDE DEF x, y
<1>3. ASSUME y <= x PROVE FALSE
  <2>1. below(y) \subseteq below(x)
    BY <1>2, <1>3
  <2>2. IsFiniteSet(below(x)) /\ IsFiniteSet(below(y))
    BY HeldFinite, FS_Subset
  <2>3. Cardinality(below(y)) <= Cardinality(below(x))
    BY <2>1, <2>2, FS_Subset
  <2>4. Cardinality(below(y)) = k /\ Cardinality(below(x)) = j
    BY <1>1 DEF Rank
  <2>5. j \in Int /\ k \in Int
    BY HeldFinite, SizeAssumption
  <2> HIDE DEF below
  <2> QED BY <2>3, <2>4, <2>5
<1> QED BY <1>2, <1>3 DEF x, y

\* A push leaves no hole, and loses, doubles or moves nothing.
LEMMA PushKeeps ==
    ASSUME NEW r, NEW c, NoHolesIn(r, c),
           NEW max \in Widths, NEW new, NEW n, n = Placed(new, max), n # 0,
           PushContract(r, n, max), PushAllowed(c, new, n, max),
           NEW q, q = PushInstructions(r, new, n, max)
    PROVE  /\ NoHolesIn(q, c + n)
           /\ n \in 1..NewMax
           /\ \A j \in 0..n - 1 : /\ SlotOf(new, max, j) \in Held(new, max)
                                  /\ q[j] = new[SlotOf(new, max, j)]
           /\ \A j, k \in 0..n - 1 : j < k => SlotOf(new, max, j) < SlotOf(new, max, k)
           /\ \A j \in n..c + n - 1 : q[j] = r[j - n]
<1>1. /\ n \in 1..NewMax /\ c + n <= Depth /\ c \in 0..Depth /\ NewMax \in Nat /\ Depth \in Nat
      /\ NewMax < Depth
      /\ \A i \in Slots : q[i] = IF i < n THEN Compact(new, max)[i]
                                 ELSE IF i - n < c THEN r[i - n] ELSE Empty
  BY PushResult, SizeAssumption DEF NoHolesIn
<1>2. ASSUME NEW j \in 0..n - 1
      PROVE  /\ SlotOf(new, max, j) \in Held(new, max)
             /\ Rank(new, max, SlotOf(new, max, j)) = j
             /\ q[j] = new[SlotOf(new, max, j)] /\ q[j] # Empty
  <2>1. /\ SlotOf(new, max, j) \in Held(new, max)
        /\ Rank(new, max, SlotOf(new, max, j)) = j
        /\ Compact(new, max)[j] = new[SlotOf(new, max, j)]
    BY CompactPlaces
  <2>2. j \in Slots /\ j < n
    BY <1>1 DEF Slots
  <2>3. q[j] = Compact(new, max)[j]
    BY <1>1, <2>2
  <2> QED BY <2>1, <2>3 DEF Held
<1>3. ASSUME NEW i \in Slots PROVE q[i] # Empty <=> i < c + n
  <2>1. CASE i < n
    <3>1. i \in 0..n - 1 /\ i < c + n
      BY <1>1, <2>1 DEF Slots
    <3> QED BY <1>2, <3>1
  <2>2. CASE ~ (i < n)
    <3>1. i - n \in Slots /\ (i - n < c <=> i < c + n)
      BY <1>1, <2>2 DEF Slots
    <3>2. q[i] = IF i - n < c THEN r[i - n] ELSE Empty
      BY <1>1, <2>2
    <3>3. r[i - n] # Empty <=> i - n < c
      BY <3>1 DEF NoHolesIn
    <3> QED BY <3>1, <3>2, <3>3
  <2> QED BY <2>1, <2>2
<1>4. q = [i \in Slots |-> q[i]]
  BY DEF PushInstructions
<1>5. NoHolesIn(q, c + n)
  BY <1>1, <1>3, <1>4 DEF NoHolesIn
<1>6. ASSUME NEW j \in n..c + n - 1 PROVE q[j] = r[j - n]
  <2>1. j \in Slots /\ ~ (j < n) /\ j - n < c
    BY <1>1 DEF Slots
  <2> QED BY <1>1, <2>1
<1>7. ASSUME NEW j \in 0..n - 1, NEW k \in 0..n - 1, j < k
      PROVE  SlotOf(new, max, j) < SlotOf(new, max, k)
  BY <1>7, SlotsOrdered
<1> QED BY <1>1, <1>2, <1>5, <1>6, <1>7

\* A pop leaves no hole, and everything below the top moves up.
LEMMA PopKeeps ==
    ASSUME NEW r, NEW c, NoHolesIn(r, c), c # 0, NEW q, q = PopFront(r)
    PROVE  /\ NoHolesIn(q, c - 1)
           /\ \A j \in 0..c - 2 : q[j] = r[j + 1]
<1>1. /\ q = [i \in Slots |-> IF i < Depth - 1 THEN r[i + 1] ELSE Empty]
      /\ c \in 0..Depth /\ Depth \in Nat
  BY SizeAssumption DEF PopFront, NoHolesIn
<1>2. \A i \in Slots : i < Depth - 1 => i + 1 \in Slots
  BY <1>1 DEF Slots
<1>3. ASSUME NEW i \in Slots PROVE q[i] # Empty <=> i < c - 1
  <2>1. CASE i < Depth - 1
    <3>1. q[i] = r[i + 1] /\ (r[i + 1] # Empty <=> i + 1 < c)
      BY <1>1, <1>2, <2>1 DEF NoHolesIn
    <3> QED BY <1>1, <3>1 DEF Slots
  <2>2. CASE ~ (i < Depth - 1)
    BY <1>1, <2>2 DEF Slots
  <2> QED BY <2>1, <2>2
<1>4. NoHolesIn(q, c - 1)
  BY <1>1, <1>3 DEF NoHolesIn
<1>5. ASSUME NEW j \in 0..c - 2 PROVE q[j] = r[j + 1]
  <2>1. j \in Slots /\ j < Depth - 1
    BY <1>1 DEF Slots
  <2> QED BY <1>1, <2>1
<1> QED BY <1>4, <1>5

\* The first registers hold instructions and the rest are empty, whatever is
\* pushed and popped: no transaction finds an empty base register above an
\* instruction that was left for it.
THEOREM StackHasNoHoles == Spec => [](TypeOK /\ NoHoles)
<1>1. Init => IInv
  BY SizeAssumption DEF Init, IInv, TypeOK, NoHoles, EmptyStack, Slots, Register
<1>2. IInv /\ [Next]_vars => IInv'
  <2> SUFFICES ASSUME IInv, [Next]_vars PROVE IInv'
    OBVIOUS
  <2>0. /\ regs \in [Slots -> Register] /\ count \in 0..Depth
        /\ \A i \in Slots : regs[i] # Empty <=> i < count
    BY DEF IInv, TypeOK, NoHoles
  <2>h. NoHolesIn(regs, count)
    BY DEF IInv, TypeOK, NoHoles, NoHolesIn
  <2>1. CASE Pop
    <3>1. /\ count # 0 /\ count' = count - 1
          /\ regs' = [i \in Slots |-> IF i < Depth - 1 THEN regs[i + 1] ELSE Empty]
      BY <2>1 DEF Pop, PopFront
    <3>2. \A i \in Slots : i < Depth - 1 => i + 1 \in Slots
      BY SizeAssumption DEF Slots
    <3>3. TypeOK'
      BY <2>0, <3>1, <3>2, SizeAssumption DEF TypeOK, Register
    <3>4. ASSUME NEW i \in Slots PROVE regs'[i] # Empty <=> i < count'
      BY <2>0, <3>1, <3>2, SizeAssumption DEF Slots
    <3> QED BY <3>3, <3>4 DEF IInv, NoHoles
  <2>2. CASE Push
    <3>1. PICK max \in Widths, new \in [NewSlots -> Register] :
              /\ PushContract(regs, Placed(new, max), max)
              /\ PushBatch(new, max)
      BY <2>2 DEF Push
    <3> DEFINE n == Placed(new, max)
    <3>2. /\ n # 0 /\ PushAllowed(count, new, n, max)
          /\ regs' = PushInstructions(regs, new, n, max) /\ count' = count + n
      BY <3>1 DEF PushBatch
    <3>3. /\ n \in 1..NewMax /\ count + n <= Depth
          /\ \A i \in Slots : regs'[i] =
                IF i < n THEN Compact(new, max)[i]
                ELSE IF i - n < count THEN regs[i - n] ELSE Empty
      BY <2>h, <3>1, <3>2, PushResult
    <3>4. \A j \in NewSlots : /\ Compact(new, max)[j] \in Register
                              /\ Compact(new, max)[j] # Empty <=> j < n
      BY CompactHasNoHoles
    <3>5. regs' = [i \in Slots |-> regs'[i]]
      BY <3>2 DEF PushInstructions
    <3> HIDE DEF n
    <3>6. \A i \in Slots : /\ (i < n => i \in NewSlots)
                           /\ (i >= n => i - n \in Slots)
      BY <3>3, SizeAssumption DEF Slots, NewSlots
    <3>7. ASSUME NEW i \in Slots
          PROVE  regs'[i] \in Register /\ (regs'[i] # Empty <=> i < count')
      <4>1. CASE i < n
        <5>1. regs'[i] = Compact(new, max)[i] /\ i \in NewSlots
          BY <3>3, <3>6, <4>1, SizeAssumption DEF Slots, NewSlots
        <5>2. i < count'
          BY <2>0, <3>2, <3>3, <4>1, SizeAssumption DEF Slots
        <5> QED BY <3>4, <4>1, <5>1, <5>2
      <4>2. CASE ~ (i < n)
        BY <2>0, <3>2, <3>3, <3>6, <4>2, SizeAssumption DEF Slots, Register
      <4> QED BY <4>1, <4>2
    <3>8. TypeOK'
      BY <2>0, <3>2, <3>3, <3>5, <3>7, SizeAssumption DEF TypeOK
    <3> QED BY <3>7, <3>8 DEF IInv, NoHoles
  <2>3. CASE UNCHANGED vars
    BY <2>3 DEF IInv, TypeOK, NoHoles, vars
  <2> QED BY <2>1, <2>2, <2>3 DEF Next
<1> QED BY <1>1, <1>2, PTL DEF Spec, IInv

-----------------------------------------------------------------------------

\* Contents is a sequence of instructions.
LEMMA ContentsType ==
    ASSUME IInv
    PROVE  /\ Contents \in Seq(Instr) /\ Len(Contents) = count /\ count \in Nat
           /\ \A k \in 1..count : Contents[k] = regs[k - 1]
<1>1. count \in Nat /\ count <= Depth
  BY SizeAssumption DEF IInv, TypeOK
<1>2. \A k \in 1..count : k - 1 \in Slots /\ k - 1 < count
  BY <1>1, SizeAssumption DEF Slots
<1>3. \A k \in 1..count : regs[k - 1] \in Instr
  BY <1>2 DEF IInv, TypeOK, NoHoles, Register
<1>4. Contents \in [1..count -> Instr]
  BY <1>3 DEF Contents
<1> QED BY <1>1, <1>4 DEF Contents

\* The register stack implements the plain stack: a pop takes the top, a push
\* places the batch, in the order of its slots, on an unchanged stack.
THEOREM ImplementsStack == Spec => IsAStack
<1> USE DEF IsAStack
<1>1. Init => Plain!Init
  BY DEF Init, Plain!Init, Contents
<1>2. IInv /\ IInv' /\ [Next]_vars => [Plain!Next]_Contents
  <2> SUFFICES ASSUME IInv, IInv', [Next]_vars PROVE [Plain!Next]_Contents
    OBVIOUS
  <2>0. /\ Contents \in Seq(Instr) /\ Len(Contents) = count /\ count \in Nat
        /\ \A k \in 1..count : Contents[k] = regs[k - 1]
    BY ContentsType
  <2>h. NoHolesIn(regs, count)
    BY DEF IInv, TypeOK, NoHoles, NoHolesIn
  <2>a. /\ Contents' \in Seq(Instr) /\ Len(Contents') = count' /\ count' \in Nat
        /\ \A k \in 1..count' : Contents'[k] = regs'[k - 1]
    <3>1. /\ count' \in Nat /\ count' <= Depth
      BY SizeAssumption DEF IInv, TypeOK
    <3>2. \A k \in 1..count' : k - 1 \in Slots /\ k - 1 < count'
      BY <3>1, SizeAssumption DEF Slots
    <3>3. \A k \in 1..count' : regs'[k - 1] \in Instr
      BY <3>2 DEF IInv, TypeOK, NoHoles, Register
    <3>4. Contents' \in [1..count' -> Instr]
      BY <3>3 DEF Contents
    <3> QED BY <3>1, <3>4 DEF Contents
  <2>1. CASE Pop
    <3>1. /\ count # 0 /\ count' = count - 1
          /\ regs' = [i \in Slots |-> IF i < Depth - 1 THEN regs[i + 1] ELSE Empty]
      BY <2>1 DEF Pop, PopFront
    <3>2. Contents # << >>
      BY <2>0, <3>1, EmptySeq
    <3>3. /\ Tail(Contents) \in Seq(Instr) /\ Len(Tail(Contents)) = count - 1
          /\ \A k \in 1..count - 1 : Tail(Contents)[k] = Contents[k + 1]
      BY <2>0, <3>2, HeadTailProperties
    <3>4. count <= Depth
      BY SizeAssumption DEF IInv, TypeOK
    <3>5. \A k \in 1..count - 1 : Contents'[k] = Contents[k + 1]
      <4> SUFFICES ASSUME NEW k \in 1..count - 1
                   PROVE  Contents'[k] = Contents[k + 1]
        OBVIOUS
      <4>1. /\ k \in 1..count' /\ k - 1 \in Slots /\ k - 1 < Depth - 1
            /\ k + 1 \in 1..count /\ k - 1 + 1 = k /\ k + 1 - 1 = k
        BY <2>0, <3>1, <3>4, SizeAssumption DEF Slots
      <4>2. Contents'[k] = regs'[k - 1]
        BY <2>a, <4>1
      <4>3. regs'[k - 1] = regs[k]
        BY <3>1, <4>1
      <4>4. Contents[k + 1] = regs[k]
        BY <2>0, <4>1
      <4> QED BY <4>2, <4>3, <4>4
    <3>6. Contents' = Tail(Contents)
      BY <2>a, <3>1, <3>3, <3>5, SeqEqual
    <3> QED BY <3>2, <3>6 DEF Plain!Next, Plain!Pop
  <2>2. CASE Push
    <3>1. PICK max \in Widths, new \in [NewSlots -> Register] :
              /\ PushContract(regs, Placed(new, max), max)
              /\ PushBatch(new, max)
      BY <2>2 DEF Push
    <3> DEFINE n == Placed(new, max)
               batch == [k \in 1..n |-> Compact(new, max)[k - 1]]
    <3>2. /\ n # 0 /\ PushAllowed(count, new, n, max)
          /\ regs' = PushInstructions(regs, new, n, max) /\ count' = count + n
      BY <3>1 DEF PushBatch
    <3>3. /\ n \in 1..NewMax /\ count + n <= Depth
          /\ \A i \in Slots : regs'[i] =
                IF i < n THEN Compact(new, max)[i]
                ELSE IF i - n < count THEN regs[i - n] ELSE Empty
      BY <2>h, <3>1, <3>2, PushResult
    <3>4. \A j \in NewSlots : /\ Compact(new, max)[j] \in Register
                              /\ Compact(new, max)[j] # Empty <=> j < n
      BY CompactHasNoHoles
    <3>5. batch \in [1..n -> Instr]
      <4>1. \A k \in 1..n : k - 1 \in NewSlots /\ k - 1 < n
        BY <3>3, SizeAssumption DEF NewSlots
      <4> QED BY <3>4, <4>1 DEF Register
    <3>6. /\ batch \in Seq(Instr) /\ Len(batch) = n
          /\ \A k \in 1..n : batch[k] = Compact(new, max)[k - 1]
      <4>1. n \in Nat
        BY <3>3, SizeAssumption
      <4> HIDE DEF n
      <4> QED BY <3>5, <4>1
    <3> HIDE DEF n, batch
    <3>7. /\ batch \o Contents \in Seq(Instr)
          /\ Len(batch \o Contents) = n + count
          /\ \A k \in 1..n + count : (batch \o Contents)[k] =
                IF k <= n THEN batch[k] ELSE Contents[k - n]
      BY <2>0, <3>6, ConcatProperties
    <3>8. ASSUME NEW k \in 1..count'
          PROVE  Contents'[k] = (batch \o Contents)[k]
      <4>1. /\ k \in Nat /\ n \in Nat /\ k \in 1..n + count /\ k - 1 \in Slots
            /\ Contents'[k] = regs'[k - 1]
        BY <2>0, <2>a, <3>2, <3>3, SizeAssumption DEF Slots
      <4>2. CASE k <= n
        <5>1. k \in 1..n /\ k - 1 < n
          BY <4>1, <4>2
        <5>2. Contents'[k] = Compact(new, max)[k - 1]
          BY <3>3, <4>1, <5>1
        <5> QED BY <3>6, <3>7, <4>1, <4>2, <5>1, <5>2
      <4>3. CASE ~ (k <= n)
        <5>1. /\ k - n \in 1..count /\ ~ (k - 1 < n) /\ k - 1 - n < count
              /\ k - 1 - n = k - n - 1
          BY <2>0, <4>1, <4>3
        <5>2. Contents'[k] = regs[k - n - 1]
          BY <3>3, <4>1, <5>1
        <5>3. Contents[k - n] = regs[k - n - 1]
          BY <2>0, <5>1
        <5> QED BY <3>7, <4>1, <4>3, <5>2, <5>3
      <4> QED BY <4>2, <4>3
    <3>9. Contents' = batch \o Contents
      <4>1. Len(Contents') = Len(batch \o Contents)
        BY <2>0, <2>a, <3>2, <3>3, <3>7, SizeAssumption
      <4> QED BY <2>a, <3>7, <3>8, <4>1, SeqEqual
    <3>10. batch \in Plain!Batches /\ Len(batch) + Len(Contents) <= Depth
      BY <2>0, <3>3, <3>5, <3>6, SizeAssumption DEF Plain!Batches
    <3> QED BY <3>9, <3>10 DEF Plain!Next, Plain!Push
  <2>3. CASE UNCHANGED vars
    BY <2>3 DEF Contents, vars
  <2> QED BY <2>1, <2>2, <2>3 DEF Next
<1>3. Spec => []IInv
  BY StackHasNoHoles, PTL DEF IInv
<1> QED BY <1>1, <1>2, <1>3, PTL DEF Spec, Plain!Spec
=============================================================================
