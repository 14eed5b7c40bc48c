------------------------- MODULE TranslationBlocksProofs -------------------------
(***************************************************************************)
(* What holds of module TranslationBlocks for every setting of the CPU and *)
(* every vector type: the flags of a block can be read back, so a block    *)
(* that is found fits.                                                     *)
(***************************************************************************)
EXTENDS TranslationBlocks, FiniteSetTheorems, TLAPS

-----------------------------------------------------------------------------
(* Bits.                                                                   *)

\* The powers of two that vectors meet.
LEMMA Powers ==
    /\ 2 ^ 0 = 1 /\ 2 ^ 1 = 2 /\ 2 ^ 2 = 4 /\ 2 ^ 3 = 8 /\ 2 ^ 4 = 16
    /\ 2 ^ 5 = 32 /\ 2 ^ 6 = 64 /\ 2 ^ 7 = 128 /\ 2 ^ 8 = 256 /\ 2 ^ 9 = 512
OBVIOUS

\* A bit is put where the number has one.
LEMMA BitsMember ==
    ASSUME NEW first, NEW n, NEW x, NEW j, NEW S, 0..(n - 1) = S
    PROVE  j \in Bits(first, n, x) <=> \E k \in S : j = first + k /\ (x \div 2 ^ k) % 2 = 1
<1>1. Bits(first, n, x) = {first + k : k \in {i \in S : (x \div 2 ^ i) % 2 = 1}}
  BY DEF Bits
<1> QED
  BY <1>1, Zenon

\* Fields of one, two and three bits, bit by bit.
LEMMA BitsOfOne ==
    ASSUME NEW first \in Nat, NEW x \in 0..1
    PROVE  \A j : j \in Bits(first, 1, x) <=>
                  \/ (j = first /\ x \in {1})
<1> DEFINE S == {0}
<1>1. 0..(1 - 1) = S
  OBVIOUS
<1>2. /\ ((x \div 2 ^ 0) % 2 = 1 <=> x \in {1})
  BY Powers
<1>3. first + 0 = first
  OBVIOUS
<1>4. ASSUME NEW j
      PROVE  j \in Bits(first, 1, x) <=>
                \E k \in S : j = first + k /\ (x \div 2 ^ k) % 2 = 1
  <2> HIDE DEF S
  <2> QED
    BY <1>1, BitsMember, SMT
<1> QED
  BY <1>2, <1>3, <1>4, Zenon

LEMMA BitsOfTwo ==
    ASSUME NEW first \in Nat, NEW x \in 0..3
    PROVE  \A j : j \in Bits(first, 2, x) <=>
                  \/ (j = first /\ x \in {1, 3})
                  \/ (j = first + 1 /\ x \in {2, 3})
<1> DEFINE S == {0, 1}
<1>1. 0..(2 - 1) = S
  OBVIOUS
<1>2. /\ ((x \div 2 ^ 0) % 2 = 1 <=> x \in {1, 3})
      /\ ((x \div 2 ^ 1) % 2 = 1 <=> x \in {2, 3})
  BY Powers
<1>3. first + 0 = first
  OBVIOUS
<1>4. ASSUME NEW j
      PROVE  j \in Bits(first, 2, x) <=>
                \E k \in S : j = first + k /\ (x \div 2 ^ k) % 2 = 1
  <2> HIDE DEF S
  <2> QED
    BY <1>1, BitsMember, SMT
<1> QED
  BY <1>2, <1>3, <1>4, Zenon

LEMMA BitsOfThree ==
    ASSUME NEW first \in Nat, NEW x \in 0..7
    PROVE  \A j : j \in Bits(first, 3, x) <=>
                  \/ (j = first /\ x \in {1, 3, 5, 7})
                  \/ (j = first + 1 /\ x \in {2, 3, 6, 7})
                  \/ (j = first + 2 /\ x \in {4, 5, 6, 7})
<1> DEFINE S == {0, 1, 2}
<1>1. 0..(3 - 1) = S
  OBVIOUS
<1>2. /\ ((x \div 2 ^ 0) % 2 = 1 <=> x \in {1, 3, 5, 7})
      /\ ((x \div 2 ^ 1) % 2 = 1 <=> x \in {2, 3, 6, 7})
      /\ ((x \div 2 ^ 2) % 2 = 1 <=> x \in {4, 5, 6, 7})
  BY Powers
<1>3. first + 0 = first
  OBVIOUS
<1>4. ASSUME NEW j
      PROVE  j \in Bits(first, 3, x) <=>
                \E k \in S : j = first + k /\ (x \div 2 ^ k) % 2 = 1
  <2> HIDE DEF S
  <2> QED
    BY <1>1, BitsMember, SMT
<1> QED
  BY <1>2, <1>3, <1>4, Zenon

-----------------------------------------------------------------------------
(* The flags, read back.                                                   *)

Bit(flags, k) == IF k \in flags THEN 1 ELSE 0
Two(flags, first) == Bit(flags, first) + 2 * Bit(flags, first + 1)
Three(flags, first) == Two(flags, first) + 4 * Bit(flags, first + 2)

\* lmul is a number of three bits with a sign.
Signed(x) == IF x >= 4 THEN x - 8 ELSE x

\* What the translator may take for granted, out of nothing but the flags.
ReadBack(flags) ==
    [mode |-> IF 0 \notin flags THEN "U" ELSE IF 1 \notin flags THEN "S" ELSE "M",
     hyp |-> 12 \in flags,
     fp |-> Two(flags, 13), vec |-> Two(flags, 9),
     type |-> IF Has("V") THEN [ill |-> 11 \in flags, sew |-> Three(flags, 6),
                                lmul |-> Signed(Three(flags, 3))]
                          ELSE [ill |-> TRUE, sew |-> 0, lmul |-> 0]]

\* A field of two bits that nothing else is put into is read as it was written.
LEMMA TwoReadBack ==
    ASSUME NEW flags, NEW first \in Nat, NEW x \in 0..3,
           first \in flags <=> x \in {1, 3}, first + 1 \in flags <=> x \in {2, 3}
    PROVE  Two(flags, first) = x
BY DEF Two, Bit

\* The same of three bits.
LEMMA ThreeReadBack ==
    ASSUME NEW flags, NEW first \in Nat, NEW x \in 0..7,
           first \in flags <=> x \in {1, 3, 5, 7},
           first + 1 \in flags <=> x \in {2, 3, 6, 7},
           first + 2 \in flags <=> x \in {4, 5, 6, 7}
    PROVE  Three(flags, first) = x
BY DEF Three, Two, Bit

\* lmul, cut to three bits, comes back with its sign.
LEMMA SignedReadBack == ASSUME NEW x \in -3..3 PROVE x % 8 \in 0..7 /\ Signed(x % 8) = x
<1>1. x % 8 = IF x < 0 THEN x + 8 ELSE x
  OBVIOUS
<1> QED
  BY <1>1 DEF Signed

\* FIELD_DP32 clears the field before it sets it.
LEMMA DepositMember ==
    ASSUME NEW flags, NEW first, NEW n, NEW x, NEW j
    PROVE  j \in Deposit(flags, first, n, x)
              <=> (j \in flags /\ j \notin first..(first + n - 1)) \/ j \in Bits(first, n, x)
BY DEF Deposit

StateOK ==
    /\ env.priv \in {"U", "S", "M"} /\ fs \in 0..3 /\ vs \in 0..3
    /\ vtype \in [ill : BOOLEAN, sew : 0..3, lmul : -3..3]

\* Which bits there are, field by field: no two fields meet.
LEMMA VectorBits ==
    ASSUME StateOK, Has("V"), NEW j
    PROVE  j \in VectorFlags <=>
              \/ j = 2 /\ VlEqVlMax
              \/ j \in Bits(3, 3, vtype.lmul % 8)
              \/ j \in Bits(6, 3, vtype.sew)
              \/ j = 11 /\ vtype.ill
<1> DEFINE ill == Deposit({}, 11, 1, IF vtype.ill THEN 1 ELSE 0)
           sew == Deposit(ill, 6, 3, vtype.sew)
           mul == Deposit(sew, 3, 3, vtype.lmul % 8)
<1>1. vtype.lmul % 8 \in 0..7 /\ vtype.sew \in 0..7 /\ vtype.ill \in BOOLEAN
  <2>1. vtype.ill \in BOOLEAN
    BY Zenon DEF StateOK
  <2>2. vtype.lmul \in -3..3 /\ vtype.sew \in 0..3
    BY DEF StateOK
  <2> QED
    BY <2>1, <2>2, SignedReadBack
<1>2. /\ j \in Bits(3, 3, vtype.lmul % 8) => j \in {3, 4, 5}
      /\ j \in Bits(6, 3, vtype.sew) => j \in {6, 7, 8}
  <2>1. 3 + 1 = 4 /\ 3 + 2 = 5 /\ 6 + 1 = 7 /\ 6 + 2 = 8 /\ 3 \in Nat /\ 6 \in Nat
    OBVIOUS
  <2> QED
    BY <1>1, <2>1, BitsOfThree
<1>3. j \in Bits(11, 1, IF vtype.ill THEN 1 ELSE 0) <=> j = 11 /\ vtype.ill
  BY <1>1, BitsOfOne
<1>4. j \in Bits(2, 1, IF VlEqVlMax THEN 1 ELSE 0) <=> j = 2 /\ VlEqVlMax
  BY BitsOfOne
<1>5. j \in ill <=> j = 11 /\ vtype.ill
  BY <1>3, DepositMember
<1>6. j \in sew <=> (j = 11 /\ vtype.ill) \/ j \in Bits(6, 3, vtype.sew)
  BY <1>5, DepositMember
<1>7. j \in mul <=> (j = 11 /\ vtype.ill) \/ j \in Bits(6, 3, vtype.sew)
                                         \/ j \in Bits(3, 3, vtype.lmul % 8)
  BY <1>2, <1>6, DepositMember
<1>8. VectorFlags = Deposit(mul, 2, 1, IF VlEqVlMax THEN 1 ELSE 0)
  BY DEF VectorFlags
<1> QED
  BY <1>2, <1>4, <1>7, <1>8, DepositMember

\* All the flags: the fields of cpu_get_tb_cpu_state do not meet either.
LEMMA TbBits ==
    ASSUME StateOK, NEW j
    PROVE  j \in TbFlags <=>
              \/ j = 0 /\ env.priv # "U"
              \/ j = 1 /\ env.priv = "M"
              \/ j = 2 /\ Has("V") /\ VlEqVlMax
              \/ Has("V") /\ j \in Bits(3, 3, vtype.lmul % 8)
              \/ Has("V") /\ j \in Bits(6, 3, vtype.sew)
              \/ VecEnabled /\ j \in Bits(9, 2, vs)
              \/ j = 11 /\ (Has("V") => vtype.ill)
              \/ j = 12 /\ HypervisorLoads
              \/ FpEnabled /\ j \in Bits(13, 2, fs)
<1> DEFINE idx == VectorFlags \cup Bits(0, 2, MmuIndex)
           fp  == IF FpEnabled THEN idx \cup Bits(13, 2, fs) ELSE idx
           hyp == IF HypervisorLoads THEN Deposit(fp, 12, 1, 1) ELSE fp
<1>1. j \in Bits(0, 2, MmuIndex) <=> (j = 0 /\ env.priv # "U") \/ (j = 1 /\ env.priv = "M")
  <2>1. MmuIndex = IF env.priv = "U" THEN 0 ELSE IF env.priv = "S" THEN 1 ELSE 3
    BY DEF MmuIndex, StateOK
  <2>2. env.priv \in {"U", "S", "M"} /\ MmuIndex \in 0..3
    BY <2>1 DEF StateOK
  <2>3. j \in Bits(0, 2, MmuIndex)
           <=> (j = 0 /\ MmuIndex \in {1, 3}) \/ (j = 0 + 1 /\ MmuIndex \in {2, 3})
    BY <2>2, BitsOfTwo
  <2> QED
    BY <2>1, <2>2, <2>3
<1>2. j \in Bits(12, 1, 1) <=> j = 12
  BY BitsOfOne
<1>3. /\ Has("V") => (j \in VectorFlags <=>
              \/ j = 2 /\ VlEqVlMax
              \/ j \in Bits(3, 3, vtype.lmul % 8)
              \/ j \in Bits(6, 3, vtype.sew)
              \/ j = 11 /\ vtype.ill)
      /\ ~Has("V") => (j \in VectorFlags <=> j = 11)
  <2>1. CASE Has("V")
    BY <2>1, VectorBits
  <2>2. CASE ~Has("V")
    BY <2>2 DEF VectorFlags
  <2> QED
    BY <2>1, <2>2
<1>4. j \in fp <=> \/ j \in VectorFlags
                   \/ j \in Bits(0, 2, MmuIndex)
                   \/ FpEnabled /\ j \in Bits(13, 2, fs)
  OBVIOUS
<1>5. j \in hyp <=> (j \in fp /\ (j # 12 \/ ~HypervisorLoads)) \/ (j = 12 /\ HypervisorLoads)
  BY <1>2, DepositMember
<1>6. j \in TbFlags <=> j \in hyp \/ (VecEnabled /\ j \in Bits(9, 2, vs))
  BY DEF TbFlags
<1> HIDE DEF idx, fp, hyp
<1> QED
  BY <1>1, <1>3, <1>4, <1>5, <1>6, Zenon

\* No flag is beyond bit 14.
LEMMA TbFlagsRange == ASSUME StateOK PROVE TbFlags \subseteq 0..14
<1>1. vtype.lmul % 8 \in 0..7 /\ vtype.sew \in 0..7 /\ vs \in 0..3 /\ fs \in 0..3
  <2>1. vtype.lmul \in -3..3 /\ vtype.sew \in 0..3
    BY DEF StateOK
  <2> QED
    BY <2>1, SignedReadBack DEF StateOK
<1>2. ASSUME NEW j
      PROVE  /\ j \in Bits(3, 3, vtype.lmul % 8) => j \in 0..14
             /\ j \in Bits(6, 3, vtype.sew) => j \in 0..14
             /\ j \in Bits(9, 2, vs) => j \in 0..14
             /\ j \in Bits(13, 2, fs) => j \in 0..14
  BY <1>1, BitsOfTwo, BitsOfThree
<1>3. 0 \in 0..14 /\ 1 \in 0..14 /\ 2 \in 0..14 /\ 11 \in 0..14 /\ 12 \in 0..14
  OBVIOUS
<1>4. ASSUME NEW j \in TbFlags PROVE j \in 0..14
  BY <1>2, <1>3, TbBits
<1> QED
  BY <1>4

\* The mode comes back from bits 0 and 1.
LEMMA ModeReadBack ==
    ASSUME StateOK
    PROVE  env.priv = IF 0 \notin TbFlags THEN "U" ELSE IF 1 \notin TbFlags THEN "S" ELSE "M"
<1>1. vtype.lmul % 8 \in 0..7 /\ vtype.sew \in 0..7 /\ vs \in 0..3 /\ fs \in 0..3
  <2>1. vtype.lmul \in -3..3 /\ vtype.sew \in 0..3
    BY DEF StateOK
  <2> QED
    BY <2>1, SignedReadBack DEF StateOK
<1>2. \A j \in {0, 1} : /\ j \notin Bits(3, 3, vtype.lmul % 8) /\ j \notin Bits(6, 3, vtype.sew)
                        /\ j \notin Bits(9, 2, vs) /\ j \notin Bits(13, 2, fs)
  BY <1>1, BitsOfTwo, BitsOfThree
<1>3. 0 \in TbFlags <=> env.priv # "U"
  BY <1>2, TbBits
<1>4. 1 \in TbFlags <=> env.priv = "M"
  BY <1>2, TbBits
<1> QED
  BY <1>3, <1>4 DEF StateOK

\* Every other field comes back as it was put.
LEMMA FieldsReadBack ==
    ASSUME StateOK
    PROVE  /\ 12 \in TbFlags <=> HypervisorLoads
           /\ Two(TbFlags, 13) = IF FpEnabled THEN fs ELSE 0
           /\ Two(TbFlags, 9) = IF VecEnabled THEN vs ELSE 0
           /\ Has("V") => /\ 11 \in TbFlags <=> vtype.ill
                          /\ 2 \in TbFlags <=> VlEqVlMax
                          /\ Three(TbFlags, 6) = vtype.sew
                          /\ Signed(Three(TbFlags, 3)) = vtype.lmul
<1> DEFINE mul == vtype.lmul % 8
           sew == vtype.sew
<1>1. mul \in 0..7 /\ sew \in 0..7 /\ vs \in 0..3 /\ fs \in 0..3 /\ Signed(mul) = vtype.lmul
  <2>1. vtype.lmul \in -3..3 /\ vtype.sew \in 0..3
    BY DEF StateOK
  <2> QED
    BY <2>1, SignedReadBack DEF StateOK
<1>2. \A j : /\ j \in Bits(3, 3, mul) <=> \/ j = 3 /\ mul \in {1, 3, 5, 7}
                                          \/ j = 4 /\ mul \in {2, 3, 6, 7}
                                          \/ j = 5 /\ mul \in {4, 5, 6, 7}
             /\ j \in Bits(6, 3, sew) <=> \/ j = 6 /\ sew \in {1, 3, 5, 7}
                                          \/ j = 7 /\ sew \in {2, 3, 6, 7}
                                          \/ j = 8 /\ sew \in {4, 5, 6, 7}
             /\ j \in Bits(9, 2, vs)  <=> (j = 9 /\ vs \in {1, 3}) \/ (j = 10 /\ vs \in {2, 3})
             /\ j \in Bits(13, 2, fs) <=> (j = 13 /\ fs \in {1, 3}) \/ (j = 14 /\ fs \in {2, 3})
  <2>1. /\ 3 + 1 = 4 /\ 3 + 2 = 5 /\ 6 + 1 = 7 /\ 6 + 2 = 8 /\ 9 + 1 = 10 /\ 13 + 1 = 14
        /\ 3 \in Nat /\ 6 \in Nat /\ 9 \in Nat /\ 13 \in Nat
    OBVIOUS
  <2> HIDE DEF mul, sew
  <2> QED
    BY <1>1, <2>1, BitsOfTwo, BitsOfThree
<1>3. 12 \in TbFlags <=> HypervisorLoads
  BY <1>2, TbBits
<1>4. /\ Two(TbFlags, 13) = IF FpEnabled THEN fs ELSE 0
      /\ Two(TbFlags, 9) = IF VecEnabled THEN vs ELSE 0
  <2> DEFINE f == IF FpEnabled THEN fs ELSE 0
             v == IF VecEnabled THEN vs ELSE 0
  <2>1. f \in 0..3 /\ v \in 0..3
    BY <1>1
  <2>2. /\ 13 \in TbFlags <=> FpEnabled /\ fs \in {1, 3}
        /\ 14 \in TbFlags <=> FpEnabled /\ fs \in {2, 3}
        /\ 9 \in TbFlags <=> VecEnabled /\ vs \in {1, 3}
        /\ 10 \in TbFlags <=> VecEnabled /\ vs \in {2, 3}
    BY <1>2, TbBits
  <2>3. /\ 13 \in TbFlags <=> f \in {1, 3}
        /\ 13 + 1 \in TbFlags <=> f \in {2, 3}
        /\ 9 \in TbFlags <=> v \in {1, 3}
        /\ 9 + 1 \in TbFlags <=> v \in {2, 3}
    BY <2>2
  <2> HIDE DEF f, v
  <2>4. Two(TbFlags, 13) = f /\ Two(TbFlags, 9) = v
    BY <2>1, <2>3, TwoReadBack
  <2> QED
    BY <2>4 DEF f, v
<1>5. ASSUME Has("V")
      PROVE  /\ 11 \in TbFlags <=> vtype.ill
             /\ 2 \in TbFlags <=> VlEqVlMax
             /\ 3 \in TbFlags <=> mul \in {1, 3, 5, 7}
             /\ 4 \in TbFlags <=> mul \in {2, 3, 6, 7}
             /\ 5 \in TbFlags <=> mul \in {4, 5, 6, 7}
             /\ 6 \in TbFlags <=> sew \in {1, 3, 5, 7}
             /\ 7 \in TbFlags <=> sew \in {2, 3, 6, 7}
             /\ 8 \in TbFlags <=> sew \in {4, 5, 6, 7}
  BY <1>2, <1>5, TbBits
<1>6. ASSUME Has("V")
      PROVE  Three(TbFlags, 3) = mul /\ Three(TbFlags, 6) = sew
  <2>1. 3 + 1 = 4 /\ 3 + 2 = 5 /\ 6 + 1 = 7 /\ 6 + 2 = 8
    OBVIOUS
  <2> HIDE DEF mul, sew
  <2> QED
    BY <1>1, <1>5, <1>6, <2>1, ThreeReadBack
<1> QED
  BY <1>1, <1>3, <1>4, <1>5, <1>6

\* Of truth values, equivalence is equality.
LEMMA MemberEquals ==
    ASSUME NEW a, NEW S, NEW B \in BOOLEAN, a \in S <=> B
    PROVE  (a \in S) = B
BY SMT

\* The flags of a state tell all that the translator assumes in it.
LEMMA AssumedReadBack ==
    ASSUME StateOK, vtype.ill \in BOOLEAN
    PROVE  ReadBack(TbFlags) = Assumed
<1>1. (12 \in TbFlags) = HypervisorLoads
  <2>1. HypervisorLoads \in BOOLEAN
    BY Zenon DEF HypervisorLoads
  <2> QED
    BY <2>1, FieldsReadBack, MemberEquals, Zenon
<1>2. /\ Two(TbFlags, 13) = IF FpEnabled THEN fs ELSE 0
      /\ Two(TbFlags, 9) = IF VecEnabled THEN vs ELSE 0
  BY FieldsReadBack
<1>3. CASE Has("V")
  <2>1. (11 \in TbFlags) = vtype.ill
    BY <1>3, FieldsReadBack, MemberEquals, Zenon
  <2>2. [ill |-> 11 \in TbFlags, sew |-> Three(TbFlags, 6),
         lmul |-> Signed(Three(TbFlags, 3))]
          = [ill |-> vtype.ill, sew |-> vtype.sew, lmul |-> vtype.lmul]
    BY <1>3, <2>1, FieldsReadBack, Zenon
  <2> QED
    BY <1>1, <1>2, <1>3, <2>2, ModeReadBack, Zenon DEF ReadBack, Assumed
<1>4. CASE ~Has("V")
  BY <1>1, <1>2, <1>4, ModeReadBack, Zenon DEF ReadBack, Assumed
<1> QED
  BY <1>3, <1>4

-----------------------------------------------------------------------------
(* The geometry of vectors.                                                *)

\* The lengths of a vector register that riscv_cpu_realize accepts.
Lengths == {128, 256, 512, 1024}

\* The powers of two, as a table that arithmetic can be done with.
Power(e) ==
    IF e = 0 THEN 1 ELSE IF e = 1 THEN 2 ELSE IF e = 2 THEN 4 ELSE IF e = 3 THEN 8
    ELSE IF e = 4 THEN 16 ELSE IF e = 5 THEN 32 ELSE IF e = 6 THEN 64
    ELSE IF e = 7 THEN 128 ELSE IF e = 8 THEN 256 ELSE 512

LEMMA PowerTable == ASSUME NEW e \in 0..9 PROVE 2 ^ e = Power(e)
<1>0. CASE e = 0
  BY <1>0, Powers DEF Power
<1>1. CASE e = 1
  BY <1>1, Powers DEF Power
<1>2. CASE e = 2
  BY <1>2, Powers DEF Power
<1>3. CASE e = 3
  BY <1>3, Powers DEF Power
<1>4. CASE e = 4
  BY <1>4, Powers DEF Power
<1>5. CASE e = 5
  BY <1>5, Powers DEF Power
<1>6. CASE e = 6
  BY <1>6, Powers DEF Power
<1>7. CASE e = 7
  BY <1>7, Powers DEF Power
<1>8. CASE e = 8
  BY <1>8, Powers DEF Power
<1>9. CASE e = 9
  BY <1>9, Powers DEF Power
<1> QED
  BY <1>0, <1>1, <1>2, <1>3, <1>4, <1>5, <1>6, <1>7, <1>8, <1>9

\* How many elements of 8 * 2^s bits a group of 2^m registers has.
Elements(len, s, m) == len \div 2 ^ (s + 3 - m)
Room(len, m) == IF m >= 0 THEN len * 2 ^ m ELSE len \div 2 ^ (-m)
Whole(len, s, m) ==
    Elements(len, s, m) * (8 * 2 ^ s) = Room(len, m) /\ Room(len, m) % 64 = 0

\* Room without a unary minus.
LEMMA RoomOf ==
    ASSUME NEW len, NEW m \in -3..3
    PROVE  Room(len, m) = IF m >= 0 THEN len * Power(m) ELSE len \div Power(0 - m)
<1>1. -m = 0 - m
  OBVIOUS
<1>2. Room(len, m) = IF m >= 0 THEN len * 2 ^ m ELSE len \div 2 ^ (0 - m)
  BY <1>1, Zenon DEF Room
<1>3. CASE m >= 0
  <2>1. m \in 0..9
    BY <1>3
  <2> QED
    BY <1>2, <1>3, <2>1, PowerTable
<1>4. CASE ~(m >= 0)
  <2>1. 0 - m \in 0..9
    BY <1>4
  <2> QED
    BY <1>2, <1>4, <2>1, PowerTable
<1> QED
  BY <1>3, <1>4

\* len \div q elements of p bytes are what r bits hold; when they are eight
\* bytes or more, no bit is left over.
LEMMA NothingLeft ==
    ASSUME NEW len \in Lengths, NEW r,
           NEW p \in {1, 2, 4, 8}, NEW q \in {1, 2, 4, 8, 16, 32, 64, 128, 256, 512},
           \/ \E k \in {2, 4, 8} : q = 8 * p * k /\ r = len \div k
           \/ \E k \in {1, 2, 4, 8} : q * k = 8 * p /\ r = len * k,
           (len \div q) * p >= 8
    PROVE  (len \div q) * (8 * p) = r /\ r % 64 = 0
BY DEF Lengths

(***************************************************************************)
(* A group of at least eight bytes is full: its elements take up all of    *)
(* its registers, and a multiple of eight bytes of them.                   *)
(***************************************************************************)
LEMMA Geometry ==
    ASSUME NEW len \in Lengths, NEW s \in 0..3, NEW m \in -3..3,
           Elements(len, s, m) * 2 ^ s >= 8
    PROVE  Whole(len, s, m)
<1> DEFINE p == Power(s)
           q == Power(s + 3 - m)
           r == Room(len, m)
<1>1. s + 3 - m \in 0..9 /\ s \in 0..9
  OBVIOUS
<1>2. 2 ^ s = p /\ 2 ^ (s + 3 - m) = q
  BY <1>1, PowerTable
<1>3. p \in {1, 2, 4, 8} /\ q \in {1, 2, 4, 8, 16, 32, 64, 128, 256, 512}
  BY <1>1 DEF Power
<1>4. \/ \E k \in {2, 4, 8} : q = 8 * p * k /\ r = len \div k
      \/ \E k \in {1, 2, 4, 8} : q * k = 8 * p /\ r = len * k
  <2>1. CASE m >= 0
    <3>1. r = len * Power(m)
      BY <2>1, RoomOf
    <3>2. m = 0 \/ m = 1 \/ m = 2 \/ m = 3
      BY <2>1
    <3>3. Power(m) \in {1, 2, 4, 8} /\ q * Power(m) = 8 * p
      BY <3>2 DEF Power
    <3> QED
      BY <3>1, <3>3
  <2>2. CASE ~(m >= 0)
    <3>1. r = len \div Power(0 - m)
      BY <2>2, RoomOf
    <3>2. 0 - m = 1 \/ 0 - m = 2 \/ 0 - m = 3
      BY <2>2
    <3>3. Power(0 - m) \in {2, 4, 8} /\ q = 8 * p * Power(0 - m)
      BY <3>2 DEF Power
    <3> QED
      BY <3>1, <3>3
  <2> QED
    BY <2>1, <2>2
<1>5. Elements(len, s, m) = len \div q
  BY <1>2 DEF Elements
<1> HIDE DEF p, q, r
<1>6. (len \div q) * (8 * p) = r /\ r % 64 = 0
  BY <1>2, <1>3, <1>4, <1>5, NothingLeft
<1> QED
  BY <1>2, <1>5, <1>6 DEF Whole, r

-----------------------------------------------------------------------------
(* The inductive invariant.                                                *)

\* What riscv_cpu_realize leaves of the length of vectors.
EnvOK ==
    /\ {"misa", "priv", "vlen"} \subseteq DOMAIN env
    /\ env.vlen \in Nat /\ (Has("V") => env.vlen \in Lengths)

ModesOK ==
    /\ env.priv \in ModesOf(env) /\ virt \in BOOLEAN /\ hu \in BOOLEAN
    /\ fs \in 0..3 /\ vs \in 0..3 /\ hs \in [fs : 0..3, vs : 0..3]

VectorOK ==
    /\ vtype \in [ill : BOOLEAN, sew : 0..3, lmul : -3..3]
    /\ vl \in 0..VlMax /\ vstart \in Nat /\ (vstart = 0 \/ vstart < vl)

(***************************************************************************)
(* The flags of every block tell what the block was translated for: they   *)
(* are read back to just that.                                             *)
(***************************************************************************)
CacheOK ==
    /\ IsFiniteSet(blocks) /\ Cardinality(blocks) <= MaxBlocks
    /\ \A b \in blocks : b.flags \subseteq 0..14 /\ b.fits = ReadBack(b.flags)

BlocksInv == EnvOK /\ ModesOK /\ VectorOK /\ CacheOK

LEMMA StateIsOK == ASSUME ModesOK, VectorOK PROVE StateOK /\ vtype.ill \in BOOLEAN
<1>1. vtype.ill \in BOOLEAN
  BY Zenon DEF VectorOK
<1>2. env.priv \in {"U", "S", "M"}
  BY DEF ModesOK, ModesOf
<1> QED
  BY <1>1, <1>2, Zenon DEF StateOK, ModesOK, VectorOK

\* VLMAX is a number.
LEMMA ShortenedIsNat ==
    ASSUME NEW len \in Nat, NEW s \in 0..3, NEW m \in -3..3
    PROVE  len \div 2 ^ (s + 3 - m) \in Nat
<1> DEFINE p == 2 ^ (s + 3 - m)
<1>1. p \in Nat /\ p > 0
  <2>1. s + 3 - m \in 0..9
    OBVIOUS
  <2>2. p = Power(s + 3 - m)
    BY <2>1, PowerTable
  <2> QED
    BY <2>2 DEF Power
<1> HIDE DEF p
<1>2. len \div p \in Nat
  BY <1>1
<1> QED
  BY <1>2 DEF p

\* A base model has vectors only when it is told so, and then they are checked.
LEMMA RealizedVectors ==
    ASSUME NEW s \in Accepted
    PROVE  LET cpu == Realized(Base, s, 1025) IN
           /\ {"misa", "priv", "vlen"} \subseteq DOMAIN cpu
           /\ cpu.priv = "M" /\ cpu.vlen \in Nat
           /\ "V" \in cpu.misa => cpu.vlen \in Lengths
<1> DEFINE cfg == Configured(Base, s)
           cpu == Realized(Base, s, 1025)
<1>1. /\ {"misa", "priv", "vlen"} \subseteq DOMAIN cpu
      /\ cpu.priv = "M" /\ cpu.vlen = cfg.vlen /\ cpu.misa = RealizedMisa(Base, cfg)
  BY DEF Realized, CpuReset
<1>2. cfg.vlen \in Nat /\ ~Refused(Base, cfg)
  BY SettingsAssumption DEF Accepted
<1>3. ModelMisa(Base) = {}
  BY DEF ModelMisa, Base
<1>4. ASSUME "V" \in RealizedMisa(Base, cfg) PROVE cfg.v
  <2>1. "V" \in {Extension[p] : p \in {q \in DOMAIN Extension : cfg[q]}}
    BY <1>3, <1>4 DEF RealizedMisa, Implied
  <2>2. PICK p \in DOMAIN Extension : Extension[p] = "V" /\ cfg[p]
    BY <2>1
  <2>3. p = "v"
    BY <2>2 DEF Extension
  <2> QED
    BY <2>2, <2>3
<1>5. ASSUME cfg.v PROVE cfg.vlen \in Lengths
  <2>1. PowerOf2(cfg.vlen) /\ cfg.vlen <= 1024 /\ cfg.vlen >= 128
    <3>1. ~VectorRefused(cfg)
      BY <1>2, <1>3, <1>5 DEF Refused
    <3>2. PowerOf2(cfg.vlen) /\ ~(cfg.vlen > RV_VLEN_MAX) /\ ~(cfg.vlen < 128)
      BY <3>1, Zenon DEF VectorRefused
    <3> HIDE DEF cfg
    <3> QED
      BY <1>2, <3>2 DEF RV_VLEN_MAX
  <2>2. PICK k \in 0..15 : cfg.vlen = 2 ^ k
    BY <2>1 DEF PowerOf2
  <2>3. /\ 2 ^ 10 = 1024 /\ 2 ^ 11 = 2048 /\ 2 ^ 12 = 4096 /\ 2 ^ 13 = 8192
        /\ 2 ^ 14 = 16384 /\ 2 ^ 15 = 32768
    OBVIOUS
  <2> HIDE DEF cfg
  <2>4. CASE k = 0
    BY <2>1, <2>2, <2>3, <2>4, Powers DEF Lengths
  <2>5. CASE k = 1
    BY <2>1, <2>2, <2>3, <2>5, Powers DEF Lengths
  <2>6. CASE k = 2
    BY <2>1, <2>2, <2>3, <2>6, Powers DEF Lengths
  <2>7. CASE k = 3
    BY <2>1, <2>2, <2>3, <2>7, Powers DEF Lengths
  <2>8. CASE k = 4
    BY <2>1, <2>2, <2>3, <2>8, Powers DEF Lengths
  <2>9. CASE k = 5
    BY <2>1, <2>2, <2>3, <2>9, Powers DEF Lengths
  <2>10. CASE k = 6
    BY <2>1, <2>2, <2>3, <2>10, Powers DEF Lengths
  <2>11. CASE k = 7
    BY <2>1, <2>2, <2>3, <2>11, Powers DEF Lengths
  <2>12. CASE k = 8
    BY <2>1, <2>2, <2>3, <2>12, Powers DEF Lengths
  <2>13. CASE k = 9
    BY <2>1, <2>2, <2>3, <2>13, Powers DEF Lengths
  <2>14. CASE k = 10
    BY <2>1, <2>2, <2>3, <2>14, Powers DEF Lengths
  <2>15. CASE k = 11
    BY <2>1, <2>2, <2>3, <2>15, Powers DEF Lengths
  <2>16. CASE k = 12
    BY <2>1, <2>2, <2>3, <2>16, Powers DEF Lengths
  <2>17. CASE k = 13
    BY <2>1, <2>2, <2>3, <2>17, Powers DEF Lengths
  <2>18. CASE k = 14
    BY <2>1, <2>2, <2>3, <2>18, Powers DEF Lengths
  <2>19. CASE k = 15
    BY <2>1, <2>2, <2>3, <2>19, Powers DEF Lengths
  <2> QED
    BY <2>4, <2>5, <2>6, <2>7, <2>8, <2>9, <2>10, <2>11,
       <2>12, <2>13, <2>14, <2>15, <2>16, <2>17, <2>18, <2>19
<1> HIDE DEF cfg, cpu
<1>6. /\ {"misa", "priv", "vlen"} \subseteq DOMAIN cpu
      /\ cpu.priv = "M" /\ cpu.vlen \in Nat
      /\ "V" \in cpu.misa => cpu.vlen \in Lengths
  BY <1>1, <1>2, <1>4, <1>5
<1> QED
  BY <1>6 DEF cpu

-----------------------------------------------------------------------------
(* The initial states, and the parts of the steps.                         *)

\* A CPU that riscv_cpu_realize has accepted, with no block yet.
LEMMA InitBlocks == ASSUME Init PROVE BlocksInv
<1>1. PICK s \in Accepted : env = Realized(Base, s, 1025)
  BY DEF Init
<1>2. EnvOK /\ env.priv = "M"
  BY <1>1, RealizedVectors DEF EnvOK, Has
<1>3. /\ virt = FALSE /\ hu = FALSE /\ fs = 0 /\ vs = 0 /\ hs = NoFields
      /\ vtype = Reset /\ vl = 0 /\ vstart = 0 /\ blocks = {}
  BY DEF Init
<1>4. ModesOK
  <2>1. /\ env.priv \in ModesOf(env) /\ fs \in 0..3 /\ vs \in 0..3
        /\ hs \in [fs : 0..3, vs : 0..3]
    BY <1>2, <1>3 DEF ModesOf, NoFields
  <2> QED
    BY <1>3, <2>1, Zenon DEF ModesOK
<1>5. VectorOK
  <2>1. vtype \in [ill : BOOLEAN, sew : 0..3, lmul : -3..3] /\ vtype.sew = 0 /\ vtype.lmul = 0
    BY <1>3 DEF Reset
  <2>2. VlMax \in Nat
    BY <1>2, <2>1, ShortenedIsNat DEF VlMax, EnvOK
  <2> QED
    BY <1>3, <2>1, <2>2 DEF VectorOK
<1>6. CacheOK
  BY <1>3, FS_EmptySet, BlocksAssumption DEF CacheOK
<1> QED
  BY <1>2, <1>4, <1>5, <1>6 DEF BlocksInv

\* misa and vlen are what they were made.
SameCpu == env'.misa = env.misa /\ env'.vlen = env.vlen

\* No step changes the extensions or vlen.
LEMMA CpuStays ==
    ASSUME EnvOK, [Next]_vars
    PROVE  SameCpu /\ EnvOK'
<1>1. ASSUME NEW m, env' = [env EXCEPT !.priv = m] PROVE SameCpu /\ DOMAIN env' = DOMAIN env
  BY <1>1 DEF SameCpu, EnvOK
<1>2. ASSUME env' = CpuReset(env) PROVE SameCpu /\ DOMAIN env' = DOMAIN env
  BY <1>2 DEF SameCpu, EnvOK, CpuReset
<1>3. \/ env' = env \/ env' = CpuReset(env) \/ \E m : env' = [env EXCEPT !.priv = m]
  BY DEF Next, vars, modes, status, vector, Execute, SetVl, SetIll, VectorFault, SetMode,
         WriteStatus, ResetCpu
<1>4. SameCpu /\ DOMAIN env' = DOMAIN env
  BY <1>1, <1>2, <1>3 DEF SameCpu
<1> QED
  BY <1>4 DEF EnvOK, SameCpu, Has

\* Modes and the fields of mstatus stay what they may be.
LEMMA ModesStay ==
    ASSUME EnvOK, ModesOK, SameCpu, [Next]_vars
    PROVE  ModesOK'
<1> USE DEF ModesOK
<1>1. ModesOf(env)' = ModesOf(env) /\ "M" \in ModesOf(env)
  BY DEF SameCpu, ModesOf
<1>2. ASSUME UNCHANGED modes, UNCHANGED status PROVE ModesOK'
  BY <1>1, <1>2, Zenon DEF modes, status
<1>3. CASE Execute \/ SetVl \/ SetIll \/ VectorFault \/ UNCHANGED vars
  BY <1>2, <1>3, Zenon DEF Execute, SetVl, SetIll, VectorFault, vars, modes
<1>4. CASE SetMode
  <2>1. PICK m \in ModesOf(env), v \in BOOLEAN :
            /\ env' = [env EXCEPT !.priv = m] /\ virt' = v /\ UNCHANGED hu
            /\ EnterGuest \/ LeaveGuest \/ UNCHANGED status
    BY <1>4, Zenon DEF SetMode
  <2>2. env'.priv = m
    BY <2>1 DEF EnvOK
  <2>3. fs' \in 0..3 /\ vs' \in 0..3 /\ hs' \in [fs : 0..3, vs : 0..3]
    <3>1. CASE EnterGuest
      BY <3>1, VectorAssumption DEF EnterGuest
    <3>2. CASE LeaveGuest
      BY <3>2 DEF LeaveGuest, NoFields
    <3>3. CASE UNCHANGED status
      BY <3>3 DEF status
    <3> QED
      BY <2>1, <3>1, <3>2, <3>3
  <2> QED
    BY <1>1, <2>1, <2>2, <2>3, Zenon
<1>5. CASE WriteStatus
  <2>1. fs' \in 0..3 /\ vs' \in 0..3 /\ UNCHANGED <<env, virt, hs>>
    BY <1>5, VectorAssumption DEF WriteStatus
  <2>2. hu' \in BOOLEAN
    BY <1>5, Zenon DEF WriteStatus
  <2> QED
    BY <1>1, <2>1, <2>2, Zenon
<1>6. CASE ResetCpu
  <2>1. env'.priv = "M"
    BY <1>6 DEF ResetCpu, CpuReset, EnvOK
  <2> QED
    BY <1>1, <1>6, <2>1, Zenon DEF ResetCpu, status
<1> QED
  BY <1>3, <1>4, <1>5, <1>6 DEF Next

\* vl stays within VLMAX: vsetvl computes it from the new type.
LEMMA VectorStays ==
    ASSUME EnvOK, VectorOK, SameCpu, [Next]_vars
    PROVE  VectorOK'
<1>1. ASSUME vtype' = vtype PROVE VlMax' = VlMax
  BY <1>1 DEF VlMax, SameCpu
<1>2. ASSUME UNCHANGED vector PROVE VectorOK'
  <2>1. vtype' = vtype /\ vl' = vl /\ vstart' = vstart
    BY <1>2 DEF vector
  <2> QED
    BY <1>1, <2>1, Zenon DEF VectorOK
<1>3. ASSUME vtype' \in [ill : BOOLEAN, sew : 0..3, lmul : -3..3] PROVE VlMax' \in Nat
  <2>1. vtype'.sew \in 0..3 /\ vtype'.lmul \in -3..3 /\ env'.vlen \in Nat
    BY <1>3 DEF EnvOK, SameCpu
  <2> QED
    BY <2>1, ShortenedIsNat DEF VlMax
<1>4. CASE SetVl
  <2>1. PICK sew \in Sews, lmul \in Lmuls, avl \in Avls :
            /\ vtype' = [ill |-> FALSE, sew |-> sew, lmul |-> lmul]
            /\ LET max == env.vlen \div 2 ^ (sew + 3 - lmul) IN
               vl' = IF avl < max THEN avl ELSE max
    BY <1>4 DEF SetVl
  <2>2. sew \in 0..3 /\ lmul \in -3..3 /\ avl \in Nat
    BY VectorAssumption
  <2>3. vtype' \in [ill : BOOLEAN, sew : 0..3, lmul : -3..3]
        /\ vtype'.sew = sew /\ vtype'.lmul = lmul
    BY <2>1, <2>2
  <2>4. VlMax' = env.vlen \div 2 ^ (sew + 3 - lmul)
    BY <2>3 DEF VlMax, SameCpu
  <2>5. vl' = IF avl < VlMax' THEN avl ELSE VlMax'
    BY <2>1, <2>4
  <2>6. vl' \in 0..VlMax'
    <3>1. VlMax' \in Nat
      BY <1>3, <2>3
    <3> QED
      BY <2>2, <2>5, <3>1
  <2>7. vstart' = 0
    BY <1>4 DEF SetVl
  <2> QED
    BY <2>3, <2>6, <2>7 DEF VectorOK
<1>5. CASE SetIll
  <2>1. vtype' = [ill |-> TRUE, sew |-> 0, lmul |-> 0] /\ vl' = 0 /\ vstart' = 0
    BY <1>5 DEF SetIll, Reset
  <2>2. vtype' \in [ill : BOOLEAN, sew : 0..3, lmul : -3..3]
    BY <2>1
  <2> QED
    BY <1>3, <2>1, <2>2 DEF VectorOK
<1>6. CASE VectorFault
  <2>1. vtype' = vtype /\ vl' = vl /\ vl > 1 /\ vstart' = vl - 1
    BY <1>6 DEF VectorFault
  <2>2. VlMax' = VlMax /\ vl \in 0..VlMax
    BY <1>1, <2>1 DEF VectorOK
  <2>3. vtype' \in [ill : BOOLEAN, sew : 0..3, lmul : -3..3]
    BY <2>1, Zenon DEF VectorOK
  <2>4. VlMax \in Nat
    BY <1>3, <2>2, <2>3
  <2>5. vl' \in 0..VlMax' /\ vstart' \in Nat /\ vstart' < vl'
    BY <2>1, <2>2, <2>4
  <2> QED
    BY <2>3, <2>5, Zenon DEF VectorOK
<1>7. CASE Execute \/ SetMode \/ WriteStatus \/ ResetCpu \/ UNCHANGED vars
  BY <1>2, <1>7, Zenon DEF Execute, SetMode, WriteStatus, ResetCpu, vars, vector
<1> QED
  BY <1>4, <1>5, <1>6, <1>7 DEF Next

\* A block is put into the cache with flags that tell what it fits.
LEMMA CacheStays ==
    ASSUME StateOK, vtype.ill \in BOOLEAN, CacheOK, SameCpu, [Next]_vars
    PROVE  CacheOK'
<1>1. \A flags : (ReadBack(flags))' = ReadBack(flags)   \* the extensions stay
  BY DEF SameCpu, ReadBack, Has
<1>2. CASE Execute
  <2> DEFINE new == [flags |-> TbFlags, fits |-> Assumed]
  <2>1. (blocks' = blocks \cup {new} /\ Cardinality(blocks) < MaxBlocks) \/ blocks' = {new}
    BY <1>2 DEF Execute
  <2>2. new.flags \subseteq 0..14 /\ new.fits = ReadBack(new.flags)
    BY TbFlagsRange, AssumedReadBack
  <2> HIDE DEF new
  <2>3. IsFiniteSet(blocks') /\ Cardinality(blocks') <= MaxBlocks
    <3>1. CASE blocks' = blocks \cup {new} /\ Cardinality(blocks) < MaxBlocks
      <4>1. /\ IsFiniteSet(blocks \cup {new})
            /\ Cardinality(blocks \cup {new}) \in
                  {Cardinality(blocks), Cardinality(blocks) + 1}
        BY FS_AddElement DEF CacheOK
      <4>2. Cardinality(blocks) \in Nat
        BY FS_CardinalityType DEF CacheOK
      <4> QED
        BY <3>1, <4>1, <4>2, BlocksAssumption
    <3>2. CASE blocks' = {new}
      BY <3>2, FS_Singleton, BlocksAssumption
    <3> QED
      BY <2>1, <3>1, <3>2
  <2>4. ASSUME NEW b \in blocks'
        PROVE  b.flags \subseteq 0..14 /\ b.fits = (ReadBack(b.flags))'
    <3>1. b \in blocks \/ b = new
      BY <2>1
    <3>2. b.flags \subseteq 0..14 /\ b.fits = ReadBack(b.flags)
      BY <2>2, <3>1 DEF CacheOK
    <3> QED
      BY <1>1, <3>2
  <2> QED
    BY <2>3, <2>4 DEF CacheOK
<1>3. CASE SetVl \/ SetIll \/ VectorFault \/ SetMode \/ WriteStatus \/ ResetCpu \/ UNCHANGED vars
  <2>1. blocks' = blocks
    BY <1>3, Zenon DEF SetVl, SetIll, VectorFault, SetMode, WriteStatus, ResetCpu, vars
  <2> QED
    BY <1>1, <2>1 DEF CacheOK
<1> QED
  BY <1>2, <1>3 DEF Next

LEMMA NextBlocks == ASSUME BlocksInv, [Next]_vars PROVE BlocksInv'
<1>1. EnvOK /\ ModesOK /\ VectorOK /\ CacheOK
  BY DEF BlocksInv
<1>2. SameCpu /\ EnvOK'
  BY <1>1, CpuStays
<1>3. StateOK /\ vtype.ill \in BOOLEAN
  BY <1>1, StateIsOK
<1> QED
  BY <1>1, <1>2, <1>3, ModesStay, VectorStays, CacheStays DEF BlocksInv

(***************************************************************************)
(* Whatever the CPU's settings are that riscv_cpu_realize accepts, the     *)
(* flags of every block in the cache can be read back to the state it was  *)
(* translated for.                                                         *)
(***************************************************************************)
THEOREM BlocksAreReadBack == Spec => []BlocksInv
<1>1. Init => BlocksInv
  BY InitBlocks
<1>2. BlocksInv /\ [Next]_vars => BlocksInv'
  BY NextBlocks
<1> QED
  BY <1>1, <1>2, PTL DEF Spec

-----------------------------------------------------------------------------
(* What follows from it.                                                   *)

(***************************************************************************)
(* The types: vectors stay within VLMAX, the cache within its room and the *)
(* flags within bit 14 (cpu_get_tb_cpu_state).                             *)
(***************************************************************************)
THEOREM BlockTypes == Spec => []BlocksTypeOK
<1>1. BlocksInv => BlocksTypeOK
  BY Zenon DEF BlocksInv, ModesOK, VectorOK, CacheOK, BlocksTypeOK
<1> QED
  BY <1>1, BlocksAreReadBack, PTL

LEMMA FoundFits == ASSUME BlocksInv PROVE FoundBlockFits
<1>1. ReadBack(TbFlags) = Assumed
  BY StateIsOK, AssumedReadBack DEF BlocksInv
<1> QED
  BY <1>1 DEF BlocksInv, CacheOK, FoundBlockFits

(***************************************************************************)
(* A block that the lookup finds was translated for the state it is found  *)
(* in: the flags that cpu_get_tb_cpu_state makes leave out nothing that    *)
(* the translator relies on, for every vector type and every extension.    *)
(***************************************************************************)
THEOREM FoundBlocksFit == Spec => []FoundBlockFits
<1>1. BlocksInv => FoundBlockFits
  BY FoundFits
<1> QED
  BY <1>1, BlocksAreReadBack, PTL

LEMMA FoundIsWhole == ASSUME BlocksInv PROVE WholeRegisters
<1> SUFFICES ASSUME NEW b \in blocks, b.flags = TbFlags, Has("V"), 2 \in b.flags
             PROVE  LET sew  == 8 * 2 ^ b.fits.type.sew
                        mul  == b.fits.type.lmul
                        room == IF mul >= 0 THEN env.vlen * 2 ^ mul
                                            ELSE env.vlen \div 2 ^ (-mul)
                    IN  vstart = 0 /\ vl * sew = room /\ room % 64 = 0
  BY DEF WholeRegisters
<1>1. b.fits.type.sew = vtype.sew /\ b.fits.type.lmul = vtype.lmul
  <2>1. b.fits = Assumed
    BY FoundFits DEF FoundBlockFits
  <2> QED
    BY <2>1 DEF Assumed
<1>2. vstart = 0 /\ VlMax = vl /\ VlMax * 2 ^ vtype.sew >= 8
  <2>1. StateOK
    BY StateIsOK DEF BlocksInv
  <2>2. VlEqVlMax
    BY <2>1, FieldsReadBack
  <2> QED
    BY <2>2 DEF VlEqVlMax
<1>3. vtype.sew \in 0..3 /\ vtype.lmul \in -3..3 /\ env.vlen \in Lengths
  BY DEF BlocksInv, VectorOK, EnvOK
<1>4. VlMax = Elements(env.vlen, vtype.sew, vtype.lmul)
  BY DEF VlMax, Elements
<1>5. Whole(env.vlen, vtype.sew, vtype.lmul)
  <2>1. Elements(env.vlen, vtype.sew, vtype.lmul) * 2 ^ vtype.sew >= 8
    BY <1>2, <1>4, Zenon
  <2> QED
    BY <1>3, <2>1, Geometry, Zenon
<1> QED
  BY <1>1, <1>2, <1>4, <1>5, Zenon DEF Whole, Room

(***************************************************************************)
(* Where a block with VL_EQ_VLMAX is found, vl and vstart are what its     *)
(* code no longer looks at, and the operation is on whole registers of a   *)
(* multiple of eight bytes: for every vlen that riscv_cpu_realize accepts, *)
(* every SEW and every LMUL, fractions included.                           *)
(***************************************************************************)
THEOREM VectorsAreWhole == Spec => []WholeRegisters
<1>1. BlocksInv => WholeRegisters
  BY FoundIsWhole
<1> QED
  BY <1>1, BlocksAreReadBack, PTL
=============================================================================
