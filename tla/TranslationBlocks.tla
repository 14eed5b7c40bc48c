--------------------------- MODULE TranslationBlocks ---------------------------
(***************************************************************************)
(* The translated blocks of one RISC-V CPU of QEMU.  A block is looked up  *)
(* by its address and by the flags that cpu_get_tb_cpu_state (qemu-riscv-  *)
(* cpu.h) makes of the CPU's state; whatever the translator has relied on  *)
(* has to be in the flags, or a block is run in a state it does not fit.   *)
(*                                                                         *)
(* The CPU is a record of module RiscvCpu.  The instructions that change   *)
(* its state, the translator and the cache are QEMU's own and external.    *)
(* One address is modelled: blocks of different addresses never meet.      *)
(***************************************************************************)
EXTENDS RiscvCpu, FiniteSets

CONSTANTS
    Settings,   \* -cpu settings of the base model that are tried
    Sews,       \* vsew fields software sets: SEW = 8 * 2^vsew
    Lmuls,      \* lmul, LMUL = 2^lmul
    Avls,       \* the vector lengths it asks for
    FieldStates,    \* values of mstatus.FS and mstatus.VS
    MaxBlocks   \* room for blocks; the cache is emptied when it is full

ASSUME VectorAssumption ==
    /\ Sews \subseteq 0..3 /\ Lmuls \subseteq -3..3 /\ Avls \subseteq Nat
    /\ FieldStates \subseteq 0..3
ASSUME BlocksAssumption == MaxBlocks \in Nat \ {0}

\* vlen is a number, uint16_t in RISCVCPU's configuration.
ASSUME SettingsAssumption ==
    \A s \in Settings : Configured(Base, s).vlen \in Nat

VARIABLES
    env,        \* the CPU, with the privilege mode
    virt,       \* riscv_cpu_virt_enabled
    hu,         \* hstatus.HU
    fs, vs,     \* mstatus.FS, mstatus.VS
    hs,         \* the same of mstatus_hs, while virt is set
    vtype,      \* vill, vsew and lmul
    vl, vstart,
    blocks      \* the blocks in the cache: flags, and the state they fit

vector == <<vtype, vl, vstart>>
modes  == <<env, virt, hu>>
status == <<fs, vs, hs>>
vars   == <<modes, status, vector, blocks>>

Has(ext) == ext \in env.misa

-----------------------------------------------------------------------------
(* The flags, as the set of the numbers of the bits that are 1.            *)

\* The low n bits of x, put at bit first.
Bits(first, n, x) == {first + k : k \in {i \in 0..(n - 1) : (x \div 2 ^ i) % 2 = 1}}

\* FIELD_DP32
Deposit(flags, first, n, x) == (flags \ (first .. (first + n - 1))) \cup Bits(first, n, x)

\* cpu_mmu_index: env->priv.
MmuIndex == CASE env.priv = "U" -> 0 [] env.priv = "S" -> 1 [] env.priv = "M" -> 3

\* Mutant of VlMax: the sign of lmul is turned around.
VlMaxNegated == env.vlen \div 2 ^ (vtype.sew + 3 + vtype.lmul)

\* cfg.vlen >> (sew + 3 - lmul)
VlMax == env.vlen \div 2 ^ (vtype.sew + 3 - vtype.lmul)

\* Mutant of VlEqVlMax: vectors of less than eight bytes are expanded too.
VlEqVlMaxTiny == vstart = 0 /\ VlMax = vl

VlEqVlMax == vstart = 0 /\ VlMax = vl /\ VlMax * 2 ^ vtype.sew >= 8

\* Mutant of VectorFlags: the field of SEW begins one bit too low.
VectorFlagsOverlap ==
    IF ~Has("V") THEN {11}
    ELSE LET ill == Deposit({}, 11, 1, IF vtype.ill THEN 1 ELSE 0)
             sew == Deposit(ill, 5, 3, vtype.sew)
             mul == Deposit(sew, 3, 3, vtype.lmul % 8)
         IN  Deposit(mul, 2, 1, IF VlEqVlMax THEN 1 ELSE 0)

\* VILL, SEW, LMUL and VL_EQ_VLMAX, each put over what is in its bits already.
VectorFlags ==
    IF ~Has("V") THEN {11}
    ELSE LET ill == Deposit({}, 11, 1, IF vtype.ill THEN 1 ELSE 0)
             sew == Deposit(ill, 6, 3, vtype.sew)
             mul == Deposit(sew, 3, 3, vtype.lmul % 8)
         IN  Deposit(mul, 2, 1, IF VlEqVlMax THEN 1 ELSE 0)

\* riscv_cpu_fp_enabled, riscv_cpu_vector_enabled: a guest needs the field of its
\* own mstatus and the one of mstatus_hs.
FpEnabled  == fs # 0 /\ (virt => hs.fs # 0)
VecEnabled == vs # 0 /\ (virt => hs.vs # 0)

\* "Is a Hypervisor instruction load/store allowed?"
HypervisorLoads ==
    /\ Has("H")
    /\ \/ env.priv = "M"
       \/ env.priv = "S" /\ ~virt
       \/ env.priv = "U" /\ ~virt /\ hu

\* cpu_get_tb_cpu_state: MSTATUS_VS is bits 9 and 10, MSTATUS_FS 13 and 14.
TbFlags ==
    LET idx == VectorFlags \cup Bits(0, 2, MmuIndex)
        fp  == IF FpEnabled THEN idx \cup Bits(13, 2, fs) ELSE idx
        hyp == IF HypervisorLoads THEN Deposit(fp, 12, 1, 1) ELSE fp
    IN  IF VecEnabled THEN hyp \cup Bits(9, 2, vs) ELSE hyp

\* What code that is translated now takes for granted: the mode, how wide and
\* how long vectors are, which instructions trap, which set a dirty bit.
Assumed ==
    [mode |-> env.priv, hyp |-> HypervisorLoads,
     fp |-> IF FpEnabled THEN fs ELSE 0, vec |-> IF VecEnabled THEN vs ELSE 0,
     type |-> IF Has("V") THEN [ill |-> vtype.ill, sew |-> vtype.sew, lmul |-> vtype.lmul]
                          ELSE [ill |-> TRUE, sew |-> 0, lmul |-> 0]]

\* TB_FLAGS_MMU_MASK
MmuMask == 0..2

-----------------------------------------------------------------------------
Accepted == {s \in Settings : ~Refused(Base, Configured(Base, s))}

Reset == [ill |-> FALSE, sew |-> 0, lmul |-> 0]

NoFields == [fs |-> 0, vs |-> 0]

Init ==
    /\ \E s \in Accepted : env = Realized(Base, s, 1025)
    /\ virt = FALSE /\ hu = FALSE /\ fs = 0 /\ vs = 0 /\ hs = NoFields
    /\ vtype = Reset /\ vl = 0 /\ vstart = 0
    /\ blocks = {}

\* Look the block up; translate it when there is none.
Execute ==
    /\ \A b \in blocks : b.flags # TbFlags
    /\ LET new == [flags |-> TbFlags, fits |-> Assumed] IN
       blocks' = IF Cardinality(blocks) < MaxBlocks THEN blocks \cup {new} ELSE {new}
    /\ UNCHANGED <<modes, status, vector>>

\* vsetvl: the vector length is what was asked for, or VLMAX.
SetVl ==
    /\ Has("V") /\ VecEnabled
    /\ \E sew \in Sews, lmul \in Lmuls, avl \in Avls :
         /\ 8 * 2 ^ sew <= env.elen
         /\ vtype' = [ill |-> FALSE, sew |-> sew, lmul |-> lmul]
         /\ LET max == env.vlen \div 2 ^ (sew + 3 - lmul) IN
            vl' = IF avl < max THEN avl ELSE max
    /\ vstart' = 0
    /\ UNCHANGED <<modes, status, blocks>>

\* vsetvl with a type that the CPU does not have.
SetIll ==
    /\ Has("V") /\ VecEnabled
    /\ vtype' = [Reset EXCEPT !.ill = TRUE] /\ vl' = 0 /\ vstart' = 0
    /\ UNCHANGED <<modes, status, blocks>>

\* A vector load faults at an element, which is where it will go on.
VectorFault ==
    /\ Has("V") /\ VecEnabled /\ ~vtype.ill /\ vl > 1 /\ vstart = 0
    /\ vstart' = vl - 1
    /\ UNCHANGED <<modes, status, vtype, vl, blocks>>

\* The guest's vsstatus becomes mstatus, which is kept in mstatus_hs.
EnterGuest ==
    /\ fs' \in FieldStates /\ vs' \in FieldStates
    /\ hs' = [fs |-> fs, vs |-> vs]

LeaveGuest == fs' = hs.fs /\ vs' = hs.vs /\ hs' = NoFields

\* A trap or its return; a guest of a hypervisor is in U or S.
SetMode ==
    \E m \in ModesOf(env), v \in BOOLEAN :
        /\ v => Has("H") /\ m # "M"
        /\ env' = [env EXCEPT !.priv = m] /\ virt' = v
        /\ \/ v /\ ~virt /\ EnterGuest
           \/ ~v /\ virt /\ LeaveGuest
           \/ v = virt /\ UNCHANGED status
        /\ UNCHANGED <<hu, vector, blocks>>

\* csrw mstatus, hstatus: in modes that may.
WriteStatus ==
    /\ env.priv # "U"
    /\ \/ fs' \in FieldStates /\ UNCHANGED <<hu, vs>>
       \/ vs' \in FieldStates /\ UNCHANGED <<hu, fs>>
       \/ Has("H") /\ ~virt /\ hu' = ~hu /\ UNCHANGED <<fs, vs>>
    /\ UNCHANGED <<env, virt, hs, vector, blocks>>

\* riscv_cpu_reset: the vector state, FS, VS and virt are not among what it sets.
ResetCpu ==
    /\ env' = CpuReset(env)
    /\ UNCHANGED <<virt, hu, status, vector, blocks>>

Next == Execute \/ SetVl \/ SetIll \/ VectorFault \/ SetMode \/ WriteStatus \/ ResetCpu

Spec == Init /\ [][Next]_vars

-----------------------------------------------------------------------------
(* Properties.                                                             *)

(***************************************************************************)
(* Types: no vector is longer than VLMAX or goes on beyond its end, and no *)
(* flag is put beyond bit 14.  Every action above.                         *)
(***************************************************************************)
BlocksTypeOK ==
    /\ env.priv \in ModesOf(env) /\ virt \in BOOLEAN /\ hu \in BOOLEAN
    /\ fs \in 0..3 /\ vs \in 0..3 /\ hs \in [fs : 0..3, vs : 0..3]
    /\ vtype \in [ill : BOOLEAN, sew : 0..3, lmul : -3..3]
    /\ vl \in 0..VlMax /\ vstart \in Nat /\ (vstart = 0 \/ vstart < vl)
    /\ Cardinality(blocks) <= MaxBlocks /\ \A b \in blocks : b.flags \subseteq 0..14

(***************************************************************************)
(* A block that the lookup finds fits the state it is found in: the flags  *)
(* tell apart everything the translator relies on, whatever vsetvl, traps, *)
(* writes of mstatus and resets lie between (cpu_get_tb_cpu_state).        *)
(***************************************************************************)
FoundBlockFits == \A b \in blocks : b.flags = TbFlags => b.fits = Assumed

(***************************************************************************)
(* A block with VL_EQ_VLMAX is expanded without looking at vl and vstart,  *)
(* for whole registers: in every state in which it is found the operation  *)
(* is on all VLMAX = VLEN * LMUL / SEW elements, from the first, and on a  *)
(* multiple of eight bytes, which is what the expanders can do.            *)
(***************************************************************************)
WholeRegisters ==
    \A b \in blocks : b.flags = TbFlags /\ Has("V") /\ 2 \in b.flags =>
        LET sew  == 8 * 2 ^ b.fits.type.sew
            mul  == b.fits.type.lmul
            room == IF mul >= 0 THEN env.vlen * 2 ^ mul ELSE env.vlen \div 2 ^ (-mul)
        IN  /\ vstart = 0 /\ vl * sew = room
            /\ room % 64 = 0

(***************************************************************************)
(* The MMU index that TB_FLAGS_MMU_MASK takes out of the flags is the one  *)
(* that cpu_mmu_index has put in: loads and stores of a block use the page *)
(* tables of the mode, and not the second stage of a hypervisor's guest    *)
(* (TB_FLAGS_PRIV_HYP_ACCESS_MASK).                                        *)
(***************************************************************************)
MmuIndexComesBack == TbFlags \cap MmuMask = Bits(0, 3, MmuIndex)
=============================================================================
