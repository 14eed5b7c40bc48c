------------------------------ MODULE RiscvCpu ------------------------------
(***************************************************************************)
(* One RISC-V CPU of QEMU, from its -cpu option to reset: what qemu-riscv- *)
(* cpu.c does in the init function of a CPU model, in riscv_cpu_realize    *)
(* and in riscv_cpu_reset.  A CPU is a record; module SiFiveBoards holds   *)
(* one per hart.                                                           *)
(***************************************************************************)
EXTENDS Integers

CONSTANT XLen       \* 32 or 64: TARGET_RISCV32 or TARGET_RISCV64

ASSUME XLenAssumption == XLen \in {32, 64}

\* The properties that name an extension, and the bit of misa each one sets.
Extension ==
    [i |-> "I", e |-> "E", m |-> "M", a |-> "A", f |-> "F", d |-> "D", c |-> "C",
     s |-> "S", u |-> "U", b |-> "B", h |-> "H", v |-> "V", k |-> "Zfh"]

Base == IF XLen = 32 THEN "rv32" ELSE "rv64"

Models ==
    {"any", Base} \cup
    (IF XLen = 32 THEN {"lowrisc-ibex", "sifive-e31", "sifive-e34", "sifive-u34"}
                  ELSE {"sifive-e51", "sifive-u54", "sifive-viu75"})

\* What the init functions put into misa (RVXLEN aside); nothing for rv32, rv64.
ModelMisa(model) ==
    CASE model = "any" -> {"I", "M", "A", "F", "D", "C", "U"}
      [] model = "sifive-viu75" ->
            {"I", "M", "A", "F", "D", "C", "S", "U", "B", "V", "Zfh"}
      [] model \in {"sifive-u34", "sifive-u54"} ->
            {"I", "M", "A", "F", "D", "C", "S", "U", "B"}
      [] model \in {"sifive-e31", "sifive-e51"} -> {"I", "M", "A", "C", "U", "B"}
      [] model = "lowrisc-ibex" -> {"I", "M", "C", "U"}
      [] model = "sifive-e34" -> {"I", "M", "A", "F", "C", "U", "B"}
      [] model = Base -> {}

\* qdev_prop_set_bit(DEVICE(obj), "mmu", false)
NoMmu == {"sifive-e31", "sifive-e51", "lowrisc-ibex", "sifive-e34"}

\* riscv_cpu_properties, as the init function of the model leaves them.
DefaultProps(model) ==
    [i |-> TRUE, e |-> FALSE, g |-> TRUE, m |-> TRUE, a |-> TRUE, f |-> TRUE,
     d |-> TRUE, c |-> TRUE, s |-> TRUE, u |-> TRUE,
     b |-> FALSE, h |-> FALSE, v |-> FALSE, k |-> FALSE,
     priv_spec |-> "", vext_spec |-> "", vlen |-> 512, elen |-> 64,
     mmu |-> model \notin NoMmu, pmp |-> TRUE]

\* The properties given on the command line override those of the model.
Configured(model, given) ==
    [p \in DOMAIN DefaultProps(model) |->
        IF p \in DOMAIN given THEN given[p] ELSE DefaultProps(model)[p]]

-----------------------------------------------------------------------------
(* riscv_cpu_realize.                                                      *)

RV_VLEN_MAX == 1024
PowerOf2(n) == n \in {2 ^ k : k \in 0..15}      \* uint16_t

\* The lower bound of ELEN is tested on vlen.
VectorRefused(cfg) ==
    \/ ~PowerOf2(cfg.vlen) \/ cfg.vlen > RV_VLEN_MAX \/ cfg.vlen < 128
    \/ ~PowerOf2(cfg.elen) \/ cfg.elen > 64 \/ cfg.vlen < 8
    \/ cfg.vext_spec \notin {"", "v1.0"}

\* The extensions are checked only for the models whose misa is still empty.
Refused(model, cfg) ==
    \/ cfg.priv_spec \notin {"", "v1.10.0", "v1.11.0"}
    \/ ModelMisa(model) = {} /\ (cfg.i <=> cfg.e)
    \/ ModelMisa(model) = {} /\ cfg.v /\ VectorRefused(cfg)

\* "Setting G will also set IMAFD"
Implied(cfg) == IF cfg.g THEN {"I", "M", "A", "F", "D"} ELSE {}

RealizedMisa(model, cfg) ==
    IF ModelMisa(model) # {} THEN ModelMisa(model)
    ELSE {Extension[p] : p \in {q \in DOMAIN Extension : cfg[q]}} \cup Implied(cfg)

Features(cfg) == {p \in {"mmu", "pmp"} : cfg[p]}

Registers == {"t0", "a0", "a1", "a2"}

\* Mutant of CpuReset: the mode stays what software made it.
CpuResetSameMode(cpu) ==
    [cpu EXCEPT !.mie = FALSE, !.mprv = FALSE, !.mcause = 0,
                !.pc = cpu.resetvec, !.exception = FALSE, !.reserved = FALSE]

\* riscv_cpu_reset: the general registers keep what they hold.
CpuReset(cpu) ==
    [cpu EXCEPT !.priv = "M", !.mie = FALSE, !.mprv = FALSE, !.mcause = 0,
                !.pc = cpu.resetvec, !.exception = FALSE, !.reserved = FALSE]

\* A CPU that riscv_cpu_realize has accepted, after the reset at its end.
Realized(model, given, resetvec) ==
    LET cfg == Configured(model, given) IN
    CpuReset([misa |-> RealizedMisa(model, cfg),
              priv_ver |-> IF cfg.priv_spec = "v1.10.0" THEN 10 ELSE 11,
              features |-> Features(cfg), vlen |-> cfg.vlen, elen |-> cfg.elen,
              resetvec |-> resetvec, pc |-> 0, priv |-> "M", mie |-> FALSE,
              mprv |-> FALSE, mcause |-> 0, exception |-> FALSE,
              reserved |-> FALSE, regs |-> [r \in Registers |-> 0]])

\* The privilege modes that software on the CPU can enter.
ModesOf(cpu) == {"M"} \cup ({"S", "U"} \cap cpu.misa)
=============================================================================
