-------------------------- MODULE SiFiveBoardsProofs --------------------------
(***************************************************************************)
(* What holds of module SiFiveBoards for every command line: the hart      *)
(* configuration string of the PLIC, every hart in the mask ROM up to the  *)
(* firmware, the memory map, the device tree, and the types.               *)
(***************************************************************************)
EXTENDS SiFiveBoards, SequenceTheorems, FiniteSetTheorems, TLAPS

-----------------------------------------------------------------------------
(* The string under construction.                                          *)

ModesOfHart(h) == IF h = 0 THEN <<"M">> ELSE <<"M", "S">>

\* n harts have been written: one character for hart 0 and three for each of
\* the others, while three a hart have been taken off the room.
Written(n) ==
    /\ plic.text \in Seq(Seq({"M", "S"})) /\ Len(plic.text) = n
    /\ \A h \in 0..(n - 1) : plic.text[h + 1] = ModesOfHart(h)
    /\ plic.used = IF n = 0 THEN 0 ELSE 3 * n - 2
    /\ plic.room = 3 * (opts.cpus - n)

\* What is true of the string at every stage: the room left is never less than
\* what the next hart needs, so strncat cuts nothing.
TopologyInv ==
    /\ opts \in Commands
    /\ plic = [text |-> plic.text, used |-> plic.used, room |-> plic.room,
               lines |-> plic.lines]
    /\ stage = "harts" => plic.text = <<>> /\ plic.used = 0
    /\ stage = "topology" => U /\ \E n \in 0..opts.cpus : Written(n)
    /\ PastTopology => Written(opts.cpus)

LEMMA CpusOfCommand ==
    ASSUME NEW c \in Commands
    PROVE  c.board # "e" => c.cpus \in 1..4
<1>1. CommandOK(c)
  BY CommandAssumption DEF CommandsOK
<1> QED
  BY <1>1 DEF CommandOK

LEMMA CpusOfU == ASSUME opts \in Commands, U PROVE opts.cpus \in 1..4
BY CpusOfCommand DEF U

LEMMA WrittenUses == ASSUME NEW n \in 1..4, Written(n) PROVE plic.used = 3 * n - 2
BY DEF Written

LEMMA HartChars ==
    ASSUME NEW n \in Nat
    PROVE  HartText(n).chars = IF n = 0 THEN 1 ELSE 3
BY DEF HartText

LEMMA HartModes ==
    ASSUME NEW n \in Nat
    PROVE  /\ HartText(n).modes = ModesOfHart(n)
           /\ ModesOfHart(n) \in Seq({"M", "S"})
           /\ Len(ModesOfHart(n)) \in Nat
           /\ SubSeq(ModesOfHart(n), 1, Len(ModesOfHart(n))) = ModesOfHart(n)
<1>1. ModesOfHart(n) \in Seq({"M", "S"})
  <2>1. <<"M">> \in Seq({"M", "S"}) /\ <<"M", "S">> \in Seq({"M", "S"})
    OBVIOUS
  <2> QED
    BY <2>1 DEF ModesOfHart
<1>2. SubSeq(ModesOfHart(n), 1, Len(ModesOfHart(n))) = ModesOfHart(n)
  BY <1>1, SubSeqFull
<1>3. HartText(n).modes = ModesOfHart(n)
  BY DEF HartText, ModesOfHart
<1> QED
  BY <1>1, <1>2, <1>3

LEMMA AddHartOK ==
    ASSUME TopologyInv, AddHart
    PROVE  TopologyInv'
<1>1. PICK n \in 0..opts.cpus : Written(n)
  BY DEF TopologyInv, AddHart
<1>2. opts.cpus \in Nat /\ U /\ n \in Nat
  BY CpusOfU DEF TopologyInv, AddHart
<1>3. n < opts.cpus /\ Len(plic.text) = n
  BY <1>1 DEF AddHart, Written
<1>4. HartText(n).chars <= plic.room /\ plic.room - 3 = 3 * (opts.cpus - (n + 1))
  <2>1. plic.room = 3 * (opts.cpus - n) /\ opts.cpus \in Nat /\ n \in Nat /\ n < opts.cpus
    BY <1>1, <1>2, <1>3 DEF Written
  <2>2. HartText(n).chars = IF n = 0 THEN 1 ELSE 3
    BY <1>2, HartChars
  <2> QED
    BY <2>1, <2>2
<1>5. plic' = [plic EXCEPT !.text = Append(@, ModesOfHart(n)),
                           !.used = @ + HartText(n).chars, !.room = @ - 3]
  <2> DEFINE next == HartText(Len(plic.text))
             copied == IF next.chars <= plic.room THEN next.chars ELSE plic.room
             lost == next.chars - copied
  <2>1. next = HartText(n) /\ copied = HartText(n).chars
    BY <1>3, <1>4
  <2>2. lost = 0
    <3>1. HartText(n).chars = IF n = 0 THEN 1 ELSE 3
      BY <1>2, HartChars
    <3> QED
      BY <2>1, <3>1
  <2>4. next.modes = ModesOfHart(n) /\ Len(next.modes) - lost = Len(ModesOfHart(n))
    <3>1. next.modes = ModesOfHart(n) /\ Len(ModesOfHart(n)) \in Nat
      BY <1>2, <2>1, HartModes
    <3> QED
      BY <2>2, <3>1
  <2>3. plic' = [plic EXCEPT
            !.text = Append(@, SubSeq(next.modes, 1, Len(next.modes) - lost)),
            !.used = @ + copied, !.room = @ - 3]
    BY DEF AddHart
  <2> QED
    BY <1>2, <2>1, <2>2, <2>3, <2>4, HartModes
<1>6. /\ plic'.text = Append(plic.text, ModesOfHart(n))
      /\ plic'.used = plic.used + HartText(n).chars
      /\ plic'.room = plic.room - 3
      /\ plic' = [text |-> plic'.text, used |-> plic'.used, room |-> plic'.room,
                  lines |-> plic'.lines]
  BY <1>5 DEF TopologyInv
<1>7. Written(n + 1)'
  <2>1. plic'.text \in Seq(Seq({"M", "S"})) /\ Len(plic'.text) = n + 1
    BY <1>1, <1>2, <1>6, HartModes, AppendProperties DEF Written
  <2>2. ASSUME NEW h \in 0..n PROVE plic'.text[h + 1] = ModesOfHart(h)
    <3>1. plic.text \in Seq(Seq({"M", "S"})) /\ Len(plic.text) = n
      BY <1>1 DEF Written
    <3>2. CASE h = n
      BY <1>2, <1>6, <3>1, <3>2, HartModes, AppendProperties
    <3>3. CASE h \in 0..(n - 1)
      <4>1. plic.text[h + 1] = ModesOfHart(h)
        BY <1>1, <3>3 DEF Written
      <4>2. h + 1 \in 1..Len(plic.text)
        BY <1>2, <3>1, <3>3
      <4> QED
        BY <1>2, <1>6, <3>1, <4>1, <4>2, HartModes, AppendProperties
    <3> QED
      BY <1>2, <3>2, <3>3
  <2>3. plic'.used = 3 * (n + 1) - 2
    <3>1. HartText(n).chars = IF n = 0 THEN 1 ELSE 3
      BY <1>2, HartChars
    <3> QED
      BY <1>1, <1>2, <1>6, <3>1 DEF Written
  <2>4. opts' = opts /\ plic'.room = 3 * (opts.cpus - (n + 1))
    BY <1>4, <1>6 DEF AddHart
  <2> QED
    BY <1>2, <2>1, <2>2, <2>3, <2>4 DEF Written, ModesOfHart
<1> QED
  BY <1>2, <1>3, <1>6, <1>7 DEF TopologyInv, AddHart, PastTopology, U

\* What the stages after the string leave alone.
LEMMA LaterOK ==
    ASSUME TopologyInv, UNCHANGED <<opts, plic>>, stage # "harts", stage # "topology",
           stage' \notin {"harts", "topology"}, PastTopology' => PastTopology
    PROVE  TopologyInv'
BY DEF TopologyInv, Written

LEMMA TopologyStep == ASSUME TopologyInv, [Next]_vars PROVE TopologyInv'
<1>1. ASSUME RealizeHarts PROVE TopologyInv'
  <2>1. CASE UNCHANGED plic /\ stage' = "aborted"
    BY <1>1, <2>1 DEF RealizeHarts, TopologyInv, PastTopology
  <2>2. CASE U /\ stage' = "topology" /\ plic' = [plic EXCEPT !.room = 3 * opts.cpus]
    <3>1. plic'.text = <<>> /\ plic'.used = 0 /\ plic'.room = 3 * opts.cpus
      BY <1>1, <2>2 DEF RealizeHarts, TopologyInv
    <3>2. opts' = opts /\ opts.cpus \in 1..4
      BY <1>1, <2>2, CpusOfU DEF RealizeHarts, TopologyInv
    <3>3. Written(0)'
      BY <3>1, <3>2, EmptySeq DEF Written
    <3> QED
      BY <1>1, <2>2, <3>1, <3>2, <3>3 DEF TopologyInv, PastTopology, U
  <2>3. CASE ~U /\ stage' = "devices" /\ plic' = [plic EXCEPT !.text = <<<<"M">>>>]
    BY <1>1, <2>3 DEF RealizeHarts, TopologyInv, PastTopology, U
  <2> QED
    BY <1>1, <2>1, <2>2, <2>3 DEF RealizeHarts
<1>2. ASSUME AddHart PROVE TopologyInv'
  BY <1>2, AddHartOK
<1>3. ASSUME CreatePlic PROVE TopologyInv'
  <2>1. PICK n \in 0..opts.cpus : Written(n)
    BY <1>3 DEF TopologyInv, CreatePlic
  <2>2. n = opts.cpus
    BY <1>3, <2>1 DEF CreatePlic, Written
  <2> QED
    BY <1>3, <2>1, <2>2 DEF CreatePlic, TopologyInv, Written, PastTopology, U
<1>4. ASSUME ConnectDevices PROVE TopologyInv'
  <2>1. /\ plic'.text = plic.text /\ plic'.used = plic.used /\ plic'.room = plic.room
        /\ plic' = [text |-> plic'.text, used |-> plic'.used, room |-> plic'.room,
                    lines |-> plic'.lines]
    BY <1>4 DEF ConnectDevices, TopologyInv
  <2> QED
    BY <1>4, <2>1 DEF ConnectDevices, TopologyInv, Written, PastTopology, U
<1>5. ASSUME FdtClocks \/ FdtCpuNode \/ FdtDevices \/ WriteRom PROVE TopologyInv'
  BY <1>5, LaterOK DEF FdtClocks, FdtCpuNode, FdtDevices, WriteRom, PastTopology, U
<1>6. ASSUME MainLoopReset PROVE TopologyInv'
  BY <1>6, LaterOK DEF MainLoopReset, PastTopology, U
<1>7. ASSUME NEW h, RomStep(h) \/ GuestRuns(h) \/ GuestFinishes(h) \/ GuestAsksReset(h)
      PROVE  TopologyInv'
  BY <1>7, LaterOK
  DEF RomStep, GuestRuns, GuestFinishes, GuestAsksReset, InGuest, PastTopology, U
<1>8. ASSUME UNCHANGED vars PROVE TopologyInv'
  BY <1>8 DEF vars, TopologyInv, Written, PastTopology, U
<1> QED
  BY <1>1, <1>2, <1>3, <1>4, <1>5, <1>6, <1>7, <1>8 DEF Next, InitStep

(***************************************************************************)
(* TopologyFits for every command line: strncat cuts nothing off the hart  *)
(* configuration string, and the string stays within its allocation, since *)
(* hart 0 needs two characters less than the others.                       *)
(***************************************************************************)
THEOREM TopologyAlwaysFits == Spec => []TopologyFits
<1>1. Init => TopologyInv
  BY DEF Init, TopologyInv, PastTopology
<1>2. TopologyInv /\ [Next]_vars => TopologyInv'
  BY TopologyStep
<1>3. TopologyInv => TopologyFits
  <2> SUFFICES ASSUME TopologyInv, PastTopology
               PROVE  /\ Len(plic.text) = opts.cpus
                      /\ \A h \in Harts :
                            plic.text[h + 1] = IF h = 0 THEN <<"M">> ELSE <<"M", "S">>
                      /\ plic.used + 1 <= 3 * opts.cpus
    BY DEF TopologyFits
  <2>1. opts.cpus \in 1..4 /\ Written(opts.cpus)
    BY CpusOfU DEF TopologyInv, PastTopology
  <2>2. Len(plic.text) = opts.cpus
    BY <2>1 DEF Written
  <2>3. ASSUME NEW h \in Harts
        PROVE  plic.text[h + 1] = IF h = 0 THEN <<"M">> ELSE <<"M", "S">>
    BY <2>1, <2>3 DEF Written, ModesOfHart, Harts
  <2>4. plic.used + 1 <= 3 * opts.cpus
    <3>1. plic.used = 3 * opts.cpus - 2
      BY <2>1, WrittenUses
    <3> QED
      BY <2>1, <3>1
  <2> QED
    BY <2>2, <2>3, <2>4
<1> QED
  BY <1>1, <1>2, <1>3, PTL DEF Spec

-----------------------------------------------------------------------------
(* Every hart in the mask ROM.                                             *)

\* A CPU has these fields, whatever they hold, and starts where the board says.
Fields ==
    {"misa", "priv_ver", "features", "vlen", "elen", "resetvec", "pc", "priv", "mie",
     "mprv", "mcause", "exception", "reserved", "regs"}

IsCpu(cpu) ==
    /\ cpu = [f \in Fields |-> cpu[f]]
    /\ cpu.regs = [r \in Registers |-> cpu.regs[r]]
    /\ cpu.resetvec = ResetVec

\* What riscv_cpu_reset establishes, apart from the program counter.
Quiet(cpu) ==
    /\ cpu.priv = "M" /\ cpu.mie = FALSE /\ cpu.mprv = FALSE
    /\ cpu.exception = FALSE /\ cpu.reserved = FALSE

\* Before word k of the reset vector of sifive_u and sifive_viu is executed.
AtWordU(h, cpu, k) ==
    /\ cpu.pc = Mrom + k
    /\ k \in 2..5 => cpu.regs["t0"] = Mrom + 1
    /\ k = 6 => cpu.regs["t0"] = StartAddr
    /\ k >= 3 => cpu.regs["a2"] = FwDyn
    /\ k >= 4 => cpu.regs["a0"] = h
    /\ k >= 5 => cpu.regs["a1"] = FdtAddr

\* The same for sifive_e.
AtWordE(cpu, k) ==
    cpu.pc = Mrom + k /\ (k = 2 => cpu.regs["t0"] = Entry)

InVector(h, cpu) ==
    /\ Quiet(cpu)
    /\ IF U THEN \E k \in 1..6 : AtWordU(h, cpu, k) ELSE \E k \in 1..2 : AtWordE(cpu, k)

Handed(h, cpu) ==
    /\ cpu.pc = Entry /\ Quiet(cpu)
    /\ U => /\ cpu.regs["a0"] = h
            /\ cpu.regs["a1"] = FdtAddr
            /\ cpu.regs["a2"] = FwDyn

Placed(h, cpu) == cpu.pc = Elsewhere \/ InVector(h, cpu) \/ Handed(h, cpu)

Started == stage \in {"running", "exited"}

BootInv ==
    /\ Started => rom = ResetVector
    /\ \A h \in DOMAIN harts : IsCpu(harts[h])
    /\ \A h \in DOMAIN harts :
          IF Started THEN Placed(h, harts[h]) ELSE Quiet(harts[h]) /\ harts[h].pc = ResetVec

-----------------------------------------------------------------------------
(* The reset vectors, word by word.                                        *)

LEMMA VectorOfU ==
    ASSUME U
    PROVE  /\ Len(ResetVector) = 11 /\ FwDyn = Mrom + 11
           /\ ResetVector[2] = Instr("auipc", "t0", 0)
           /\ ResetVector[3] = Instr("addi", "a2", 10)
           /\ ResetVector[4] = Instr("csrr", "a0", 0)
           /\ ResetVector[5] = Instr("load", "a1", 8)
           /\ ResetVector[6] = Instr("load", "t0", 6)
           /\ ResetVector[7] = Instr("jr", "t0", 0)
           /\ ResetVector[8] = Word(StartAddr) /\ ResetVector[9] = Word(0)
           /\ ResetVector[10] = Word(FdtAddr) /\ ResetVector[11] = Word(0)
BY DEF ResetVector, FwDyn

LEMMA VectorOfE ==
    ASSUME ~U
    PROVE  /\ Len(ResetVector) = 4
           /\ ResetVector[2] = Instr("lui", "t0", Entry)
           /\ ResetVector[3] = Instr("jr", "t0", 0)
<1>1. Entry = IF opts.revb THEN XipRevB ELSE XipFlash
  BY DEF Entry
<1> QED
  BY <1>1 DEF ResetVector

LEMMA EntryOfU == ASSUME U PROVE Entry = StartAddr
BY DEF Entry, StartAddr, Msel

LEMMA EntryOutside ==
    /\ Entry \in {XipRevB, XipFlash, Flash0, L2Lim, Dram}
    /\ Entry # Elsewhere /\ Entry \notin Mrom..(Mrom + 10)
<1>1. Entry \in {XipRevB, XipFlash, Flash0, L2Lim, Dram}
  BY DEF Entry
<1> QED
  BY <1>1, SMT DEF XipRevB, XipFlash, Flash0, L2Lim, Dram, Elsewhere, Mrom

\* The effect of one instruction on a CPU.
Stepped(h, cpu, i) ==
    IF i.op = "jr" THEN [cpu EXCEPT !.pc = cpu.regs[i.reg]]
    ELSE [cpu EXCEPT !.regs[i.reg] = Result(h, cpu, i), !.pc = @ + 1]

LEMMA SteppedIsCpu ==
    ASSUME NEW h, NEW cpu, NEW i, IsCpu(cpu), i.reg \in Registers
    PROVE  /\ IsCpu(Stepped(h, cpu, i))
           /\ Quiet(cpu) => Quiet(Stepped(h, cpu, i))
<1>1. CASE i.op = "jr"
  <2>1. Stepped(h, cpu, i) = [cpu EXCEPT !.pc = cpu.regs[i.reg]]
    BY <1>1 DEF Stepped
  <2> QED
    BY <2>1 DEF IsCpu, Fields, Quiet
<1>2. CASE i.op # "jr"
  <2> DEFINE next == [cpu EXCEPT !.regs[i.reg] = Result(h, cpu, i), !.pc = @ + 1]
  <2>1. Stepped(h, cpu, i) = next
    BY <1>2 DEF Stepped
  <2>2. IsCpu(next)
    BY DEF IsCpu, Fields
  <2>3. Quiet(cpu) => Quiet(next)
    BY DEF IsCpu, Fields, Quiet
  <2> QED
    BY <2>1, <2>2, <2>3
<1> QED
  BY <1>1, <1>2

\* What one instruction does to the registers the reset vector uses.
LEMMA SteppedRegisters ==
    ASSUME NEW h, NEW cpu, NEW i, IsCpu(cpu), i.reg \in Registers
    PROVE  /\ i.op = "jr" => /\ Stepped(h, cpu, i).pc = cpu.regs[i.reg]
                             /\ Stepped(h, cpu, i).regs = cpu.regs
           /\ i.op # "jr" =>
                /\ Stepped(h, cpu, i).pc = cpu.pc + 1
                /\ \A r \in Registers : Stepped(h, cpu, i).regs[r] =
                        IF r = i.reg THEN Result(h, cpu, i) ELSE cpu.regs[r]
<1>1. CASE i.op = "jr"
  BY <1>1 DEF Stepped, IsCpu, Fields
<1>2. CASE i.op # "jr"
  <2> DEFINE next == [cpu EXCEPT !.regs[i.reg] = Result(h, cpu, i), !.pc = @ + 1]
  <2>1. Stepped(h, cpu, i) = next
    BY <1>2 DEF Stepped
  <2>2. next.pc = cpu.pc + 1
    BY DEF IsCpu, Fields
  <2>3. next.regs = [cpu.regs EXCEPT ![i.reg] = Result(h, cpu, i)]
    BY DEF IsCpu, Fields
  <2>4. ASSUME NEW r \in Registers
        PROVE  next.regs[r] = IF r = i.reg THEN Result(h, cpu, i) ELSE cpu.regs[r]
    BY <2>3, <2>4 DEF IsCpu, Fields
  <2> QED
    BY <1>2, <2>1, <2>2, <2>4
<1> QED
  BY <1>1, <1>2

\* Where a hart in ROM is, it finds the word its position says.
LEMMA FetchU ==
    ASSUME U, rom = ResetVector, NEW k \in 1..6, NEW cpu, cpu.pc = Mrom + k
    PROVE  AtAddress(cpu.pc) = ResetVector[k + 1]
BY DEF AtAddress, Mrom

\* A word with nothing above it is loaded alike in both widths.
LEMMA LoadedWord ==
    ASSUME NEW a, NEW n, AtAddress(a) = Word(n), AtAddress(a + 1) = Word(0)
    PROVE  Loaded(a) = n
<1>1. Word(n).arg = n /\ Word(0).arg = 0
  BY DEF Word
<1>2. AtAddress(a).arg = n /\ AtAddress(a + 1).arg = 0
  BY <1>1, Zenon
<1> QED
  BY <1>2 DEF Loaded

LEMMA StepInU ==
    ASSUME U, rom = ResetVector, NEW h, NEW cpu, IsCpu(cpu), Quiet(cpu),
           NEW k \in 1..6, AtWordU(h, cpu, k)
    PROVE  LET next == Stepped(h, cpu, AtAddress(cpu.pc)) IN
           /\ IsCpu(next) /\ Quiet(next)
           /\ IF k = 6 THEN Handed(h, next) ELSE AtWordU(h, next, k + 1)
<1> DEFINE i == ResetVector[k + 1]
           next == Stepped(h, cpu, i)
<1>1. cpu.pc = Mrom + k /\ AtAddress(cpu.pc) = i
  BY FetchU DEF AtWordU
<1>2. i.reg \in Registers
  BY VectorOfU DEF Instr, Registers
<1>3. IsCpu(next) /\ Quiet(next)
  BY <1>2, SteppedIsCpu
<1>4. CASE k = 1
  <2>1. i = Instr("auipc", "t0", 0)
    BY <1>4, VectorOfU
  <2>2. Result(h, cpu, i) = Mrom + 1
    BY <1>1, <1>4, <2>1 DEF Result, Instr, Mrom
  <2>3. next.pc = Mrom + 2 /\ next.regs["t0"] = Mrom + 1
    BY <1>1, <1>2, <1>4, <2>1, <2>2, SteppedRegisters DEF Instr, Registers, Mrom
  <2> QED
    BY <1>1, <1>3, <1>4, <2>3 DEF AtWordU
<1>5. CASE k = 2
  <2>1. i = Instr("addi", "a2", 10)
    BY <1>5, VectorOfU
  <2>2. Result(h, cpu, i) = FwDyn
    BY <1>5, <2>1, VectorOfU DEF Result, Instr, Mrom, AtWordU
  <2>3. /\ next.pc = Mrom + 3 /\ next.regs["a2"] = FwDyn
        /\ next.regs["t0"] = cpu.regs["t0"]
    BY <1>1, <1>2, <1>5, <2>1, <2>2, SteppedRegisters DEF Instr, Registers, Mrom
  <2> QED
    BY <1>1, <1>3, <1>5, <2>3 DEF AtWordU
<1>6. CASE k = 3
  <2>1. i = Instr("csrr", "a0", 0)
    BY <1>6, VectorOfU
  <2>2. Result(h, cpu, i) = h
    BY <2>1 DEF Result, Instr
  <2>3. /\ next.pc = Mrom + 4 /\ next.regs["a0"] = h
        /\ next.regs["t0"] = cpu.regs["t0"] /\ next.regs["a2"] = cpu.regs["a2"]
    BY <1>1, <1>2, <1>6, <2>1, <2>2, SteppedRegisters DEF Instr, Registers, Mrom
  <2> QED
    BY <1>1, <1>3, <1>6, <2>3 DEF AtWordU
<1>7. CASE k = 4
  <2>1. i = Instr("load", "a1", 8)
    BY <1>7, VectorOfU
  <2>2. cpu.regs["t0"] = Mrom + 1
    BY <1>7 DEF AtWordU
  <2>3. Loaded(Mrom + 9) = FdtAddr
    <3>1. AtAddress(Mrom + 9) = Word(FdtAddr) /\ AtAddress((Mrom + 9) + 1) = Word(0)
      BY VectorOfU DEF AtAddress, Mrom
    <3> QED
      BY <3>1, LoadedWord
  <2>4. Result(h, cpu, i) = FdtAddr
    BY <2>1, <2>2, <2>3 DEF Result, Instr, Mrom
  <2>5. /\ next.pc = Mrom + 5 /\ next.regs["a1"] = FdtAddr
        /\ next.regs["t0"] = cpu.regs["t0"] /\ next.regs["a2"] = cpu.regs["a2"]
        /\ next.regs["a0"] = cpu.regs["a0"]
    BY <1>1, <1>2, <1>7, <2>1, <2>4, SteppedRegisters DEF Instr, Registers, Mrom
  <2> QED
    BY <1>1, <1>3, <1>7, <2>5 DEF AtWordU
<1>8. CASE k = 5
  <2>1. i = Instr("load", "t0", 6)
    BY <1>8, VectorOfU
  <2>2. cpu.regs["t0"] = Mrom + 1
    BY <1>8 DEF AtWordU
  <2>3. Loaded(Mrom + 7) = StartAddr
    <3>1. AtAddress(Mrom + 7) = Word(StartAddr) /\ AtAddress((Mrom + 7) + 1) = Word(0)
      BY VectorOfU DEF AtAddress, Mrom
    <3> QED
      BY <3>1, LoadedWord
  <2>4. Result(h, cpu, i) = StartAddr
    BY <2>1, <2>2, <2>3 DEF Result, Instr, Mrom
  <2>5. /\ next.pc = Mrom + 6 /\ next.regs["t0"] = StartAddr
        /\ next.regs["a1"] = cpu.regs["a1"] /\ next.regs["a2"] = cpu.regs["a2"]
        /\ next.regs["a0"] = cpu.regs["a0"]
    BY <1>1, <1>2, <1>8, <2>1, <2>4, SteppedRegisters DEF Instr, Registers, Mrom
  <2> QED
    BY <1>1, <1>3, <1>8, <2>5 DEF AtWordU
<1>9. CASE k = 6
  <2>1. i = Instr("jr", "t0", 0)
    BY <1>9, VectorOfU
  <2>2. next.pc = StartAddr /\ next.regs = cpu.regs
    BY <1>2, <1>9, <2>1, SteppedRegisters DEF Instr, AtWordU
  <2> QED
    BY <1>1, <1>3, <1>9, <2>2, EntryOfU DEF AtWordU, Handed
<1> QED
  BY <1>4, <1>5, <1>6, <1>7, <1>8, <1>9

LEMMA StepInE ==
    ASSUME ~U, rom = ResetVector, NEW h, NEW cpu, IsCpu(cpu), Quiet(cpu),
           NEW k \in 1..2, AtWordE(cpu, k)
    PROVE  LET next == Stepped(h, cpu, AtAddress(cpu.pc)) IN
           /\ IsCpu(next) /\ Quiet(next)
           /\ IF k = 2 THEN Handed(h, next) ELSE AtWordE(next, k + 1)
<1> DEFINE i == ResetVector[k + 1]
           next == Stepped(h, cpu, i)
<1>1. cpu.pc = Mrom + k /\ AtAddress(cpu.pc) = i
  BY DEF AtAddress, AtWordE, Mrom
<1>2. i.reg \in Registers
  BY VectorOfE DEF Instr, Registers
<1>3. IsCpu(next) /\ Quiet(next)
  BY <1>2, SteppedIsCpu
<1>4. CASE k = 1
  <2>1. i = Instr("lui", "t0", Entry)
    BY <1>4, VectorOfE
  <2>2. Result(h, cpu, i) = Entry
    BY <2>1 DEF Result, Instr
  <2>3. next.pc = Mrom + 2 /\ next.regs["t0"] = Entry
    BY <1>1, <1>2, <1>4, <2>1, <2>2, SteppedRegisters DEF Instr, Registers, Mrom
  <2> QED
    BY <1>1, <1>3, <1>4, <2>3 DEF AtWordE
<1>5. CASE k = 2
  <2>1. i = Instr("jr", "t0", 0)
    BY <1>5, VectorOfE
  <2>2. next.pc = Entry
    BY <1>2, <1>5, <2>1, SteppedRegisters DEF Instr, AtWordE
  <2> QED
    BY <1>1, <1>3, <1>5, <2>2 DEF Handed
<1> QED
  BY <1>4, <1>5

\* The command line is fixed, and with it all that depends on it alone.
LEMMA OptionsFixed ==
    ASSUME opts' = opts
    PROVE  /\ U' = U /\ Entry' = Entry /\ StartAddr' = StartAddr
           /\ ResetVector' = ResetVector /\ FwDyn' = FwDyn
<1>1. U' = U /\ Msel' = Msel
  BY DEF U, Msel
<1>2. Entry' = Entry
  BY <1>1 DEF Entry
<1>3. StartAddr' = StartAddr
  BY <1>1 DEF StartAddr
<1>4. ResetVector' = ResetVector
  BY <1>1, <1>3 DEF ResetVector
<1> QED
  BY <1>1, <1>2, <1>3, <1>4 DEF FwDyn

LEMMA PlacedNext ==
    ASSUME opts' = opts, NEW h, Placed(h, harts'[h])
    PROVE  Placed(h, harts[h])'
BY OptionsFixed DEF Placed, InVector, Handed, AtWordU, AtWordE, Quiet

LEMMA HartsKept ==
    ASSUME BootInv, opts' = opts, harts' = harts, rom' = rom, Started' = Started
    PROVE  BootInv'
<1>1. Started' => rom' = ResetVector'
  BY OptionsFixed DEF BootInv
<1>2. ASSUME NEW h \in DOMAIN harts'
      PROVE  /\ IsCpu(harts[h])'
             /\ IF Started' THEN Placed(h, harts[h])'
                ELSE Quiet(harts[h])' /\ (harts[h].pc = ResetVec)'
  <2>1. CASE Started
    BY <1>2, <2>1, PlacedNext DEF BootInv, IsCpu, Fields
  <2>2. CASE ~Started
    BY <1>2, <2>2 DEF BootInv, IsCpu, Fields, Quiet
  <2> QED
    BY <2>1, <2>2
<1> QED
  BY <1>1, <1>2 DEF BootInv

LEMMA ResetIsCpu ==
    ASSUME NEW cpu, IsCpu(cpu)
    PROVE  /\ IsCpu(CpuReset(cpu)) /\ Quiet(CpuReset(cpu))
           /\ CpuReset(cpu).pc = ResetVec
BY DEF IsCpu, Fields, CpuReset, Quiet

LEMMA RealizedIsCpu ==
    ASSUME NEW model, NEW given
    PROVE  LET cpu == Realized(model, given, ResetVec) IN
           IsCpu(cpu) /\ Quiet(cpu) /\ cpu.pc = ResetVec
<1> DEFINE cfg == Configured(model, given)
           raw == [misa |-> RealizedMisa(model, cfg),
                   priv_ver |-> IF cfg.priv_spec = "v1.10.0" THEN 10 ELSE 11,
                   features |-> Features(cfg), vlen |-> cfg.vlen, elen |-> cfg.elen,
                   resetvec |-> ResetVec, pc |-> 0, priv |-> "M", mie |-> FALSE,
                   mprv |-> FALSE, mcause |-> 0, exception |-> FALSE,
                   reserved |-> FALSE, regs |-> [r \in Registers |-> 0]]
<1>1. IsCpu(raw)
  BY DEF IsCpu, Fields
<1>2. Realized(model, given, ResetVec) = CpuReset(raw)
  BY DEF Realized
<1> QED
  BY <1>1, <1>2, ResetIsCpu

\* A hart at the reset vector is at the first instruction.
LEMMA ResetIsPlaced ==
    ASSUME NEW h, NEW cpu, Quiet(cpu), cpu.pc = ResetVec
    PROVE  Placed(h, cpu)
<1>1. cpu.pc = Mrom + 1
  BY DEF ResetVec, Mrom
<1>2. AtWordU(h, cpu, 1) /\ AtWordE(cpu, 1)
  BY <1>1 DEF AtWordU, AtWordE
<1> QED
  BY <1>2 DEF Placed, InVector

\* What stands for the firmware's addresses and values is a number.
LEMMA GuestValues == Elsewhere \in Nat /\ Garbage \in Nat
BY SMT DEF Elsewhere, Garbage, Dram

\* A hart that leaves the ROM or is outside it is not in the vector.
LEMMA OutOfVector ==
    ASSUME rom = ResetVector, NEW h, NEW cpu, Placed(h, cpu)
    PROVE  InRom(cpu) <=> InVector(h, cpu)
<1>1. Mrom + Len(rom) - 1 = IF U THEN Mrom + 10 ELSE Mrom + 3
  <2>1. Len(rom) = IF U THEN 11 ELSE 4
    BY VectorOfU, VectorOfE
  <2> QED
    BY <2>1 DEF Mrom
<1>2. ASSUME InVector(h, cpu) PROVE InRom(cpu)
  BY <1>1, <1>2 DEF InVector, AtWordU, AtWordE, InRom, Mrom
<1>3. ASSUME cpu.pc = Elsewhere \/ Handed(h, cpu) PROVE ~InRom(cpu)
  BY <1>1, <1>3, EntryOutside, SMT DEF Handed, InRom, Mrom, Elsewhere, Dram
<1> QED
  BY <1>2, <1>3 DEF Placed

LEMMA RomStepPlaced ==
    ASSUME BootInv, NEW h \in DOMAIN harts, RomStep(h)
    PROVE  IsCpu(harts'[h]) /\ Placed(h, harts'[h])
<1> DEFINE cpu == harts[h]
<1>1. /\ Started /\ rom = ResetVector /\ IsCpu(cpu) /\ Placed(h, cpu) /\ InRom(cpu)
  BY DEF BootInv, RomStep, Started
<1>2. InVector(h, cpu)
  BY <1>1, OutOfVector
<1>3. harts'[h] = Stepped(h, cpu, AtAddress(cpu.pc))
  BY DEF RomStep, Stepped
<1>4. CASE U
  <2>1. PICK k \in 1..6 : AtWordU(h, cpu, k)
    BY <1>2, <1>4 DEF InVector
  <2>2. /\ IsCpu(harts'[h]) /\ Quiet(harts'[h])
        /\ IF k = 6 THEN Handed(h, harts'[h]) ELSE AtWordU(h, harts'[h], k + 1)
    BY <1>1, <1>2, <1>3, <1>4, <2>1, StepInU DEF InVector
  <2> QED
    BY <1>4, <2>2 DEF Placed, InVector
<1>5. CASE ~U
  <2>1. PICK k \in 1..2 : AtWordE(cpu, k)
    BY <1>2, <1>5 DEF InVector
  <2>2. /\ IsCpu(harts'[h]) /\ Quiet(harts'[h])
        /\ IF k = 2 THEN Handed(h, harts'[h]) ELSE AtWordE(harts'[h], k + 1)
    BY <1>1, <1>2, <1>3, <1>5, <2>1, StepInE DEF InVector
  <2> QED
    BY <1>5, <2>2 DEF Placed, InVector
<1> QED
  BY <1>4, <1>5

\* When the board runs, a step that leaves every hart placed keeps BootInv.
LEMMA StillPlaced ==
    ASSUME BootInv, Started, Started', opts' = opts, rom' = rom,
           \A h \in DOMAIN harts' : IsCpu(harts'[h]) /\ Placed(h, harts'[h])
    PROVE  BootInv'
<1>1. Started' => rom' = ResetVector'
  BY OptionsFixed DEF BootInv
<1>2. ASSUME NEW h \in DOMAIN harts'
      PROVE  IsCpu(harts[h])' /\ Placed(h, harts[h])'
  BY <1>2, PlacedNext DEF IsCpu, Fields
<1> QED
  BY <1>1, <1>2 DEF BootInv

LEMMA BootStep == BootInv /\ [Next]_vars => BootInv'
<1> SUFFICES ASSUME BootInv, [Next]_vars PROVE BootInv'
  OBVIOUS
<1>1. ASSUME RealizeHarts PROVE BootInv'
  <2>1. CASE UNCHANGED <<harts, plic>> /\ stage' = "aborted"
    BY <1>1, <2>1, HartsKept DEF RealizeHarts, Started
  <2>2. CASE /\ harts' = [h \in Harts |-> Realized(BoardModel, GivenHere, ResetVec)]
             /\ stage' \in {"topology", "devices"}
    <3>1. \A h \in DOMAIN harts' :
             IsCpu(harts'[h]) /\ Quiet(harts'[h]) /\ harts'[h].pc = ResetVec
      BY <2>2, RealizedIsCpu
    <3> QED
      BY <2>2, <3>1 DEF BootInv, Started, IsCpu, Fields, Quiet
  <2> QED
    BY <1>1, <2>1, <2>2 DEF RealizeHarts
<1>2. ASSUME AddHart \/ CreatePlic \/ ConnectDevices
             \/ FdtClocks \/ FdtCpuNode \/ FdtDevices
      PROVE  BootInv'
  BY <1>2, HartsKept
  DEF AddHart, CreatePlic, ConnectDevices, FdtClocks, FdtCpuNode, FdtDevices, Started
<1>3. ASSUME WriteRom PROVE BootInv'
  <2>1. /\ ~Started /\ Started' /\ opts' = opts /\ harts' = harts
        /\ rom' = ResetVector
    BY <1>3 DEF WriteRom, Started
  <2>2. \A h \in DOMAIN harts' : IsCpu(harts'[h]) /\ Placed(h, harts'[h])
    BY <2>1, ResetIsPlaced DEF BootInv
  <2>3. ASSUME NEW h \in DOMAIN harts'
        PROVE  IsCpu(harts[h])' /\ Placed(h, harts[h])'
    BY <2>1, <2>2, <2>3, PlacedNext DEF IsCpu, Fields
  <2> QED
    BY <2>1, <2>3, OptionsFixed DEF BootInv
<1>4. ASSUME MainLoopReset PROVE BootInv'
  <2>1. /\ Started /\ Started' /\ opts' = opts /\ rom' = rom
        /\ harts' = [h \in DOMAIN harts |-> CpuReset(harts[h])]
    BY <1>4 DEF MainLoopReset, Started
  <2>2. \A h \in DOMAIN harts' : IsCpu(harts'[h]) /\ Placed(h, harts'[h])
    BY <2>1, ResetIsCpu, ResetIsPlaced DEF BootInv
  <2> QED
    BY <2>1, <2>2, StillPlaced
<1>5. ASSUME NEW h \in DOMAIN harts, RomStep(h) PROVE BootInv'
  <2>1. /\ Started /\ Started' /\ opts' = opts /\ rom' = rom
        /\ DOMAIN harts' = DOMAIN harts
        /\ \A g \in DOMAIN harts : g # h => harts'[g] = harts[g]
    BY <1>5 DEF RomStep, Started
  <2>2. \A g \in DOMAIN harts' : IsCpu(harts'[g]) /\ Placed(g, harts'[g])
    BY <1>5, <2>1, RomStepPlaced DEF BootInv
  <2> QED
    BY <2>1, <2>2, StillPlaced
<1>6. ASSUME NEW h \in DOMAIN harts, GuestRuns(h) PROVE BootInv'
  <2>1. /\ Started /\ Started' /\ opts' = opts /\ rom' = rom
        /\ DOMAIN harts' = DOMAIN harts
        /\ \A g \in DOMAIN harts : g # h => harts'[g] = harts[g]
    BY <1>6 DEF GuestRuns, InGuest, Started
  <2>2. IsCpu(harts[h])
    BY DEF BootInv
  <2>3. IsCpu(harts'[h]) /\ harts'[h].pc = Elsewhere
    <3>1. PICK mode \in ModesOf(harts[h]) :
             harts'[h] = [harts[h] EXCEPT
                 !.pc = Elsewhere, !.priv = mode, !.mie = TRUE, !.mprv = TRUE,
                 !.mcause = 1, !.exception = TRUE, !.reserved = TRUE,
                 !.regs = [r \in Registers |-> Garbage]]
      BY <1>6 DEF GuestRuns
    <3> QED
      BY <2>2, <3>1, GuestValues DEF IsCpu, Fields
  <2>4. \A g \in DOMAIN harts' : IsCpu(harts'[g]) /\ Placed(g, harts'[g])
    BY <2>1, <2>3 DEF BootInv, Placed
  <2> QED
    BY <2>1, <2>4, StillPlaced
<1>7. ASSUME NEW h, GuestFinishes(h) \/ GuestAsksReset(h) PROVE BootInv'
  BY <1>7, HartsKept DEF GuestFinishes, GuestAsksReset, InGuest, Started
<1>8. ASSUME UNCHANGED vars PROVE BootInv'
  BY <1>8, HartsKept DEF vars, Started
<1> QED
  BY <1>1, <1>2, <1>3, <1>4, <1>5, <1>6, <1>7, <1>8 DEF Next, InitStep

(***************************************************************************)
(* HandOff for every command line, every privilege mode the guest may end  *)
(* in and any number of resets: a hart that has left the ROM and has not   *)
(* run on is at the entry, in machine mode, with the registers the reset   *)
(* vector has loaded.                                                      *)
(***************************************************************************)
THEOREM HandOffAlways == Spec => []HandOff
<1>1. Init => BootInv
  BY DEF Init, BootInv, Started
<1>2. BootInv /\ [Next]_vars => BootInv'
  BY BootStep
<1>3. BootInv => HandOff
  <2> SUFFICES ASSUME BootInv, NEW h \in DOMAIN harts,
                      InGuest(h), harts[h].pc # Elsewhere
               PROVE  Handed(h, harts[h])
    BY DEF HandOff, Handed, Quiet
  <2>1. /\ rom = ResetVector /\ Placed(h, harts[h]) /\ ~InRom(harts[h])
    BY DEF BootInv, Started, InGuest
  <2> QED
    BY <2>1, OutOfVector DEF Placed
<1> QED
  BY <1>1, <1>2, <1>3, PTL DEF Spec

-----------------------------------------------------------------------------
(* The memory map and the lines of the PLIC.                               *)

\* The regions of sifive_u below DRAM, which is the last one.
Below == DOMAIN UMap(1) \ {"dram"}

LEMMA RegionsApart ==
    /\ \A d, e \in DOMAIN UMap(RamSize) :
          d = e \/ Apart(UMap(RamSize)[d], UMap(RamSize)[e])
    /\ \A d, e \in DOMAIN EMap : d = e \/ Apart(EMap[d], EMap[e])
<1>1. \A d, e \in DOMAIN UMap(RamSize) : d = e \/ Apart(UMap(RamSize)[d], UMap(RamSize)[e])
  <2>1. \A d, e \in Below : d = e \/ Apart(UMap(1)[d], UMap(1)[e])
    BY SMT DEF Below, UMap, At, Apart
  <2>2. \A d \in Below : /\ UMap(RamSize)[d] = UMap(1)[d]
                         /\ UMap(1)[d].base + UMap(1)[d].size <= 524288
    BY SMT DEF Below, UMap, At
  <2>3. /\ UMap(RamSize)["dram"].base = 524288
        /\ \A d \in DOMAIN UMap(RamSize) : d = "dram" \/ d \in Below
    BY SMT DEF Below, UMap, At
  <2>4. \A d \in Below : /\ Apart(UMap(RamSize)[d], UMap(RamSize)["dram"])
                         /\ Apart(UMap(RamSize)["dram"], UMap(RamSize)[d])
    BY <2>2, <2>3, SMT DEF Apart
  <2> QED
    BY <2>1, <2>2, <2>3, <2>4, SMT
<1>2. \A d, e \in DOMAIN EMap : d = e \/ Apart(EMap[d], EMap[e])
  BY SMT DEF EMap, At, Apart
<1> QED
  BY <1>1, <1>2

LEMMA WiresFit ==
    /\ \A v, w \in Wires : v[3] = w[3] => v = w
    /\ \A w \in Wires : w[3] \in 1..(Irq.sources - 1)
<1>1. CASE U
  BY <1>1 DEF Wires, Irq, UIrq
<1>2. CASE ~U
  BY <1>2 DEF Wires, Irq, EIrq
<1> QED
  BY <1>1, <1>2

LEMMA RomHoldsVector == Holds(MemoryMap.mrom, ResetVec) /\ Holds(MemoryMap.mrom, FwDyn)
<1>1. FwDyn = Mrom + 11 \/ FwDyn = Mrom + 4
  BY VectorOfU, VectorOfE DEF FwDyn
<1>2. MemoryMap.mrom.base = 1 /\ MemoryMap.mrom.size \in {15, 2}
  BY DEF MemoryMap, UMap, EMap, At
<1> QED
  BY <1>1, <1>2 DEF Holds, ResetVec, Mrom

LEMMA EntryHeld ==
    \E d \in DOMAIN MemoryMap \cap {"xip", "flash0", "l2lim", "dram"} :
        Holds(MemoryMap[d], Entry)
<1>1. CASE U
  <2>1. Entry \in {Flash0, L2Lim, Dram}
    BY <1>1 DEF Entry
  <2>2. CASE Entry = Flash0
    <3>1. Holds(UMap(RamSize)["flash0"], Flash0) /\ "flash0" \in DOMAIN UMap(RamSize)
      BY SMT DEF UMap, At, Holds, Flash0
    <3> QED
      BY <1>1, <2>2, <3>1 DEF MemoryMap
  <2>3. CASE Entry = L2Lim
    <3>1. Holds(UMap(RamSize)["l2lim"], L2Lim) /\ "l2lim" \in DOMAIN UMap(RamSize)
      BY SMT DEF UMap, At, Holds, L2Lim
    <3> QED
      BY <1>1, <2>3, <3>1 DEF MemoryMap
  <2>4. CASE Entry = Dram
    <3>1. Holds(UMap(RamSize)["dram"], Dram) /\ "dram" \in DOMAIN UMap(RamSize)
      <4>1. /\ UMap(RamSize)["dram"].base = 524288 /\ UMap(RamSize)["dram"].size = RamSize
            /\ "dram" \in DOMAIN UMap(RamSize)
        BY SMT DEF UMap, At
      <4>2. Dram \div 1024 = 524288
        BY SMT DEF Dram
      <4>3. RamSize \in Nat /\ RamSize >= 1
        <5>1. RamSize \in Nat \ {0}
          BY BoundAssumption
        <5> QED
          BY <5>1, SMT
      <4>4. 524288 \in 524288..(524288 + RamSize - 1)
        BY <4>3, SMT
      <4> QED
        BY <4>1, <4>2, <4>4, SMT DEF Holds
    <3> QED
      BY <1>1, <2>4, <3>1 DEF MemoryMap
  <2> QED
    BY <2>1, <2>2, <2>3, <2>4
<1>2. CASE ~U
  <2>1. Entry \in {XipRevB, XipFlash}
    BY <1>2 DEF Entry
  <2>2. Holds(EMap["xip"], XipRevB) /\ Holds(EMap["xip"], XipFlash) /\ "xip" \in DOMAIN EMap
    BY SMT DEF EMap, At, Holds, XipRevB, XipFlash
  <2> QED
    BY <1>2, <2>1, <2>2 DEF MemoryMap
<1> QED
  BY <1>1, <1>2

LinesInv ==
    /\ TopologyInv
    /\ stage \in {"fdt", "nodes", "rom", "running", "exited"} => plic.lines = Wires

LEMMA LinesStep == LinesInv /\ [Next]_vars => LinesInv'
<1> SUFFICES ASSUME LinesInv, [Next]_vars PROVE LinesInv'
  OBVIOUS
<1>1. TopologyInv'
  BY TopologyStep DEF LinesInv
<1> SUFFICES ASSUME stage' \in {"fdt", "nodes", "rom", "running", "exited"}
             PROVE  plic'.lines = Wires'
  BY <1>1 DEF LinesInv
<1>2. opts' = opts => Wires' = Wires
  BY DEF Wires, Irq, U
<1>3. CASE ConnectDevices
  BY <1>2, <1>3 DEF ConnectDevices, LinesInv, TopologyInv
<1>4. CASE FdtClocks \/ FdtCpuNode \/ FdtDevices \/ WriteRom \/ MainLoopReset
  BY <1>2, <1>4 DEF FdtClocks, FdtCpuNode, FdtDevices, WriteRom, MainLoopReset, LinesInv
<1>5. CASE \E h \in DOMAIN harts :
             RomStep(h) \/ GuestRuns(h) \/ GuestFinishes(h) \/ GuestAsksReset(h)
  BY <1>2, <1>5 DEF RomStep, GuestRuns, GuestFinishes, GuestAsksReset, InGuest, LinesInv
<1>6. CASE RealizeHarts \/ AddHart \/ CreatePlic
  BY <1>6 DEF RealizeHarts, AddHart, CreatePlic
<1>7. CASE UNCHANGED vars
  BY <1>2, <1>7 DEF vars, LinesInv
<1> QED
  BY <1>3, <1>4, <1>5, <1>6, <1>7 DEF Next, InitStep

(***************************************************************************)
(* BoardFits for every command line and every size of DRAM: the regions    *)
(* that soc_realize and machine_init map are apart, the lines of the PLIC  *)
(* exist and are not shared, and the ROM begins and hands over in memory.  *)
(***************************************************************************)
THEOREM BoardAlwaysFits == Spec => []BoardFits
<1>1. Init => LinesInv
  BY DEF Init, LinesInv, TopologyInv, PastTopology
<1>2. LinesInv => BoardFits
  <2>1. \A d, e \in DOMAIN MemoryMap : d = e \/ Apart(MemoryMap[d], MemoryMap[e])
    BY RegionsApart DEF MemoryMap
  <2> QED
    BY <2>1, WiresFit, RomHoldsVector, EntryHeld DEF LinesInv, BoardFits
<1> QED
  BY <1>1, <1>2, LinesStep, PTL DEF Spec

-----------------------------------------------------------------------------
(* The device tree.                                                        *)

\* The handle of the interrupt controller of hart h: the loop counts down.
HandleOf(h) == 2 + opts.cpus - h
IntcFrom(k) == [h \in (opts.cpus - k)..(opts.cpus - 1) |-> HandleOf(h)]

\* The tree with the nodes of the last k harts.
Noded(k) ==
    [phandle |-> 3 + k, clocks |-> <<1, 2>>, intc |-> IntcFrom(k), prci |-> 0, plic |-> 0,
     gpio |-> 0, phy |-> 0, clintRefs |-> <<>>, plicRefs |-> <<>>, irqs |-> {},
     regs |-> {}, ndev |-> 0, restart |-> <<0, 0>>]

\* The tree that create_fdt leaves: the handles follow those of the harts.
Described ==
    LET next == 3 + opts.cpus
        intc == IntcFrom(opts.cpus)
    IN [phandle |-> next + 4, clocks |-> <<1, 2>>, intc |-> intc, prci |-> next,
        plic |-> next + 1, gpio |-> next + 2, phy |-> next + 3,
        clintRefs |-> RefsOf(intc, "M_SOFT", "M_TIMER"),
        plicRefs |-> RefsOf(intc, "M", "S"),
        irqs |-> {<<"gpio", i, UIrq.gpio + i>> : i \in 0..15}
                 \cup {<<"gem", 0, UIrq.gem>>, <<"uart0", 0, UIrq.uart0>>},
        regs |-> {"dram", "clint", "otp", "prci", "plic", "gpio", "gem", "gem_mgmt",
                  "test", "uart0"},
        ndev |-> 53, restart |-> <<next + 2, 10>>]

(***************************************************************************)
(* What every stage has of the device tree: nothing before create_fdt, the *)
(* nodes of the last harts while it counts down, with handles in the order *)
(* they were made, and all of it afterwards, beside the lines of the PLIC. *)
(***************************************************************************)
TreeInv ==
    /\ LinesInv
    /\ stage \in {"fdt", "nodes"} => U /\ ~opts.dtb
    /\ stage = "nodes" => \E k \in 0..opts.cpus : fdt = Noded(k)
    /\ TreeDone => fdt = Described
    /\ stage # "nodes" /\ ~TreeDone => fdt = NoTree

LEMMA NodedFields ==
    ASSUME NEW k, fdt = Noded(k)
    PROVE  /\ fdt.intc = IntcFrom(k) /\ fdt.phandle = 3 + k
           /\ DOMAIN fdt.intc = (opts.cpus - k)..(opts.cpus - 1)
BY DEF Noded, IntcFrom

LEMMA NodesSoFar ==
    ASSUME opts.cpus \in Nat, NEW k \in 0..opts.cpus
    PROVE  /\ Cardinality((opts.cpus - k)..(opts.cpus - 1)) = k
           /\ (opts.cpus - k)..(opts.cpus - 1) = Harts <=> k = opts.cpus
<1>1. Cardinality((opts.cpus - k)..(opts.cpus - 1)) = k
  <2> DEFINE a == opts.cpus - k
             b == opts.cpus - 1
  <2>1. a \in Int /\ b \in Int /\ b - a + 1 = k /\ (a > b => k = 0)
    OBVIOUS
  <2> HIDE DEF a, b
  <2>2. Cardinality(a..b) = IF a > b THEN 0 ELSE b - a + 1
    BY <2>1, FS_Interval
  <2>3. Cardinality(a..b) = k
    BY <2>1, <2>2
  <2> QED
    BY <2>3 DEF a, b
<1>2. ASSUME k < opts.cpus PROVE (opts.cpus - k)..(opts.cpus - 1) # Harts
  <2>1. 0 \in Harts /\ 0 \notin (opts.cpus - k)..(opts.cpus - 1)
    BY <1>2 DEF Harts
  <2> QED
    BY <2>1
<1> QED
  BY <1>1, <1>2 DEF Harts

\* The next hart gets the next handle.
LEMMA NodeAdded ==
    ASSUME opts.cpus \in Nat, NEW k \in 0..opts.cpus, fdt = Noded(k), FdtCpuNode
    PROVE  k + 1 \in 0..opts.cpus /\ fdt' = Noded(k + 1)'
<1>1. k < opts.cpus
  BY NodedFields, NodesSoFar DEF FdtCpuNode
<1>2. NextNode = opts.cpus - 1 - k
  BY NodedFields, NodesSoFar DEF NextNode
<1>3. DOMAIN fdt.intc \cup {NextNode} = (opts.cpus - (k + 1))..(opts.cpus - 1)
  BY <1>1, <1>2, NodedFields
<1>4. WithNode = IntcFrom(k + 1)
  <2>1. fdt.phandle = HandleOf(NextNode)
    BY <1>2, NodedFields DEF HandleOf
  <2>2. \A h \in DOMAIN fdt.intc : fdt.intc[h] = HandleOf(h)
    BY NodedFields DEF IntcFrom
  <2> QED
    BY <1>3, <2>1, <2>2 DEF WithNode, IntcFrom
<1>5. fdt' = Noded(k + 1)
  <2>1. fdt' = [fdt EXCEPT !.intc = IntcFrom(k + 1), !.phandle = 3 + (k + 1)]
    <3>1. fdt.phandle + 1 = 3 + (k + 1)
      BY NodedFields
    <3> QED
      BY <1>4, <3>1, Zenon DEF FdtCpuNode
  <2> QED
    BY <2>1 DEF Noded
<1>6. Noded(k + 1)' = Noded(k + 1)
  <2>1. opts' = opts
    BY DEF FdtCpuNode
  <2> QED
    BY <2>1 DEF Noded, IntcFrom, HandleOf
<1> QED
  BY <1>1, <1>5, <1>6

LEMMA TreeCompleted ==
    ASSUME opts.cpus \in Nat, NEW k \in 0..opts.cpus, fdt = Noded(k), FdtDevices
    PROVE  fdt' = Described'
<1>1. k = opts.cpus
  BY NodedFields, NodesSoFar DEF FdtDevices
<1>2. fdt' = Described
  BY <1>1 DEF FdtDevices, Noded, Described
<1>3. Described' = Described
  <2>1. opts' = opts
    BY DEF FdtDevices
  <2> QED
    BY <2>1 DEF Described, IntcFrom, HandleOf, RefsOf
<1> QED
  BY <1>2, <1>3

\* What follows while the tree is left alone.
LEMMA TreeKept ==
    ASSUME TreeInv, LinesInv', opts' = opts, fdt' = fdt, stage # "nodes",
           stage' # "nodes", stage' # "fdt", TreeDone' <=> TreeDone
    PROVE  TreeInv'
<1>1. Described' = Described
  BY DEF Described, IntcFrom, HandleOf, RefsOf
<1> QED
  BY <1>1 DEF TreeInv

LEMMA TreeStep == TreeInv /\ [Next]_vars => TreeInv'
<1> SUFFICES ASSUME TreeInv, [Next]_vars PROVE TreeInv'
  OBVIOUS
<1>1. LinesInv'
  BY LinesStep DEF TreeInv
<1>2. CASE RealizeHarts \/ AddHart \/ CreatePlic
  BY <1>1, <1>2, TreeKept DEF RealizeHarts, AddHart, CreatePlic, TreeDone
<1>3. CASE ConnectDevices
  <2>1. U' = U
    BY <1>3 DEF ConnectDevices, U
  <2> QED
    BY <1>1, <1>3, <2>1 DEF ConnectDevices, TreeInv, TreeDone
<1>4. CASE FdtClocks
  <2>1. U /\ ~opts.dtb /\ fdt = NoTree /\ opts.cpus \in 1..4
    BY <1>4, CpusOfU DEF FdtClocks, TreeInv, TreeDone, LinesInv, TopologyInv
  <2>2. U' = U /\ opts' = opts /\ stage' = "nodes"
    BY <1>4 DEF FdtClocks, U
  <2>3. fdt' = Noded(0)
    <3>1. IntcFrom(0) = <<>>
      BY <2>1 DEF IntcFrom
    <3>2. fdt' = [NoTree EXCEPT !.clocks = <<1, 2>>, !.phandle = 3]
      BY <1>4, <2>1 DEF FdtClocks
    <3>3. fdt' = [phandle |-> 3, clocks |-> <<1, 2>>, intc |-> <<>>, prci |-> 0,
                  plic |-> 0, gpio |-> 0, phy |-> 0, clintRefs |-> <<>>,
                  plicRefs |-> <<>>, irqs |-> {}, regs |-> {}, ndev |-> 0,
                  restart |-> <<0, 0>>]
      BY <3>2 DEF NoTree
    <3>4. 3 + 0 = 3
      OBVIOUS
    <3> QED
      BY <3>1, <3>3, <3>4, Zenon DEF Noded
  <2>4. Noded(0)' = Noded(0)
    BY <2>2 DEF Noded, IntcFrom, HandleOf
  <2> QED
    BY <1>1, <2>1, <2>2, <2>3, <2>4 DEF TreeInv, TreeDone
<1>5. CASE FdtCpuNode
  <2>1. U /\ ~opts.dtb /\ opts.cpus \in 1..4 /\ \E k \in 0..opts.cpus : fdt = Noded(k)
    BY <1>5, CpusOfU DEF FdtCpuNode, TreeInv, LinesInv, TopologyInv
  <2>2. PICK k \in 0..opts.cpus : fdt = Noded(k)
    BY <2>1
  <2>3. k + 1 \in 0..opts.cpus /\ fdt' = Noded(k + 1)'
    BY <1>5, <2>1, <2>2, NodeAdded
  <2>4. U' = U /\ opts' = opts /\ stage' = "nodes"
    BY <1>5 DEF FdtCpuNode, U
  <2> QED
    BY <1>1, <2>1, <2>3, <2>4 DEF TreeInv, TreeDone
<1>6. CASE FdtDevices
  <2>1. U /\ ~opts.dtb /\ opts.cpus \in 1..4 /\ \E k \in 0..opts.cpus : fdt = Noded(k)
    BY <1>6, CpusOfU DEF FdtDevices, TreeInv, LinesInv, TopologyInv
  <2>2. fdt' = Described'
    BY <1>6, <2>1, TreeCompleted
  <2>3. U' = U /\ opts' = opts /\ stage' = "rom"
    BY <1>6 DEF FdtDevices, U
  <2> QED
    BY <1>1, <2>1, <2>2, <2>3 DEF TreeInv, TreeDone
<1>7. CASE WriteRom \/ MainLoopReset
  BY <1>1, <1>7, TreeKept DEF WriteRom, MainLoopReset, TreeDone, U
<1>8. CASE \E h \in DOMAIN harts :
             RomStep(h) \/ GuestRuns(h) \/ GuestFinishes(h) \/ GuestAsksReset(h)
  BY <1>1, <1>8, TreeKept
  DEF RomStep, GuestRuns, GuestFinishes, GuestAsksReset, InGuest, TreeDone, U
<1>9. CASE UNCHANGED vars
  BY <1>1, <1>9
  DEF vars, TreeInv, TreeDone, U, Described, Noded, IntcFrom, HandleOf, RefsOf
<1> QED
  BY <1>2, <1>3, <1>4, <1>5, <1>6, <1>7, <1>8, <1>9 DEF Next, InitStep

-----------------------------------------------------------------------------
(* The finished tree.                                                      *)

LEMMA SubSeqOfTwo ==
    ASSUME NEW s, NEW i \in Int
    PROVE  SubSeq(s, i, i + 1) = <<s[i], s[i + 1]>>
<1> DEFINE S == {s[i], s[i + 1]}
           t == SubSeq(s, i, i + 1)
           pair == <<s[i], s[i + 1]>>
<1>1. \A j \in i..(i + 1) : s[j] \in S
  <2>1. \A j \in i..(i + 1) : j = i \/ j = i + 1
    OBVIOUS
  <2> QED
    BY <2>1
<1>2. t \in Seq(S) /\ Len(t) = 2 /\ \A j \in 1..2 : t[j] = s[i + j - 1]
  <2>1. i + 1 \in Int /\ i <= i + 1 /\ (i + 1) - i + 1 = 2
    OBVIOUS
  <2> HIDE DEF S
  <2> QED
    BY <1>1, <2>1, SubSeqProperties
<1>3. t[1] = s[i] /\ t[2] = s[i + 1]
  <2>1. i + 1 - 1 = i /\ i + 2 - 1 = i + 1
    OBVIOUS
  <2> QED
    BY <1>2, <2>1
<1>4. pair \in Seq(S) /\ Len(pair) = 2 /\ pair[1] = s[i] /\ pair[2] = s[i + 1]
  OBVIOUS
<1>5. \A j \in 1..2 : t[j] = pair[j]
  <2>1. \A j \in 1..2 : j = 1 \/ j = 2
    OBVIOUS
  <2> QED
    BY <1>3, <1>4, <2>1
<1> QED
  BY <1>2, <1>4, <1>5, SeqEqual

LEMMA RefsOfHart ==
    ASSUME opts.cpus \in 1..4, NEW intc, NEW a, NEW b, NEW h \in Harts
    PROVE  /\ RefsOf(intc, a, b)[2 * h + 1] = <<intc[h], a>>
           /\ RefsOf(intc, a, b)[2 * h + 2] = <<intc[h], b>>
           /\ DOMAIN RefsOf(intc, a, b) = 1..(2 * opts.cpus)
           /\ 2 * h + 1 \in 1..(2 * opts.cpus) /\ 2 * h + 2 \in 1..(2 * opts.cpus)
           /\ SubSeq(RefsOf(intc, a, b), 2 * h + 1, 2 * h + 2)
                = <<<<intc[h], a>>, <<intc[h], b>>>>
<1> DEFINE refs == RefsOf(intc, a, b)
           i == 2 * h + 1
           j == 2 * h + 2
<1>1. DOMAIN refs = 1..(2 * opts.cpus)
  BY DEF RefsOf
<1>2. /\ i \in 1..(2 * opts.cpus) /\ j \in 1..(2 * opts.cpus) /\ j = i + 1
      /\ (i - 1) \div 2 = h /\ i % 2 = 1 /\ (j - 1) \div 2 = h /\ j % 2 # 1
  BY DEF Harts
<1>3. refs[i] = <<intc[h], a>> /\ refs[j] = <<intc[h], b>>
  BY <1>2 DEF RefsOf
<1>4. SubSeq(refs, i, j) = <<refs[i], refs[j]>>
  <2>1. i \in Int /\ j = i + 1
    BY <1>2
  <2> QED
    BY <2>1, SubSeqOfTwo
<1> QED
  BY <1>1, <1>2, <1>3, <1>4
LEMMA SeqOfFunction ==
    ASSUME NEW S, NEW n \in Nat, NEW f \in [1..n -> S]
    PROVE  f \in Seq(S) /\ Len(f) = n
OBVIOUS

\* The handles of the finished tree: six of its own, then those of the harts,
\* counting down.
LEMMA HandlesInOrder ==
    ASSUME NEW n \in 1..4, NEW own, NEW more,
           own = <<1, 2, 3 + n, 4 + n, 5 + n, 6 + n>>,
           more = [k \in 1..n |-> 3 + n - k]
    PROVE  /\ DOMAIN (own \o more) = 1..(6 + n)
           /\ \A i \in 1..(6 + n) : (own \o more)[i] =
                 IF i <= 2 THEN i ELSE IF i <= 6 THEN i + n ELSE 9 + n - i
<1>1. own \in Seq(Nat) /\ Len(own) = 6
  OBVIOUS
<1>2. more \in Seq(Nat) /\ Len(more) = n
  <2>1. more \in [1..n -> Nat] /\ n \in Nat
    OBVIOUS
  <2> QED
    BY <2>1, SeqOfFunction
<1>3. /\ own \o more \in Seq(Nat) /\ Len(own \o more) = 6 + n
      /\ \A i \in 1..(6 + n) : (own \o more)[i] = IF i <= 6 THEN own[i] ELSE more[i - 6]
  BY <1>1, <1>2, ConcatProperties
<1>4. ASSUME NEW i \in 1..6 PROVE own[i] = IF i <= 2 THEN i ELSE i + n
  <2>1. i = 1 \/ i = 2 \/ i = 3 \/ i = 4 \/ i = 5 \/ i = 6
    OBVIOUS
  <2> QED
    BY <2>1
<1>5. ASSUME NEW i \in 7..(6 + n) PROVE more[i - 6] = 9 + n - i
  OBVIOUS
<1>6. DOMAIN (own \o more) = 1..(6 + n)
  BY <1>3, LenProperties
<1>7. ASSUME NEW i \in 1..(6 + n)
      PROVE  (own \o more)[i] = IF i <= 2 THEN i ELSE IF i <= 6 THEN i + n ELSE 9 + n - i
  <2>1. CASE i <= 6
    <3>1. i \in 1..6
      BY <2>1
    <3> QED
      BY <1>3, <1>4, <2>1, <3>1
  <2>2. CASE ~(i <= 6)
    <3>1. i \in 7..(6 + n) /\ ~(i <= 2)
      BY <2>2
    <3> QED
      BY <1>3, <1>5, <2>2, <3>1
  <2> QED
    BY <2>1, <2>2
<1> QED
  BY <1>6, <1>7
LEMMA HandlesDiffer ==
    ASSUME opts.cpus \in 1..4, fdt = Described
    PROVE  \A i, j \in DOMAIN Handles : Handles[i] = Handles[j] => i = j
<1> DEFINE n == opts.cpus
           own == <<1, 2, 3 + n, 4 + n, 5 + n, 6 + n>>
           more == [k \in 1..n |-> 3 + n - k]
<1>1. <<fdt.clocks[1], fdt.clocks[2], fdt.prci, fdt.plic, fdt.gpio, fdt.phy>> = own
  BY DEF Described
<1>2. [k \in 1..n |-> fdt.intc[k - 1]] = more
  <2>1. fdt.intc = [h \in 0..(n - 1) |-> 2 + n - h]
    BY DEF Described, IntcFrom, HandleOf
  <2>2. \A k \in 1..n : k - 1 \in 0..(n - 1) /\ 2 + n - (k - 1) = 3 + n - k
    OBVIOUS
  <2> QED
    BY <2>1, <2>2
<1>3. Handles = own \o more
  BY <1>1, <1>2, Zenon DEF Handles
<1> HIDE DEF n, own, more
<1>4. n \in 1..4
  BY DEF n
<1>5. /\ DOMAIN Handles = 1..(6 + n)
      /\ \A i \in 1..(6 + n) :
            Handles[i] = IF i <= 2 THEN i ELSE IF i <= 6 THEN i + n ELSE 9 + n - i
  BY <1>3, <1>4, HandlesInOrder DEF own, more
<1> QED
  BY <1>4, <1>5

LEMMA RefsOfModes ==
    ASSUME opts.cpus \in 1..4, NEW intc, NEW h \in Harts, NEW m \in {"M", "S"}
    PROVE  \E k \in DOMAIN RefsOf(intc, "M", "S") :
              RefsOf(intc, "M", "S")[k] = <<intc[h], m>>
<1> DEFINE refs == RefsOf(intc, "M", "S")
<1>1. /\ refs[2 * h + 1] = <<intc[h], "M">> /\ 2 * h + 1 \in DOMAIN refs
      /\ refs[2 * h + 2] = <<intc[h], "S">> /\ 2 * h + 2 \in DOMAIN refs
  BY RefsOfHart
<1> HIDE DEF refs
<1>2. \E k \in DOMAIN refs : refs[k] = <<intc[h], m>>
  BY <1>1
<1> QED
  BY <1>2 DEF refs

(***************************************************************************)
(* TreeMatchesBoard for every command line: the loop over the harts counts *)
(* down and gives every one a handle of its own, so the tree names each    *)
(* hart's controller with all of its modes, and the lines and devices of   *)
(* soc_realize.                                                            *)
(***************************************************************************)
THEOREM TreeAlwaysMatches == Spec => []TreeMatchesBoard
<1>1. Init => TreeInv
  BY DEF Init, TreeInv, LinesInv, TopologyInv, PastTopology, TreeDone
<1>2. TreeInv => TreeMatchesBoard
  <2> SUFFICES ASSUME TreeInv, TreeDone PROVE TreeMatchesBoard
    BY DEF TreeMatchesBoard
  <2>1. opts.cpus \in 1..4 /\ fdt = Described /\ U /\ plic.lines = Wires
    BY CpusOfU DEF TreeInv, TreeDone, LinesInv, TopologyInv
  <2>2. /\ fdt.clintRefs = RefsOf(fdt.intc, "M_SOFT", "M_TIMER")
        /\ fdt.plicRefs = RefsOf(fdt.intc, "M", "S")
        /\ fdt.restart = <<fdt.gpio, 10>> /\ fdt.ndev = 53
    BY <2>1 DEF Described
  <2>3. ASSUME NEW h \in Harts
        PROVE  /\ SubSeq(fdt.clintRefs, 2 * h + 1, 2 * h + 2)
                    = <<<<fdt.intc[h], "M_SOFT">>, <<fdt.intc[h], "M_TIMER">>>>
               /\ \A m \in {plic.text[h + 1][k] : k \in DOMAIN plic.text[h + 1]} :
                      \E k \in DOMAIN fdt.plicRefs : fdt.plicRefs[k] = <<fdt.intc[h], m>>
    <3>1. plic.text[h + 1] \in {<<"M">>, <<"M", "S">>}
      BY <2>1 DEF TreeInv, TreeDone, LinesInv, TopologyInv, PastTopology, Written,
                  ModesOfHart, Harts
    <3>2. {plic.text[h + 1][k] : k \in DOMAIN plic.text[h + 1]} \subseteq {"M", "S"}
      BY <3>1
    <3>3. SubSeq(fdt.clintRefs, 2 * h + 1, 2 * h + 2)
              = <<<<fdt.intc[h], "M_SOFT">>, <<fdt.intc[h], "M_TIMER">>>>
      BY <2>1, <2>2, RefsOfHart
    <3>4. \A m \in {"M", "S"} :
             \E k \in DOMAIN fdt.plicRefs : fdt.plicRefs[k] = <<fdt.intc[h], m>>
      BY <2>1, <2>2, RefsOfModes
    <3> QED
      BY <3>2, <3>3, <3>4, Zenon
  <2>4. fdt.irqs \subseteq Wires /\ \A w \in fdt.irqs : w[3] \in 1..53
    BY <2>1 DEF Described, Wires, Irq, UIrq
  <2>5. fdt.regs \subseteq DOMAIN MemoryMap
    BY <2>1 DEF Described, MemoryMap, UMap
  <2> QED
    BY <2>1, <2>2, <2>3, <2>4, <2>5, HandlesDiffer DEF TreeMatchesBoard
<1> QED
  BY <1>1, <1>2, TreeStep, PTL DEF Spec

-----------------------------------------------------------------------------
(* The types.                                                              *)

Stages ==
    {"harts", "topology", "devices", "fdt", "nodes", "rom", "running", "exited",
     "aborted"}

HartsOK == DOMAIN harts \in {{}, Harts} /\ \A h \in DOMAIN harts : CpuOK(harts[h])
PlicOK == Len(plic.text) <= opts.cpus /\ plic.room \in Nat /\ plic.used \in Nat

\* A reset is pending only while the guest has resets left.
CountersOK ==
    /\ stage \in Stages /\ pending \in BOOLEAN /\ resets \in 0..MaxResets
    /\ status \in 0..255 /\ (pending => resets < MaxResets)

TypeInv == TreeInv /\ BootInv /\ HartsOK /\ PlicOK /\ CountersOK

LEMMA TreeTypeOK ==
    ASSUME TreeInv
    PROVE  fdt.phandle \in Nat \ {0} /\ DOMAIN fdt.intc \subseteq Harts
<1>1. CASE fdt = NoTree
  <2>1. DOMAIN <<>> = {}
    OBVIOUS
  <2> QED
    BY <1>1, <2>1 DEF NoTree
<1>2. CASE stage = "nodes"
  <2>1. PICK k \in 0..opts.cpus : fdt = Noded(k)
    BY <1>2 DEF TreeInv
  <2>2. opts.cpus \in 1..4
    BY <1>2, CpusOfU DEF TreeInv, LinesInv, TopologyInv
  <2>3. fdt.phandle = 3 + k /\ DOMAIN fdt.intc = (opts.cpus - k)..(opts.cpus - 1)
    BY <2>1, NodedFields
  <2> QED
    BY <2>2, <2>3 DEF Harts
<1>3. CASE TreeDone
  <2>1. opts.cpus \in 1..4 /\ fdt = Described
    BY <1>3, CpusOfU DEF TreeInv, TreeDone, LinesInv, TopologyInv
  <2>2. fdt.phandle = 3 + opts.cpus + 4 /\ fdt.intc = IntcFrom(opts.cpus)
    BY <2>1 DEF Described
  <2> QED
    BY <2>1, <2>2 DEF IntcFrom, Harts
<1> QED
  BY <1>1, <1>2, <1>3 DEF TreeInv

LEMMA CpuKept ==
    ASSUME NEW cpu, NEW next, CpuOK(cpu),
           next.misa = cpu.misa, next.features = cpu.features,
           next.priv \in {"M", "S", "U"}, next.pc \in Nat,
           \A r \in Registers : next.regs[r] \in Nat,
           next.mie \in {TRUE, FALSE, cpu.mie}, next.mprv \in {TRUE, FALSE, cpu.mprv}
    PROVE  CpuOK(next)
<1>1. next.mie \in BOOLEAN /\ next.mprv \in BOOLEAN
  BY Zenon DEF CpuOK
<1> QED
  BY <1>1, Zenon DEF CpuOK

\* What riscv_cpu_realize accepts has the extensions of its model, or those
\* that are asked for.
LEMMA RealizedOK ==
    ASSUME NEW model \in Models, NEW given
    PROVE  CpuOK(Realized(model, given, ResetVec))
<1> DEFINE cfg == Configured(model, given)
           cpu == Realized(model, given, ResetVec)
<1>1. Extensions = {"I", "E", "M", "A", "F", "D", "C", "S", "U", "B", "H", "V", "Zfh"}
  BY DEF Extensions, Extension
<1>2. ModelMisa(model) \subseteq Extensions
  BY <1>1 DEF ModelMisa, Models, Base
<1>3. RealizedMisa(model, cfg) \subseteq Extensions
  <2>1. {Extension[p] : p \in {q \in DOMAIN Extension : cfg[q]}} \subseteq Extensions
    BY DEF Extensions
  <2>2. Implied(cfg) \subseteq Extensions
    BY <1>1 DEF Implied
  <2> QED
    BY <1>2, <2>1, <2>2 DEF RealizedMisa
<1>4. Features(cfg) \subseteq {"mmu", "pmp"}
  BY DEF Features
<1>5. /\ cpu.misa = RealizedMisa(model, cfg) /\ cpu.features = Features(cfg)
      /\ cpu.priv = "M" /\ cpu.pc = ResetVec /\ cpu.mie = FALSE /\ cpu.mprv = FALSE
      /\ cpu.regs = [r \in Registers |-> 0]
  BY DEF Realized, CpuReset
<1> HIDE DEF cpu, cfg
<1>6. /\ cpu.pc \in Nat /\ \A r \in Registers : cpu.regs[r] \in Nat
      /\ cpu.priv \in {"M", "S", "U"}
  BY <1>5 DEF ResetVec
<1>7. CpuOK(cpu)
  BY <1>3, <1>4, <1>5, <1>6, Zenon DEF CpuOK
<1> QED
  BY <1>7 DEF cpu

LEMMA BoardModelOK == ASSUME opts \in Commands PROVE BoardModel \in Models
<1>1. CommandOK(opts)
  BY CommandAssumption DEF CommandsOK
<1> QED
  BY <1>1, XLenAssumption DEF CommandOK, BoardModel, Models, Base

LEMMA ResetOK ==
    ASSUME NEW cpu, IsCpu(cpu), CpuOK(cpu)
    PROVE  CpuOK(CpuReset(cpu))
<1>1. /\ CpuReset(cpu).misa = cpu.misa /\ CpuReset(cpu).features = cpu.features
      /\ CpuReset(cpu).regs = cpu.regs /\ CpuReset(cpu).priv = "M"
      /\ CpuReset(cpu).pc = ResetVec /\ CpuReset(cpu).mie = FALSE
      /\ CpuReset(cpu).mprv = FALSE
  BY DEF IsCpu, Fields, CpuReset
<1>2. CpuReset(cpu).pc \in Nat /\ \A r \in Registers : CpuReset(cpu).regs[r] \in Nat
  BY <1>1 DEF CpuOK, ResetVec
<1> QED
  BY <1>1, <1>2, CpuKept

\* The addresses of the reset vector are addresses.
LEMMA AddressesOK ==
    Entry \in Nat /\ StartAddr \in Nat /\ FdtAddr \in Nat /\ FwDyn \in Nat
<1>1. Entry \in Nat /\ StartAddr \in Nat
  BY DEF Entry, StartAddr, XipRevB, XipFlash, Flash0, L2Lim, Dram
<1>2. FdtAddr \in Nat
  BY DEF FdtAddr, Dram
<1>3. FwDyn \in Nat
  BY VectorOfU, VectorOfE DEF FwDyn, Mrom
<1> QED
  BY <1>1, <1>2, <1>3

\* An instruction that leaves a natural number in its register.
LEMMA SteppedOK ==
    ASSUME NEW h, NEW cpu, NEW i, IsCpu(cpu), CpuOK(cpu), i.reg \in Registers,
           i.op # "jr" => Stepped(h, cpu, i).regs[i.reg] \in Nat
    PROVE  CpuOK(Stepped(h, cpu, i))
<1> DEFINE next == Stepped(h, cpu, i)
<1>1. /\ next.misa = cpu.misa /\ next.features = cpu.features /\ next.priv = cpu.priv
      /\ next.mie = cpu.mie /\ next.mprv = cpu.mprv
  BY DEF Stepped, IsCpu, Fields
<1>2. CASE i.op = "jr"
  <2>1. next.pc = cpu.regs[i.reg] /\ next.regs = cpu.regs
    BY <1>2, SteppedRegisters
  <2> HIDE DEF next
  <2>2. next.pc \in Nat /\ \A r \in Registers : next.regs[r] \in Nat
    BY <2>1 DEF CpuOK
  <2>3. next.priv \in {"M", "S", "U"}
    BY <1>1 DEF CpuOK
  <2>4. CpuOK(next)
    BY <1>1, <2>2, <2>3, CpuKept
  <2> QED
    BY <2>4 DEF next
<1>3. CASE i.op # "jr"
  <2>1. /\ next.pc = cpu.pc + 1 /\ next.regs[i.reg] \in Nat
        /\ \A r \in Registers : r # i.reg => next.regs[r] = cpu.regs[r]
    BY <1>3, SteppedRegisters
  <2> HIDE DEF next
  <2>2. next.pc \in Nat /\ \A r \in Registers : next.regs[r] \in Nat
    BY <2>1 DEF CpuOK
  <2>3. next.priv \in {"M", "S", "U"}
    BY <1>1 DEF CpuOK
  <2>4. CpuOK(next)
    BY <1>1, <2>2, <2>3, CpuKept
  <2> QED
    BY <2>4 DEF next
<1> QED
  BY <1>2, <1>3

LEMMA RomStepOK ==
    ASSUME BootInv, HartsOK, opts \in Commands, NEW h \in DOMAIN harts, RomStep(h)
    PROVE  CpuOK(harts'[h])
<1> DEFINE cpu == harts[h]
           i == AtAddress(cpu.pc)
           next == Stepped(h, cpu, i)
<1>1. /\ Started /\ rom = ResetVector /\ IsCpu(cpu) /\ Placed(h, cpu) /\ InRom(cpu)
  BY DEF BootInv, RomStep, Started
<1>2. InVector(h, cpu) /\ CpuOK(cpu)
  BY <1>1, OutOfVector DEF HartsOK
<1>3. harts'[h] = next
  BY DEF RomStep, Stepped
<1>4. CASE U
  <2>1. PICK k \in 1..6 : AtWordU(h, cpu, k)
    BY <1>2, <1>4 DEF InVector
  <2>2. /\ IF k = 6 THEN Handed(h, next) ELSE AtWordU(h, next, k + 1)
        /\ i = ResetVector[k + 1]
    BY <1>1, <1>2, <1>4, <2>1, StepInU, FetchU DEF InVector, AtWordU
  <2>3. h \in Nat
    BY <1>4, CpusOfU DEF HartsOK, Harts
  <2>4. i.reg \in Registers /\ (k = 6 => i.op = "jr")
    BY <2>2, VectorOfU, <1>4 DEF Instr, Registers
  <2> HIDE DEF next, i
  <2>5. i.op # "jr" => next.regs[i.reg] \in Nat
    <3>1. CASE k = 1
      <4>1. i.reg = "t0" /\ AtWordU(h, next, 2)
        BY <1>4, <2>2, <3>1, VectorOfU DEF Instr
      <4> QED
        BY <4>1 DEF AtWordU, Mrom
    <3>2. CASE k = 2
      <4>1. i.reg = "a2" /\ AtWordU(h, next, 3)
        BY <1>4, <2>2, <3>2, VectorOfU DEF Instr
      <4> QED
        BY <4>1, AddressesOK DEF AtWordU
    <3>3. CASE k = 3
      <4>1. i.reg = "a0" /\ AtWordU(h, next, 4)
        BY <1>4, <2>2, <3>3, VectorOfU DEF Instr
      <4> QED
        BY <2>3, <4>1 DEF AtWordU
    <3>4. CASE k = 4
      <4>1. i.reg = "a1" /\ AtWordU(h, next, 5)
        BY <1>4, <2>2, <3>4, VectorOfU DEF Instr
      <4> QED
        BY <4>1, AddressesOK DEF AtWordU
    <3>5. CASE k = 5
      <4>1. i.reg = "t0" /\ AtWordU(h, next, 6)
        BY <1>4, <2>2, <3>5, VectorOfU DEF Instr
      <4> QED
        BY <4>1, AddressesOK DEF AtWordU
    <3> QED
      BY <2>4, <3>1, <3>2, <3>3, <3>4, <3>5
  <2> QED
    BY <1>1, <1>2, <1>3, <2>4, <2>5, SteppedOK DEF next
<1>5. CASE ~U
  <2>1. PICK k \in 1..2 : AtWordE(cpu, k)
    BY <1>2, <1>5 DEF InVector
  <2>2. /\ IF k = 2 THEN Handed(h, next) ELSE AtWordE(next, k + 1)
        /\ i = ResetVector[k + 1]
    BY <1>1, <1>2, <1>5, <2>1, StepInE DEF InVector, AtWordE, AtAddress, Mrom
  <2>3. i.reg = "t0" /\ "t0" \in Registers /\ (k = 2 => i.op = "jr")
    BY <1>5, <2>2, VectorOfE DEF Instr, Registers
  <2> HIDE DEF next, i
  <2>4. i.op # "jr" => next.regs["t0"] \in Nat
    BY <2>2, <2>3, AddressesOK DEF AtWordE
  <2> QED
    BY <1>1, <1>2, <1>3, <2>3, <2>4, SteppedOK DEF next
<1> QED
  BY <1>4, <1>5

\* Every hart of the next state is of the types if each step makes it so.
LEMMA HartsKeepTypes ==
    ASSUME opts' = opts, DOMAIN harts' \in {{}, Harts},
           \A h \in DOMAIN harts' : CpuOK(harts'[h])
    PROVE  HartsOK'
<1>1. Harts' = Harts
  BY DEF Harts
<1> QED
  BY <1>1 DEF HartsOK, CpuOK

LEMMA HartsStep ==
    ASSUME opts \in Commands, BootInv, HartsOK, [Next]_vars
    PROVE  HartsOK'
<1>1. CASE RealizeHarts
  <2>1. CASE UNCHANGED harts
    BY <1>1, <2>1, HartsKeepTypes DEF RealizeHarts, HartsOK
  <2>2. CASE harts' = [h \in Harts |-> Realized(BoardModel, GivenHere, ResetVec)]
    BY <1>1, <2>2, HartsKeepTypes, RealizedOK, BoardModelOK DEF RealizeHarts
  <2> QED
    BY <1>1, <2>1, <2>2 DEF RealizeHarts
<1>2. CASE MainLoopReset
  <2>1. opts' = opts /\ harts' = [h \in DOMAIN harts |-> CpuReset(harts[h])]
    BY <1>2 DEF MainLoopReset
  <2> QED
    BY <2>1, HartsKeepTypes, ResetOK DEF BootInv, HartsOK
<1>3. ASSUME NEW h \in DOMAIN harts, RomStep(h) PROVE HartsOK'
  <2>1. /\ opts' = opts /\ DOMAIN harts' = DOMAIN harts
        /\ \A g \in DOMAIN harts : g # h => harts'[g] = harts[g]
    BY <1>3 DEF RomStep
  <2>2. CpuOK(harts'[h])
    BY <1>3, RomStepOK
  <2> QED
    BY <2>1, <2>2, HartsKeepTypes DEF HartsOK
<1>4. ASSUME NEW h \in DOMAIN harts, GuestRuns(h) PROVE HartsOK'
  <2>1. PICK mode \in ModesOf(harts[h]) :
           harts' = [harts EXCEPT ![h] = [@ EXCEPT
               !.pc = Elsewhere, !.priv = mode, !.mie = TRUE, !.mprv = TRUE,
               !.mcause = 1, !.exception = TRUE, !.reserved = TRUE,
               !.regs = [r \in Registers |-> Garbage]]]
    BY <1>4 DEF GuestRuns
  <2>2. /\ opts' = opts /\ DOMAIN harts' = DOMAIN harts
        /\ \A g \in DOMAIN harts : g # h => harts'[g] = harts[g]
    BY <1>4, <2>1 DEF GuestRuns
  <2>3. IsCpu(harts[h]) /\ CpuOK(harts[h]) /\ mode \in {"M", "S", "U"}
    BY DEF BootInv, HartsOK, ModesOf
  <2>4. /\ harts'[h].misa = harts[h].misa /\ harts'[h].features = harts[h].features
        /\ harts'[h].pc = Elsewhere /\ harts'[h].priv = mode /\ harts'[h].mie = TRUE
        /\ harts'[h].mprv = TRUE /\ harts'[h].regs = [r \in Registers |-> Garbage]
    BY <2>1, <2>3 DEF IsCpu, Fields
  <2>5. CpuOK(harts'[h])
    <3>1. harts'[h].pc \in Nat /\ \A r \in Registers : harts'[h].regs[r] \in Nat
      BY <2>4, GuestValues
    <3>2. harts'[h].priv \in {"M", "S", "U"}
      BY <2>3, <2>4
    <3> QED
      BY <2>3, <2>4, <3>1, <3>2, CpuKept, Zenon
  <2> QED
    BY <2>2, <2>5, HartsKeepTypes DEF HartsOK
<1>5. ASSUME opts' = opts, harts' = harts PROVE HartsOK'
  BY <1>5, HartsKeepTypes DEF HartsOK
<1> QED
  BY <1>1, <1>2, <1>3, <1>4, <1>5
  DEF Next, InitStep, vars, AddHart, CreatePlic, ConnectDevices, FdtClocks, FdtCpuNode,
      FdtDevices, WriteRom, GuestFinishes, GuestAsksReset

LEMMA PlicStep ==
    ASSUME TopologyInv, PlicOK, [Next]_vars
    PROVE  PlicOK'
<1>1. CASE RealizeHarts
  <2>1. CASE plic' = plic
    BY <1>1, <2>1 DEF RealizeHarts, PlicOK
  <2>2. CASE U /\ plic' = [plic EXCEPT !.room = 3 * opts.cpus]
    <3>1. /\ plic'.text = plic.text /\ plic'.used = plic.used
          /\ plic'.room = 3 * opts.cpus /\ opts.cpus \in 1..4 /\ opts' = opts
      BY <1>1, <2>2, CpusOfU DEF RealizeHarts, TopologyInv
    <3> QED
      BY <3>1 DEF PlicOK
  <2>3. CASE ~U /\ plic' = [plic EXCEPT !.text = <<<<"M">>>>]
    <3>1. /\ plic'.text = <<<<"M">>>> /\ plic'.used = plic.used
          /\ plic'.room = plic.room /\ opts' = opts /\ CommandOK(opts)
      BY <1>1, <2>3, CommandAssumption DEF RealizeHarts, TopologyInv, CommandsOK
    <3>2. opts.cpus = 1
      BY <2>3, <3>1 DEF CommandOK, U
    <3> QED
      BY <3>1, <3>2 DEF PlicOK
  <2> QED
    BY <1>1, <2>1, <2>2, <2>3 DEF RealizeHarts
<1>2. CASE AddHart
  <2>1. TopologyInv' /\ stage' = "topology" /\ opts' = opts /\ U'
    BY <1>2, AddHartOK DEF AddHart, TopologyInv
  <2>2. PICK n \in 0..opts'.cpus : Written(n)'
    BY <2>1 DEF TopologyInv
  <2>3. opts.cpus \in 1..4
    BY <2>1, CpusOfU DEF U, TopologyInv
  <2> QED
    BY <2>1, <2>2, <2>3 DEF PlicOK, Written
<1>3. CASE ConnectDevices
  BY <1>3 DEF ConnectDevices, PlicOK, TopologyInv
<1>4. ASSUME opts' = opts, plic' = plic PROVE PlicOK'
  BY <1>4 DEF PlicOK
<1> QED
  BY <1>1, <1>2, <1>3, <1>4
  DEF Next, InitStep, vars, CreatePlic, FdtClocks, FdtCpuNode, FdtDevices, WriteRom,
      MainLoopReset, RomStep, GuestRuns, GuestFinishes, GuestAsksReset

\* A step that neither asks for a reset nor makes one.
LEMMA CountersKept ==
    ASSUME CountersOK, stage' \in Stages, status' \in 0..255,
           pending' = pending, resets' = resets
    PROVE  CountersOK'
BY Zenon DEF CountersOK, Stages

LEMMA CountersStep == CountersOK /\ [Next]_vars => CountersOK'
<1> SUFFICES ASSUME CountersOK, [Next]_vars PROVE CountersOK'
  OBVIOUS
<1>1. stage \in Stages /\ status \in 0..255
  BY DEF CountersOK
<1>2. CASE InitStep
  BY <1>1, <1>2, CountersKept
  DEF InitStep, RealizeHarts, AddHart, CreatePlic, ConnectDevices, FdtClocks, FdtCpuNode,
      FdtDevices, WriteRom, Stages
<1>3. CASE MainLoopReset
  <2>1. resets + 1 \in 0..MaxResets
    <3>1. resets \in 0..MaxResets /\ resets < MaxResets
      BY <1>3, Zenon DEF MainLoopReset, CountersOK
    <3>2. MaxResets \in Nat
      BY BoundAssumption
    <3> QED
      BY <3>1, <3>2
  <2> QED
    BY <1>3, <2>1, Zenon DEF MainLoopReset, CountersOK, Stages
<1>4. ASSUME NEW h, GuestFinishes(h) PROVE CountersOK'
  <2>1. \A code \in Codes \cup {0} : code % 256 \in 0..255
    <3>1. \A code \in Codes : code \in Nat
      BY BoundAssumption
    <3>2. \A code \in Nat : code % 256 \in 0..255
      OBVIOUS
    <3>3. 0 \in Nat
      OBVIOUS
    <3> QED
      BY <3>1, <3>2, <3>3, Zenon
  <2> QED
    BY <1>4, <2>1, CountersKept DEF GuestFinishes, Stages
<1>5. ASSUME NEW h, RomStep(h) \/ GuestRuns(h) PROVE CountersOK'
  BY <1>1, <1>5, CountersKept DEF RomStep, GuestRuns
<1>6. ASSUME NEW h, GuestAsksReset(h) PROVE CountersOK'
  BY <1>6, Zenon DEF GuestAsksReset, CountersOK, Stages
<1>7. CASE UNCHANGED vars
  BY <1>1, <1>7, CountersKept DEF vars
<1> QED
  BY <1>2, <1>3, <1>4, <1>5, <1>6, <1>7 DEF Next

(***************************************************************************)
(* BoardTypeOK for every command line: the CPUs that riscv_cpu_realize     *)
(* accepts, what the reset vector, the guest and the resets make of them,  *)
(* the handles of the tree, and an exit status that keeps eight bits.      *)
(***************************************************************************)
THEOREM BoardTypes == Spec => []BoardTypeOK
<1>1. Init => TypeInv
  <2> SUFFICES ASSUME Init PROVE TypeInv
    OBVIOUS
  <2>1. TreeInv /\ BootInv
    BY DEF Init, TreeInv, LinesInv, TopologyInv, PastTopology, TreeDone, BootInv, Started
  <2>2. DOMAIN harts = {} /\ Len(plic.text) = 0 /\ plic.room = 0 /\ plic.used = 0
    BY DEF Init
  <2>3. opts.cpus \in Nat
    <3>1. CommandOK(opts)
      BY CommandAssumption DEF Init, CommandsOK
    <3> QED
      BY <3>1 DEF CommandOK
  <2>4. HartsOK /\ PlicOK
    BY <2>2, <2>3 DEF HartsOK, PlicOK
  <2>5. CountersOK
    <3>1. 0 \in 0..MaxResets /\ 0 \in 0..255
      BY BoundAssumption
    <3> QED
      BY <3>1, Zenon DEF Init, CountersOK, Stages
  <2> QED
    BY <2>1, <2>4, <2>5 DEF TypeInv
<1>2. TypeInv /\ [Next]_vars => TypeInv'
  <2> SUFFICES ASSUME TypeInv, [Next]_vars PROVE TypeInv'
    OBVIOUS
  <2>1. opts \in Commands /\ TopologyInv
    BY DEF TypeInv, TreeInv, LinesInv, TopologyInv
  <2> QED
    BY <2>1, TreeStep, BootStep, HartsStep, PlicStep, CountersStep DEF TypeInv
<1>3. TypeInv => BoardTypeOK
  <2> SUFFICES ASSUME TypeInv PROVE BoardTypeOK
    OBVIOUS
  <2>1. opts \in Commands /\ fdt.phandle \in Nat \ {0} /\ DOMAIN fdt.intc \subseteq Harts
    BY TreeTypeOK DEF TypeInv, TreeInv, LinesInv, TopologyInv
  <2> QED
    BY <2>1 DEF TypeInv, HartsOK, PlicOK, CountersOK, Stages, BoardTypeOK
<1> QED
  BY <1>1, <1>2, <1>3, PTL DEF Spec
=============================================================================
