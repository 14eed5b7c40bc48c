---------------------------- MODULE SiFiveBoards ----------------------------
(***************************************************************************)
(* The boards sifive_e, sifive_u and sifive_viu of QEMU, from the command  *)
(* line to the hand-over of every hart to the firmware, and the resets a   *)
(* guest asks for: qemu-sifive-e.c, qemu-sifive-u.c and qemu-sifive-test.c.*)
(*                                                                         *)
(* Addresses count words of four bytes.  The PLIC, the hart array, the     *)
(* loader and the main loop are QEMU's own and external: what the boards   *)
(* ask of them is modelled.                                                *)
(***************************************************************************)
EXTENDS RiscvCpu, SiFiveMemory, Sequences, FiniteSets

CONSTANTS
    Commands,   \* the command lines that are tried
    RamSize,    \* -m, in pages
    Codes,      \* the codes a guest reports failure with
    MaxResets   \* bound on the resets a guest asks for

\* -machine, -smp, -cpu <model>,<given>, the machine properties msel,
\* start-in-flash and revb, and whether -dtb names a file.  QEMU refuses more
\* harts than max_cpus and properties the machine does not have.
CommandOK(c) ==
    /\ c.board \in {"e", "u", "viu"} /\ (c.board = "viu" => XLen = 64)
    /\ c.model \in Models
    /\ c.msel \in Nat /\ c.flash \in BOOLEAN /\ c.revb \in BOOLEAN /\ c.dtb \in BOOLEAN
    /\ IF c.board = "e" THEN c.cpus = 1 /\ ~c.flash /\ c.msel = 0 /\ ~c.dtb
                        ELSE c.cpus \in 1..4 /\ ~c.revb

CommandsOK == \A c \in Commands : CommandOK(c)

ASSUME CommandAssumption == CommandsOK
ASSUME BoundAssumption ==
    /\ \A code \in Codes : code \in Nat /\ code < 65536
    /\ MaxResets \in Nat /\ RamSize \in Nat \ {0}

VARIABLES
    opts,       \* the command line
    stage,      \* how far machine_init is, then "running", "exited", "aborted"
    harts,      \* hart -> its CPU
    plic,       \* the hart configuration string and the PLIC's input lines
    fdt,        \* the device tree
    rom,        \* the words at the start of the mask ROM
    pending,    \* qemu_system_reset_request has been called
    resets,     \* resets so far
    status      \* the exit status of QEMU, once it has exited

vars == <<opts, stage, harts, plic, fdt, rom, pending, resets, status>>

\* Memory map, in words (the addresses in bytes beside them).
Mrom     == 1024            \* 0x1000
ResetVecBase == 1024        \* mutant of ResetVec: where the ROM begins
ResetVec == 1025            \* 0x1004, the property resetvec
XipFlash == 135266304       \* 0x20400000
XipRevB  == 134234112       \* 0x20010000
Flash0   == 134217728       \* 0x20000000
L2Lim    == 33554432        \* 0x08000000
Dram     == 536870912       \* 0x80000000
FdtAddr  == Dram + 8388608  \* riscv_load_fdt: somewhere in DRAM
Elsewhere == Dram + 1       \* wherever firmware runs to
Garbage   == Dram + 2       \* whatever it leaves in a register

U == opts.board \in {"u", "viu"}
Harts == 0..(opts.cpus - 1)

\* sifive_e takes the model of -cpu; the SoC of the others fixes it, and what
\* -cpu gives is for the model it names only.
BoardModel ==
    CASE opts.board = "e" -> opts.model
      [] opts.board = "u" -> IF XLen = 32 THEN "sifive-u34" ELSE "sifive-u54"
      [] opts.board = "viu" -> "sifive-viu75"
GivenHere == IF opts.model = BoardModel THEN opts.given ELSE <<>>

NoTree == [phandle |-> 1, clocks |-> <<0, 0>>, intc |-> <<>>, prci |-> 0, plic |-> 0,
           gpio |-> 0, phy |-> 0, clintRefs |-> <<>>, plicRefs |-> <<>>, irqs |-> {},
           regs |-> {}, ndev |-> 0,
           restart |-> <<0, 0>>]

Init ==
    /\ opts \in Commands
    /\ stage = "harts" /\ harts = <<>>
    /\ plic = [text |-> <<>>, used |-> 0, room |-> 0, lines |-> {}]
    /\ fdt = NoTree /\ rom = <<>>
    /\ pending = FALSE /\ resets = 0 /\ status = 0

-----------------------------------------------------------------------------
(* soc_realize.                                                            *)

\* sysbus_realize(&s->cpus, &error_abort); then room for the configuration.
RealizeHarts ==
    /\ stage = "harts"
    /\ IF Refused(BoardModel, Configured(BoardModel, GivenHere))
       THEN stage' = "aborted" /\ UNCHANGED <<harts, plic>>
       ELSE /\ harts' = [h \in Harts |-> Realized(BoardModel, GivenHere, ResetVec)]
            /\ IF U THEN /\ plic' = [plic EXCEPT !.room = 3 * opts.cpus]
                         /\ stage' = "topology"
                    ELSE /\ plic' = [plic EXCEPT !.text = <<<<"M">>>>]
                         /\ stage' = "devices"
    /\ UNCHANGED <<opts, fdt, rom, pending, resets, status>>

\* Mutant of HartText: hart 0 gets its separator like the others.
HartTextComma(n) == [modes |-> <<"M", "S">>, chars |-> 3]

\* "M" for hart 0, ",MS" for the others: the modes and the characters.
HartText(n) ==
    IF n = 0 THEN [modes |-> <<"M">>, chars |-> 1]
             ELSE [modes |-> <<"M", "S">>, chars |-> 3]

\* One turn of the loop: strncat appends at most plic_hart_config_len
\* characters, and the length is three less afterwards.
AddHart ==
    /\ stage = "topology" /\ Len(plic.text) < opts.cpus
    /\ LET next == HartText(Len(plic.text))
           copied == IF next.chars <= plic.room THEN next.chars ELSE plic.room
           lost == next.chars - copied
       IN plic' = [plic EXCEPT
             !.text = Append(@, SubSeq(next.modes, 1, Len(next.modes) - lost)),
             !.used = @ + copied, !.room = @ - 3]
    /\ UNCHANGED <<opts, stage, harts, fdt, rom, pending, resets, status>>

CreatePlic ==
    /\ stage = "topology" /\ Len(plic.text) = opts.cpus
    /\ stage' = "devices"
    /\ UNCHANGED <<opts, harts, plic, fdt, rom, pending, resets, status>>

\* The regions that soc_realize and machine_init map.
MemoryMap == IF U THEN UMap(RamSize) ELSE EMap
Irq == IF U THEN UIrq ELSE EIrq

\* sysbus_connect_irq and sifive_uart_create: <<device, output, PLIC line>>.
Wires ==
    {<<"uart0", 0, Irq.uart0>>, <<"uart1", 0, Irq.uart1>>} \cup
    (IF U THEN {<<"gpio", i, Irq.gpio + i>> : i \in 0..15} \cup {<<"gem", 0, Irq.gem>>}
          ELSE {<<"gpio", i, Irq.gpio + i>> : i \in 0..31})

ConnectDevices ==
    /\ stage = "devices"
    /\ plic' = [plic EXCEPT !.lines = Wires]
    /\ stage' = IF U /\ ~opts.dtb THEN "fdt" ELSE "rom"
    /\ UNCHANGED <<opts, harts, fdt, rom, pending, resets, status>>

-----------------------------------------------------------------------------
(* create_fdt, unless -dtb names a file.                                   *)

FdtClocks ==
    /\ stage = "fdt" /\ fdt.phandle = 1
    /\ fdt' = [fdt EXCEPT !.clocks = <<1, 2>>, !.phandle = 3]
    /\ stage' = "nodes"
    /\ UNCHANGED <<opts, harts, plic, rom, pending, resets, status>>

\* The loop over the harts counts down.
NextNode == opts.cpus - 1 - Cardinality(DOMAIN fdt.intc)
WithNode ==
    [h \in DOMAIN fdt.intc \cup {NextNode} |->
        IF h = NextNode THEN fdt.phandle ELSE fdt.intc[h]]

\* Mutant of FdtCpuNode: the handle is used and not counted.
FdtCpuNodeUncounted ==
    /\ stage = "nodes" /\ DOMAIN fdt.intc # Harts
    /\ fdt' = [fdt EXCEPT !.intc = WithNode]
    /\ UNCHANGED <<opts, stage, harts, plic, rom, pending, resets, status>>

FdtCpuNode ==
    /\ stage = "nodes" /\ DOMAIN fdt.intc # Harts
    /\ fdt' = [fdt EXCEPT !.intc = WithNode, !.phandle = @ + 1]
    /\ UNCHANGED <<opts, stage, harts, plic, rom, pending, resets, status>>

\* interrupts-extended: for every hart its controller with one and the other.
RefsOf(intc, one, other) ==
    [k \in 1..(2 * opts.cpus) |->
        <<intc[(k - 1) \div 2], IF k % 2 = 1 THEN one ELSE other>>]

FdtDevices ==
    /\ stage = "nodes" /\ DOMAIN fdt.intc = Harts
    /\ LET next == fdt.phandle IN
       fdt' = [fdt EXCEPT
           !.clintRefs = RefsOf(fdt.intc, "M_SOFT", "M_TIMER"),
           !.prci = next,
           !.plic = next + 1, !.plicRefs = RefsOf(fdt.intc, "M", "S"),
           !.gpio = next + 2, !.restart = <<next + 2, 10>>,
           !.phy = next + 3, !.phandle = next + 4,
           !.irqs = {<<"gpio", i, UIrq.gpio + i>> : i \in 0..15}
                    \cup {<<"gem", 0, UIrq.gem>>, <<"uart0", 0, UIrq.uart0>>},
           !.regs = {"dram", "clint", "otp", "prci", "plic", "gpio", "gem", "gem_mgmt",
                     "test", "uart0"},
           !.ndev = 53]
    /\ stage' = "rom"
    /\ UNCHANGED <<opts, harts, plic, rom, pending, resets, status>>

-----------------------------------------------------------------------------
(* The reset vector, and the harts that run it.                            *)

Word(n) == [op |-> "word", reg |-> "", arg |-> n]
Instr(op, reg, arg) == [op |-> op, reg |-> reg, arg |-> arg]

\* start-in-flash sets msel to 1 (MSEL_MEMMAP_QSPI0_FLASH).
Msel == IF opts.flash THEN 1 ELSE opts.msel
StartAddr ==
    CASE Msel = 1 -> Flash0
      [] Msel \in {6, 11} -> L2Lim
      [] OTHER -> Dram

\* reset_vec of the two machine_init functions.
ResetVector ==
    IF U
    THEN <<Word(Msel), Instr("auipc", "t0", 0), Instr("addi", "a2", 10),
           Instr("csrr", "a0", 0), Instr("load", "a1", 8), Instr("load", "t0", 6),
           Instr("jr", "t0", 0),
           Word(StartAddr), Word(0), Word(FdtAddr), Word(0)>>
    ELSE <<Word(0), Instr("lui", "t0", IF opts.revb THEN XipRevB ELSE XipFlash),
           Instr("jr", "t0", 0), Word(0)>>

\* The blob is in the ROM; the firmware's information follows it.
FwDyn == Mrom + Len(ResetVector)

WriteRom ==
    /\ stage = "rom"
    /\ rom' = ResetVector /\ stage' = "running"
    /\ UNCHANGED <<opts, harts, plic, fdt, pending, resets, status>>

InRom(cpu) == cpu.pc \in Mrom..(Mrom + Len(rom) - 1)
AtAddress(a) == rom[a - Mrom + 1]

\* lw reads one word, ld two: no memory above 4 GiB holds firmware.
Loaded(a) ==
    IF XLen = 32 \/ AtAddress(a + 1).arg = 0 THEN AtAddress(a).arg ELSE Garbage

Result(h, cpu, i) ==
    CASE i.op = "auipc" -> cpu.pc + i.arg
      [] i.op = "lui" -> i.arg
      [] i.op = "addi" -> cpu.regs["t0"] + i.arg
      [] i.op = "csrr" -> h
      [] i.op = "load" -> Loaded(cpu.regs["t0"] + i.arg)

\* One instruction; data, and a CSR of machine mode read in another, only trap.
RomStep(h) ==
    /\ stage = "running" /\ h \in DOMAIN harts /\ InRom(harts[h])
    /\ LET cpu == harts[h]
           i == AtAddress(cpu.pc)
       IN /\ i.op # "word" /\ (i.op = "csrr" => cpu.priv = "M")
          /\ harts' = [harts EXCEPT ![h] =
                IF i.op = "jr" THEN [cpu EXCEPT !.pc = cpu.regs[i.reg]]
                ELSE [cpu EXCEPT !.regs[i.reg] = Result(h, cpu, i), !.pc = @ + 1]]
    /\ UNCHANGED <<opts, stage, plic, fdt, rom, pending, resets, status>>

-----------------------------------------------------------------------------
(* The guest, once it has the hart, and what it can ask QEMU for.          *)

InGuest(h) == stage = "running" /\ h \in DOMAIN harts /\ ~InRom(harts[h])

\* It leaves no register as it was and may end in any mode the CPU has.
GuestRuns(h) ==
    /\ InGuest(h)
    /\ \E mode \in ModesOf(harts[h]) :
          harts' = [harts EXCEPT ![h] = [@ EXCEPT
              !.pc = Elsewhere, !.priv = mode, !.mie = TRUE, !.mprv = TRUE,
              !.mcause = 1, !.exception = TRUE, !.reserved = TRUE,
              !.regs = [r \in Registers |-> Garbage]]]
    /\ UNCHANGED <<opts, stage, plic, fdt, rom, pending, resets, status>>

\* sifive_test_write: exit ends QEMU at once, with the low eight bits.
GuestFinishes(h) ==
    /\ InGuest(h)
    /\ \E code \in Codes \cup {0} : status' = code % 256
    /\ stage' = "exited"
    /\ UNCHANGED <<opts, harts, plic, fdt, rom, pending, resets>>

\* FINISHER_RESET, or gpio pin 10 driven low: qemu_system_reset_request.
GuestAsksReset(h) ==
    /\ InGuest(h) /\ resets < MaxResets
    /\ pending' = TRUE
    /\ UNCHANGED <<opts, stage, harts, plic, fdt, rom, resets, status>>

\* Mutant of MainLoopReset: the request is not taken back.
MainLoopResetAgain ==
    /\ stage = "running" /\ pending
    /\ harts' = [h \in DOMAIN harts |-> CpuReset(harts[h])]
    /\ resets' = resets + 1
    /\ UNCHANGED <<opts, stage, plic, fdt, rom, pending, status>>

\* The main loop stops the harts and resets all of them; requests coalesce.
MainLoopReset ==
    /\ stage = "running" /\ pending
    /\ harts' = [h \in DOMAIN harts |-> CpuReset(harts[h])]
    /\ pending' = FALSE /\ resets' = resets + 1
    /\ UNCHANGED <<opts, stage, plic, fdt, rom, status>>

-----------------------------------------------------------------------------
InitStep ==
    RealizeHarts \/ AddHart \/ CreatePlic \/ ConnectDevices
    \/ FdtClocks \/ FdtCpuNode \/ FdtDevices \/ WriteRom

Next ==
    \/ InitStep
    \/ MainLoopReset
    \/ \E h \in DOMAIN harts :
          RomStep(h) \/ GuestRuns(h) \/ GuestFinishes(h) \/ GuestAsksReset(h)

Spec == Init /\ [][Next]_vars

\* QEMU's threads make progress: machine_init, the main loop, every hart in ROM.
FairSpec ==
    /\ Spec
    /\ WF_vars(InitStep) /\ WF_vars(MainLoopReset)
    /\ \A h \in 0..3 : WF_vars(RomStep(h))

-----------------------------------------------------------------------------
(* Properties.                                                             *)

Extensions == {Extension[p] : p \in DOMAIN Extension}

CpuOK(cpu) ==
    /\ cpu.misa \subseteq Extensions /\ cpu.priv \in {"M", "S", "U"}
    /\ cpu.pc \in Nat /\ \A r \in Registers : cpu.regs[r] \in Nat
    /\ cpu.mie \in BOOLEAN /\ cpu.mprv \in BOOLEAN /\ cpu.features \subseteq {"mmu", "pmp"}

(***************************************************************************)
(* The types of the variables; resets are taken one at a time.  Every      *)
(* handler above.                                                          *)
(***************************************************************************)
BoardTypeOK ==
    /\ opts \in Commands
    /\ stage \in {"harts", "topology", "devices", "fdt", "nodes", "rom", "running",
                  "exited", "aborted"}
    /\ DOMAIN harts \in {{}, Harts} /\ \A h \in DOMAIN harts : CpuOK(harts[h])
    /\ Len(plic.text) <= opts.cpus /\ plic.room \in Nat /\ plic.used \in Nat
    /\ fdt.phandle \in Nat \ {0} /\ DOMAIN fdt.intc \subseteq Harts
    /\ pending \in BOOLEAN /\ resets \in 0..MaxResets /\ status \in 0..255

\* Where the documentation of the machine properties says that ROM jumps to.
Entry ==
    CASE ~U /\ opts.revb -> XipRevB
      [] ~U /\ ~opts.revb -> XipFlash
      [] U /\ (opts.flash \/ opts.msel = 1) -> Flash0
      [] U /\ ~opts.flash /\ opts.msel \in {6, 11} -> L2Lim
      [] OTHER -> Dram

(***************************************************************************)
(* Whatever other harts have done and however often the guest has reset    *)
(* the board, a hart leaves the ROM at the entry the options name, in      *)
(* machine mode with interrupts and MPRV off; on sifive_u and sifive_viu   *)
(* with its own number in a0, the device tree in a1 and the firmware's     *)
(* information in a2.  The reset vectors and riscv_cpu_reset.              *)
(***************************************************************************)
HandOff ==
    \A h \in DOMAIN harts : InGuest(h) /\ harts[h].pc # Elsewhere =>
        /\ harts[h].pc = Entry
        /\ harts[h].priv = "M" /\ ~harts[h].mie /\ ~harts[h].mprv
        /\ ~harts[h].exception /\ ~harts[h].reserved
        /\ U => /\ harts[h].regs["a0"] = h
                /\ harts[h].regs["a1"] = FdtAddr
                /\ harts[h].regs["a2"] = FwDyn

PastTopology == U /\ stage \in {"devices", "fdt", "nodes", "rom", "running", "exited"}

(***************************************************************************)
(* The configuration string that sifive_plic_create gets names every hart  *)
(* with all its modes, nothing cut by strncat, and it fits with its NUL    *)
(* into the 3 * cpus bytes that were allocated.                            *)
(***************************************************************************)
TopologyFits ==
    PastTopology =>
        /\ Len(plic.text) = opts.cpus
        /\ \A h \in Harts : plic.text[h + 1] = IF h = 0 THEN <<"M">> ELSE <<"M", "S">>
        /\ plic.used + 1 <= 3 * opts.cpus

(***************************************************************************)
(* What soc_realize and machine_init put together fits: no two regions     *)
(* overlap, no two outputs share a line of the PLIC and every line exists, *)
(* every hart begins in the mask ROM, and the entry that the options name  *)
(* is in memory, with everything the reset vector hands over.              *)
(***************************************************************************)
BoardFits ==
    stage = "running" =>
        /\ \A d, e \in DOMAIN MemoryMap : d = e \/ Apart(MemoryMap[d], MemoryMap[e])
        /\ \A v, w \in plic.lines : v[3] = w[3] => v = w
        /\ \A w \in plic.lines : w[3] \in 1..(Irq.sources - 1)
        /\ Holds(MemoryMap.mrom, ResetVec) /\ Holds(MemoryMap.mrom, FwDyn)
        /\ \E d \in DOMAIN MemoryMap \cap {"xip", "flash0", "l2lim", "dram"} :
              Holds(MemoryMap[d], Entry)

TreeDone == U /\ ~opts.dtb /\ stage \in {"rom", "running", "exited"}

Handles ==
    <<fdt.clocks[1], fdt.clocks[2], fdt.prci, fdt.plic, fdt.gpio, fdt.phy>>
        \o [k \in 1..opts.cpus |-> fdt.intc[k - 1]]

(***************************************************************************)
(* The device tree that create_fdt leaves agrees with the board: no two    *)
(* nodes share a handle, the CLINT and the PLIC name every hart's own      *)
(* interrupt controller, each interrupt is the line soc_realize connected  *)
(* and one that software is told of, the devices are where the tree says,  *)
(* and gpio-restart is the pin that resets the board.                      *)
(***************************************************************************)
TreeMatchesBoard ==
    TreeDone =>
        /\ \A i, j \in DOMAIN Handles : Handles[i] = Handles[j] => i = j
        /\ \A h \in Harts :
              /\ SubSeq(fdt.clintRefs, 2 * h + 1, 2 * h + 2)
                    = <<<<fdt.intc[h], "M_SOFT">>, <<fdt.intc[h], "M_TIMER">>>>
              /\ \A m \in {plic.text[h + 1][k] : k \in DOMAIN plic.text[h + 1]} :
                    \E k \in DOMAIN fdt.plicRefs : fdt.plicRefs[k] = <<fdt.intc[h], m>>
        /\ fdt.irqs \subseteq plic.lines
        /\ \A w \in fdt.irqs : w[3] \in 1..fdt.ndev
        /\ fdt.regs \subseteq DOMAIN MemoryMap
        /\ fdt.restart = <<fdt.gpio, 10>>

(***************************************************************************)
(* After the last reset every hart reaches the firmware at its entry, and  *)
(* is nowhere else than where firmware has taken it from there, unless     *)
(* QEMU was refused its CPUs or has exited.                                *)
(***************************************************************************)
AllBoot ==
    <>[](\/ stage \in {"aborted", "exited"}
         \/ stage = "running" /\ \A h \in DOMAIN harts : harts[h].pc \in {Entry, Elsewhere})

\* The contexts of the PLIC, in order: those of hart 0, then of hart 1, ...
Contexts ==
    LET upTo[n \in 0..opts.cpus] ==
            IF n = 0 THEN <<>>
            ELSE upTo[n - 1] \o [k \in DOMAIN plic.text[n] |-> <<n - 1, plic.text[n][k]>>]
    IN upTo[opts.cpus]

(***************************************************************************)
(* The n-th entry of the PLIC's interrupts-extended is its n-th context,   *)
(* which is how software finds the registers of a context.  The string of  *)
(* soc_realize and the cells of create_fdt.                                *)
(***************************************************************************)
ContextsAgree ==
    TreeDone =>
        \A k \in DOMAIN Contexts :
            fdt.plicRefs[k] = <<fdt.intc[Contexts[k][1]], Contexts[k][2]>>

(***************************************************************************)
(* A CPU that riscv_cpu_realize has accepted is one that its messages say  *)
(* is supported: exactly one of I and E; with V, VLEN a power of two in    *)
(* [128, 1024] and ELEN in [8, 64].                                        *)
(***************************************************************************)
AcceptedIsSupported ==
    \A h \in DOMAIN harts :
        LET cpu == harts[h] IN
        /\ "I" \in cpu.misa <=> "E" \notin cpu.misa
        /\ "V" \in cpu.misa =>
              /\ PowerOf2(cpu.vlen) /\ cpu.vlen \in 128..RV_VLEN_MAX
              /\ PowerOf2(cpu.elen) /\ cpu.elen \in 8..64
=============================================================================
