---------------------------- MODULE SiFiveMemory ----------------------------
(***************************************************************************)
(* The memory maps and interrupt numbers of the boards: qemu-sifive-u.[ch] *)
(* and qemu-sifive-e.[ch].                                                 *)
(*                                                                         *)
(* Bases and sizes count pages of 0x1000 bytes; DRAM has the size of -m.   *)
(* The debug windows at 0, and the OTP of sifive_e, are in the tables of   *)
(* the code and never mapped.                                              *)
(***************************************************************************)
EXTENDS Integers

At(base, size) == [base |-> base, size |-> size]

\* sifive_u_memmap, for sifive_viu too.
UMap(ram) ==
    [mrom |-> At(\h1, \hf),           test |-> At(\h100, \h1),
     clint |-> At(\h2000, \h10),      l2lim |-> At(\h8000, \h2000),
     plic |-> At(\hc000, \h4000),     prci |-> At(\h10000, \h1),
     uart0 |-> At(\h10013, \h1),      uart1 |-> At(\h10023, \h1),
     gpio |-> At(\h10060, \h1),       otp |-> At(\h10070, \h1),
     gem |-> At(\h10090, \h2),        gem_mgmt |-> At(\h100a0, \h1),
     dmc |-> At(\h100b0, \h10),       flash0 |-> At(\h20000, \h10000),
     dram |-> At(\h80000, ram)]

EMap ==
    [mrom |-> At(\h1, \h2),           test |-> At(\h100, \h1),
     clint |-> At(\h2000, \h10),      plic |-> At(\hc000, \h4000),
     aon |-> At(\h10000, \h8),        prci |-> At(\h10008, \h8),
     gpio |-> At(\h10012, \h1),       uart0 |-> At(\h10013, \h1),
     qspi0 |-> At(\h10014, \h1),      pwm0 |-> At(\h10015, \h1),
     uart1 |-> At(\h10023, \h1),      qspi1 |-> At(\h10024, \h1),
     pwm1 |-> At(\h10025, \h1),       qspi2 |-> At(\h10034, \h1),
     pwm2 |-> At(\h10035, \h1),       xip |-> At(\h20000, \h20000),
     dtim |-> At(\h80000, \h400)]

\* Mutant of UIrq: the highest line is taken for the number of lines.
UIrqFewSources == [uart0 |-> 3, uart1 |-> 4, gpio |-> 7, gem |-> 53, sources |-> 53]

\* SIFIVE_U_*_IRQ, SIFIVE_E_*_IRQ and *_PLIC_NUM_SOURCES.
UIrq == [uart0 |-> 3, uart1 |-> 4, gpio |-> 7, gem |-> 53, sources |-> 54]
EIrq == [uart0 |-> 3, uart1 |-> 4, gpio |-> 8, sources |-> 127]

Apart(a, b) == a.base + a.size <= b.base \/ b.base + b.size <= a.base

\* A word address, four bytes each, in a region.
Holds(region, word) == word \div 1024 \in region.base..(region.base + region.size - 1)
=============================================================================
