------------------------------ MODULE MCBoards ------------------------------
(***************************************************************************)
(* SiFiveBoards with command lines for TLC: every option of the boards on  *)
(* one hart, several harts with few options, and many settings of the CPU  *)
(* on the board that takes any model.                                      *)
(***************************************************************************)
EXTENDS SiFiveBoards

CONSTANT Cpus       \* the values of -smp

CommandsOf(boards, cpus, models, settings, msels, flash, revb, dtb) ==
    [board : boards, cpus : cpus, model : models, given : settings, msel : msels,
     flash : flash, revb : revb, dtb : dtb]

UBoards == IF XLen = 64 THEN {"u", "viu"} ELSE {"u"}
Own == IF XLen = 64 THEN "sifive-u54" ELSE "sifive-u34"

OptionCommands ==
    CommandsOf(UBoards, {1}, {Base, Own}, {<<>>, [pmp |-> FALSE]}, {0, 1, 6, 11},
               BOOLEAN, {FALSE}, BOOLEAN)

HartCommands ==
    CommandsOf(UBoards, Cpus, {Own}, {<<>>}, {6}, BOOLEAN, {FALSE}, {FALSE})

\* What -cpu <model>,... is tried with.
BaseSettings ==
    {<<>>, [i |-> FALSE], [i |-> FALSE, e |-> TRUE, g |-> FALSE],
     [i |-> TRUE, e |-> TRUE], [i |-> FALSE, e |-> TRUE],
     [s |-> FALSE, u |-> FALSE], [mmu |-> FALSE, pmp |-> FALSE],
     [priv_spec |-> "v1.10.0"], [priv_spec |-> "v1.9"]}

VectorSettings ==
    {[v |-> TRUE], [v |-> TRUE, vlen |-> 96], [v |-> TRUE, vlen |-> 128],
     [v |-> TRUE, vlen |-> 2048], [v |-> TRUE, elen |-> 4], [v |-> TRUE, elen |-> 128],
     [v |-> TRUE, vext_spec |-> "v0.7"]}

BaseCommands ==
    CommandsOf({"e"}, {1}, {Base}, BaseSettings, {0}, {FALSE}, {FALSE}, {FALSE})

ModelCommands ==
    CommandsOf({"e"}, {1}, Models, BaseSettings \cup VectorSettings, {0}, {FALSE},
               BOOLEAN, {FALSE})

AllCommands == OptionCommands \cup HartCommands \cup ModelCommands
=============================================================================
