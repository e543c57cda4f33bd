# A verification model of Modelsim-Unicorn

Modelsim-Unicorn co-simulates a RISC-V core with VHDL: a foreign-language (FLI)
library makes the Unicorn emulator look like a VHDL entity `riscv`. This
directory holds TLA+ modules translated from that code, TLC configurations that
check them on small instances, and proofs of their main properties for the TLA+
proof system. Paths below are relative to the repository's parent, so the
library's main file is `src/src/fli_riscv.c`.

## The system and its parts

| Part | Source | State | Operations | Interacts with |
| --- | --- | --- | --- | --- |
| Bridge process | `src/src/fli_riscv.c` `riscv_process` | the drivers of one entity instance | one call per event on `clk` or `sreset` | calls `uc_emu_start`, schedules drivers, calls `mti_Quit` |
| Hooks | `src/src/riscv_emu.c` `hook_code`, `hook_mem`, `hook_intr` | globals `pc xreg dbus abus wrn rdn` | called by Unicorn inside `uc_emu_start` | write the globals `riscv_process` drives |
| Vector driver | `fli_riscv.c` `drive_lv_uint` | none | word to vector of drivers | called 34 times per `riscv_process` |
| Library life cycle | `fli_riscv.c` `cif_init`, `call_unicorn_cleanup`, `get_generic_filename` | port record, engine, callback lists, name buffer | elaboration, quit, restart | simulator's callback lists |
| Image loader | `riscv_emu.c` `init_unicorn` | Unicorn memory, hooks | map, load bytes, install hooks | called by `cif_init`, result ignored |
| Command | `riscv_emu.c` `riscv_cmd`, `display_regs` | two display flags | enable or disable the traces | calls the disassembler |
| Debug port monitor | `src/rtl/tb.vhd`, last process | `i_v`, line `L`, transcript | one call per falling edge | samples the bridge's ports |
| Stimulus | `tb.vhd` lines 123 and 169-175 | `clk_s`, `sreset_s` | toggle the clock, release the reset | wakes the bridge and the monitor |
| Disassembler | `src/disasm/riscv-disas.c` | none (pure), tables | fetch, decode, decompress, lift, format | called by `display_regs` |
| Disassembler tests | `src/disasm/t1.c`, `t2.c` | none | encoders, loop over a program | the disassembler |
| Test program | `src/test` | software of the simulated core | stores characters to the debug port | the debug port |

External: the VHDL simulator (delta cycles, callback lists) and Unicorn (vendored
headers only). They are modelled from the way `src/src` calls them.

What makes the parts correct, and what is hard about them:

* **Bridge.** What the ports show on a falling edge must be the access of the
  instruction executed at the preceding rising edge, exactly once, although the
  data travels hook -> global -> driver -> port over three deltas, the process
  is also woken by `sreset`, the globals are shared by all instances of the
  entity, and an instruction can fail half way through its hooks.
* **Monitor.** Lines must neither lose nor reorder characters, except at the
  limit of 80, and the line counter must agree with the line.
* **Both together.** The bytes a program stores to the debug port, and only
  they, must reach the transcript in program order, also after a restart that
  finds the globals of the previous run.
* **Life cycle.** Record and engine are released exactly once on every path:
  error in `cif_init`, quit from the process, quit by the user, restart.
* **Loader.** Each engine holds the program its own generic names, although all
  names pass through one buffer; an image may be missing or larger than memory.
* **Vector driver.** Bit order and width.
* **Disassembler.** Framing of mixed instruction lengths, bits of scattered
  immediates neither lost nor merged nor misplaced, two tables that must agree
  on every instruction set, pseudo instructions that hide no operand, and a text
  that names each operand unambiguously and fits the caller's buffer.

`PROJECT.json` lists the hazards with their lines and the properties aimed at them.

## The modules

```
BusTransactions <-- BridgeBus --> Bridge --> UcRegisters     Lifecycle --> Loader
  (refined by)                      ^                        DriveVector
                     PortMonitor <-- CoSim
Disassembler --> RvOpcodes, RvNames --> RvBits               SelfTests --> Disassembler
```

Each `...Proofs` module extends the module it is named after (`BridgeProofs`
extends `BridgeBus`), and `SeqLemmas` holds what the proofs know about loops over
sequences; `MCBridge`, `MCLifecycle` and `MCDisassembler` give constants their
values for TLC.

### Bridge.tla, UcRegisters.tla

One action per thing that can happen next; the grain is the hook.

| Model | Code |
| --- | --- |
| `ready` | processes the simulator still has to call in this delta |
| `ProcIdle`, `ProcReset`, `ProcEnter` | the three ways into `riscv_process`: clock low, clock and reset high, clock high |
| `HookCode` | `hook_code`: registers and `pc` copied *before* the instruction, opcode into `dbus` |
| `HookMem(kind)` | `hook_mem`; at most one access per instruction, or a read then a write of the same address (atomic memory operation) |
| `EmuReturn` | return of `uc_emu_start`, read back of the pc, scheduling of strobes and buses, negation of the globals |
| `EmuError` | `mti_Quit` after an error, possible before or after any hook |
| `Observe` | the monitor process looks at the ports |
| `Settle`, `Tick`, `ResetChange`, `StopRun` | simulator: port update delta, clock edge, reset edge, end of the run |
| `port`, `drv` | values of the output ports, values in (or scheduled on) their drivers |
| `bus`, `steps`, `npc`, `before` | history: last access until sampled, instructions this cycle, next address, registers before the instruction |

The result of an instruction (next address, registers, access) is arbitrary:
nothing about RISC-V semantics is assumed, so the properties hold for every
program. `ResetWindow` says at which clock level the testbench may change the
reset: `{"0"}` is the discipline of `tb.vhd`, where `sreset_s` falls one delta
after a falling edge. `UcRegisters` holds the register numbers of
`unicorn/riscv.h` and the order in which `hook_code` asks for them by ABI name;
that register i of the ports is register x_i of the engine is a lemma
(`HookOrderIsNumeric`, `ReadRegsIsRegFile`).

Fairness is weak fairness of the simulator's own steps: a simulator that has not
stopped executes ready processes and advances time. Nothing forces the testbench
to toggle the reset or the user to stop.

### BusTransactions.tla, BridgeBus.tla

The promise of the bridge to a testbench, without deltas, drivers, hooks and
globals: in a clock cycle every core takes one turn, at the falling edge the
testbench sees exactly the accesses of these turns, a cycle that has begun ends.
`BridgeBus` gives the refinement mapping: the phase comes from the clock and the
processes still to run, and what is seen is what the *ports* decode to (`Shown`,
the strobe and address tests a testbench makes), not the history variable.

### PortMonitor.tla

The monitor as a machine over the stores it samples. Characters are
representatives of the classes the code distinguishes: shown as themselves,
shown as a dot, CR, LF, NUL. `MAXCHAR_C` is 80 in the code and 2 in the run: the
code compares the counter with it for equality only, so a line that is opened,
extended, filled and overflowed needs no more than three bytes. `i_v` starts
at `integer'left`, as in VHDL. `Restart` elaborates the process anew.

### CoSim.tla

`Bridge` with one core under the clock and reset of `tb.vhd`, and the monitor
reading its ports. `halves` counts half periods of the clock: the reset is
asserted in the second delta of time 0 and released in the delta after the
falling edge at 100 ns. The monitor's actions are those of `PortMonitor`, applied
to what the ports carry; `MonitorSpec` is `PortMonitor` fed with the bytes the
instructions store, so that the module as a whole is shown to implement it.
`Restart` gives the engine and the drivers their initial values and lets the
globals of the library be either kept or loaded anew. Fairness is that of
the simulator (`Going`): ending or restarting the run is never forced.

### Loader.tla, Lifecycle.tla

`Loader` has the static name buffer of `get_generic_filename`, in which a new
name overwrites the beginning of the last one, and the loop of `init_unicorn`
over a memory that silently refuses what does not fit. `Lifecycle` runs them in
`cif_init`, with its two error exits and its normal one, and adds the calls of
`riscv_process` reduced to what they use, and quit and restart with the callbacks
run one at a time in any order. A release of something not acquired, or a second
release, leaves the value "corrupt". File names are assumed shorter than the
buffer (`NamesAssumption`): the code does not check, and what a longer one
overwrites depends on the build.

### DriveVector.tla

The loop of `drive_lv_uint`; a word is a function from bit positions to
BOOLEAN, so the shift is exact for every width.

### RvBits.tla, RvNames.tla, RvOpcodes.tla, Disassembler.tla, SelfTests.tla

A machine word is the set of the positions of its one bits, so C's shifts are
exact at 64 and 32 bits and an OR is a union. `RvBits` holds the operand
extractors of `riscv-disas.c` and the encoders of `t1.c`. `RvNames` holds the
register, control register, rounding mode and fence names. `RvOpcodes` holds
`decode_inst_opcode`, the list of opcodes and the opcode table, whose rows are
grouped by codec and format; an opcode is its mnemonic. The tables are sets of
rows (`Table`), as the C arrays are, so that a proof can go through them. `Disassembler` is the
machine: the loop of `t2.c` and, between two turns of it, one action per phase
of `disasm_inst`.

The provers cannot look into a string, so what the proofs need to know of the
constant tables is stated as named assumptions beside them, without parameters:
an opcode has one row (`RowsApart`), a base mnemonic is neither compressed nor
pseudo (`MnemonicsApart`), a mnemonic put together like `"amoadd" \o ".w"` has one
stem and one suffix (`NamesApart`), two control registers have two texts
(`CsrTextsApart`), the names are no longer than the longest of the tables
(`NamesShort`), and the manual gives a pseudo instruction one meaning
(`OneMeaning`). TLC evaluates all six on every run of the disassembler; they
have no instances to vary, so this settles them.

| Model | Code |
| --- | --- |
| `words`, `data` | the program, as the words it was assembled from and as the bytes the code sees |
| `offset`, `inst_len` | the variables of the loop of `t2.c` |
| `dec` | the `rv_decode` record; `pc` is the loop's base plus `offset` |
| `InstFetch` | `inst_fetch` with `inst_length` |
| `DecodeOpcode`, `DecodeOperands`, `Decompress`, `LiftPseudo`, `Format` | the five calls of `disasm_inst`, in their order |
| `Advance`, `Return` | end of the loop's body, end of the loop |
| `plain` | history: the record before lifting |
| `text` | the opcode and the operands as they are shown: a name, or the word a number stands for |
| `TextLength` | the characters `decode_inst_format` has appended, target address and padding included |

`t2.c` fixes the instruction set to rv64 in the loop; here the caller's choice is
a parameter, as it is for `disasm_inst`. The loop is sequential, so its fairness
is that it runs while it can. `Manual` is the reference for the pseudo
instructions: what each stands for according to the RISC-V assembly manual.
`SelfTests` turns the assembler constants and the tests of `t1.c`, and the byte
list of `t2.c`, into inputs with the instruction their names or comments announce.

Definitions marked "mutant" in any module are not part of its specification: each
is a slip the code could have made, which a property must detect.

## The runs

| Run | Question | Bounds |
| --- | --- | --- |
| `BridgeOne` | Does one instance show the monitor each access exactly once, with a continuous pc, execute at rising edges only and change its outputs only while the clock is high? | 1 instance, 1 register, 2 data values, 2 addresses |
| `BridgeTwo` | Do the shared globals leak from one instance to another's sampled ports? Does the bridge implement `BusTransactions` (`BusSpec`), fairness included? Is the invariant of the proofs an invariant? | 2 instances, 1 register, 2 data values, 1 address; 308,053 states |
| `PortMonitor` | Shape of the lines, order and completeness of the text, also over restarts | lines of 2 characters, 6 stores of 5 kinds; 19,533 states |
| `CoSim` | Does execution start clean after the reset, for the first time and after a restart? Is the transcript that of `PortMonitor` fed with the program's own stores (`MonitorSpec`)? Is a terminated line written? | 1 core, 10 half periods of reset, 3 words, 2 addresses one of which is the debug port, lines of 2 characters, 3 bytes sent, 1 restart; 222,993 states |
| `Lifecycle` | Exactly one release, never during use; each engine holds its own image | 2 instances, 1 restart, 3 file names of which one begins another and one names no file, a memory of 3 bytes that fits one image and not the other, a buffer of 3 characters; 3,417 states |
| `DriveVector` | Right bit on the right element, long vectors refused | 4 bit words, vectors of 0 to 5 elements |
| `Disassembler` | Are mixed lengths framed right, does every bit of an instruction count, are immediates scaled and extended as their codec requires, do encoders undo extractors, do the decoding and decompression tables agree, does the text identify each operand and fit its buffer, do the self tests decode to what they announce, does the loop end? | 16 bit words: all three quadrants and function codes with 6 and 7 values of the register fields, on all three instruction sets; 32 bit words reaching every opcode with operands at the values the tables test, every named control register; the self tests; programs of up to 3 words of 2, 4, 6 and 8 bytes; buffer of 80 characters, base address 0x10078; 109,892 states |
| `BridgeAsyncReset` | *fails*: instructions are executed at edges only | as `BridgeOne`, reset at any time |
| `BridgeResetStrobes` | *fails*: the reset negates the strobe ports | 1 instance |
| `BridgeRegisterLag` | *fails*: the register ports show the instruction's result | 1 instance |
| `PortMonitorFullLine` | *fails*: every stored character is displayed | as `PortMonitor` |
| `DisassemblerRet` | *fails*: every pseudo instruction can be read back | 60 `jalr` words |

Why the bounds are enough. Two values tell "this access" from "another access"
for each port field, and two instances are enough for one to overwrite the
other's globals between any two steps; the theorems remove these bounds. For the
monitor six stores run through two full lines and a third one begun. In `CoSim`
three bytes open, extend and end a line and the reset is as long as in `tb.vhd`;
one restart is enough for stale globals, and the theorems again hold for
all of them. In `Lifecycle` two names of different length sharing a prefix are what
a stale buffer needs. The disassembler keeps nothing from one instruction to the
next, so one word at a time is enough for everything but the framing, and every
opcode of the table except those only lifting produces is decoded from some input
word. `EveryBitCounts` flips each bit of each word, so words one bit away from
the inputs are decoded as well. 80 is the smallest buffer a caller in the
repository passes (`t1.c`); the base address is that of `t2.c`.

### What the failing runs show

* `BridgeAsyncReset`: `riscv_process` tests `clk = '1'` instead of an edge and is
  sensitive to `sreset`. A reset released while the clock is high executes an
  instruction immediately. The testbench in the repository never does this.
* `BridgeResetStrobes`: the reset branch sets the globals `wrn` and `rdn` but
  schedules no driver. After a store, the write strobe is low for the whole reset.
* `BridgeRegisterLag`: `hook_code` runs before the instruction, so on the falling
  edge the register ports are one instruction older than the `pc` port.
* `PortMonitorFullLine`: the character that finds the line full triggers the
  output and is dropped.
* `DisassemblerRet`: the constraints of `ret` do not test the immediate, those of
  `jr` and `jalr` do, and `ret` is tried first: `jalr zero,ra,4` is shown as
  `ret`. Compressed words cannot have an offset there.

Lifting has a second loss of this kind, which has no run of its own: the rows of
`fmv`, `fabs` and `fneg` use a format that names integer registers
(`src/disasm/riscv-disas.c:581-589`), those of the sign injections they are lifted
from (`:439`, for one) a format that names floating point registers, so
`fsgnj.s fs0,fs1,fs1` is shown as `fmv.s s0,s1`. `LiftKeepsOperands` fails on every
such word. `OthersKeepOperands` excepts both and checks that there is no third: any
other lifted text, a compressed `ret` included, determines every operand and the
register file it is in, and the text of a floating point move determines the
register numbers.

Some further observations have no run.

* With two instances `PcContinuity` fails, because `pc` is shared while the
  engines are not; it is checked and proved for one instance. `PortsRegistered`
  needs one instance as well: with the clock low an instance drives the buses from
  globals that another one wrote.
* `riscv_process` takes an undriven `sreset` for one that is not asserted.
  `CleanStart` holds because `tb.vhd` drives the reset before the first edge.
* The monitor ends a line on CR or NUL, not on LF.
* In the list of `t2.c` the bytes of entries 2, 3 and 6 (commented `nop`,
  `addi zero,zero,3` and `addi s0,s0,1`) are swapped or wrong and decode to other
  instructions; `DecodesAssembled` checks the other seven.
* In the disassembler's table `c.andi` with a zero immediate is marked illegal
  (`src/disasm/riscv-disas.c:540`).
* `append` passes `strncat` one character too many for the terminator. `TextFits`,
  proved for every word, shows that no text reaches the end of the smallest buffer,
  which is what makes that harmless.

## The proofs

`BridgeProofs.tla`, for any number of instances, registers, data values and
addresses, from the named assumptions of `Bridge.tla`:

* `TypeCorrect`. `TypeOK` includes that control inside `uc_emu_start` has a core.
* `Inductive`: `IndInv` is an invariant if the reset changes while the clock is
  low (`SyncReset`). `SampleShowsAccess` is not inductive: that the ports agree
  with the access at the falling edge follows from the drivers agreeing while the
  clock is high (`HighPhase`), which follows from the globals following the
  access inside the emulator (`GlobalsFollowAccess`), which needs the globals to
  be negated between calls and the emulator to run in a rising delta only
  (`EmulatorOnEdge`). `Drained` says the bus is empty when the next edge comes.
  There is one lemma per action.
* `SampledAccess`, `SampledRegisters`, `OneStep`, `EdgeOnly` follow from it.
* `SinglePc` and `RegisteredOutputs`: with one instance `PcContinuity` and
  `PortsRegistered` hold for every reset discipline. The second rests on the
  drivers being a copy of the globals whenever the clock is low (`PortInv`), so
  that driving them again on the falling edge changes nothing.

* `ImplementsBus`, the safety part of `BusSpec` for any number of instances:
  every step of `Bridge` is a step of `BusTransactions` or a stutter. Beyond
  `IndInv` it needs that no access is on the bus in reset.

`CoSimProofs.tla`, for one core, any length of the reset, any program, any data
and any number of restarts (`IInv`: where the reset is by the time, that the first
rising edge resets the pc and the first falling edge the line counter, and that a
store on the bus is the last byte sent). All assume that the monitor's alphabet
covers the data (`StoresBytes`):

* `StartsClean`: `CleanStart`.
* `ImplementsMonitor`: the whole testbench implements `PortMonitor` fed with the
  stores of the program. The bridge's `IndInv` carries over to the composition,
  since every step but a restart is one of `Bridge`; from it the ports at the
  falling edge tell exactly what the last instruction did (`PortsTell`).
* `CoSimTypes`: `CoSimTypeOK`.
* `TranscriptOrdered`: what the monitor promises about order and completeness
  (`MonitorOrder`, `MonitorIntact` below) holds of the bytes the *program* stores,
  through hooks, globals, drivers and ports. It is the refinement put to use: the
  theorems of `PortMonitorProofs` are applied to the implemented monitor.

`PortMonitorProofs.tla`, for every line length and alphabet and any number of
stores and restarts:

* `MonitorType` and `MonitorLines`. `LineShape` needs that nothing is in the line
  before the release of the reset, and that a line is never longer than its
  counter allows.
* `MonitorOrder` (`OrderedText`). The property is about the concatenation of all
  lines ever written, compared with all bytes ever stored. `SampleTexts` says what
  a byte adds to either text: the same character to both, or, at the end of a line,
  to the stored one only, for which a line is written. `SubsequenceGrows` follows
  the loop of the comparison over both texts at once.
* `MonitorAccount` (`LinesAccountedFor`). The invariant `Account` adds what the
  open line has used up: the bytes the counter has counted are not yet paid for
  (`Paid`), and none of them but the first is a terminator (`Unended`).
* `MonitorIntact` (`ShortLinesIntact`). A full line that drops a character would
  have `MAXCHAR_C` bytes without a terminator behind it, by `Unended`.

`LifecycleProofs.tla`, for any number of instances and restarts: `LifecycleType`,
`ReleasedOnce`, `ReleasedAll`, `HeldInUse`. The invariant says that the list of
callbacks that counts in each phase (quit and restart lists before, the pending
one while closing) releases nothing twice, only what is held, and all that is
held (`Covers`); lemmas show that registering a callback and running one, at any
place of the list, keep it so. `OwnImage` proves `LoadsOwnImage` for any file
system, memory size and start address, with names shorter than the buffer
(`NamesAssumption`): a name read back from the shared buffer ends at its own
terminator whatever longer name was there before, and the load loop, written as a
fold, is followed byte by byte past the end of the mapping.

`DriveVectorProofs.tla`, for every word width, vector length and value: the types
(the index stays inside the vector), the loop invariant `Progress`, which includes
that a vector too long for the word drives nothing, and from it `DrivesValue`.

`SeqLemmas.tla`: the induction theorems of the library take a predicate as a
parameter, which the provers cannot instantiate. Stated for a *set* of numbers,
induction follows from the library's theorem that the strict subset order of
finite sets is well-founded (`LeastNatural`, `UpTo`); with it a fold over a
sequence is the last value of a loop (`FoldExists`, `FoldIsLoop`), and flattening
a list of texts is computed one text at a time (`FlattenProperties`,
`FlattenLength`, `FlattenAt`). The monitor, the loader and the layout of a
program in memory rest on these.

`RvBitsProofs.tla`, for every word: each piece `((inst << l) >> r) << n` of an
operand is a range of bits of the word moved by a constant (`Piece`,
`SignedPiece`, `Piece32`); from these an operand and an encoded word are computed
as unions of moved ranges, and the round trips follow: `BranchReencoded`,
`JumpReencoded`, `ImmediateReencoded`, and for offsets `BranchOffsetKept`. The
width and the scale of every immediate extractor and every register field follow
as well (`UnsignedImmediates`, `SignedImmediates`, `RegisterFields`), and that two
words with the same operand have the same bits wherever it was taken from
(`FieldsAlike`, `ImmediatesAlike`).

`DisassemblerProofs.tla`, for every set of input programs, of any number of words,
whose encodings `inst_length` supports (`InputsAssumption`):

* `AlwaysReencodes` (`Reencodes`). The invariant `CodecInv` adds that `dec` keeps
  its fields, which the step of `DecodeOperands` needs.
* `FetchesProgram` (`FetchesWords`). `FetchInv` says that `data` is the words of
  the program one after the other and that between two instructions `offset` is
  the start of a word or the end. The length of a word is decided by its first
  parcel, which is why bytes put together from the right offset are one word.
* `ImmediatesInRange` (`ImmediatesScaled`), with `WidthInv`: registers and
  immediates keep their width through every phase.
* `NothingCompressed` (`NoCompressedLeft`): decoder and decompression table agree
  for each instruction set. Every case of the decoder's switches is followed to the
  opcodes it can name (`QuadrantKnown`, `DecodesKnown`), and each of those that is
  compressed is shown to have an entry in the set's column.
* `DisassemblerTypes` (`TypeOK`), with `OpcodeInv`: what is decoded, expanded or
  lifted to is a row of the table in every phase.

* `EveryBitDecoded` (`EveryBitCounts`). Between decoding and what follows, `dec.op`
  is what `decode_inst_opcode` says of the word (`DecodedInv`); the rest is about
  two words with the same opcode and operands, shown to have the same bits. The
  operands fix the bits their codec looks at (`Source`, `OperandsAlike`), for each of
  44 codecs. The opcode fixes the others: every switch, followed down to its
  leaves, either looks at the bits the codec of its opcode leaves out or selects
  `illegal` (`Selected`, one lemma per group of opcodes; `Selected16` for the 16 bit
  quadrants), and an opcode comes from one major opcode (`HasMajor`, `MajorOnce`).
  Where a mnemonic is put together, as in the atomic and floating point groups,
  the bits are those that chose its stem and its suffix (`Made`, `FpCase`). Words of
  48 and 64 bits are illegal (`LongIllegal`). The fences are left out of the
  property, because they ignore their reserved fields.
* `ShownUnambiguous` (`ShownReadsBack`). `ShowInv` says that every operand a format
  names has the width for which there are names, and that the text is that of the
  final record. Within those widths two values are shown as two tokens
  (`ShowsApart`): the number a set of bits stands for identifies it
  (`NumberApart`), and control registers rest on `CsrTextsApart`. The reserved
  rounding modes 5 and 6 are both shown as `inv`, which the property excepts.
* `LiftingKeeps` (`OthersKeepOperands`). `LiftInv` says that the record at the end is
  the lifting of the one kept in `plain`. A form is `Faithful` if, under its
  constraints, what the manual says of the pseudo instruction gives back every
  operand of the base instruction; this is shown form by form for all that
  lifting tries. `ret` is the one that is not, unless the offset is zero; by
  `ShortInv` it is zero in every compressed jump. The token is read by the letter of
  the base instruction's format, so its register file must be the one the form
  names the operand in: `FilesAgree` finds it so for every form but the floating
  point moves (`FpMoves`), for which the numbers are read back as those of integer
  registers.

* `TextAlwaysFits` (`TextFits`). What `append` keeps is a loop over the pieces of the
  text; as long as the sum of the pieces is below the buffer's length it is equal to
  the loop that adds them (`AppendsAll`), which has no bound. The sum of lists put
  one after the other is the sum of their sums (`TotalJoin`, `FlattenAtMost`). Each
  operand takes a bounded number of characters (`AppendsShort`: names by `NamesShort`,
  numbers by their width), and every format of the table is of one of three kinds
  (`FormatShape`): at most five short operands, at most three that are no address, or
  an address after at most two registers. That is at most 62 characters
  (`PiecesShort`) after at most 17 for the word (`PrefixShort`), in a buffer of 80.

Only model-checked:

* What needs fairness: the liveness part of `BusSpec`, `LineWritten`,
  `Terminates`. The prover cannot handle it.
* `DecodesAssembled`: it compares the decoding of the constants of `t1.c` and
  `t2.c` with the instructions they announce. It speaks of those constants only,
  and TLC computes all of them.

## Not modelled

* `riscv_cmd` and the dump of `display_regs`: two flags that only switch printing
  on and off, and printing. `hook_intr` prints one line.
* Unicorn itself: its code is not in the repository. Of the vendored headers only
  the register numbers matter to the code here.
* The test program and its start-up code: any program is allowed instead.
* The characters of numbers in the disassembly (how many there are is modelled),
  and file names longer than the buffer.
* `inst_fetch` at the end of a buffer: the programs end with a whole
  instruction. Encodings `inst_length` declares unsupported stay out of the runs
  (`InputsAssumption`).
* Port lookup and the ownership of drivers in `cif_init`, and the buffers that
  `mti_GetArraySignalValue` allocates and `drive_lv_uint` does not free: nothing
  reads them again, and any bound on their number would be arbitrary.

The model is complete in the sense that every operation of the code under
`src/src`, the monitor, the stimulus and the disassembler that changes state read
elsewhere is an action. Every safety property of the passing runs but
`DecodesAssembled` is also a theorem.
