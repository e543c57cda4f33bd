------------------------------- MODULE Loader -------------------------------
(***************************************************************************)
(* What cif_init() does to bring a program into an engine: the generic of  *)
(* the entity is copied into the static buffer filename[] of               *)
(* get_generic_filename(), which all instances share, and init_unicorn()   *)
(* maps the memory, copies the file byte by byte and installs the hooks.   *)
(* The errors uc_mem_write() and init_unicorn() return are not looked at.  *)
(*                                                                         *)
(* Definitions marked "mutant" are slips the code could have made.         *)
(***************************************************************************)
EXTENDS Naturals, SequencesExt

CONSTANTS
    MAX_WORD,       \* characters filename[] holds: 128
    NulChar,        \* the character that ends a C string
    Files,          \* Files[name]: the bytes of the file of that name
    MapSize,        \* bytes of memory mapped: 2 * 1024 * 1024
    START_ADDRESS   \* where the image goes

\* A file name is a sequence of characters; nothing checks that it fits.
ASSUME FilesAssumption == \A name \in DOMAIN Files : Files[name] \in Seq(Nat)
ASSUME MapAssumption   == MapSize \in Nat /\ START_ADDRESS \in Nat
ASSUME WordAssumption  == MAX_WORD \in Nat \ {0}

EmptyName == [k \in 0..(MAX_WORD - 1) |-> NulChar]

\* The generic goes over what the buffer held, a NUL behind it.
CopyOnly(buf, name) ==  \* mutant
    [k \in DOMAIN buf |-> IF k < Len(name) THEN name[k + 1] ELSE buf[k]]
get_generic_filename(buf, name) ==
    [k \in DOMAIN buf |-> IF k < Len(name) THEN name[k + 1]
                          ELSE IF k = Len(name) THEN NulChar ELSE buf[k]]

\* The name as fopen reads it.
CString(buf) ==
    LET end == CHOOSE k \in DOMAIN buf :
                  buf[k] = NulChar /\ \A j \in 0..(k - 1) : buf[j] # NulChar
    IN  [k \in 1..end |-> buf[k - 1]]

-----------------------------------------------------------------------------
Mapped     == 0..(MapSize - 1)
ZeroMemory == [a \in Mapped |-> 0]

\* A write outside the mapping fails and changes nothing.
uc_mem_write(mem, a, byte) == IF a \in Mapped THEN [mem EXCEPT ![a] = byte] ELSE mem

\* The loop of init_unicorn and the total it prints.
NotAdvanced(image) ==  \* mutant: the address is not incremented
    [mem |-> FoldLeft(LAMBDA mem, byte : uc_mem_write(mem, START_ADDRESS, byte),
                      ZeroMemory, image),
     total |-> Len(image)]
Copy(image) ==
    LET Put(s, byte) == [mem  |-> uc_mem_write(s.mem, s.addr, byte), addr |-> s.addr + 1]
        last == FoldLeft(Put, [mem |-> ZeroMemory, addr |-> START_ADDRESS], image)
    IN  [mem |-> last.mem, total |-> last.addr - START_ADDRESS]

\* Without the file, init_unicorn returns 1 before the hooks are installed.
init_unicorn(name) ==
    IF name \in DOMAIN Files
    THEN [mem |-> Copy(Files[name]).mem, total |-> Copy(Files[name]).total, hooks |-> TRUE]
    ELSE [mem |-> ZeroMemory, total |-> 0, hooks |-> FALSE]

=============================================================================
