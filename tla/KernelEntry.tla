---------------------------- MODULE KernelEntry ----------------------------
(***************************************************************************)
(* From the jump behind setup to start_kernel(): startup_32 of             *)
(* boot/compressed/head.S with decompress_kernel() of misc.c, and          *)
(* startup_32 of kernel/head.S.  Interrupts are off all the way, so that a *)
(* hlt is the end.                                                         *)
(*                                                                         *)
(* Memory is counted in long words, each a kind and a value; a page of N   *)
(* words is a table of N entries.  A virtual address is looked up in       *)
(* memory once paging is on.  Video memory and the decompressor's heap,    *)
(* which puts() and inflate() write, are not among the words.              *)
(***************************************************************************)
EXTENDS Integers

CONSTANTS
  N,             (* 1024                                                   *)
  Base,          (* 1M, where the kernel is decompressed to                *)
  RealMode,      (* 0x90000, where setup left its parameters               *)
  _edata, end,   (* the decompressor's BSS                                 *)
  idt_table, idt_entries, __bss_start, _end,
  BOOT_USER_PGD_PTRS,
  EnoughMemory,  (* 1024 K above 1M                                        *)
  Words,         (* values of the word the A20 test writes                 *)
  Machines

(* a20: the line is on; ext: K above 1M, as the BIOS told setup; old, new: *)
(* a command line is told of in the old, the new way; kind: "386", "486" or*)
(* a processor with cpuid; level and signature: what cpuid returns, the    *)
(* signature of four digits in base 4.                                     *)
MachinesOK ==
  Machines \subseteq [a20 : BOOLEAN, ext : Nat, old : BOOLEAN, new : BOOLEAN,
                      kind : {"386", "486", "cpuid"}, level : Nat, signature : 0 .. 255, fpu : BOOLEAN]

VARIABLES
  machine, pc, eax, edi,
  paging, mem,
  cpu,           (* boot_cpu_data                                          *)
  cr0

vars == <<machine, pc, eax, edi, paging, mem, cpu, cr0>>

Half == N \div 2
Reach == N * N   (* what one table maps                                    *)
PAGE_OFFSET == BOOT_USER_PGD_PTRS * Reach

(* .org 0x1000 and so on, from the beginning of the kernel.                *)
swapper_pg_dir == Base + N
pg0 == Base + 2 * N
pg1 == Base + 3 * N
empty_zero_page == Base + 4 * N

(* Words of setup's parameters; the command line of the code's users.  The *)
(* first word has the position on the screen, orig_x and orig_y, in its    *)
(* lower half and the memory in its upper one.                             *)
EXT_MEM_K == 0
OLD_CL_MAGIC_ADDR == RealMode + 1
OLD_CL_OFFSET == RealMode + 2
NEW_CL_POINTER == 3
OLD_CL_MAGIC == 41791
CommandLine == RealMode + Half

(* What the decompressor and setup have is below 1M and apart, and two     *)
(* tables map the kernel.                                                  *)
LayoutOK ==
  /\ {N, Base, RealMode, _edata, end, idt_table, idt_entries, __bss_start, _end, BOOT_USER_PGD_PTRS,
      EnoughMemory, Words} \subseteq Nat \ {0}
  /\ N % 2 = 0 /\ Half > NEW_CL_POINTER /\ Base % N = 0
  /\ 0 < _edata /\ _edata <= end /\ end <= RealMode /\ RealMode + N <= Base
  /\ empty_zero_page + N <= idt_table /\ idt_table + idt_entries <= __bss_start
  /\ __bss_start < _end /\ _end <= 2 * Reach /\ BOOT_USER_PGD_PTRS \in 2 .. N - 2

Word(n) == <<"word", n>>
FirstWord(ext, position) == <<"screen", ext, position>>
Entry(frame) == <<"entry", frame>>

(* What setup leaves behind, the command line at the end.                  *)
Parameters(m) ==
  [i \in 0 .. N - 1 |->
     CASE i = EXT_MEM_K -> FirstWord(m.ext, "setup")
       [] RealMode + i = OLD_CL_MAGIC_ADDR -> Word(IF m.old THEN OLD_CL_MAGIC ELSE 1)
       [] RealMode + i = OLD_CL_OFFSET -> Word(CommandLine - RealMode)
       [] i = NEW_CL_POINTER -> Word(IF m.new THEN CommandLine ELSE 0)
       [] OTHER -> <<"setup", i>>]

Unknown == [x86 |-> 0, cpuid_level |-> -1, x86_model |-> 0, x86_mask |-> 0,
            x86_vendor_id |-> FALSE, x86_capability |-> FALSE, hard_math |-> FALSE]

Init ==
  /\ machine \in Machines
  /\ pc = "a20" /\ eax = 0 /\ edi = 0 /\ paging = FALSE
  /\ \E high \in 0 .. Words - 1 :
       mem = [p \in 0 .. _end - 1 |->
                CASE p \in RealMode .. RealMode + N - 1 -> Parameters(machine)[p - RealMode]
                  [] p = Base -> Word(high)
                  [] OTHER -> <<"junk", 0>>]
  /\ cpu = Unknown /\ cr0 = {"PE", "ET"}
-----------------------------------------------------------------------------
(* The word an address leads to: what two levels of tables say of it.      *)
Phys(v) ==
  LET pde == mem[swapper_pg_dir + (v \div Reach)]
      pte == mem[pde[2] * N + ((v \div N) % N)]
  IN IF ~paging THEN v
     ELSE IF pde[1] # "entry" THEN -1
     ELSE IF pte[1] # "entry" THEN -1 ELSE pte[2] * N + (v % N)

(* stos and movs to "at" and behind; or else the fault that ends all.      *)
Store(at, words, next) ==
  \E target \in {[i \in DOMAIN words |-> Phys(at + i)]}, stored \in {words} :
    IF \E i \in DOMAIN target : target[i] \notin DOMAIN mem
    THEN pc' = "fault" /\ UNCHANGED mem
    ELSE /\ pc' = next
         /\ mem' = [p \in DOMAIN mem |->
                      IF \E i \in DOMAIN target : target[i] = p
                      THEN stored[CHOOSE i \in DOMAIN target : target[i] = p] ELSE mem[p]]

Load(at, n) == [i \in 0 .. n - 1 |-> mem[Phys(at + i)]]
Zeros(n) == [i \in 0 .. n - 1 |-> Word(0)]
Goto(here, next) == pc = here /\ pc' = next

(* incl, movl to 0, cmpl with 1M: one and the same word without A20.       *)
TestA20 ==
  /\ pc = "a20"
  /\ eax' = (eax + 1) % Words
  /\ mem' = [mem EXCEPT ![0] = Word(eax')]
  /\ pc' = IF ~machine.a20 \/ mem[Base] = Word(eax') THEN "a20" ELSE "clear"
  /\ UNCHANGED <<machine, edi, paging, cpu, cr0>>

ClearDecompressor ==
  /\ pc = "clear" /\ Store(_edata, Zeros(end - _edata), "decompress_kernel")
  /\ UNCHANGED <<machine, eax, edi, paging, cpu, cr0>>

(* puts() begins and ends with the position in setup's page.               *)
Printed == [mem EXCEPT ![RealMode + EXT_MEM_K] = FirstWord(@[2], "puts")]

(* Mutants of SetupOutput: too little memory is let pass; puts() takes the *)
(* memory's half of the word as well.                                      *)
SetupOutputAny ==
  /\ pc = "decompress_kernel" /\ pc' = "gunzip" /\ mem' = Printed
  /\ UNCHANGED <<machine, eax, edi, paging, cpu, cr0>>
SetupOutputWide ==
  /\ pc = "decompress_kernel"
  /\ pc' = IF mem[RealMode + EXT_MEM_K][2] < EnoughMemory THEN "error" ELSE "gunzip"
  /\ mem' = [mem EXCEPT ![RealMode + EXT_MEM_K] = FirstWord(0, "puts")]
  /\ UNCHANGED <<machine, eax, edi, paging, cpu, cr0>>

(* setup_normal_output_buffer() looks at the memory, as the build's        *)
(* STANDARD_MEMORY_BIOS_CALL has it; then "Uncompressing Linux... " or the *)
(* words of error().                                                       *)
SetupOutput ==
  /\ pc = "decompress_kernel"
  /\ pc' = IF mem[RealMode + EXT_MEM_K][2] < EnoughMemory THEN "error" ELSE "gunzip"
  /\ mem' = Printed
  /\ UNCHANGED <<machine, eax, edi, paging, cpu, cr0>>

(* The image: the directory with the frames of the tables, 0x00102007 and  *)
(* 0x00103007, room for the tables and the page that follows them.         *)
Image(p) ==
  IF p \in {swapper_pg_dir, swapper_pg_dir + BOOT_USER_PGD_PTRS} THEN Entry((Base \div N) + 2)
  ELSE IF p \in {swapper_pg_dir + 1, swapper_pg_dir + BOOT_USER_PGD_PTRS + 1} THEN Entry((Base \div N) + 3)
  ELSE IF p \in swapper_pg_dir .. empty_zero_page + N - 1 \/ p \in idt_table .. idt_table + idt_entries - 1 THEN Word(0)
  ELSE <<"kernel", p>>

Decompress ==
  /\ pc = "gunzip" /\ Store(Base, [i \in 0 .. __bss_start - Base - 1 |-> Image(Base + i)], "booting")
  /\ UNCHANGED <<machine, eax, edi, paging, cpu, cr0>>

(* "Ok, booting the kernel."; high_loaded is 0: the jump to 1M follows.    *)
Booting ==
  /\ Goto("booting", "startup_32") /\ mem' = Printed
  /\ UNCHANGED <<machine, eax, edi, paging, cpu, cr0>>

(* Mutant of LastTable: the table behind pg0 is not filled.                *)
LastTablePg1(p) == p = pg1

LastTable(p) == p = empty_zero_page

StartTables ==
  /\ Goto("startup_32", "tables") /\ edi' = pg0 /\ eax' = 0
  /\ UNCHANGED <<machine, paging, mem, cpu, cr0>>

(* stosl, add $0x1000 to the entry, until the page behind the tables.      *)
FillTables ==
  /\ pc = "tables"
  /\ Store(edi, [i \in {0} |-> Entry(eax)], IF LastTable(edi + 1) THEN "paging" ELSE "tables")
  /\ edi' = edi + 1 /\ eax' = eax + 1
  /\ UNCHANGED <<machine, paging, cpu, cr0>>

(* The code goes on at its address above PAGE_OFFSET.                      *)
EnablePaging ==
  /\ Goto("paging", "bss") /\ paging' = TRUE /\ cr0' = cr0 \union {"PG"} /\ eax' = 0
  /\ UNCHANGED <<machine, edi, mem, cpu>>

ClearBSS ==
  /\ pc = "bss" /\ Store(PAGE_OFFSET + __bss_start, Zeros(_end - __bss_start), "idt")
  /\ UNCHANGED <<machine, eax, edi, paging, cpu, cr0>>

setup_idt ==
  /\ pc = "idt"
  /\ Store(PAGE_OFFSET + idt_table, [i \in 0 .. idt_entries - 1 |-> <<"ignore_int", i>>], "parameters")
  /\ UNCHANGED <<machine, eax, edi, paging, cpu, cr0>>

(* Mutant of CopiedParameters: the whole page is taken for parameters.     *)
CopiedParametersAll == Load(RealMode, N)

(* esi is setup's address still, which the lower mapping leads to; the     *)
(* second half is cleared.                                                 *)
CopiedParameters ==
  LET parameters == Load(RealMode, Half) IN [i \in 0 .. N - 1 |-> IF i < Half THEN parameters[i] ELSE Word(0)]

CopyParameters ==
  /\ pc = "parameters" /\ Store(PAGE_OFFSET + empty_zero_page, CopiedParameters, "pointer")
  /\ UNCHANGED <<machine, eax, edi, paging, cpu, cr0>>

(* The new pointer is in the copy, the old magic at its old place.  With a *)
(* command line the code copies it and stops.                              *)
FindCommandLine ==
  /\ pc = "pointer"
  /\ LET new == mem[Phys(PAGE_OFFSET + empty_zero_page + NEW_CL_POINTER)]
         old == mem[Phys(OLD_CL_MAGIC_ADDR)] = Word(OLD_CL_MAGIC)
         line == IF new # Word(0) THEN new[2] ELSE RealMode + mem[Phys(OLD_CL_OFFSET)][2]
     IN IF new # Word(0) \/ old
        THEN Store(PAGE_OFFSET + empty_zero_page + Half, Load(line, Half), "hlt")
        ELSE pc' = "checkCPUtype" /\ UNCHANGED mem
  /\ UNCHANGED <<machine, eax, edi, paging, cpu, cr0>>

(* The AC bit is a 486's, the ID bit tells of cpuid, and its level of more.*)
CheckCPUType ==
  /\ pc = "checkCPUtype"
  /\ LET ah == (machine.signature \div 16) % 4
         al == machine.signature % 16
         asked == [cpu EXCEPT !.cpuid_level = machine.level, !.x86_vendor_id = TRUE]
     IN \/ machine.kind = "386" /\ pc' = "hlt" /\ cpu' = [cpu EXCEPT !.x86 = 3]
        \/ machine.kind = "486" /\ pc' = "is486" /\ cpu' = [cpu EXCEPT !.x86 = 4]
        \/ /\ machine.kind = "cpuid" /\ pc' = "is486"
           /\ cpu' = IF machine.level = 0 THEN [asked EXCEPT !.x86 = 4]
                     ELSE [asked EXCEPT !.x86 = ah, !.x86_model = al \div 4, !.x86_mask = al % 4, !.x86_capability = TRUE]
  /\ UNCHANGED <<machine, eax, edi, paging, mem, cr0>>

(* Save PG, PE, ET, set AM, WP, NE and MP.                                 *)
is486 ==
  /\ Goto("is486", "check_x87")
  /\ cr0' = (cr0 \intersect {"PG", "PE", "ET"}) \union {"AM", "WP", "NE", "MP"}
  /\ UNCHANGED <<machine, eax, edi, paging, mem, cpu>>

(* Then the tables are loaded and start_kernel() called.                   *)
check_x87 ==
  /\ Goto("check_x87", "start_kernel")
  /\ cpu' = [cpu EXCEPT !.hard_math = machine.fpu]
  /\ cr0' = IF machine.fpu THEN cr0 ELSE (cr0 \ {"EM"}) \union ({"EM"} \ cr0)
  /\ UNCHANGED <<machine, eax, edi, paging, mem>>

Next ==
  \/ TestA20 \/ ClearDecompressor \/ SetupOutput \/ Decompress \/ Booting
  \/ StartTables \/ FillTables \/ EnablePaging \/ ClearBSS \/ setup_idt
  \/ CopyParameters \/ FindCommandLine \/ CheckCPUType \/ is486 \/ check_x87

Spec == Init /\ [][Next]_vars /\ WF_vars(Next)
-----------------------------------------------------------------------------
(* No access faults, and what setup left stays as it was, whatever is      *)
(* cleared or written before and after it is copied, but for the position  *)
(* that puts() keeps there (compressed/head.S:32, misc.c:151-152,          *)
(* kernel/head.S:71-112).                                                  *)
Inside ==
  /\ pc # "fault"
  /\ \A i \in 0 .. N - 1 :
       \/ mem[RealMode + i] = Parameters(machine)[i]
       \/ i = EXT_MEM_K /\ mem[RealMode + i] = FirstWord(machine.ext, "puts")

(* start_kernel() finds the kernel as it was decompressed, the low and the *)
(* high mapping of all of it, the BSS clear, all interrupts ignored, the   *)
(* parameters in their page and no command line behind them, the right     *)
(* coprocessor setting, and the processor's own word on what it is         *)
(* (kernel/head.S:43-236).                                                 *)
Prepared ==
  pc = "start_kernel" =>
    /\ \A p \in DOMAIN mem : Phys(p) = p /\ Phys(PAGE_OFFSET + p) = p
    /\ \A p \in Base .. __bss_start - 1 :
         \/ p \in (pg0 .. empty_zero_page + N - 1) \union (idt_table .. idt_table + idt_entries - 1)
         \/ mem[p] = Image(p)
    /\ \A p \in __bss_start .. _end - 1 : mem[p] = Word(0)
    /\ \A i \in 0 .. idt_entries - 1 : mem[idt_table + i][1] = "ignore_int"
    /\ \A i \in 0 .. N - 1 : mem[empty_zero_page + i] = IF i < Half THEN mem[RealMode + i] ELSE Word(0)
    /\ {"PG", "PE", "WP"} \subseteq cr0 /\ ("EM" \in cr0 <=> ~machine.fpu)
    /\ cpu.hard_math = machine.fpu
    /\ IF cpu.x86_capability THEN cpu.x86 * 16 + cpu.x86_model * 4 + cpu.x86_mask = machine.signature % 64
       ELSE cpu.x86 = 4 /\ cpu.cpuid_level \in {-1, 0}

(* The kernel starts on a machine that it can run on, and a machine is     *)
(* stopped for one of the reasons the code has: too little memory, a 386,  *)
(* or a command line, whatever is printed on the way (misc.c:242,          *)
(* kernel/head.S:112, kernel/head.S:182).                                  *)
Judged ==
  LET runs == /\ machine.a20 /\ machine.kind # "386" /\ ~machine.old /\ ~machine.new
              /\ machine.ext >= EnoughMemory
  IN /\ pc = "start_kernel" => runs
     /\ pc \in {"error", "hlt"} => ~runs

(* With A20 on the way ends, started or stopped (compressed/head.S:20).    *)
Ends == machine.a20 => <>(pc \in {"start_kernel", "error", "hlt"})
=============================================================================
