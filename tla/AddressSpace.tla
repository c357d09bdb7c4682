---------------------------- MODULE AddressSpace ----------------------------
(***************************************************************************)
(* The kernel's part of the address space (asm/page.h, asm/pgtable.h,      *)
(* asm/fixmap.h, asm/io.h): all physical memory from PAGE_OFFSET on, a     *)
(* hole, the vmalloc area up to the fixed mappings below the top, and what *)
(* converts between physical and virtual addresses.  Addresses are numbers *)
(* modulo Word.                                                            *)
(***************************************************************************)
EXTENDS Integers, Sequences

CONSTANTS Word, PAGE_SHIFT, PAGE_OFFSET, VMALLOC_OFFSET, PGDIR_SHIFT, FIXADDR_TOP

PAGE_SIZE == 2^PAGE_SHIFT

(* addr & ~(size - 1), size a power of two                                 *)
Down(addr, size) == ((addr % Word) \div size) * size

PAGE_ALIGN(addr) == Down(addr + PAGE_SIZE - 1, PAGE_SIZE)

__pa(x) == (x - PAGE_OFFSET) % Word
__va(x) == (x + PAGE_OFFSET) % Word

(* page - mem_map, and the test of that number.                            *)
virt_to_page(kaddr) == __pa(kaddr) \div PAGE_SIZE
VALID_PAGE(page, max_mapnr) == page < max_mapnr

USER_PGD_PTRS == PAGE_OFFSET \div 2^PGDIR_SHIFT
PTRS_PER_PGD == Word \div 2^PGDIR_SHIFT
KERNEL_PGD_PTRS == PTRS_PER_PGD - USER_PGD_PTRS

(* Mutant of VMALLOC_START: the hole is only what the rounding leaves.     *)
VMALLOC_STARTNear(high_memory) == Down(high_memory + VMALLOC_OFFSET - 1, VMALLOC_OFFSET)

VMALLOC_START(high_memory) == Down(high_memory + 2 * VMALLOC_OFFSET - 1, VMALLOC_OFFSET)

(* The fixed mappings grow down from the top, one page each.               *)
FIXADDR_SIZE(__end_of_fixed_addresses) == __end_of_fixed_addresses * PAGE_SIZE
FIXADDR_START(__end_of_fixed_addresses) == FIXADDR_TOP - FIXADDR_SIZE(__end_of_fixed_addresses)
VMALLOC_END(__end_of_fixed_addresses) == FIXADDR_START(__end_of_fixed_addresses)
__fix_to_virt(x) == FIXADDR_TOP - x * PAGE_SIZE

(* The bytes of io_addr on are the signature: one at least is read, and no *)
(* more after the first that differs.  memory: what readb() returns.       *)
check_signature(memory, io_addr, signature, length) ==
  LET Compare[n \in 0 .. length - 1] ==
        IF memory[(io_addr + n) % Word] # signature[n + 1] THEN [retval |-> 0, read |-> n + 1]
        ELSE IF n + 1 = length THEN [retval |-> 1, read |-> n + 1] ELSE Compare[n + 1]
  IN Compare[0]

(* readb(__ISA_IO_base + (a)): the base is PAGE_OFFSET.                    *)
isa_check_signature(memory, io_addr, signature, length) ==
  check_signature([a \in DOMAIN memory |-> memory[(PAGE_OFFSET + a) % Word]], io_addr, signature, length)
-----------------------------------------------------------------------------
(* The pages of an area, and the page of a fixed mapping.                  *)
PagesOf(from, to) == {a \div PAGE_SIZE : a \in from .. to - 1}

(* With "high" bytes of memory, as much as leaves room for the hole, the   *)
(* areas of the kernel follow each other without touching: a hole of at    *)
(* least VMALLOC_OFFSET, and an empty page below the fixed mappings and    *)
(* one at the top, as the comments promise (pgtable.h:132-143,             *)
(* fixmap.h:81-92).                                                        *)
AreasApart(high, fixed) ==
  LET start == VMALLOC_START(__va(high))
      top == VMALLOC_END(fixed)
      mappings == {__fix_to_virt(x) \div PAGE_SIZE : x \in 0 .. fixed - 1}
  IN PAGE_OFFSET + high + 2 * VMALLOC_OFFSET <= top =>
       /\ start % VMALLOC_OFFSET = 0
       /\ start - (PAGE_OFFSET + high) \in VMALLOC_OFFSET .. 2 * VMALLOC_OFFSET - 1
       /\ start < top
       /\ \A x, y \in 0 .. fixed - 1 : __fix_to_virt(x) = __fix_to_virt(y) => x = y
       /\ mappings \intersect (PagesOf(PAGE_OFFSET, top + PAGE_SIZE) \union PagesOf(Word - PAGE_SIZE, Word)) = {}

(* Low memory is where physical memory was and nothing else is taken for   *)
(* it, neither a user's address nor one above; a page directory has the    *)
(* user's entries first and the kernel's behind (page.h:114-118,           *)
(* pgtable.h:123-128, io.h:128-136).                                       *)
LowMemoryKnown(addr, high) ==
  /\ __pa(__va(addr)) = addr /\ __va(__pa(addr)) = addr
  /\ VALID_PAGE(virt_to_page(addr), high \div PAGE_SIZE) =
       (PAGE_OFFSET <= addr /\ addr < PAGE_OFFSET + Down(high, PAGE_SIZE))
  /\ (addr \div 2^PGDIR_SHIFT < USER_PGD_PTRS) = (addr < PAGE_OFFSET)
  /\ addr \div 2^PGDIR_SHIFT < USER_PGD_PTRS + KERNEL_PGD_PTRS

(* The next multiple of a page, and zero for the last page of all          *)
(* (page.h:66).                                                            *)
Aligns(addr) ==
  LET p == PAGE_ALIGN(addr)
  IN /\ p % PAGE_SIZE = 0
     /\ IF addr > Word - PAGE_SIZE THEN p = 0 ELSE p \in addr .. addr + PAGE_SIZE - 1

(* A signature is found where it is, in the bus's memory at its physical   *)
(* address; the first byte that differs is the last one read               *)
(* (io.h:214-244).                                                         *)
FindsSignature(addr, n) ==
  LET memory == [a \in 0 .. Word - 1 |-> a % 3]
      signature == [i \in 1..n |-> (addr + i - 1) % 3]
      Other(k) == [signature EXCEPT ![k] = 3]
  IN addr + n <= Word =>
       /\ check_signature(memory, addr, signature, n) = [retval |-> 1, read |-> n]
       /\ \A k \in 1..n : check_signature(memory, addr, Other(k), n) = [retval |-> 0, read |-> k]
       /\ \A s \in {signature} \union {Other(k) : k \in 1..n} :
            isa_check_signature(memory, __pa(addr), s, n) = check_signature(memory, addr, s, n)

(* All of the above, for a job of its kind.                                *)
Agrees(job) ==
  CASE job.of = "areas" -> AreasApart(job.arg[1], job.arg[2])
    [] job.of = "address" -> LowMemoryKnown(job.arg[1], job.arg[2]) /\ Aligns(job.arg[1])
    [] job.of = "signature" -> FindsSignature(job.arg[1], job.arg[2])
=============================================================================
