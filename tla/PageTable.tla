----------------------------- MODULE PageTable ------------------------------
(***************************************************************************)
(* The two-level page table of asm/pgtable.h: what an entry means, how it  *)
(* is found for an address and how it changes, under a process that maps,  *)
(* protects, swaps and unmaps pages and a processor that uses them.  An    *)
(* entry is the set of its bits; a directory entry has the bits below the  *)
(* address, its table is the one of its index.                             *)
(***************************************************************************)
EXTENDS Integers, FiniteSets

CONSTANTS
  PAGE_SHIFT, PGDIR_SHIFT, PTRS,  (* entries of a directory and of a table *)
  Addresses,
  FRAME, Frames,                  (* the lowest bit of a page address; frames are sets of bits from there *)
  SwapTypes, SwapOffsets,         (* of swap entries, sets of bits         *)
  VmFlags                         (* subsets of VM_READ, VM_WRITE, VM_EXEC, VM_SHARED *)

LayoutOK ==
  /\ PTRS \in Nat \ {0} /\ 2^PAGE_SHIFT \in Nat \ {0}
  /\ 2^PGDIR_SHIFT = 2^PAGE_SHIFT * PTRS
  /\ Addresses \subseteq 0 .. PTRS * 2^PGDIR_SHIFT - 1
  /\ FRAME \in Nat /\ FRAME > 7 /\ \A f \in Frames : \A b \in f : b \in Nat /\ b >= FRAME
  /\ \A type \in SwapTypes : type \subseteq 0 .. 5
  /\ \A offset \in SwapOffsets : offset # {} /\ \A b \in offset : b \in Nat
  /\ VmFlags \subseteq SUBSET {"READ", "WRITE", "EXEC", "SHARED"}

VARIABLES
  pgd,    (* entries {} or with a table                                    *)
  tables, (* the tables, by directory index                                *)
  space   (* what each page of the process is meant to be                  *)

vars == <<pgd, tables, space>>

_PAGE_PRESENT == 0
_PAGE_RW == 1
_PAGE_USER == 2
_PAGE_ACCESSED == 5
_PAGE_DIRTY == 6
_PAGE_PROTNONE == 7

_PAGE_TABLE == {_PAGE_PRESENT, _PAGE_RW, _PAGE_USER, _PAGE_ACCESSED, _PAGE_DIRTY}
_KERNPG_TABLE == {_PAGE_PRESENT, _PAGE_RW, _PAGE_ACCESSED, _PAGE_DIRTY}
PTE_MASK(pte) == {b \in pte : b >= FRAME}

(* Mutant of ChgMask: the old protection stays.                            *)
ChgMaskKeeps(pte) == pte

(* pte & _PAGE_CHG_MASK                                                    *)
ChgMask(pte) == PTE_MASK(pte) \union (pte \intersect {_PAGE_ACCESSED, _PAGE_DIRTY})

PAGE_NONE == {_PAGE_PROTNONE, _PAGE_ACCESSED}
PAGE_SHARED == {_PAGE_PRESENT, _PAGE_RW, _PAGE_USER, _PAGE_ACCESSED}
PAGE_COPY == {_PAGE_PRESENT, _PAGE_USER, _PAGE_ACCESSED}
PAGE_READONLY == {_PAGE_PRESENT, _PAGE_USER, _PAGE_ACCESSED}

(* __P000 to __S111                                                        *)
protection_map(flags) ==
  IF "WRITE" \in flags THEN IF "SHARED" \in flags THEN PAGE_SHARED ELSE PAGE_COPY
  ELSE IF flags \intersect {"READ", "EXEC"} # {} THEN PAGE_READONLY ELSE PAGE_NONE

Index(address, shift) == (address \div 2^shift) % PTRS
pgd_index(address) == Index(address, PGDIR_SHIFT)

(* Mutant of pte_index: the offset in the page is counted.                 *)
pte_index_low(address) == Index(address, PAGE_SHIFT - 1)

(* __pte_offset                                                            *)
pte_index(address) == Index(address, PAGE_SHIFT)

pte_none(pte) == pte = {}
pte_present(pte) == pte \intersect {_PAGE_PRESENT, _PAGE_PROTNONE} # {}
pmd_none(pmd) == pmd = {}
pmd_bad(pmd) == pmd \ {_PAGE_USER} # _KERNPG_TABLE

(* pte_offset(pmd_offset(pgd_offset(mm, address), address), address)       *)
Pte(address) == tables[pgd_index(address)][pte_index(address)]
set_pte(address, pte) == tables' = [tables EXCEPT ![pgd_index(address)][pte_index(address)] = pte]

pte_modify(pte, newprot) == ChgMask(pte) \union newprot

(* SWP_ENTRY: the type from bit 1, the offset from bit 8.                  *)
SWP_ENTRY(entry) == {b + 1 : b \in entry[1]} \union {b + 8 : b \in entry[2]}
SWP_TYPE(pte) == {b - 1 : b \in pte \intersect (1..6)}
SWP_OFFSET(pte) == {b - 8 : b \in {c \in pte : c >= 8}}

Page(address) == address \div 2^PAGE_SHIFT
Pages == {Page(a) : a \in Addresses}
Indices == 0 .. PTRS - 1
Nothing == [is |-> "none"]

Init ==
  /\ pgd = [i \in Indices |-> {}]
  /\ tables = [i \in Indices |-> [j \in Indices |-> {}]]
  /\ space = [q \in Pages |-> Nothing]

Becomes(a, meaning) == space' = [space EXCEPT ![Page(a)] = meaning]

(* A fault on a page that is to be frame f with the flags of its area: the *)
(* table is allocated, then mk_pte.                                        *)
Map(a, f, flags) ==
  /\ pmd_none(pgd[pgd_index(a)]) \/ pte_none(Pte(a))
  /\ pgd' = [pgd EXCEPT ![pgd_index(a)] = _PAGE_TABLE]
  /\ set_pte(a, f \union protection_map(flags))
  /\ Becomes(a, [is |-> "page", frame |-> f, flags |-> flags, dirty |-> FALSE])

HasPage(a) == ~pmd_none(pgd[pgd_index(a)]) /\ pte_present(Pte(a))

(* mprotect                                                                *)
Protect(a, flags) ==
  /\ HasPage(a)
  /\ set_pte(a, pte_modify(Pte(a), protection_map(flags)))
  /\ Becomes(a, [space[Page(a)] EXCEPT !.flags = flags])
  /\ UNCHANGED pgd

(* The processor writes where the entry allows it.                         *)
Writable(pte) == {_PAGE_PRESENT, _PAGE_RW, _PAGE_USER} \subseteq pte
Write(a) ==
  /\ ~pmd_none(pgd[pgd_index(a)]) /\ Writable(Pte(a))
  /\ set_pte(a, Pte(a) \union {_PAGE_ACCESSED, _PAGE_DIRTY})
  /\ Becomes(a, [space[Page(a)] EXCEPT !.dirty = TRUE])
  /\ UNCHANGED pgd

(* swap_out: swp_entry_to_pte.                                             *)
SwapOut(a, entry) ==
  /\ HasPage(a)
  /\ set_pte(a, SWP_ENTRY(entry))
  /\ Becomes(a, [is |-> "swap", entry |-> entry])
  /\ UNCHANGED pgd

(* do_swap_page: what is neither nothing nor present.                      *)
SwapIn(a, f, flags) ==
  /\ ~pmd_none(pgd[pgd_index(a)]) /\ ~pte_none(Pte(a)) /\ ~pte_present(Pte(a))
  /\ set_pte(a, f \union protection_map(flags))
  /\ Becomes(a, [is |-> "page", frame |-> f, flags |-> flags, dirty |-> FALSE])
  /\ UNCHANGED pgd

(* pte_clear                                                               *)
Unmap(a) ==
  /\ ~pmd_none(pgd[pgd_index(a)])
  /\ set_pte(a, {})
  /\ Becomes(a, Nothing)
  /\ UNCHANGED pgd

(* pmd_clear of a table without entries.                                   *)
FreeTable(i) ==
  /\ ~pmd_none(pgd[i]) /\ \A j \in Indices : pte_none(tables[i][j])
  /\ pgd' = [pgd EXCEPT ![i] = {}]
  /\ UNCHANGED <<tables, space>>

Next ==
  \/ \E a \in Addresses :
       \/ \E f \in Frames, flags \in VmFlags : Map(a, f, flags) \/ SwapIn(a, f, flags)
       \/ \E flags \in VmFlags : Protect(a, flags)
       \/ \E entry \in SwapTypes \X SwapOffsets : SwapOut(a, entry)
       \/ Write(a) \/ Unmap(a)
  \/ \E i \in Indices : FreeTable(i)

Spec == Init /\ [][Next]_vars
-----------------------------------------------------------------------------
(* What an entry means to those who read it.                               *)
Meaning(pte) ==
  IF pte_none(pte) THEN {"none"} ELSE IF pte_present(pte) THEN {"page"} ELSE {"swap"}

Agree(pte, meant) ==
  /\ Meaning(pte) = {meant.is}
  /\ meant.is = "swap" => meant.entry = <<SWP_TYPE(pte), SWP_OFFSET(pte)>>
  /\ meant.is = "page" =>
       /\ PTE_MASK(pte) = meant.frame
       /\ Writable(pte) <=> {"WRITE", "SHARED"} \subseteq meant.flags
       /\ _PAGE_PRESENT \in pte <=> meant.flags \ {"SHARED"} # {}
       /\ meant.dirty => _PAGE_DIRTY \in pte

(* The entry found for an address of a page is what the page is meant to   *)
(* be: a page without access is still a page, a swap entry never looks like*)
(* one, no protection survives a change and no write is forgotten; no table*)
(* in use looks bad (pgtable.h:172-182, 248-282, 290-319).                 *)
WalkAgrees ==
  /\ \A a \in Addresses :
       IF pmd_none(pgd[pgd_index(a)]) THEN space[Page(a)] = Nothing ELSE Agree(Pte(a), space[Page(a)])
  /\ \A i \in Indices : ~pmd_none(pgd[i]) => ~pmd_bad(pgd[i])
=============================================================================
