# A verification project for the copy2.4.0 boot kernel

The repository is a Linux 2.4.0 for the i386 cut down to what boots: a boot
sector, `setup`, the gzip decompressor, the protected mode entry code, a
`start_kernel()` that prints a few lines, and the headers those need, with the
inline primitives (locks, lists, wait queues, pid hash) that are still unused
or nearly so. `CONFIG_SMP` is off and the image is a `zImage`: the system is
loaded at 0x10000, moved down to 0x1000 and decompressed to 1M.

What runs is a chain in which each link trusts the one before it and nobody
reports an error that a program could catch: the only reactions to a failure are
a retry, a `hlt` and `while(1)`. So the questions here are those that a boot on
a good machine never answers: does a retried read go to the same place, does a
copy that wraps over a flush give the right bytes, can an image that is broken
be started, and can one that is good be refused.

## Parts of the system

| part | state | operations | what makes it correct |
|---|---|---|---|
| boot sector, `arch/i386/boot/bootsect.S` | `sread`, `head`, `track`, `sectors`, `es:bx`, the memory it loads to | load setup, probe the geometry, read track by track with retries, jump to setup | the system arrives whole and in order; nothing is loaded over INITSEG; every read is legal for drive and DMA; the loop ends |
| setup, `setup.S`, `video.S` | the parameter block at 0x90000, A20, 8042, IDT/GDT, PE | check signatures, collect parameters, move the system, enter protected mode | the move does not destroy what it has still to move, nor itself |
| decompressor shell, `compressed/head.S`, `compressed/misc.c` | input and output positions, arena, screen | get a byte, flush the window, malloc with mark and release, stop with a message | only a valid kernel is started |
| inflate, `lib/inflate.c` | window, bit buffer (a global copy and one in each function), Huffman tables | gunzip header and trailer, block types, codes, copies | output equals what the stream describes; no bit lost or used twice; tables decode the canonical code |
| image builder, `arch/i386/boot/tools/build.c` | the image file, the patched header bytes | copy, pad, check limits, patch | what it writes is what the boot sector can load |
| kernel entry, `arch/i386/kernel/head.S` | page tables, BSS, IDT, parameter page, CPU record | enable paging, clear, copy parameters, detect the CPU | the maps hold before they are used; parameters are copied before they are overwritten |
| `init/main.c`, `kernel/panic.c` | text screen | print | stays within the screen |
| screen, `compressed/misc.c`, `kernel/panic.c` | video memory, position, cursor | `puts`, `scroll`, `myprint`, `mypanic` | the screen shows the last lines of what was printed |
| formatting, `lib/vsprintf.c` | a buffer | `simple_strtoul`, `number`, `vsprintf` | agrees with the reference reading of a number |
| locks, `asm/spinlock.h`, `rwlock.h`, `semaphore.h` | a counter each | lock, try, unlock | mutual exclusion, no lost wake-up |
| wait queues, `linux/wait.h`, `wait_event` in `linux/sched.h` | queue, task state | add, remove, wake, wait for a condition | a waiter whose condition came true runs |
| lists, `linux/list.h` | next and prev pointers | add, delete, splice | pointers stay inverse, the list is the sequence meant |
| pid hash, task links, `linux/sched.h` | hash chains, sibling pointers | hash, unhash, find, set and remove links | a task is found iff it is hashed |
| user memory, `asm/uaccess.h` | buffers, registers, fixup code | check a range, copy or clear with faults | a fault leaves an exact account of what was not copied, and only user memory is touched |
| pages, `linux/mm.h` | count, lock bit, waiters | get, put, lock, unlock | freed once, one holder, no lost wake-up |
| tasklets, `linux/interrupt.h` | state bits, count | schedule, run, disable | one processor at a time, once per schedule |
| big kernel lock, `asm/smplock.h` | the lock, a depth per task | release and reacquire over a sleep | held by whoever's depth says so |
| page tables, `asm/pgtable.h` | directory, tables, entries | look up, map, protect, swap, unmap | an address leads to what was mapped there, and the kinds of entry stay apart |
| address space, `asm/page.h`, `fixmap.h`, `io.h` | none | convert addresses, lay out areas | areas do not meet |
| pure functions (byte order, sets, times, encodings, character classes, signal codes) | none | | agree with their definitions at the edges of their words |
| constants, declarations, build system | none | | no behaviour, not modelled |

They interact by memory and jumps only: the boot sector leaves `setup` at
0x90200 and the system at 0x10000; `setup` leaves the parameter block and moves
the system; the decompressor reads the parameter block (`real_mode`), takes the
space up to it for its arena, and writes the kernel at 1M; `compressed/head.S`
jumps there. Within the decompressor, `inflate.c` calls `get_byte()`,
`flush_window()`, `malloc()` and `error()` of `misc.c`, and shares `outcnt`
with it under the name `wp`.

What is hard: reads that fail half way (BIOS, retried for ever), positions kept
twice (on the disk and in memory; in a global and in a function's local; flushed
and still in the window), lookahead that has to be given back, loops whose
bounds come from the data, and errors that stop nothing. Real concurrency is in
the headers' primitives. Few of them have a caller in this repository; where a
part of a primitive is a function that is only declared here (`__down()`,
`schedule()`, `__wake_up()`, the softirq), its steps are those of Linux 2.4.0
and "map" calls them external.

## Modules

| module | models | its state in the code |
|---|---|---|
| `Lz77` | what inflate promises: one growing history, copies that may overlap themselves | none: the specification |
| `SlidingWindow` | `inflate_codes()`, `inflate_stored()`, `flush_window_low()` on the output side | `window`, `wp` (`outcnt`), the locals `w n d e`, `output_data`, `output_ptr` |
| `SlidingWindowProofs` | proofs about it | |
| `Gunzip` | `gunzip()`, `inflate()`, all block decoders on the input side; `get_byte()`, `malloc()`, `error()`, the end of `decompress_kernel()` | `inptr`, `bk`, the local `k`, `e bl bd n`, `free_mem_ptr` (`arena`) and its mark |
| `GunzipProofs` | proofs about it | |
| `HuftBuild` | `huft_build()`, and the table walk of `inflate_codes()` | its variables under their own names; `u` and `tabs` for the tables |
| `HuftBuildProofs` | proofs about it | |
| `BootSect` | `bootsect.S` from `load_setup` to `jmp $SETUPSEG` | its variables and registers; `mem` for memory in sectors |
| `BootSectProofs` | proofs about it | |
| `Setup` | `setup.S` and `mode_params` of `video.S`, with the 8042 as a process of its own | `es`, `bx` of the move, `cx` of `empty_8042`, `ax` of `a20_wait`; `mem`, `a20`, the controller's two buffers for the machine |
| `SetupProofs` | proofs about it | |
| `Exclusion` | what a lock promises: many readers or one writer | none: the specification |
| `SpinLock` | `asm/spinlock.h`, SMP form | `lock` as a signed byte |
| `RwLock` | `asm/rwlock.h`, with the interrupt variants of `linux/spinlock.h` | the biased counter |
| `Semaphore` | `down`, `down_interruptible`, `down_trylock`, `up` | `count`; `sleepers` and the queue of the external slow path |
| `RwSem` | `down_read`, `down_write`, `up_read`, `up_write` | the biased `count`; what the external helpers granted |
| `WaitQueue` | `linux/wait.h`, `wait_event()`, `wait_event_interruptible()`, exclusive waiters | the queue, `state` of each task |
| `Pages` | `page->count`, `page->flags`, `page->wait` of `linux/mm.h` | the same |
| `Tasklet` | `tasklet_trylock`, `tasklet_unlock`, states and count | `state`, `count`; `list` of each processor (external) |
| `BigLock` | `release_kernel_lock`, `reacquire_kernel_lock` | `kernel_flag`, `lock_depth`, interrupts |
| `Lists` | what a list promises: sequences of entries | none: the specification |
| `LinkedList` | `linux/list.h` | `next`, `prev` of every node |
| `TaskLinks` | pid hash, `SET_LINKS`, `REMOVE_LINKS`, `for_each_task` | `pidhash`, `pidhash_next`, `pidhash_pprev`, the task links |
| `PageTable` | entries and their lookup, change and encoding in `asm/pgtable.h` | `pgd`, the tables |
| `UserCopy` | `asm/uaccess.h`: range check, single transfers, generic and constant copies and their fixups | `ecx`, `esi`, `edi`, the destination |
| `Build` | `tools/build.c` | its variables, the image written so far |
| `Vsprintf` | `vsprintf()`, `number()`, `simple_strtoul()` and relatives | its variables; `str` as what was written |
| `Screen` | `puts()`, `scroll()`, `myprint()`, `mypanic()` | `vidmem`, `x`, `y`, the cursor registers |
| `KernelEntry` | `startup_32` of `compressed/head.S` and of `kernel/head.S`, the memory size check of `misc.c` | `eax`, `edi`, PG and the other bits of `cr0`, memory, `boot_cpu_data` |
| `InflateTables` | the constant tables of `inflate.c`, `makecrc()`, the update of the check sum | none |
| `ByteOrder` | `linux/byteorder/*.h`, `asm/byteorder.h` | none |
| `Encodings` | `linux/bitops.h`, `get_order`, `do_div`, numbers made of fields (`kdev_t`, ioctl, quota, swap, TSS), character classes (`lib/ctype.c`, `linux/ctype.h`) | none |
| `Times` | `linux/time.h`, the load averages of `linux/sched.h` | none |
| `WordSets` | signal sets, descriptor sets, capabilities | none |
| `SigInfo` | `asm/siginfo.h` | none |
| `AddressSpace` | `asm/page.h`, the areas of `asm/pgtable.h` and `asm/fixmap.h`, `check_signature()` | none |
| `Sync`, `Structures`, `Library` | compositions of the modules above that have steps, one part at a time | |
| `MCLibrary` | `Library` with values for its constants, and the modules without state | |
| `SyncProofs`, `StructuresProofs`, `LibraryProofs` | proofs about the compositions | |
| other `MC...` | values of the constants for the runs | |

### SlidingWindow and Lz77

`Lz77` has no window: a literal or stored byte is put at the end of `hist`, a
length/distance pair appends bytes that each equal the one `dist` before.
`SlidingWindow` has one action per step of the code: a literal, a pair decoded,
one turn of the copy loop by `memcpy`, the start of one byte by byte, one byte
of it, a stored byte, the end of a block, the final flush. Which symbols come is
chosen freely. `flush_window()` is an operator used inside the actions that
fill the window, as in the code. The refinement maps the history to the flushed
bytes followed by the window up to the current position, and the copy that is
left to `n` (plus `e` while going byte by byte). A distance that reaches before
the first byte of the stream reads the zeros of the BSS, in both modules; gzip
never writes one, and the code has no test for it.

The invariant that carries the refinement is `WindowIsHistory`: the part of the
window at and after the current position still holds the bytes flushed last.
`CopyInBounds` relates the local `d` to the distance it came from.

### Gunzip

One action per group of `NEEDBITS`/`DUMPBITS` that belongs together. `Take(x, m,
s)` fills a buffer of `x` bits until it has `m` and drops `s`; what remains is
`Left(x, m, s)`. `bk` is the global bit count and `k` the running function's
copy, and every action says which of the two it works on and when one is copied
to the other. `used` counts the bits dropped: a history variable that the
properties compare with the bytes taken. The image is chosen at the start: the
sizes of its parts, whether it is truncated, which header or trailer field is
wrong. What the bits say is chosen action by action, so a stream may or may not
fit the size of the data; the properties say which case they speak of.
`error()` is the state "halted" for good. A dynamic block whose code lengths are
all zero leads to a lookup through a NULL table (see Findings); what follows
depends on what memory holds and the model stops there ("no table"). CRC and
length are compared as one: they agree if the fields are right and are read from
their place, which assumes that a CRC tells a wrong kernel from a right one.
`inbuf` is the whole image, as in the code, so the first call of `fill_inbuf()`
is part of the initial state.

### HuftBuild

The loops of `huft_build()` are actions: next length, next code, one more table
level, fill in the entries, back up a level. The counting loops before them are
written as what they compute. What a symbol stands for is left out, an entry
names the symbol. An element of `v` that was never written is `Garbage`, a table
entry that was never written is `unset`. `Decode` walks the tables as
`inflate_codes()` does; `CodeOf` is the canonical code of deflate, defined
without any table. What the code does in an inner loop is a recursive function (`Left`,
`TableBits`, `Carry`, the walk `at` of `Decode`), so that it can be proved about.

### BootSect

Memory is counted in sectors from SYSSEG, `mem` says which disk sector each
holds. `CanRead` is the external part: a BIOS read succeeds only within a track
and within a 64K segment, and may fail at any time after transferring some
sectors. The probe may fail on a good drive. The `hlt` after a failed setup read
is left at the next interrupt, as the code allows. ProbeFails chooses freely, so
`sectors` may end up smaller than the drive's track: the properties about the
content of memory are stated for a right geometry, `LoaderIntact` and
`ReadsAreLegal` for any. Of setup's own sectors `LoaderIntact` speaks only if they were read: of a boot that went on without
them nothing is shown but the loads that follow, and the jump into what is then at 0x90200 is not followed.

### Setup

`pc` is the label of `setup.S` the CPU is at. What the BIOS says of the machine
is chosen at the start (`machine`). Four `hlt`s stop nothing: interrupts are on
until `default_switch`, and `Interrupted` goes on behind them. `hlt`s behind
conditions this build never meets (`LOADED_HIGH`, `realmode_swtch`,
`force_size`, a loader that puts setup elsewhere) are left out.

The move counts memory in units, several to one turn of `do_move` (0x100
paragraphs); `mem[u]` is where the content of unit `u` was loaded. The source
may end inside a turn, and the turn then reads beyond INITSEG as the comment
in the code says.

The controller takes a byte out of its input buffer at any time and keys fill
the output buffer at any time, between any two instructions of `empty_8042`.
If a byte is written while the buffer is full, either of the two is lost. A
machine without a controller reads 0xff for ever. The word at 0:0x200 and the
one 1M above it are `ax` and `high`: they are the same word while A20 is off.

### Locks: Exclusion, SpinLock, RwLock, BigLock

These are the SMP forms; the headers select them with `CONFIG_SMP`, which this
configuration leaves off. A locked instruction is one action, everything between
two of them is another. Counters have a width: `SpinLock`'s byte goes negative
with every processor that waits, and `CpusOK` is the bound under which it cannot
wrap, `BiasOK` the same for `RwLock`. Each lock says who is inside by its `pc`,
and implements `Exclusion` by that map: `Excludes` is the refinement, a property
of steps and not of states alone, so that nobody may come in for another.

In `RwLock` a processor has two contexts, its task and a handler that may
interrupt it anywhere interrupts are on. Tasks read with interrupts on and write
with them off, which is what makes `NoSelfDeadlock` true; a lock that only turned
them off after its subtraction would hang (the mutant `BeginWriteLate`).
`BigLock` follows the lock through `schedule()`: the depth of the task decides
whether it is given up and taken again.

### Sleeping: Semaphore, RwSem, WaitQueue, Pages, Tasklet

`Semaphore` has the inline instruction of each operation and, external, the three
functions they call. A process decides by the sign after its own instruction, and
acts later. Signals come at any time. `CountRestored` compares the count with who
holds, waits and is between two steps; `NoneForgotten` says that a free
semaphore has nobody asleep without a wake-up on its way, and `EveryoneServed` is
its temporal form for those who asked first.

`RwSem` keeps the biased count in the same way. Which process is handed the lock
is the external helpers' business, and so is whether those without a bias are
woken in time; the properties are about the count, exclusion and the `BUG()`s.

`WaitQueue` interleaves tasks and wakers step by step: the state is set, the task
queued, the condition looked at, the processor given up; an item is posted, the
queue walked. Wake-one may reach an exclusive task that has seen the item
already, so `Served` speaks of those who share wake-ups. `Pages` has the same
question with a bit for a condition: `UnlockPage()` clears it and then looks
whether anybody waits.

`Tasklet` has processors that schedule, run and put back a tasklet, and users who
disable it and wait for it to stop.

### Structures: LinkedList, TaskLinks, PageTable

`LinkedList` works on pointers; a node that was never initialised points to
`Junk`. `stale` are heads after `list_splice()`, which legal code resets before it
uses them again. A traversal may delete the entry it is at. `Lists` is what the
users think of, and the map walks the pointers. `TaskLinks` forks, reparents and
removes tasks in any order; `pidhash_pprev` is a pair (the bucket, or a task). A pid
is the set of its bits, so that the hash is a shift, a symmetric difference and an
intersection; 0, the first task's, is the empty set. Of the pids 1, 9 and 264, two
share a bucket by their low bits and one only because the hash adds the high byte. `PageTable` has an entry as its set of bits: present, without access,
or a swap entry. `space` is what the process was promised of each address;
`WalkAgrees` says that the processor, or a fault, finds exactly that.

### Transfers: UserCopy, Build, Vsprintf, Screen

`UserCopy` follows one transfer instruction by instruction while another thread
unmaps and maps pages; a faulting instruction goes to its fixup. The destination
is watched for four bytes behind its end. One case does not do what it should and
is stated as it is, `Overshot`: in the zeroing copy of a constant size whose rest
is 3, the fixups of `rep movsl` and `movsw` (`uaccess.h:496`, `:502`) continue at the
`movsb` instead of behind it, although they have cleared and counted its byte. After such a fault that last move is made
one byte behind the destination. If it succeeds the byte there is overwritten with what it
reads; if it faults as well the byte is cleared, and the count is one too many.
`Inside` allows that byte and `Accounted` that count after such a fault only: not after a
fault in the last move alone, and not for the copy that does not zero, which
the mutants `ResumeLast` and `ResumeBoth` confuse with it. No constant copy of such a size
exists in this repository.

`Build` opens, reads and writes as `tools/build.c` does, with short reads and failures
anywhere, wrong arguments (`usage()`) included. Two limits are not tested by the code and the model stays within them:
a setup of 256 sectors wraps the byte written for it (`build.c:145`), and where
`ssize_t` and `unsigned` have the same width a read error is taken for a long
read (`build.c:94`; `Host32` is FALSE, and with TRUE `FailureNoticed` fails). So nothing is shown of those two cases. `Vsprintf` walks its format by index. `Asked`
says, apart from that walk, what a format asks for: a scan of one character at a time
that counts the conversions and stars with an argument. A caller passes that many, and
`TypeOK` says that `vsprintf()` has at each place taken just so many. `ReadsBack` gives the result to
`simple_strtol()` or `simple_strtoul()`; "%#X" is left out of it, as the "0X" it
prints is not read back. `FieldShape` says that a field is not shorter than its width and padded only
as far as that, that a number has as many digits as the precision and a string no more characters,
and that a field to the left begins with what is printed. A width or precision given as an argument is an
int. The negation of the most negative one, undefined in C, leaves it as it is in the two's complement of the build (`Least`),
and what is taken from it comes round (`Room`): a number or a character is then padded far beyond any
other width, and `FieldShape` does not limit that pad. Digits of a width in the format
itself are taken as a number that fits an int.
`Screen` scrolls byte by byte, upwards as `memcpy()` does; what the screen should show is computed from the
text alone. `mypanic()` does not come back. `raw_print()` does not ask for the screen's size or address: it writes at
row 24 of a colour screen of 80 columns (`panic.c:6`), which is `RawRow` and `RawCols` here. On
another screen it writes elsewhere, a message longer than a row runs on, and one longer than the buffer
beyond it; nothing in the code checks any of this. `ScreenOK` asks it of
whoever calls `myprint()` or `mypanic()`; nothing in `src/` does. `puts()` works for any rows and columns.

### KernelEntry

From the jump behind setup to the call of `start_kernel()`. Memory is counted in
long words and starts with what setup left in its page and anything elsewhere. The
page does not stay quite like that: `puts()` begins at the position in its first word
and stores the new one there (`misc.c:151-152`), before and after `gunzip()` and for the words of
`error()`. The upper half of this word is the size of the memory, so the word has both (`FirstWord`), and
`Inside` says that the position alone changes. The memory check is that of
`misc.c:242`, which looks at this size only: `autoconf.h:109` defines `STANDARD_MEMORY_BIOS_CALL`, and
`misc.c` includes it through `linux/vmalloc.h`, `linux/sched.h` and `linux/config.h`. The
line for two sizes, `misc.c:244`, is not built; setup leaves 0 in the second (`setup.S:157`).
Once PG is set each store and load looks its address up in the tables
as they are in memory, so a table that was not filled or was overwritten shows
as a fault or as a store to another place. `gunzip()` is one step that writes the
image at 1M; its steps are `Gunzip`'s and `SlidingWindow`'s. `LayoutOK` is what the
linker script and the image builder see to: the decompressor, setup's
page and 1M do not meet, and two tables map the kernel. Interrupts are off, so a `hlt` is the end: of a
386, and of every machine that has been given a command line, which the code
copies and then stops behind (`kernel/head.S:112`). Without A20 the first loop
does not end, as its comment says; with a counter that comes round (`Words`) and any word at 1M.
Stacks, segment registers and the loading of the descriptor tables are left out.

### Pure functions

Each module has the functions and, below the line, what they are compared with:
`InflateTables` with a division of polynomials and with the ranges of lengths and
distances; `ByteOrder` with the most significant byte first; `Times` with a
calendar that counts days; `WordSets` with sets; `Encodings`, `SigInfo`
and `AddressSpace` with the relations their users rely on. Words are sets of bits
or numbers of few bits, so that every edge is met. What they show besides:

* `SI_TIMER` (`siginfo.h:106`) has lost its type: `__SI_CODE` shifts by 16 a
  constant that is shifted already, and the code counts as the kernel's.
* `toupper()` makes 191, a sign, of 223 and 223, a small letter, of 255.
* `get_order(0)` is the order of the whole address space.
* A swap entry of type 0 and offset 0 would be an empty entry; none is made.
* `timespec_to_jiffies()` rounds up, so that no timeout is short.

## Runs

| run | shows | size |
|---|---|---|
| `window` | refinement of `Lz77`, window content, copy bounds, copies end | about 253,000 states |
| `gunzip` | bit accounting, valid images accepted, invalid ones never started, arena released, termination | about 700,000 states |
| `huft` | tables decode the canonical code; the running code and the open table are right at every step | about 209,000 states |
| `bootsect` | order, integrity and legality of the loads, end reached | 651 states |
| `setup` | the move, A20 before protected mode, no byte lost to the controller, protected mode reached | about 150,000 states |
| `sync` | exclusion as a refinement, counts, wake-ups, service, for eight primitives under all interleavings | about 37,000 states |
| `structures` | lists implement sequences; hash, ring, families and page tables find what is in them | about 43,000 states |
| `library` | transfers account for faults; images are whole or reported; the kernel starts on a machine prepared for it; formats, screen and pure functions agree with their definitions; calls end | about 217,000 states |
| `unused_code`, `null_input`, `any_size`, `signature` | one finding each | |

The last three passing runs compose modules that do not interact. A variable
`part` says which of them a behaviour is about; the variables of the others keep
one of their first values (in `Library` they are `Unused`). So a run is the union of its parts' state spaces and
each of its properties is a conjunction with a named part per module: `Excludes`,
`CountKept`, `NoLostWakeup`, `Served` in `Sync`, `Linked`, `Refines` in
`Structures`, `Inside`, `Reported`, `Ends` in `Library`, `Agrees` in `MCLibrary`. What the modules
assume of their constants is an ASSUME of the composing module. A pure function
has no steps; its `work` is chosen at the start, and `Agrees` is an invariant of
that state.

Bounds and why they are enough:

* `window`: a window of 4, copies up to 5, streams up to 9 bytes. A copy may be
  longer than the window and wrap, and two flushes precede the last, so every
  case of `lib/inflate.c:585-606` occurs with every position. Two byte values
  tell positions apart. The run may stop anywhere (the stream ends or the
  bound is reached), so deadlock is not checked.
* `gunzip`: up to 6 bytes of data, enough for a stored block (5 bytes), for a
  whole dynamic block, and for two or three fixed blocks in a row; the widths
  are the real ones at their extremes (7 and 9, 6, extra bits 0, 5 and 13). Truncations
  inside every field of a small image with all optional fields are included.
* `huft`: all lists of up to 5 lengths up to 4, and ten codes of up to nine bits
  whose tables are three levels deep.
* `bootsect`: tracks of 7, 5 or 4 sectors, segments of 8, three segments below
  INITSEG, a system of 530 clicks that ends in the third. Segment ends fall
  inside tracks and track ends inside segments.

* `setup`: a turn of 3 units, the system from 7 to 17, so the last turn runs
  over the end and the distance (4) is not a multiple of a turn; 3 polls, so
  that a wait ends at once, late, and by giving up; 3 values for a word, so that
  the count comes round; 2 keys; all 64 kinds of machine.

* `sync`: three processors for the spin lock, two with a handler each for the
  read-write lock; three processes for the semaphores and pages, two waiting
  tasks (every pair of kinds) with two wakers and up to two items; two processors
  and two users of a tasklet; three tasks on two processors with a depth of up to
  1 for the big lock. Three actors are what it takes for one to hold, one to back
  off and one to come in between. Counters have just the width that suffices.
* `structures`: two heads and three entries, so that a splice has a source and
  a target and an entry that is first, last or in the middle; three tasks besides
  the first, so that a family has an oldest, a middle and a youngest child and a
  bucket a chain of two; two tables of two entries with addresses that share a page, share a table
  and cross a table. Heads, entries and tasks are interchangeable, and `Symmetry`
  says so: no operator chooses among them.
* `library`: copies of up to 7 and of 11 bytes (every rest of 4, with and without
  a whole long, and a length that ends behind the limit) at the start, at the limit and at the end of the
  address space; sectors of 4 bytes, clicks of 2 and bytes of 4 values; a setup below, at and above the default of 2 sectors, and
  systems on both sides of the limits of 6 and 18 clicks, the second beyond the 16 values of the size that is patched;
  numbers of 3 to 5 bits with every flag, width and precision, as arguments the most negative int and
  numbers that are no int; a screen of 2 rows
  of 5, the second of them raw_print's; for the entry, tables of 10 entries with a kernel that reaches into the
  second, every kind of processor, and with a 486 every combination of memory,
  A20 and command lines; for the pure functions all words of few bits, or those at the edges.

Deadlock is checked in every run but `window`, for the reason above, and `library`,
where a call that has ended takes no further step.

Fairness: the programs are sequential and nothing preempts them, so weak
fairness of the next step is what a running CPU gives. For `BootSect` it
includes `ReadTrack`: the retry loop has no limit, so the claim is that a drive
which does not fail for ever is enough. In `Setup` the
CPU's step is fair, which includes that a timer interrupt ends a `hlt`, and so
is the controller's taking of a byte; keys are not. In `SlidingWindow` only the copy loop is
fair; nothing is assumed of the data. In `Sync` each processor's and each
process's next step is fair (a processor executes, and what `schedule()` has
made runnable runs), including a handler's, and a holder of a semaphore gives
it back. Asking for a lock is never assumed to go on, nor is a signal or a new
item, nor a waker that has not begun; the spin lock's and the big lock's processors may stop
anywhere. In `Library` the running call's
step is fair, and so is the next instruction on the way into the kernel; the thread that maps and unmaps is not.

Each property of a passing run has a mutant in its module: an operator marked
"Mutant of", the definition changed the way a slip in the code would change it.
No specification uses them.

## Findings

* `unused_code`: `huft_build()` marks a code that belongs to no symbol with 99
  only if `v` is used up to its declared number of codes. With symbols of length
  zero in the list, the dummy entry is made from an element of `v` that was
  never written (`lib/inflate.c:448`). A set of a single one-bit code is
  returned as a success, so a corrupt stream that uses the other bit is decoded
  to garbage where `lib/inflate.c:127-129` promises an error.
* `null_input`: the comment at `lib/inflate.c:282-286` gives 2 for a list of
  zeros, the code returns 0 and no table.
* `any_size`: with a lookup size that needs three levels, a table on the middle
  level can get one bit more than `l`, and places of it stay unset (lengths 1,
  2, 3, 3 with `*m` = 1). Under `NoGap` there is no such case (`DecodesRight`); lookups of 9, 6 and 7 bits for deflate's sets meet it when the set is
  complete.

* `signature`: `setup.S:9` has the signature words "to ensure LILO loaded us
  right", but `bad_sig` is a `hlt` and the next interrupt goes on at `good_sig`
  (`setup.S:143-146`).

## Proofs

| theorem | says |
|---|---|
| `SlidingWindowProofs!HistoryInWindow`, `CopiesInBounds` | the two invariants of the window |
| `SlidingWindowProofs!Refinement` | `Spec => ImplementsLz77` |
| `BootSectProofs!InStep`, `NeverOverwritesItself`, `InOrder`, `LegalReads`, `LoadedWhole` | the safety properties of the boot sector |
| `GunzipProofs!ShiftFits`, `BitsAccounted`, `ValidOnly`, `GoodAccepted`, `ArenaSuffices` | the safety properties of the input side |
| `HuftBuildProofs!TypesKept`, `RightCodes`, `FillsOpenTables` | what `huft_build()` counts stays in range; the running code is that of the symbol it is entered for, and is entered in the open table at an empty place |
| `HuftBuildProofs!DecodesRight`, `CatchesUnused` | the tables decode each canonical code to its symbol, and find a code of no symbol |
| `SetupProofs!MovedWhole`, `NeverOverwritesSetup`, `LineIsOn`, `BytesKept` | the safety properties of setup |
| `Types` of `SlidingWindowProofs`, `BootSectProofs`, `SetupProofs` | their type invariants |
| `SyncProofs!TypesKept`, `CountsKept`, `WakeupsKept` | no counter leaves its width; each is what its holders and waiters make it; nobody sleeps without a wake-up on its way |
| `SyncProofs!LocksExclude` | seven primitives implement `Exclusion` |
| `StructuresProofs!InvKept`, `StructuresLinked` | the inductive invariant of lists, task links and page tables; what is linked is found, and nothing else |
| `StructuresProofs!ListsRefine` | the pointers of `list.h` implement sequences |
| `LibraryProofs!LibraryReports` | transfers account for their faults, images are whole or their failure is told, numbers that `vsprintf()` writes read back and fields have their width and precision, the screen shows what `puts()` printed, and a short message of `raw_print()` where its row is one of the screen's; the kernel runs only where the checks as built let it and finds memory and processor prepared. `Host32` is FALSE, and only the copy that overshoots counts a byte twice |
| `LibraryProofs!LibraryInside` | nothing outside of what a call was given is touched: buffer (but for the byte of the copy that overshoots) and user's part, format and arguments, screen and message buffer, mapped memory, with setup's page changed in the position on the screen only |

They hold for every value of the constants that satisfies the modules' ASSUMEs:
any window size and alphabet, any lists of code lengths, lookup sizes and longest code,
any track sizes, segment size and number of
segments, any set of images, any layout, number of polls and machine; any
set of processors, processes, waiters and tasks, any set of list heads and
entries, pids, size of the hash, addresses and frames; any word and limit of
user memory, any sizes of sectors, clicks, bytes and files of an image, any place of
the kernel, its tables and its end in memory, and any machine; any formats with arguments for
them, any rows and columns of a screen, and any texts; messages only on a screen that `raw_print()`
knows (`ScreenOK`).

What the proofs ask of the constants, and why the code grants it:

* `ListsOK`, `LookupsOK` (`HuftBuild`): a list has at least one symbol and lengths
  from 0 to the longest, a lookup has 1 bit to the longest. The lengths come from three or four bits of
  the stream, or from the fixed sets (at most 15); lookups are 7 and 5
  for the fixed sets, 7 for the code lengths, and `lbits` and `dbits`, 9 and 6 (`inflate.c:701-709`,
  794, 864-875); `BMAX` is 16.
* `CpusOK`, `BiasOK`: fewer processors than make the byte or the biased count
  wrap (`NR_CPUS` is at most 32). With them go `Half > 1` and `Bias < Half`: the
  byte has a sign, and a writer's bias fits into half the word (`RW_LOCK_BIAS` is
  0x01000000). Without the second, one writer could make the count come round.
* `NodesOK`: heads, entries and the junk an uninitialised node points to are
  different things, and there are finitely many. `InitOK` says the same of tasks.
* `HashOK`: a pid is a set of bits; the hash has a power of two of buckets.
* `LayoutOK`: a directory entry spans a whole table (and a page is not empty:
  the provers know nothing of powers), the frame number lies above the bits that
  tell the kinds of entry apart (`pgtable.h:162-172`), a swap type has six bits
  and a swap offset is not zero: slot 0 of a swap device is its header. An entry
  of type 0 at offset 0 would be an empty one.
* `ParametersOK` (`UserCopy`): the limit and every size are words.
* `SizesOK` (`Build`): sizes are positive, and the defaults fit the bytes they are kept
  in (`SETUP_SECTS` is 4, `DEF_SYSSIZE` 0x7F00). A setup's sectors fit one byte: that
  is the limit `build.c:145` does not test, see above.
* `LayoutOK`, `MachinesOK` (`KernelEntry`): decompressor, setup's page, kernel, its BSS and
  what two tables map follow each other as `boot/compressed/Makefile` and
  `arch/i386/vmlinux.lds` lay them out; the directory has an even number of entries and the
  user's part ends inside it.
* `ArgumentsOK` (`Vsprintf`): a call passes as many arguments as its format asks for
  (`Asked`). C has no check for it, and with less `va_arg` reads what is not there. The types of
  the arguments have some values (`2^ShortBits`, `2^IntBits` and `2^LongLongBits` are positive), and half of
  an int's are negative, of which there are more than one.
* `ScreenOK` (`Screen`): there are a row and a column, their numbers fit the bytes
  `setup` tells them in (`include/linux/tty.h:14`, `18`), a message has no zero inside, and what is printed is made of
  characters. They are named differently from attributes, so that a byte of
  one kind at the place of the other is seen. If there are messages, raw_print's row is one of the screen's
  and each message is shorter than its buffer and a row: the code grants none of this, see above.

*Window.* `IInv` is `TypeOK`, `WindowIsHistory` and `CopyInBounds`. The
properties are not inductive one by one: a copy reads the right byte because
the window is the history, and the window stays the history because a copy
writes only up to its end. `AdvanceKeeps` does the step common to all writers
(write up to `p`, flush if full); `AdvanceHistory` says what it does to the
mapped history; `PieceExtends` says that one piece of a copy is a `Copy` of the
abstract specification, overlap included; `MaskStep` does the arithmetic of
`d &= WSIZE-1`.

*Boot sector.* `IInv` adds `Position`: the next sector on disk is the one that
belongs at the next address, and segments are filled one after the other. The
bound comes from `SegmentFits`: a segment that begins at or below `syssize` ends
at or below INITSEG because `syssize` is below it and both are whole segments.
The image builder's limit on the system's size enters as `HeaderOK`.

*Input side.* `IInv` adds to `BitBudget` that the arena holds at most one
block's tables and that `mark` is its bottom, and what is known of the header
while it is read. `TakeKeeps` does the arithmetic of one
`NEEDBITS`/`DUMPBITS`, `TakeStep` what all decoding steps share. `GoodAccepted`
goes one layer further: `RanOutLate` shows that a request looks ahead by less
than the eight bytes of the trailer, so running out of a whole image means
having used more bits than its data has.

*Huffman tables.* The proof has three layers, each an invariant that rests on the one before.

* `CodesInv` is about codes only. The running code `i` is its number read backwards
  (`Reversed`), and the number is the first code of its length plus the codes
  passed; so the backwards increment adds one (`Carry`), and a longer length doubles. `p`
  counts the codes entered, `Sorted` puts a symbol where its number is. `TypesKept` and
  `RightCodes` follow.
* `Stacked` is about open tables. Each is linked to from the one before it, is
  empty behind the running code or behind the table after it (`Behind`), and is wide
  enough for every code it will get or has all `l` bits (`Sized`). The last comes from the
  choice of the table's bits: the loop that widens it stops when codes of the lengths so far
  leave no pattern over. Going back stops at the table
  whose bits before it (`x[h]`) the next code still has, and a table on the stack with
  another behind it can be returned to, but only at a place behind the one that
  links to the other. `FillsOpenTables` follows.
* `Covered` is about the walk. Each stream that begins with a code up to the running
  one ends its walk at that code's symbol, or at an entry of no symbol if the code is a
  dummy (`Found`). Entries once made stay (`Frozen`), so walks that ended still end
  there. It needs `Roomy`, which `NoGap` implies for a success: only then has a table in the middle
  exactly `l` bits, and this is where the finding `any_size` comes from. At the end every
  stream is covered (`AllFound`). Codes are prefix-free (`PrefixFree`, because
  lengths in order take disjoint spans of the streams), which makes the symbol found the one
  asked for.

The recursive functions are shown to exist by
`Iteration`, and what they compute by induction over a set (`NatInduct`).

*Setup.* `IInv` says what memory holds in the middle of the move: everything
between the first destination and the next one is shifted, everything else is
as loaded. `LayoutOK`, the comment's "start_sys_seg > 0x200", makes the
distance at least one turn: so a turn reads nothing it or an earlier one wrote,
and the last one stays below INITSEG. `MaySend` carries the result of
`empty_8042` to the `outb` behind it while the controller moves on.

*Locks and sleeping.* `SyncInv` has a part for each primitive, and a step of the
composition is a step of one of them (`OneSteps`). Most of the work is
counting: cardinalities of sets of processes, one of which moves.

* `SpinLock`: the byte is 1 when nobody is in and at least 1 less those who
  counted and have not gone; `SpinRoom` draws from it that there is room below for one more.
* `RwLock`: the count is the bias less readers less writers, those that have
  to take theirs back included; a writer has interrupts off and an interrupted
  task has them on, without which a writer's handler could read.
* `Semaphore`: the count lacks who has it, who has tried and not looked, and
  `sleepers`; who has it is at most `Count`; and if the count lets one in while some
  sleep, one is awake that will look. The last is what makes `NoneForgotten`
  inductive: the wake-up may be with somebody who was signalled.
* `RwSem`: `RwsBalance`. The count alone does not exclude: a biased process waits for a
  grant, which a helper gives after the count was changed. Of the biased all
  but one, or all, have a grant, there is one grant at a time, and a grant excludes already
  what the lock it is for excludes.
* `WaitQueue`: a task has one place on the queue exactly while it waits, the
  exclusive ones come last, and who is not running sleeps in the state of its
  kind. An item that is there with no waker at work leaves only exclusive tasks asleep.
* `Pages`, `Tasklet`, `BigLock`: the lock bit is set for one owner, who
  may be between two instructions; `SCHED` stands for one list entry or one processor that has
  taken it off; the flag is set when a running task has a depth, and that task
  is alone.

*Lists.* `ListInv` says that for each head there is a sequence of different
entries that the next pointers follow and the prev pointers follow back, that
two heads share no entry, and that the traversal stands in the sequence of its
head with what it must still visit behind it. `Circular` alone is not inductive:
pointers that are inverse allow rings without a head, and two heads in one ring.
Lemmas say what putting in, taking out and joining do to the sequence of one
chain, and each operation of `list.h` is one of them; the refinement is an
equation between the sequences before and after.

*Tasks.* `TaskInv` says that the known tasks are one ring; that the children of a
task are a line from the youngest to the oldest, ended by NULL, with its way
back; that each bucket has a line of the tasks with its hash, whose way back is
`pidhash_pprev`. One clause no property asks for: a parent is known. With it
a released task is nobody's parent, so a fork that uses it again is right to begin its
line of children with NULL. The lookup is a walk along a line, by an induction that is proved once, for sets
(`NatInduct`).

*Page tables.* `TableInv` says that a table under an empty directory entry is
empty and that each address's entry agrees with what its page was promised. The
kinds of entry stay apart because the present bit, the no-access bit, the fields
of a swap entry and the frame are different bits: the lemmas about
`pte_modify` and the swap encoding are set algebra, the ones about the indices
arithmetic with a variable page size.

*User memory.* `UserInv` says for each instruction what the registers and the destination
hold: the bytes before the one that is next have arrived and those behind it have not,
and the count is what is left. A fault leaves just this, and a fixup turns the count
into bytes; where it clears, the rest is zero. A copy that has resumed at its last move is a case
of its own: its byte is already zero and counted, and what the move leaves is what `Overshot` tells. `RangeOk` is arithmetic
with a carry: a sum that comes round is above any limit.

*Image.* `ImageInv` divides what is written into the boot sector, setup, padding and the
system, in this order, each complete before the next begins, with `i` and `sz` the
rest. `GoodImage` reads the file by position, so the lemmas say at which position a part
begins and that whole sectors add up (`OneMore`, `Product`). A failure stops the
builder before the header is patched, and that is why a file that was left is not taken for
one that loads.

*Entry.* `EntryInv` carries two things through the entry: below the first
directory entry's reach the tables map memory to itself and the kernel's addresses to the
same frames, and setup's page is as setup left it, but for the position `puts()` stored (`Intact`). Each store has to
miss the tables, the page and what was copied. The proof found that `Image`, what
`gunzip()` puts at 1M, was defined by cases that met, so that two values were
possible where only one is loaded. `PreparedInv` adds what is ready after each step: the
words of the kernel but for the tables, page and descriptors that are filled (`KernelWhole`), a BSS
of zeros, the descriptors, the copied page and the command line in its second half, PG and the bits
of `cr0`, and what was found out about the processor. A store keeps each as the kernel's parts
are apart (`PartsApart`).

*Screen.* `DisplayInv` says that the places of video memory are the screen's, that
characters are at even and attributes at odd ones, and that the position is on the screen. What
`scroll()` copies comes from an even distance, and as it copies downwards in memory from the lowest byte up,
each byte is read before it is overwritten (`CopyMoves`, by induction over the bytes). A
character is put before the position is tested, so a position on the screen is needed
before each one: `x` and `y` are brought back at once (`NewLineSound`). `ShownInv` lays the paper,
the rows a reader has before him, over the video memory (`Matches`): scrolling moves each row to the
one above and clears the last (`ScrollMoves`), a character goes to its own place only
(`StoreShows`), and a message up to the zero behind it lies in raw_print's row from
its first place (`MessageShows`); there `ScreenOK` is used, without which it would not hold. The two cursor registers give the position back (`CursorTells`).

*Formats.* `FormatInv` ties the place within a conversion to the stage the scan `Asked` has
come to: after the flags nothing is left that is a flag, after the width no digit or star, and at the
conversion nothing that would be anything else (`Ready`). So what the switch takes for
a conversion is one for the scan too, and each `va_arg` takes an argument the scan has
counted (`ArgumentThere`). The digits of `skip_atoi()` are followed by
induction (`DigitsRun`, `FiguresStage`). A format that ends inside a conversion is
the one place where the stages differ, `vsprintf()` being back at the text; there the next
character is NUL.

`WroteInv` adds what the last conversion has written: behind `start` stands a field that
reads back as `num` and has its shape (`Wrote`), and while a conversion is read the result ends
at `start`. It is kept because a conversion writes once (`WroteNumber`, `TextShaped`)
and text between conversions is not one. A number is written in five pieces, what is passed over, the
minus, the prefix, digits and the pad behind (`Composed`); where each lies (`PiecesLie`) is all that
reading and shape need. The digits are the remainders `do_div()` leaves, from the last to
the first, and come to the number when each is added to what was before times the base
(`DigitsAre`, `LeftFalls`). Zeros before them and capitals do not change it. `Digits()`
adds them up likewise but drops what does not fit after each; that once is enough is arithmetic of
remainders (`CutBefore`, `CroppedAgain`), and a minus is the same twice.

Only model-checked:

* `Agrees` of `MCLibrary`. Functions without state are compared with references at all
  values of a small word and at the constant tables of the code; that is an
  enumeration. What they compute for every width would be an induction over data for each.
* Liveness: `CopyEnds`, `ReachesSetup`, `ReachesKernel`, `Served`, `Ends`. It
  rests on fairness.

## Plan

1. Done: window, input side, Huffman tables, boot sector, setup; locks,
   sleeping, lists, task links, page tables; user copies, image builder,
   formatting, screen and the pure functions.
2. Done: proofs of every safety property that a run with steps checks, and of the
   refinements. `Agrees`, which has no steps of its own, and liveness stay with TLC.
3. `Inflate`: `SlidingWindow` and `Gunzip` composed, each decoding step taking
   its bits and writing its bytes, with `bytes_out` against the trailer.
4. The parameter block of `setup.S` with the copy of the feature table; the entry
   into the kernel is done (`KernelEntry`).

## Not modelled

* The configuration script, make rules and linker scripts; register, error
  number, APIC and ioctl headers; structure declarations and initialisers: no
  behaviour of their own.
* Printing on the boot screen by the BIOS, the floppy parameter table, what `setup`
  writes to the parameter block and the descriptor tables it loads: nothing else
  depends on their values.
* `start_kernel()` prints and loops. The parts of `head.S` for `CONFIG_SMP` stop.
* Port instructions, TLB flushes, FPU and processor feature headers: single
  instructions with the machine on the other side.
* The functions that are only declared: schedule(), the allocator, the
  string functions of user memory. Where a modelled header calls one, its
  part is marked external.
