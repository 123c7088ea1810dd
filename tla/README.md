# A formal model of TinuOS

TinuOS is a small 32-bit x86 kernel in C and assembler. This directory holds
TLA+ specifications of it, configurations that model-check them with TLC, and
theorems about them that TLAPS checks. Paths such as `mmu/kmalloc.c` are
relative to `src/`.

Contents: [the system](#1-the-system) - [modules](#2-modules-and-code) -
[runs](#3-what-the-runs-check) - [fairness](#4-fairness) -
[proofs](#5-what-is-proved) - [divergences](#6-where-code-and-comments-disagree) -
[not modelled](#7-what-is-not-modelled) - [plan](#8-plan)

## 1. The system

`_start` (`boot.S`, or `load.S` in its place) turns paging on with a fixed
directory, sets up a 4 KB stack and jumps to `kernel_main`, the kernel's only thread. It runs the steps of
`kernel.c:14-34` once, in order, and ends in `die()`, an endless `hlt`; a page fault
on the way ends in `die()` as well, with interrupts off. The only
concurrency of the kernel as built is interrupt handlers on top of this thread;
the spin locks and the `use_lock` flag of the page allocator prepare for more
than one processor.

| Component | State | Operations | Hard behaviour | What makes it correct |
|---|---|---|---|---|
| Machine entry (`boot.S`, `load.S`, `kernel.c:42-48`) | control registers, `entrypgdir`, stack | `_start` | each instruction runs in the address space the last one left | code, stack and data are mapped when they are used |
| Boot sequence (`kernel.c`) | how far `kernel_main` is; IF | the calls of `kernel_main` | interrupts come between any two steps after `sti` | everything an interrupt needs is there before interrupts are on |
| GDT (`io/gdt.c`) | six descriptors | `gdt`, `set_gdt`, `gdt_flush`, (`set_tss`, `set_kernel_stack`: no caller) | packing of fields | the segments of code, data and gates are flat and of the right type |
| IDT, 8259s (`io/idt.c`, `io/irq.c`) | gates; mask, request and in-service bits | `idt`, `set_idt`, `irq_remap`, `set_irq` | order of remap, gates, `lidt`, `sti`; packing of fields | a device's line always ends in its own stub, never in an exception's or an absent gate |
| IRQ path (`boot.S`, `io/isrs.c`) | handler table, stack frames | stubs, `irq_handler`, `register_interrupt_handler` | EOI before the handler; two EOIs for the slave | one EOI per interrupt and chip, no nesting |
| Exceptions (`boot.S`, `io/isrs.c`, `mmu/mmu.c`) | stack | stubs, `isr_handler`, `page_fault` | error code or none, by vector | `iretl` finds the right frame; the report names the right vector and address |
| Timer (`io/timer.c`) | `tick`, divisor of the PIT | `init_timer`, `timer_callback`, `sleep` | polling a counter that a handler changes | no tick is lost while the CPU is not halted, `sleep` is long enough and ends |
| Real time clock (`drivers/rtc/clock.c`) | registers A-C of the chip, the time read | `rtc_install`, `rtc_handler`, `rtc_print_struct` | the clock counts while it is read | how wrong a torn time can be; names in range |
| VGA console (`monitor.c`) | screen memory, row, column, cursor | `terminal_initialize`, `terminal_putchar`, `scroll`, `move_cursor` | wrap and scroll at the edges, control characters | stores stay on the screen; scrolling loses nothing but the top row |
| Formatted output (`monitor.c`) | local | `kprintf`, `itoa`, `terminal_write_hex` | ends of ranges, signs, zeroes, argument order | the text is the numeral |
| Page allocator (`mmu/kmalloc.c`) | `kmem.freelist`, link words in the pages, `use_lock` | `kinit1`, `freerange`, `kfree`, `kalloc` | two flows on one list | no page twice, none lost |
| Spin lock (`mmu/spinlock.c`) | lock word, IF of each CPU | `acquire`, `release`, `pushcli`, `popcli`, `holding` | CPUs and handlers race | mutual exclusion, no handler spins on what it interrupted |
| Kernel heap (`mmu/umalloc.c`) | block list, break | `malloc`, `free`, `ksbrk` | split, coalesce, exhaustion | blocks in use are disjoint, the list is sound |
| Page tables (`mmu/mmu.c`) | directory, tables | `paging_install`, `pagetable_init`, `mappages`, `pagewalk` | tables allocated on the way, no page left, a store that may fault | a page serves one purpose, tables are kept |
| IDE driver (`drivers/ide.c`) | `channels[]`; registers of the drives | `ide_initialize`, `ide_read`, `ide_write`, `ide_read_buffer`, `ide_polling`, `ide_print_error` | the drive works on while the driver polls; HOB | an answer is about the last command, a poll ends, the task file holds what was written |
| Memory functions (`system.c`) | - | `memcpy`, `memset`, `memcmp`, `strcpy`, `strncpy` | - | - |

How they interact:

    _start --paging, stack--> kernel_main
    kernel_main --calls--> gdt, idt (irq_remap, set_irq, register table), init_timer,
                           sleep, rtc_install, rtc_handler, kprintf, kinit1, paging_install
    8259 --interrupt--> IRQ stub -> irq_handler -> interrupt_descriptors[] -> timer_callback
    timer_callback --tick--> sleep (shared variable, polled)
    exception --> ISR stub -> isr_handler -> kprintf, page_fault -> die
    paging_install -> mappages -> pagewalk -> kalloc -> acquire/release (when use_lock)
    rtc_handler -> rtc_print_struct -> kprintf -> itoa -> terminal_putchar -> scroll

The hazards of this code, each at its line and with the properties that watch
it, are listed in `PROJECT.json`.

As built, some of these parts are present and idle: `use_lock` is set to 0 and
nothing sets it (`kinit2` is declared in a header and not defined), so the page
allocator takes no lock; nothing calls `malloc`; no lock other than
`kmem.lock` exists; and `drivers/ide.c` is not linked, nor `load.S`. The models of these parts are of the functions as they are
written, called in every order.

## 2. Modules and code

Each module comments its variables and actions with the code they stand for;
`PROJECT.json` maps every definition to its lines.

**PagePool** is what a page allocator promises: a pool, what each client holds,
and the moves `Donate`, `Take`, `Fail` and `Give` between them.

**KMem** is `mmu/kmalloc.c` with every load and store of shared memory a step:
`FreeRange` is a turn of `freerange` that goes through `kfree`; `CallKfree`,
`Scrub` (the `memset` to 1), `Acquire`, `Link`, `Publish`, `Release` are `kfree`;
`CallKalloc`, `Acquire`, `ReadHead`, `Pop` or `PopNothing`, `Release` are
`kalloc`. `pc` says where each flow is, `next` holds the link word of each page, and
`chain` and `owned` are history variables: the pages on the list in order and the
pages each flow has. `KInit2` is external:
`include/boot.h:198` declares `kinit2` and nothing defines it; it is taken to turn `use_lock` on,
which `kmalloc.c` tests and nothing sets, while the boot flow is not inside;
before it only `Boot` runs.
`Pool == INSTANCE PagePool WITH pool <- Free, held <- owned` is the refinement.

**Mutex** is what `acquire` and `release` promise: `Take` and `Give` of a lock by a
client.

**SpinLock** is `mmu/spinlock.c` on any number of CPUs. A CPU has a stack of
frames, its thread's and those of the handlers above it; a frame has a place in
`acquire` or `release` (`at`), a lock it is after and the locks it holds.
`Interrupt` needs IF; `Return` is `sti; iretl` of `boot.S`. `Nesting` bounds the
locks a frame holds at a time. `holding` ignores which CPU asks, as the code does.
`Lock == INSTANCE Mutex` is the refinement: the clients are the frames, `Xchg` is
`Take` and `Store` is `Give`. It is what entitles KMem to take `acquire` and `release` as single
steps.

**Descriptors** has `set_gdt` and `set_idt` as functions from their arguments to the
fields of an entry, the table `gp` that `gdt()` makes, and the way the processor puts
the fields together again (`Offset`, `Flat`, `InterruptGate`, ...), which is external. A 32-bit
word is four bytes, as TLC's integers are no wider.

**Kernel** composes the boot thread with the two 8259s, the PIT, the keyboard
controller and the clock's interrupt logic. The program starts in `_start` of `boot.S` or
of `load.S` (the two initial values of `pc`) and goes on in `kernel_main`, a sequence of
operations: each call is written out as the operations on the hardware it makes
(`gdt`, `irq_remap`, `set_irq`, `init_timer`, `rtc_install`, ...) or kept as one step
when another module models it. Two of these calls need not return (`Wild`): `rtc_print_struct` may copy a name
from outside of its table, and `paging_install` may clear page 0 and stores through a pointer it never sets. Each
returns (`Elsewhere`) or ends in a page fault: `PageFault` goes through gate 14, which clears IF, and
`isr_handler` and `page_fault` end in `die()`, where `Halt` is all that the CPU still does. Devices go on, and nothing
is served any more. A wild access that does not fault is taken to hit nothing that Kernel models. `machine` says what is set up so far: control registers, the
mapping at 0 (`low`, or only in the TLB, `stale`), where `eip` and `esp` point, and the segment registers.
A step of the thread, an interrupt, a step of a handler and an event of a device alternate in every
way. An interrupt goes to the stub whose address the gate of its vector holds (`Leads`, computed with Descriptors), and
the stub, not the vector, gives the number that `irq_handler` sees. The 8259 (priorities,
cascade, ICW sequence, masks, EOI), the PIT's two-byte loading and register C of the
clock are external: they are modelled from the bytes the code sends. Histories
are `lag` (pulses not yet counted in `tick`) and `elapsed` (pulses since `sleep`
was entered).

**Ide** is `drivers/ide.c`, one access to a port a step: a call puts its accesses in
`todo`, and `at` is where it stands behind them (`PollLoop` and `PollCheck` for `ide_polling`,
`PrintError`). `Port` and `Around` are the computation of the port and the HOB bit of `ide_read` and
`ide_write`. The drive is external and adversarial where the code waits for it: BSY may take the
400 ns of the specification that the code's comment quotes to appear, and a command ends with data, without, with an error, with a fault or with both. The
callers are external as well: they leave the task file alone while a command runs, and fetch data only
after a poll that found some. `expect` and `outcome` are histories.

**Terminal** is `terminal_putchar` with all it calls, one action per character,
over a console of `W` by `H`. The memory has one row more than the screen,
for the newline in the last row, which is stored before `scroll` takes it back.

**Printf** is `kprintf`, `itoa` and `terminal_write_hex`, one turn of a loop a
step, with integers of `WordBits` bits; **Exceptions** adds the flows that print:
`rtc_print_struct`, and exceptions from the processor's push through `ISR_ERRORCODE` and
`ISR_NOERRORCODE`, `isr_common_stub`, `isr_handler` and `page_fault` to `iretl` or
`die`. `expected` holds the text that is due, made from the number by arithmetic
(`Numeral`), independently of the loops.

**Rtc** is the loop of `rtc_handler` with the clock counting between its eight
register reads, in BCD and in binary; `uip` is the update cycle, a read during
which is undefined and excluded by `garbled`. `TypeOK` says of every field that has been read that it holds a value of
its own register or what an update left, as `rtc_print_struct` indexes its tables with two of them.

**Heap** is `mmu/umalloc.c` in units of one header (16 bytes): `CallMalloc`,
`CheckMagic`, `Walk`, `Carve` and `Grow` (with `ksbrk`) are `malloc`, `CallFree`, `Find`,
`NotFound`, `Found`, `Merge`, `NextBlock` and `EndFree` are `free`. Headers live in
memory: `header[a]` is what a header at `a` would read, wherever one was written.
`Fitting = TRUE` restricts clients to requests that no free block they would get
is too small for (see section 6).

**Paging** is `paging_install` down to `pagewalk`. `mappages` uses a pointer, `pte`,
that it never sets: `slot` is a choice between an address that is mapped,
somewhere else, and one that is not (`Fault`). `ClearNull` is the `memset` of page 0 when the pool is empty, which
faults after `load.S` (it has unmapped that page) and does not after `boot.S`.

The MC modules give the constants that a `.cfg` cannot write. KMem, SpinLock and Heap
need none. Descriptors has no run of its own: Kernel extends it.

## 3. What the runs check

Every passing run checks a type invariant, which here also bounds indices and
pointers.

| Run | Bounds | States | What it shows |
|---|---|---|---|
| KMem | 2 flows, pages of 4 bytes between the addresses 3 and 18 (3 whole pages, both ends unaligned) | 466 k | `Exclusion`, `NoAliasing`, `FreelistSound`, `NothingLost`, refinement of PagePool (`ImplementsPool`) |
| SpinLock | 2 CPUs, up to 3 frames each, 1 lock | 3.5 k | `MutualExclusion`, `NoSelfDeadlock`, refinement of Mutex (`ImplementsMutex`), `TakenIsFreed` |
| Kernel | lines 0, 1 and 8, one kind of clock event, `sleep(3)`, `tick` modulo 16, stubs of 12 bytes | 233 k | `ControlLands`, `InServiceExact`, `NoNesting`, `TicksCounted`, `SleepLongEnough`, `ReachesPaging`, `LineServed` |
| Terminal | 4 columns, 3 rows, at most 3 marked cells | 166 k | `RowsMoveWhole`; the stores of the next character are part of `TerminalTypeOK` |
| Rtc | 2 seconds a minute, 2 minutes an hour, 3 hours a day, 2 days a month, 2 years a century, up to 2 ticks during a read | 927 k | each field comes from its own register (`TypeOK`), `NeverBehind`, `QuietReadExact` |
| Heap | 17 units of heap, sizes of 6 bits, requests of 1, 2, 7, 13 and 20, 3 blocks held | 336 k | `LiveDisjoint`, `HeapSound`, `Coalesced`, `CallsReturn` |
| Paging | 5 pages, pages of 2 bytes, tables of 2 entries, directory of 8 | 1 k | `OnePurpose`, `Returns` |
| Exceptions | 12-bit integers, all 4096 of them; vectors 0-17; every day and month | 244 k | `TextExact`, `FrameRestored`, `ReportsEnd` |
| Ide | the standard ports, given or as BAR 0; one drive on either channel; one register pair, two byte values | 239 k | `TaskFileExact`, `AnswerFresh`, `PollReturns` |
| HeapAliased | as Heap, `Fitting = FALSE` | | violated: `LiveDisjoint` |
| RtcTorn | as Rtc, 1 tick | | violated: `ReturnsATimeShown` |
| PagingTables | as Paging | | violated: `TablesKept` |

Why the bounds are enough:

- *KMem.* Two flows make every race on one list; three pages let the list be
  empty, have one element, and more. Both ends of the range lie inside a page,
  so that rounding and the loop bound decide. The proofs are for all values.
- *SpinLock.* Three frames let a handler be interrupted itself; one lock is what the kernel
  has. With `Nesting = 2` and a second lock `NoSelfDeadlock` fails: `popcli` enables interrupts
  although a lock is still held. Nothing in the kernel holds two.
- *Kernel.* Line 0 is the timer, 1 a line of the master nobody handles, 8 the first line
  of the slave: the boundary of the test for two EOIs. `sleep(3)` takes several
  turns, and `TickMod` is large enough for `tick + ticks` not to wrap, as it does not
  in the code before weeks have passed. `tick` wraps within the run. The stubs cross a multiple of
  256, so that every byte of an offset but the highest differs somewhere.
- *Ide.* The pair 5 is the end of the range of registers behind HOB (`reg < 0x0C`), one past it is the
  control register itself. Two values tell the two bytes of a pair apart. With one drive there
  is a channel with and one without; the channels share nothing but `channels[]`, which
  does not change.
- *Terminal.* A console needs a first, an inner and a last row and column. The bound on
  marked cells keeps the number of screens small; one glyph beside the blank tells text from
  background, and its places tell rows from one another.
- *Rtc.* Each unit carries into the next. Two ticks in one read is more than eight
  port reads can take.
- *Heap.* Seventeen units hold three blocks of different sizes and a rest that is too
  small for a header; 13 and 20 make `ksbrk` refuse, also after the rounding to a power of two.
- *Paging.* Five pages suffice for a directory and some tables and run out before the last
  range; `kmap` (`MCkmap`) has a range over two tables and one at the end of the
  address space.
- *Exceptions.* Twelve bits are three hexadecimal and up to four decimal digits:
  odd and even numbers of digits, inner zeroes, and the most negative number. From
  vector 18 on the stubs assume an error code, which the processor pushes for
  few of them; no code raises one.

`CHECK_DEADLOCK FALSE` is used where the system stops: a heap whose clients may not
ask for anything more, a read of the clock that is over, `paging_install` when it has
returned, `die()` after a page fault. The other runs check deadlock; in Kernel the CPU that waits in `hlt` for ever is
a step (`Halt`), as time goes by for the devices.

## 4. Fairness

- SpinLock: a CPU goes on inside `acquire`, and whoever holds a lock gives it back
  (`Inside`, `Release`); interrupts and calls are not fair. Between a lock's
  `xchg` and its release interrupts are off, so nothing suspends the owner.
- Kernel: the CPU executes (`Cpu`) and the PIT pulses, whatever
  the thread does. The keyboard and the clock are not fair. `PitPulse` waits until the CPU has done something
  since the last pulse (`rested`): a period is far longer than an instruction. Whether `rtc_print_struct` and
  `paging_install` return or fault is a choice, and no fairness is assumed of it. That is why `ReachesPaging` has a halted
  CPU as its other end, and why `LineServed` is about lines raised before the fault: the thread does
  not get to its fault with a request open, and a line that rises after it is never served. `TicksCounted`
  stops with the CPU as well.
- Ide: the driver executes the call it is in, and a drive that has taken a command shows BSY and ends it;
  without the latter `ide_polling`, which has no limit, need not return, as it does not on a channel
  without a drive.
- Heap, Paging, Printf/Exceptions: the processor executes the call it is in
  (`WF` of the steps inside a call); no call is ever forced to be made.

KMem, Terminal and Rtc need no fairness: only safety is stated of them.

## 5. What is proved

Every safety property that a passing run checks is also a theorem, for every value of
the constants that the named assumptions of the modules allow. Each proof has the same shape: an inductive
invariant `IInv`, one lemma per action (`...Step`, `...Inv`), `Inductive` and `Invariance` from them, and the
properties as consequences.

What is assumed of the constants, and why the code allows it:

- KMem: the page size is positive, the range one of naturals. Paging: `kmap` is a sequence of ranges inside the
  address space. Terminal: at least two rows, fewer rows than columns (25 and 80), a blank among the glyphs, and no
  glyph that is a control character.
- Kernel: `sleep` is given a positive number, and `TickMod` leaves room for it and for the at most 11 pulses
  counted before (with `tick` a 32-bit counter that starts at 0); each stub has an address of four bytes of its own.
- Rtc: the units of time have at most two decimal digits, which is what a BCD register shows.
- Exceptions: vectors 0 to 17 (the later ones need bits of CR4 that the kernel does not set),
  a time of bytes, numbers that an `int` can hold. Printf: an `int` is a whole number of nibbles and at least a byte
  wide; `PowersAssumption` says what the powers of 2, 10 and 16 are, each b times the one before, as far as a word has
  digits. The provers know nothing of `^`; TLC evaluates the assumption.
- Ide: the BARs are 16-bit numbers that lead to the standard ports, given or as 0.
- Heap: the array is smaller than half of what a size can count, and no request is above that half.
  Its theorems have `Fitting` as a hypothesis: without it `LiveDisjoint` is false (section 6). `PowersAssumption` says that
  2^k is twice 2^(k-1), which the provers do not know; TLC evaluates it.

**KMemProofs** (any set of flows, page size and range).
`IInv` is the conjunction of the properties and of what they need:

- `TypeOK`, `Exclusion`, `NoAliasing`, `FreelistSound`, `PagesFit`;
- `BootAlone`: before the lock is in use only `Boot` is inside; without it
  exclusion would not survive the unlocked phase;
- `InTransit`: what a flow's local variables say about the page between list and owner -
  the page being freed is held by the flow and carries the link it just read, and the
  page being popped is still the head. This is what makes `Publish` and `Pop` correct;
- `Below`: the pages known lie below the scan of `freerange`, so that the next page
  it frees is new.

`TypeCorrect`, `MutualExclusion`, `PagesNeverAlias`, `PagesFitRange`, `FreelistCorrect` follow.
`EveryPageKept` (`NothingLost`) takes a second invariant on top, `Whole`: `scan` is a multiple of the page
size, and the pages known are exactly the whole pages of the range below it. It rests on lemmas about
multiples (`OneMultiple`: of two less than a page apart there is one; `FirstPage`: `PGROUNDUP` gives the
first) and on `SameKnown`: no step but a turn of `freerange` changes the set of known pages.
`Refinement`: `Publish` is `Give` (or `Donate`), `Pop` is `Take`, `PopNothing` is `Fail`, and all
other steps stutter. Lemmas about `Head`, `Tail` and concatenation relate `chain` to the links.

**SpinLockProofs** (any CPUs and locks, depth and nesting). `IInv` adds to `TypeOK`:
`Exclusive` (the lock word is 1 exactly if one frame holds the lock, and one at most),
`ReleasesOwn` (a frame in `release` holds the lock it is about to store 0 in) and `Bounded`
(the stack's depth). `LockIsExclusive` needs no assumption about interrupts. `Refinement` shows that SpinLock implements Mutex:
`XchgOwners` and `StoreOwners` say how the owners of a lock change, and `SameOwners`, `InterruptOwners` and `ReturnOwners`
that nothing else changes them. `HandlersNeverDeadlock`
assumes `Nesting = 1` and uses `InterruptsOff`: a CPU with a frame that holds a lock has IF clear and that
frame on top.

**KernelProofs** (any lines, any events of the devices, any addresses of the stubs, any argument of `sleep`).
The program has 51 operations (`ProgramText`), and `IInv` says by the number of the next one, `pc`, and the place of the
handler, if one runs:

- `Handling`: at most one handler, or a page fault that has halted the CPU with IF off and nothing in service; IF on in the thread from `sti` on and off in a handler but for the
  instruction before `iretl`, which the shadow of `sti` protects. This is `NeverNested`;
- `Service`: the in-service bits of both chips are those of the frame whose EOIs are not all sent. `ServiceExact` is
  this in the words of the hardware;
- `Remapped`, `Raised`: how far the ICWs have come, and which lines can be up at all;
- `Installed`, `Booted`: which gates and handlers are there, and what `_start` and `gdt` have set up.
  With `GateFacts` and `LeadsToItself` (the address comes out of a gate as `set_idt` put it in, by its bytes) they give
  `ControlAlwaysLands`, whose gate 14 is that of `PageFault`;
- `Counting`: a pulse is pending in the chip or on its way, never both, and `lag` is 1 exactly then (unless the CPU is halted),
  which is `TicksExact`;
- `Sleeping`, `Loading`: `tick` and the pulses since `sleep` began add up, and the three bytes have made the divisor
  0xA936. `Sleeping` also bounds the ticks before `sleep` by the number of operations, as a pulse comes at most once
  for each; `SleepsLongEnough` needs it, because `end` must not wrap.

**OutputProofs** (exceptions, printing, console) is three proofs that share a module.

- The exception path (vectors 0 to 17): `OnStack` names the words on the stack at each place of the path, and `StubsAgree`
  that the stubs and the processor agree about the error code. `FrameComesBack` (`FrameRestored`) follows, and that the report finds
  its vector in the fifth word whatever the gate.
- The printing (any width, number and time). `Printf` computes its text with loops, `Numeral` and `Converted` say by
  positions what it should be, and `TextExact` compares the two when a message is through. The invariant `Due` says the same
  in the middle of it: `expected` is `out` followed by the text in hand, the text of the rest of the format, and the
  text of the calls still to be made (`Balanced`).
  - What a format prints with its arguments is recursive, and no recursion can be proved about here. `Renderings` is therefore the
    least set of (format, arguments, text) that has the empty format and is closed under a piece or a conversion in front;
    `Prints` is membership. Leastness gives `LineBegins`, by which a turn of `kprintf` takes one piece or conversion off
    (`TakePiece`, `TakeConversion`), and with it that at every % an argument is left that `Fits`, which is `ArgumentsSuffice`.
    `Owed` is the same for lists of calls. `TimeIsOwed`, `MessageIsOwed` and `ReportIsOwed` say that the kernel's calls owe the
    text that is due.
  - In hand are the digits of a number. `MakesDigits`: `itoa` has the m lowest digits of x behind the sign, and `ud` is x
    without them, not 0 before the last; `Turned`: the part between `p1` and `p2` still has to be reversed; `WritesNibbles`: either
    no digit is out and x has at most q + 1, or the q + 1 lowest are left. `DigitMade`, `DigitsBackwards`, `TurnedFurther` and
    `NibbleFirst` are the turns of the loops, `AllDigits` that the numeral has neither a leading zero nor a digit too few.
  - The arithmetic is about `Drop(x, b, k)`, x without its k lowest digits: dividing again drops one more (`DivideAgain`), and there is
    room for every digit of a word (`RoomForDigit`). `Climbing` stands in for induction over the digits; it comes from `Least`, as in HeapProofs.
  - `PrintState` bounds the pointers and the shift (`TypeCorrect`); `Quiet`: nothing is left to print when an exception is reported.

  `IInv` is these with the exception path, whose `RightVector` is why the report is about the vector that came. `EveryTextExact` is
  `TextExact` for every width, number, time, vector and address. Only names from outside of their tables, and days no week has,
  are left out (`outside`), as no text is right for them.
- The console (any size): `OnScreen` is inductive, and no store goes beyond the first cell behind the screen
  (`TerminalTypeCorrect`). `ScrolledRows` turns `scroll` over cells into `Tail` and `Append` over rows, and
  with it `RowsStayWhole` proves the action property `RowsMoveWhole`; `GlyphBeforeNext` follows a glyph through the wrap and the scroll.
  The definitions of Terminal carry its name so that the module can be extended beside Exceptions.

**RtcProofs** (any calendar, any start, any number of ticks in a read). `Elapsed`: the clock is `ticks` seconds
ahead of `first`, whole days left out. `Still`, `Quiet`: without a tick nothing moved and what was read is what the
registers show; decoding BCD gives `QuietReads`. `Seen`: the second is that of `first`, the minute was shown at some
moment since, the hour at a moment after that one. `TimeNeverBehind` is arithmetic over these moments: a torn time
is never before the call, and less than an hour ahead of the clock. `TypeCorrect` includes that each field
read shows a value of its own register (`FieldsFit`, from `RegisterFits` at each read), seconds ending in between or not.

**HeapProofs** (any heap, any requests that fit). The list is recursive in the model (`Nth`), and the proof speaks of
the set `L` of its blocks instead:

- `Chain(L)`: each block has its header, ends before the next begins, and `next` leads to the nearest block above;
- `Held`: the headers of held blocks say so and have their size, and held blocks are apart;
- `Clear(L)`: no held block reaches into a free one or begins between a block and its successor. The latter is what lets
  `Merge` take in the gap between two free blocks;
- `InMalloc`, `InFree` (with `Returned`: the block being freed is still apart from all held), and `Tidy(L)`: behind the pointer of `free` no two
  neighbours are free.

`IInv` is that such a set exists, or that the heap is `Unused`, or that the first request was `Refused`. `ListedIsChain` shows that `Listed` is
`L`: a list that climbs inside the array cannot be longer than the array, by the minimum principle (`Least`, from the
library's well-foundedness of `<`), which stands in for induction. `BlocksApart`, `ListStaysSound`, `NeighboursMerged`
and `TypeCorrect` follow. `GrantedFacts` covers a request that is negative as an `int`.

**PagingProofs** (any pool, any shape of the tables, any `kmap`). `IInv` is `TypeOK`, `OnePurpose`, `Fresh` (no page has a
purpose before `pagetable_init` has its own) and `InKmap`. `PagesApart` holds although `pagewalk` replaces the tables it made
and runs on without a page; `TypeCorrect` includes that `PDE` never leaves the directory; `ClearNullStep` and the fault of the
store end the walk without touching a page.

**IdeProofs** (drives on any channels, any registers, bytes and errors). `State` says, for each call and each place in
it, which accesses are still ahead and what the drive looks like meanwhile:

- `Ports`: each number leads to one register of one channel, which is most of `TypeCorrect`;
- HOB is on only between the two control accesses around one access, on that channel only (`QuietBut`), and nowhere
  between calls (`Quiet`);
- `Agree`, `AgreeAfter`: the two bytes of a register pair are the last two written. `TaskFile` follows;
- `PollAhead`: of the five reads of `ide_polling`, enough are left for BSY to have shown when the status is looked at;
  `Settled`: after that the status is the outcome of the last command. `AnswersFresh` follows.

Only model-checked:

- all liveness (`TakenIsFreed`, `ReachesPaging`, `LineServed`, `CallsReturn`, `Returns`, `ReportsEnd`, `PollReturns`):
  TLAPS does not reason about `WF` through `ENABLED`.

## 6. Where code and comments disagree

Shown by a run that finds its property violated:

- **HeapAliased.** `malloc` cuts the first free block whatever its size (`mmu/umalloc.c:148`).
- **RtcTorn.** The loop that should read "until we get the same values twice" reads once
  (`drivers/rtc/clock.c:86`).
- **PagingTables.** `PAGE_PRESENT` is 0 (`include/mmu.h:50`): `pagewalk` never finds the table it made.

Seen in the models without a run of their own:

- `init_timer` sends the command word to port 0x40, the data port of channel 0 (`io/timer.c:49`). The
  channel takes it for the low byte of the divisor and 0xA9 for the high one: it divides by 0xA936, at some
  27 Hz and not, as `kernel.c:21` says, at 1000, and is left with half of a pair.
- "Disable IRQs" of `ide_initialize` (`drivers/ide.c:211`) sets nIEN in the drives and not in `channels[]`, so that
  the first access to the upper half of the task file turns interrupts on again.

Modelled as they are, with no line in the repository that promises otherwise:

- update-ended interrupts of the clock come once, as no handler reads register C;
- the weekday is looked up at `num - 2`, so Sunday reads in front of the array, and the
  months 0x10 to 0x12 of a BCD clock are reported as invalid and read behind theirs;
- the cursor is set before `scroll` and stands a row too low; backspace moves the row;
- a block from `ksbrk` is not linked to the block before it, so that `free` does not find it; a first
  request that `ksbrk` refuses leaves the heap without a header, and `malloc` fails ever after;
- a page fault of the kernel's own thread, in `rtc_print_struct` or `paging_install`, halts the machine with interrupts
  off (`mmu/mmu.c:115`), unlike the `die()` at the end of `kernel_main`, where interrupts are on;
- `page_fault` looks at registers nobody saves and always says "present";
- `mappages` returns -1 as a `u32` that is then compared with `< 0`;
- `popcli` enables interrupts however many locks are held; `holding` does not ask which CPU holds;
- `read_eflags` returns `edi`, pushed by `pushal`, and not the flags: it decides only about a message;
- `ide_print_error` looks the channel up in `ide_devices`, which nobody fills: it reads the error register
  of the primary channel for every drive;
- whether `!BAR` in `drivers/ide.c:204-207` sees the address before or after the mask is undefined, and matters for
  a BAR of 1 to 3, which a drive with native ports at 0 does not have;
- `sleep` returns early when `tick + ticks` wraps.

## 7. What is not modelled

- `set_tss` and `set_kernel_stack` (no caller), and the task-state segment, which is not loaded.
- The multiboot header, and the stubs of `load.S`, which are those of `boot.S`.
- Interrupts of the IDE drives: no handler exists, and Kernel has such a line in line 1.
- `system.c`: what `memset` and `memcmp` do is part of the actions that call them.
- Colours on the console, and the wording of messages other than those of section 2.
- `apm.c`, `cpu.c`, `regs.c`, `bioscall.S`, `devices/`, `main.c`, `printf.c`, `printk.c`: not among the objects the
  Makefile links, not called by anything that is, and not a program as they stand: they include headers and
  call functions that the repository does not have (`printk.c` itself does not compile), so that
  there is no behaviour to be faithful to. Their headers (`edd.h`, `bootparam.h`, `apm_bios.h`) go with them.
- Memory that is not coherent: loads and stores happen in program order, one at a time, as
  x86 lets a lock with `xchg` assume.

- Where a wild access of `rtc_print_struct` or `paging_install` goes when it does not fault: it depends on the build and on
  what the stack held before.

## 8. Plan

Order of the work: the allocator and its lock first, as every later part of a
kernel stands on them; then the interrupt path, which is the concurrency
the kernel has today; then the parts one flow runs through.

Done: every component that is part of a program the repository can build, and the IDE driver besides, has its
module, and every safety property its proof. What is left is depth:

1. KMem with the steps of SpinLock in place of its atomic `Acquire` and `Release`, and interrupts, refining KMem.
2. Exceptions of the thread in the middle of a message, with the screen of Terminal under both.
