# Grenouille: a verification project

Grenouille is a small x86 kernel in the line of xv6 and ucore: a boot sector
loads an ELF file, the kernel switches paging on, sets up a console (keyboard,
serial port, text display) and stops; an interrupt subsystem is written but not
started yet. The modules in this directory are TLA+ models of that code, checked
by TLC on small instances and, where theorems are listed, proved by TLAPS for
every value of the constants. Paths below are relative to `src/`.

## The system

| Part | Source | State it keeps | Operations |
|---|---|---|---|
| boot sector | `boot/boot.S` | CPU mode | `start`, `protectmode`, `spin` |
| boot loader | `boot/bootmain.c` | memory, the drive's registers | `waitdisk`, `readsect`, `read_elf_header`, `bootmain` |
| entry | `000entry.S`, `100kinit.c` | CR3, CR0, stack | `entry`, `kernel_init` |
| console input | `104console.c` | ring buffer `cons`, `serial_exists` | `cons_init`, `cons_intr`, `serial_intr`, `kbd_intr`, `cons_getc`; `getchar` in `stdio.c` |
| keyboard decoding | `104console.c` | `shift` | `kbd_proc_data` |
| text display | `104console.c` | video memory, 6845, `crt_pos` | `cga_init`, `cga_putc` |
| printer, serial output | `104console.c` | none | `lpt_putc`, `serial_putc`, `cons_putc` |
| interrupt controllers | `106picirq.c` | `irq_mask`, `did_init`, two 8259As | `pic_setmask`, `pic_enable`, `pic_init` |
| clock | `105clock.c` | `ticks` | `clock_init` |
| descriptor table | `103idt.c` | `idt` | `idt_init` |
| traps | `102trapentry.S`, `101trap.c`, `tools/vector.py` | frames on the stack | `vector<i>`, `__alltraps`, `trap_dispatch` |
| formatted output | `printfmt.c`, `stdio.c` | the settings of a directive, `sprintbuf` | `vprintfmt`, `printnum`, `vsnprintf`, `vcprintf`, `cputs` |
| strings and memory | `string.c`, `include/002x86.h` | none | `memmove`, `strcpy`, `strncpy`, `strtol`, ... |
| line input | `readline.c` | `buf` | `readline`; not linked into the kernel |
| memory manager | `200pmm.c` | | a sketch that is not compiled |

How they interact:

- `boot.S` turns interrupts off (`cli`) and calls `bootmain`, which copies the
  kernel's segments from the disk to memory and jumps to `entry`; that switches
  paging on and jumps to `kernel_init`.
- `kernel_init` calls `cons_init`, which sets up display, serial port and keyboard
  and calls `pic_enable` for the devices, before anybody called `pic_init`.
- `cons_getc` polls both devices through `cons_intr` into the ring buffer and takes
  one character out; `getchar` calls it until it gets one.
- Once interrupts are on, `trap_dispatch` is to call `cons_getc` for the keyboard
  and the serial line, and count timer ticks. In this version nobody calls `sti`,
  `idt_init`, `pic_init`, `clock_init`, `readline`, `cons_getc` or `getchar`:
  `kernel_init` ends in `while (1)`. `Console` calls `cons_getc` and `getchar` as
  `readline` would, with interrupts off.
- `vprintfmt` gives its characters one by one to `cputch` or `sprintputch`; `cputch`,
  `cputchar` and `readline` end in `cons_putc`, which sends a character to the printer,
  the display and the serial line.
- The display scrolls with `memmove`, `trap_dispatch` moves a frame with it, and
  `vprintfmt` measures strings with `strnlen`.

What is hard here: bytes arrive from two devices between any two steps of a poll;
key sequences of several bytes are taken one call at a time; a driver's enable
request precedes the controller's initialisation; a 16-bit mask is written in two
halves and the initialisation words of a chip share one port; the display keeps
one position in two places; a machine restarts in the middle of a poll; a drive
reads whole sectors where segments begin anywhere; the areas of a `memmove`
overlap while it copies by words; a trap returns through a frame that its handler
put in the place of the one that was pushed; a directive's width and precision pass
through one variable, and an unknown directive is read twice; a line is edited on
a display that wraps and scrolls under it. `PROJECT.json` lists the hazards line by
line.

## Modules

| Module | Models | Properties |
|---|---|---|
| `InputQueue` | abstract: the queue of characters the console promises; only the restart after a reboot, and the overrun, empty it | |
| `Keyboard` | `kbd_proc_data` and its tables as functions of the byte and of `shift` | |
| `Typing` (extends `Keyboard`) | a typist, the bytes on the wire, the driver | flags, characters and the reboot chord agree with the keys |
| `Pic` | `106picirq.c`, one `outb` at a time, with both 8259As | exactly the enabled lines are open; the chips take all their words |
| `Console` (extends `Pic`, `Keyboard`) | `cons_init`, the polls, the ring buffer, `cons_getc`, `getchar`, the reboot | refines `InputQueue`; calls return; the lines match the devices |
| `Terminal` | abstract: a screen of rows and columns, and what each character does to it | |
| `Cga` | `cga_init`, `cga_putc` | refines `Terminal`; the cursor follows |
| `Boot` | `bootmain.c` with the drive | segments loaded, nothing else written, the headers kept, the loading ends |
| `StringCalls` | abstract: the functions of `string.c` as its comments state them, each in one step when it returns | |
| `StringOps` (extends `StringCalls`) | `memmove`, `memcpy`, `memset`, `strcpy`, `strcmp` in the assembly of `002x86.h`, one repetition of a string instruction at a time | refines `StringCalls`; the direction flag |
| `StringLoops` (extends `StringOps`) | `strlen`, `strnlen`, `strncpy`, `strncmp`, `strchr`, `strfind`, `memcmp`, one turn of their loop at a time | refines `StringCalls` |
| `Numbers` | `do_div`, `printnum` and `strtol` as functions; numbers of one word and of two | |
| `FormatCalls` (extends `Numbers`) | abstract: the text that a format's directives stand for, what a buffer gets of it, the number that a text stands for | |
| `Format` (extends `FormatCalls`) | `vprintfmt`, one action per case of its switch, under `vsnprintf` and `vcprintf`; `cputs`, `strtol` | refines `FormatCalls`; the buffer's end; what was printed is read back; calls return |
| `LineEditor` | abstract: a line of limited length, edited with the backspace | |
| `Readline` (extends `Cga`) | `readline` on `cons_putc`, with a terminal on the serial line | refines `LineEditor`; display and terminal show the line |
| `TrapDefs` | trap numbers, selectors and flags of `200trap.h` and `102mmu.h` | |
| `Interrupted` | abstract: what a trap is to the program that it interrupts | |
| `Trap` (extends `TrapDefs`) | gates, vectors, `__alltraps`, `trap_dispatch`, `__trapret`, over a memory of words | refines `Interrupted`; the frame is built right; privilege agrees with the mode |
| `MC*` | the constants of the TLC runs | |
| `*_proofs` | the theorems | |

An action has the name of the C function it stands for; a function with a loop is
one action per turn and one for the end (`serial_intr`, `serial_intr_ends`), since
the devices move between the turns. State variables have their C names. Devices
(8259A, 6845, UART receive register, keyboard controller, IDE drive, keyboard) are
modelled only as far as the code uses them, and so is the typist.

Data are abstracted: a byte of a control register and a mask are the sets of
their one bits; characters and scan codes are numbers; a display cell is a
character and an attribute; a byte of memory after booting is named by the place
on the disk it came from; of a comparison the value is its sign; a format is its
directives, spelled out for `vprintfmt` to read, and an error message is one
character. Wording, timing loops and line speed are left out.

Definitions marked `Faulty:` are never part of a specification. Each is a plausible slip
in the definition that follows it (a cursor that wraps one slot late, a forgotten
initialisation word), and a property of a run fails when it takes that
definition's place: they document what each property can detect.

## Runs

| Run | Result | Shows |
|---|---|---|
| `pic` | holds | `ExactlyEnabled`, `ChipsProgrammed`, `EnableOnlyOpens`, `EnabledBecomesOpen` |
| `pic_special_mask` | violated | OCW3 0x68 sets special mask mode, its comment says "clear" |
| `typing` | holds | `NoStuckModifier`, `NoLostModifier`, `CapsFollows`, `RightCharacter`, `RebootOnlyByChord`, `PrefixRemembered` |
| `console` | holds | `BufferIsQueue`, `FifoWithinCapacity`, `CallReturns`, `DevicesEnabled`, type invariant |
| `console_overrun` | violated | `BufferIsFifo` fails when more bytes wait than the buffer holds |
| `cga` | holds | `ShowsTerminal`, `CursorFollows`, type invariant; of `readline`, `LineEdited`, `LineShown`, `SerialShown` |
| `boot` | holds | `SegmentsLoaded`, `OnlySegmentsWritten`, `HeaderKept`, `Boots`, type invariant |
| `boot_bss` | violated | `BssZeroed`: the .bss is filled from the file |
| `string_ops` | holds | `KeepsPromise`, type invariant with the direction flag |
| `format` | holds | `MeansWhatItSays`, `NumbersReadBack`, `FormatReturns`, type invariant with the buffer's end |
| `format_left` | violated | `-` before a number pads on the left, its comment says "on the right" |
| `trap` | holds | `ProgramGoesOn`, `FrameBuilt`, `PrivilegeAgrees`, type invariant |

What the four violations say of the program:

- **Special mask mode.** `106picirq.c:82` writes 0x68 with the comment "clear
  specific mask"; by the legend above it (and the 8259A) the bits say "set". In
  special mask mode a masked line no longer blocks lower ones, which does not
  matter as long as automatic EOI leaves no line in service.
- **Overrun.** `cons_intr` does not compare the cursors. When CONSBUFSIZE characters
  wait, the buffer looks empty and all are lost, where the comment of `cons_getc`
  promises the next one. `BufferIsQueue` states exactly what happens then.
- **.bss.** `bootmain` reads `p_memsz` bytes from the file, of which only `p_filesz`
  are the segment's. In the checked-in image the rest is debug information, so
  `serial_exists`, `did_init`, `shift`, `cons.rpos` and `cons.wpos` start with garbage when
  the boot sector loads the kernel (a Multiboot loader clears them). `Pic` lets
  `did_init` start with either value, and its properties hold for both. `Console`
  assumes zeroed statics: with a cursor out of range nothing holds.
- **`-` before a number.** `printfmt.c:139` says "flag to pad on the right". `printnum`
  takes the flag for the character to pad with and puts it on the left: `%-4d` of 5 is
  `---5` (only strings are padded on the right). `FormatCalls` states what the comment says.

`FormatCalls` states two things as the comments have them and not the code; `AsDocumented` names
the calls for which the two agree, and `MeansWhatItSays` is checked and proved of these:

- `-`, as above, and on a string whose `-` is followed by a 0, which the code pads on the left.
- `strtol` in base 16 has the prefix `0x` or `0X` by `string.c:199`, the code `0x` only: it reads the
  0 and stops at the `X`.

Modelled as it is, and stated so by the abstract modules, where a comment of the
code suggests something else:

- A sign and `0x` are printed before the padding. A zero after the point is the flag
  0 and no precision (`%.0s` prints the whole string).
- In `strtol`, `0x` without digits ends behind the prefix; a value that does not fit wraps.
- `strchr(s, 0)` is NULL and not the string's end.
- `%e` of the least `int` prints `error` and that number: its negative is itself,
  and times four it is a multiple of 2^32, so that the table's NULL is met.
- `ctlmap` has KEY_HOME at 0x97, where the other maps have 0xC7: Ctrl-Home gives
  no character.

Bounds, and why they are enough:

- `pic`: the timer, keyboard and COM1 lines and one of the slave's, in every order
  around `pic_init`; three masks left by the BIOS per chip. Nothing in the state is
  unbounded.
- `typing`: eleven keys: both keys of a modifier, prefixed keys, the keypad twin
  of a prefixed key, Print Screen with its fake shift, Pause. `MaxHeld = 3` admits
  the reboot chord and a pair of Shift keys with a third key; `Backlog = 1` lets the
  driver fall behind into the middle of a sequence while the next begins. A
  Backlog of 2 was checked too and adds only states.
- `console`: `CONSBUFSIZE = 3` holds two characters; cursors wrap and overrun within a
  few steps, and a larger buffer adds only slots (the theorems cover every size).
  `Burst = 3` bounds the bytes waiting anywhere, one more than the buffer can hold, so
  that it overruns; `FifoWithinCapacity` speaks of the steps from states in which no more
  are outstanding than it can hold. The bytes are the interesting ones: DEL, and the
  codes of the reboot chord.
- `cga`: 3 rows by 2 columns and cursor registers of four values, so that positions
  need both registers; every cursor position at the start; both adapters. Lines of
  up to four characters, so that a line wraps twice and scrolls, is full, and is erased
  across a row's end; a newline, a carriage return, a blank, a control character that
  is discarded. A run either prints anything or reads lines: a kernel that reads lines
  prints only its prompts, which keeps the display under the line `readline`'s own.
- `boot`: sectors of 2 bytes; sector numbers of four registers of two values, of which the disk's
  sectors use all; segments of every alignment and of lengths 0 to 5 with
  0 to 2 bytes of .bss; two that share a sector in either order; two that end and begin where the header does; a sector that cannot
  be read; a file with a wrong magic number. `CHECK_DEADLOCK FALSE` since booting ends in
  the kernel or in `spin`.
- `string_ops`: seven bytes of memory hold a word and three bytes; `memmove` between
  all places 0 to 3, of every length that fits; two calls in a row, so that what the
  first leaves behind (the direction flag, registers) meets the second; strings that
  agree, differ in a byte above 127, or end apart. `CHECK_DEADLOCK FALSE` since the
  number of calls is bounded. The loops in C are called at and beyond a string's end, and
  with limits of zero, below, at and above its length.
- `format`: words of six bits, so that numbers of one word and of two take several
  figures and turn negative; a buffer of 0, 1, 2, 5, 7 and 15 bytes for texts of
  that order; one directive of every conversion with every flag, width and precision
  that can matter and for which the code does as the comments say (`format_left` runs `-` on numbers), and three in a row of which the first leaves every setting
  behind; formats that end within a directive. `CHECK_DEADLOCK FALSE` since the one call
  ends.
- `trap`: three traps in a row, of which the first two may switch to user mode and back
  and the third meets what they left; exceptions with an error code (17, and 13 from a
  gate that is closed to the user) and without (3); the timer and the keyboard; a program of two instructions that
  changes its registers and pushes one word, so that a wrong `eip`, `esp` or stack word
  shows. The stacks are as deep as a frame needs. Four traps were checked too.

Fairness:

- `Pic`: weak fairness of `outb`: a call that was made runs on, nothing preempts it.
- `Console`: weak fairness of the kernel as a whole, one thread that never blocks; and
  strong fairness of the three "device is empty" exits, since a poll takes
  microseconds and the devices need a millisecond for a byte: they are found empty
  again and again. A bus that stays full may overrun the buffer meanwhile, and `CallReturns` lets
  `getchar` wait on when that took its character. Under weak fairness alone the drain loop of `cons_intr` could
  go on for ever, as nothing in the code bounds it.
- `Format`: weak fairness of the call, which runs on by itself.
- `Boot`: weak fairness of the loader, and of the drive, which answers every command, be it with an error; `waitdisk` has no time limit.

## Theorems

Console input, keyboard and interrupt controllers:

- `Console_proofs`: `TypeCorrect` (`Spec => []TypeOK`) for every buffer size of two or more
  and every set of bytes. The type invariant is inductive: both cursors are in
  range and `After` keeps them there, the buffer's slots hold bytes since
  `kbd_proc_data` returns one (`KeyIsByte`), `pc` says where the kernel is.
  `BufferImplementsQueue` (`Spec => BufferIsQueue`): the abstract queue is the
  sequence `Pending` of the slots from `rpos` to `wpos`, modulo the size. Storing
  a character appends to it, unless the cursors meet, when it becomes empty;
  taking one takes its head; every other step leaves it alone.
  `NoLossInAStep` (`Spec => FifoWithinCapacity`): whatever the devices bring, a step loses nothing
  while fewer bytes are outstanding than the buffer has slots. `NoLossWithinCapacity`: with `Burst <= CONSBUFSIZE - 1` the invariant `Bounded`
  (what waits in buffer and devices together is less than the size) is inductive with
  `TypeOK`, so the overrun is never enabled, and `BufferIsFifo` follows.
  In both abstract queues only a restart after a reboot was asked for empties the queue.
- Also there, of the controllers: `PicTyped`, `EnabledExactly`, `Initialised` (`PicSpec => []PicTypeOK`,
  `[]ExactlyEnabled`, `[]ChipsProgrammed`) and `NeverCloses` (`PicSpec => EnableOnlyOpens`), for every set
  of drivers, all masks that the BIOS may leave, and either initial value of `did_init`. None is
  inductive: `PicInv` says that `irq_mask` is always the initial mask without the enabled
  lines, how far the chips are after the n-th of `pic_init`'s sixteen writes
  (`Programming`), and how far the masks in the chips may lag behind `irq_mask` while one
  is written (`Opened`). `ChipsProceed` is the argument, one case for each write.
- `DevicesStayEnabled` (`Spec => []DevicesEnabled`, in `Console_proofs`): `DevicesInv` says which lines
  each step of `cons_init` and of `pic_init` leaves open, with `serial_exists` as it was found;
  a reboot starts it over.
- `Typing_proofs`: facts about `kbd_proc_data` for all bytes and flags (`KbdProcDataType`,
  `PrefixFlag`, `ReleaseClears`), and `TypingTypeCorrect`, `ModifiersAgree` (`[]NoStuckModifier` and `[]NoLostModifier`), `CapsLockFollows`,
  `CharacterIsRight`, `RebootIsMeant`, `PrefixIsRemembered`, for every set of the known keys, any number
  held and any backlog. All speak of what the driver has understood, while the typist is
  ahead of it. `TypingInv` therefore says that there is a run of states of the flags over the bytes on
  the wire, from the driver's flags now to those that fit the keys held now: a key
  event adds its bytes at the end of the run, a call of the driver takes the first. The
  keyboard's tables enter by lemmas on each key's codes, proved by going through the tables.

Display, line input and strings:

- `Readline_proofs`: `PositionOnScreen` (`Spec => []TypeOK`) and `CursorIsThere`
  (`Spec => []CursorFollows`) for a screen of any size that two registers can
  address. `TypeOK` alone is not inductive: the invariant `IInv` adds that the
  cursor's registers hold a position of the screen before `cga_init` reads them, and
  that `addr_6845` and `crt_buf` name the adapter that is there. `IndexIsTerminal`
  (`Spec => ShowsTerminal`): one index stands for row and column. The lemmas say which row and column
  an index, the next one and the one a row further are (`Lands`), and that writing a cell and
  scrolling by `memmove` are the terminal's (`PutIsPut`).
- Of `readline` there: `LineAlwaysShown` (`LineSpec => []LineShown`) for a screen of any size
  and any buffer that is no longer than the screen without a row. The invariant
  `LineInv` is `LineShown` with `IInv` and types. `PutShown` is
  the argument: a character printed stands before the new position and what was
  before it still is, if the display had one more row than that, also when it
  scrolled. `LinesAreDisplayed` (`LineSpec => Spec`): so all that is proved of `Cga` holds
  under `readline`. `LineIsEdited` (`LineSpec => LineEdited`): the abstract line is the buffer's first
  `i` characters; `EditInv` adds to `LineInv` that none of them is the Nul that will end them,
  so the line returned is the line edited. `SerialLineAgrees` (`LineSpec => []SerialShown`): on the
  serial line the buffer's characters are followed by blanks that a backspace left (`RowFollows`),
  a character takes the first blank's place (`RowGrows`) and a backspace, blank, backspace gives one more
  (`RowShrinks`).
- `StringLoops_proofs`: `StringsTyped` (`OpsSpec => []TypeOK`) and `StringsKeepPromise`
  (`OpsSpec => KeepsPromise`), for every memory, every set of calls and any number of
  them. Memory as the promise sees it (`Seen`) is memory as it was before the call, until
  the call returns. The invariant `IInv` says of each repeated instruction what
  is done already: the upward copy has done the destination's first `n - Remaining`
  bytes, the downward copy its last ones, and what is still to be read was not
  written, since the destination is below the source or apart from it (or above,
  downwards). `CopyMore` and `CopyDown` are that argument. `SignDecided` shows
  that the first difference found is the only one.
  `LoopsTyped` (`LoopsSpec => []TypeOK`) and `AllFunctionsKeepPromise`
  (`LoopsSpec => KeepsPromise`) are the same for the seven loops in C together with the
  assembly. `LoopInv` says what the loop has left behind it: bytes counted that are
  no Nul, bytes passed that are not looked for, bytes compared that agree, the
  destination's first bytes copied with the source pointer at its Nul or right behind the copy.
  A pointer therefore stays inside memory: the string's Nul, or the length, is still ahead.

Formatted output:

- `FormatCalls_proofs`, first of the arithmetic: `DoDivDivides` and `DoDivFits`: for every word size, `do_div` gives
  quotient and remainder of its number, and the processor's second division never
  overflows. With q and r from the high word, the number is `(q * base) * Word +
  (r * Word + low)`, and `r * Word + low < base * Word` bounds the second quotient;
  `DivisionUnique` says that there is only one such pair.
- There also what the recursion and the loops compute for every input: `PrintnumPrints`
  (padding and the number's numeral), `StrtolReads` (figures behind blanks and a sign,
  as the number they stand for, modulo what a long holds), `PrintedIsRead` (the second undoes
  the first, in the bases 2 to 16 that `printnum` has figures for, with either padding and with a sign) and `PointerIsRead` (the same of `%p`). The
  induction theorems of the
  library take an operator as a parameter, which no prover can be given; but that `<` on the naturals is
  well founded is stated of sets, and gives least elements (`LeastElement`), induction over a
  set (`InductionOver`), and that a function defined by recursion exists (`RecursionExists`, `LoopExists`),
  so that its defining equation may be used (`PrintnumIs`, `SkipIs`, `DigitsIs`). The number a text
  stands for is stated there by the values gone through when it is read (`Reads`), which needs no
  power. `WrapStep` is why a wrapped value may be wrapped again.
- Then of the texts: `FormatCalls` states a numeral by powers, a string by what the precision keeps, a text
  by the sum of its figures, each weighed; the code has loops. `NumeralIs` says that the two descriptions of a
  numeral are one, `NumbersPrinted`, `StringsPrinted` and `ErrorsPrinted` that a directive's text is what the case
  of the switch prints (for a number, unless `-` is its padding), `StrtolMeans` that `strtol` does what its comment
  states for every base and every text, in base 16 without a `0X` in it, `NumbersAreRead` that it reads a directive's
  text as the directive's number. `DirectivePrinted` and `Printout` are what the code prints for any legal call,
  `DirectiveText` and `Text` what the comments state; `PrintoutIsText` has them equal for the calls that `AsDocumented` admits.
- Then of places: format, arguments and text of a call are concatenations, and `Layout` gives the
  offset at which each piece of one begins (`LayoutIs`). `CallLies` puts the three side by side: the k-th directive is at
  `Place`, its arguments begin behind those of the directives before it, its text is at `Said`.
- `Format_proofs`: `FormatTypeCorrect` (`FormatSpec => []TypeOK`), `FormatMeans` (`FormatSpec /\ AsDocumented(call) => MeansWhatItSays`, the calls for which the code does as the comments say) and
  `FormatReadsBack` (`FormatSpec => []NumbersReadBack`), for every set of legal calls, any word size that
  `WordAssumption` admits, and any number of directives. `TypeOK` alone says nothing of what is ahead in the format; the
  invariant `Inv` says how far `vprintfmt` is: not begun (`Begun`), in the text between two directives (`InText`), in a
  directive's flags, width, behind its width, at its point, in its precision or its l's (`InFlags`, `InWidth`, `Wide`, `InPoint`,
  `InPrecision`, `InLongs`), or returned (`Done`). Each gives the place in the format and in the arguments, what `padc`,
  `altflag`, `width`, `precision` and `lflag` are after the settings that were read (a number half read is the numeral of its
  figures so far, `SpellsWidth`), and that console or buffer hold exactly what the directives
  before print (`Output`: the console all of it, the buffer as much as fits). There is a lemma per place and action, and
  `ConversionPrints` has one case per conversion. An unknown conversion goes back to behind its %:
  `InText` therefore admits a place some characters before the next directive, as long as these are printed as they are
  (`Plain`). A call that returns has printed all of its `Printout`, and its value is the length
  (`Outcome`); every other step is a stutter of `FormatCalls`. The instance that `MeansWhatItSays` is stated by
  has definitions of its own, which the lemmas `Same...` identify with those the rest speaks of.

Booting and traps:

- `Boot_proofs`: `BootTypeCorrect`, `KernelIsLoaded`, `NothingElseWritten`, `HeaderSurvives` (`Spec => []TypeOK`,
  `[]SegmentsLoaded`, `[]OnlySegmentsWritten`, `[]HeaderKept`) for every file that is well linked, any sector size and
  any drive. The loop invariant of `read_elf_header` and `readseg` says which sectors of the segment are in memory
  (those from the rounded-down start to the current one), that the drive holds the sector asked for,
  and that all earlier segments are there. Two segments may share a sector: it is then
  written twice, with the same bytes, because `WellLinked` says that addresses and offsets differ by
  the same amount there, as `kernel.ld` has it.
- `Trap_proofs`: `TrapTypeCorrect`, `PrivilegeIsRight`, `FrameIsBuilt` (`Spec => []TypeOK`, `[]PrivilegeAgrees`, `[]FrameBuilt`)
  and `ProgramIsResumed` (`Spec => ProgramGoesOn`), for every program, every stack and any number of traps.
  `TrapInv` says for each stage what is on the stack already: the words that the gate pushed, error code and
  number from the vector, the selectors and registers of `__alltraps`; and, once the handler has returned, that
  the frame which is then popped, the old one or another in its place, leads to the context that the program
  should have (`Leads`), its stack being what it was.

The proofs assume the named `ASSUME`s of the modules only (`PicAssumption`,
`ConsoleAssumption`, `TypingAssumption`, `CgaAssumption`, `StringAssumption`, `MaxCallsAssumption`, `WordAssumption`, `CallsAssumption`,
`ReadlineAssumption`, `BootAssumption`, `TrapAssumption`), which TLC evaluates on each run.

Only model-checked: everything about liveness (`CallReturns`, `EnabledBecomesOpen`,
`Boots`, `FormatReturns`), which is out of the prover's reach. Every invariant, action property and refinement that a
passing run checks is also proved.

## Not modelled, and why

- `boot.S`, `000entry.S`, `kernel_init`: straight lines without choices.
- `lpt_putc`'s port: it gets the bytes that the serial line gets, and nothing reads
  them back. The waits of both are bounded by 12800 delays; `Readline` takes the device
  to be ready by then.
- `clock_init`'s three writes to the 8253, which nobody calls; `ticks` is in `Trap`.
- `snprintf`, `cprintf` and `printfmt`, which wrap an argument list and call the
  functions that are modelled.
- How long `waitdisk` waits, and what the error bit of the drive's status would tell: it looks
  at neither, so a drive that never answers hangs the boot and a failed sector loads garbage. `Boot`
  has the failed sector, but no property covers either: `Boots` assumes that the drive answers, and
  `SegmentsLoaded` speaks of boots in which no sector failed.
- A handler that interrupts a poll, the display or a copy. Its re-entry would be a
  hazard (`cons_intr` between its store and its wrap test, the 6845's two ports, the
  direction flag that `__alltraps` does not clear), but this version never enables
  interrupts: no execution of it shows them, and how a later one would guard against
  them is not in the source.
- `200pmm.c`, `201vm.c`, `300proc.c`: sketches or empty files.
- The Makefile, `sign.py` and `kernel.ld` run on the host. What they guarantee of the
  ELF file is `WellLinked` in `Boot`.
- `Trap` shows what the interrupt subsystem does once it is started, which this version
  does not do: it takes for granted a GDT with the user segments that `102mmu.h` names
  and a TSS whose `esp0` is a stack of its own (`boot.S` has neither, `202gdt.h` is
  empty), and `sti` and `lidt` done. The eight registers of `pushal` are one word; the
  16-bit selectors fill their words. `print_trapframe` leaves no trace. Vector 9 is
  left out: `vector.py:9` has it among those for which the processor pushes an error
  code, which it does not; no processor since the 486 raises it.

## Plan

All components with a state of their own are modelled, and what is checked of them, liveness aside, is proved. What
is left:

- When a version enables interrupts: the foreground in `getchar` with a handler at any
  instruction boundary, one character per interrupt (`101trap.c:171`), the key pressed
  between `kbd_init` and `pic_init`, the direction flag in a handler.
