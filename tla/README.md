# nucleo-template: models and proofs

nucleo-template is a project template for STM32 Nucleo boards: shell scripts that make
and update projects, a CMake build that compiles and flashes them, a docker wrapper, and a
copy of the mbed library (headers and prebuilt objects). This directory holds TLA+ models
of its scripts, of its build and upload, and of the concurrent code in the mbed headers,
with their TLC configurations and proofs checked by TLAPS.

## 1. Inventory

| Component | State | Operations | Interacts with |
|---|---|---|---|
| `tools/clone`, `tools/update`, `tools/full-update` | the files of each project, the template's files; the list still to do | make a directory, copy in a fixed order, remove `mbed/`, stop at an unknown name | each other, through the files they leave; the user, who edits and kills; `git pull` |
| `CMakeLists.txt`, `targets.cmake`, `size_info`, `tools/dmake` | the generated build system with what it cached, ELF, BIN, mounts, flash of the boards | configure, compile, convert, mount / copy / sync / umount | the scripts (which install them), the user (`NUCLEO`, sources, boards) |
| `mbed/platform/CircularBuffer.h` | head, tail, full, pool | push, pop, empty, full, size, reset | main and the handlers; SPI's transaction queue |
| `mbed/platform/DeepSleepLock.h`, `mbed/drivers/PwmOut.h`, `mbed/drivers/Ticker.h` | a count, a flag, a function; the sleep manager's counter | lock, unlock, construct, destroy, write, attach, detach | main and the handlers; the idle processor |
| `mbed/drivers/MbedCRC.h` | a partial remainder | start, partial, stop | – |
| `mbed/platform/Callback.h`, held by `mbed/drivers/Ticker.h` | three words with a function object, `_ops` | construct, copy, assign, destroy, call, attach | main and the Ticker's handler |
| `mbed/platform/SingletonPtr.h`, `mbed/drivers/AnalogIn.h` | a pointer and a mutex; the converter | get, lock, construct, read | threads of an RTOS |
| `mbed/drivers/SPI.h`, `mbed/platform/Transaction.h` | the active transfer and the queue | transfer, handler, abort | CircularBuffer, deep sleep |
| `mbed/platform/CThunk.h`, `CallChain.h` | a member pointer; a list of Callbacks | attach, call | handlers |
| `src/main.cpp` | none | blink and print | – |
| `tools/gen-jlink`, `nucleo-gdb`, `gdb-client`, `gdbinit`, `openocd.cfg` | `/tmp/script.jlink` | start a debugger | – |
| `Dockerfile`, `.targets.mk`, prebuilt objects, vendor headers | – | – | – |

What is hard in it:

* **The scripts fail silently.** No `cp` or `rm` is checked, and a script may be killed
  between or inside two commands. `cp -T` *merges* into a directory that exists, so what a
  run leaves depends on what earlier runs left.
* **The build caches.** CMake decides once whether the board's disk exists; it lists
  the sources then, and `make` alone does not look for new ones; `make` uses a generated
  build system that the user's edit may have made stale; `dmake` loses the
  status; a failed upload leaves a disk mounted.
* **The build and the scripts meet.** `update` merges into `mbed/`, the link takes every
  object file it lists, the list is made when CMake runs, and `-lmbed` is no prerequisite.
* **The headers are preempted.** main and the interrupt handlers share buffers and counters
  on one core; a handler may run between any two instructions outside a critical section,
  and between a counter and the call it decides.

What makes each component correct: a run of a script in which nothing failed repairs a
project from any state, and user files survive (ProjectTools); a board never runs another
board's image, a successful upload delivers sources that are not older than its start, all of them
by `dmake` and the listed ones by `make`, and `dmake` says only of an absent board that it is
(BuildUpload); the
buffer is a bounded queue with atomic calls (CircularBuffer); deep sleep is off exactly
while somebody needs it off (DeepSleep); after a script and a make without a failure the
image is made of the script's files and of no others (ProjectBuild); a checksum is the
remainder of the message (MbedCRC); a function object is destroyed once, and read only while
it lives but for one deprecated call, and the handler always calls a whole function
(Callback); the shared mutex is made once, before its use,
and a read returns its own pin (AnalogIn). `PROJECT.json` lists the hazards line by line.

## 2. Modules

### ProjectTools (`MCProjectTools`, `ProjectToolsProofs`)

The three scripts, run one after the other from the template's directory. A project is a
place, `../name` or `./name`, and `tree[place][file]` says which template version the file
comes from, or that it is absent, cut short (`Torn`) or the user's. Actions are commands:

| Action | Code |
|---|---|
| `CloneStart`, `CloneRefused`, `CloneMkdirFails` | clone 8-14 |
| `UpdateStart`, `FullUpdateDeclined` | update 8-20, full-update 14-34 |
| `NextProject`, `ProjectNotFound`, `ListDone` | head of the loop: update 22-25, 32-33; full-update 36-39, 49 |
| `RemoveMbed` | full-update 41 |
| `Copy` | one `cp` of `Plan(cmd)`: clone 16-25, update 27-29, full-update 43-47 |
| `ProjectDone` | end of the body; clone 27-29 |
| `Kill`, `Prompt`, `GitPull`, `UserEdits` | the environment |

`Effect` is the shape of every command: it works, or it fails, has done part of its work,
and the script goes on. Two files stand for `mbed/`: one in every version, one dropped by
the second. Abstracted: file contents to their version; names without slashes or blanks
(`clone` also takes a path); `docker pull` to the version it fetched. A script's answers to
prompts are the `pull` of `UpdateStart` and `FullUpdateDeclined`.

### CircularBuffer and Fifo (`MCCircularBuffer`, `CircularBufferProofs`)

One action per C++ statement of `push`, `pop`, `empty`, `full`, `size`, `reset`; even
`_head++` and `_head %= BufferSize` are apart. A context is main (0) or an interrupt
priority; `Preempted(c)` says that a higher one is in a call. A call starts only with
interrupts on (`nest = 0`); once started it runs until it ends or, outside sections, a
higher context starts one. Sections nest, since `push` calls `full()` and `pop` `empty()`.
Counters wrap at `CounterRange`. `committed` is a history variable: the elements when
interrupts were last on. `Fifo` is the promise: a queue of at most `Capacity` elements,
each call one step. `ActsAsFifo` is the refinement, by `INSTANCE Fifo WITH`
`queue <- committed` and the answers of finished calls.

External: the critical section functions and the processor's preemption rule.

### BuildUpload (`MCBuildUpload`, `BuildUploadProofs`)

One run at a time, of `make` by hand or of `dmake`, with goal `all` or `upload`. `pc` walks
`cmake` (dmake only), `check` (make's own check of the build system), `compile`,
`objcopy`, `upload`, `cp`, `sync`, `umount`, `end`. `cfg` is the generated build system: its
target, the list of sources of `file(GLOB_RECURSE src ...)` and whether
`if(EXISTS ${DEVICE})` was true, both as they were when CMake ran (`Generate`). `mnt` is the stack
of disks on `/mnt`, on the host and in the container, whose mounts vanish with it. At every
moment the user may edit sources, add and remove some, change `NUCLEO`, plug a board, or unplug one that is not mounted.
`Configurable` and `IncludeDir` are read off `targets.cmake`, `PinNamesDir` off `mbed/`.

`Compile` makes the image of the *listed* sources at their present revision: a listed one that
is gone stops make, one that was added is left out until CMake runs again, which `make` does
by itself only for a newer `CMakeLists.txt` or `targets.cmake`. `had` and `lacked` are
histories of a run, the lists of sources there have been and the boards that were absent at
some time of it; `Forget` drops them when it ends.

Abstracted: the sources to a revision and a set of files; a compilation reads them at one moment (make's
comparison of times within one compilation is not modelled); a board's flash to the image in
it. `size_info` always exits 0 for a target that configures, so it is part of `GenerateBin`.

### ProjectBuild (`MCProjectBuild`, `ProjectBuildProofs`)

The composition of ProjectTools with the build of one project. `LifeNext` is a step of
ProjectTools, with what it means to make (`ToolStep`), or a step of make, run between two
scripts in the same shell: `MakeCheck` (make's check of the build system, or the first
cmake, which lists the object files of `mbed/`), `UpToDate`, `Link`, `MakeFails`. `tree`
stays ProjectTools'; `glob` is the list in the generated build system, `elf[f]` the content
of `f` the image was linked from, `regen` and `stale` say which files are newer, as make
compares times: a `cp` gives every file a new time, changed or not (`Rewrites`), while
`-lmbed` is no prerequisite of the image, and a source that is added is none before CMake
lists it (`Prerequisites`, of which a step may take either). `clean` and `made` are histories. A CMakeLists.txt
that an earlier clone cut short is not update's to repair (`Built`), and an image that holds
objects the template has dropped is by design after update, not after clone or full-update.

### DeepSleep (`MCDeepSleep`, `DeepSleepProofs`)

The sleep manager's counter and its clients: one `DeepSleepLock` shared by all contexts,
`PwmOut`s and `Ticker`s. `lock()` and `unlock()` are two actions each, the atomic count and
the call of the manager, with preemption in between; so are the constructor and the
destructor. PwmOut and Ticker do all they do in a critical section: one action per call.
`held` counts the calls of `lock()` that have returned; a program unlocks only what is held,
from any context (a transfer locks in main, its completion unlocks in a handler), and
destroys the lock when nobody is in a call. External: the manager (a counter, by
`mbed_power_mgmt.h`), `Ticker::detach` (prebuilt; by `attach_us` it unlocks once what
`attach_us` locked), `error()`, which stops the program. `PwmCopy` is the implicit copy
constructor, which copies the flag; `AttachNothing` attaches an empty Callback. Two
constants say how the program uses them: with `CopyWritten = TRUE`, or a ticker that locks in
`Unset`, TLC finds `NoDeepSleepWhileHeld`, `NeverBelowZero`, `DeepSleepRestored` and
`Accounted` violated, since a copy of a written PwmOut unlocks what it never locked, and an
empty `_function` makes each attach the first (Ticker.h:117-118) and detach unlock nothing.
The run and the theorems are about the programs that do neither (`ProperUse`).
Without an RTOS only main sleeps, so that deep sleep can be entered only when main is
outside any call and no handler runs: the properties are about that moment.

### MbedCRC, Polynomials, SerialCRC (`MCMbedCRC`, `MbedCRCProofs`)

A word, a byte and a polynomial over GF(2) are sets of bit positions, so that a shift out of
32 or 8 bits is an intersection (`Word`, `Byte`). `obj` holds the template parameters and
the members. Actions are `Start`, `Partial`, `LoadByte` (head of the outer loop), `DivideBit`
(inner loop, both variants), `TableByte`, `Return`, `Stop`; a program may start again at any
moment between calls, as the documentation's order allows. The tables of the prebuilt
library are external: each entry is the remainder of its byte. `SerialCRC` is the abstract
specification, the register division of the textbooks with no word width, no alignment and
no byte at once; the refinement mapping takes the byte still to be fed out of the register
(`RemainderNow`). `Definition` is an independent reference: schoolbook division of the whole
message.

### Callback and Delegates (`MCCallback`, `CallbackProofs`)

Each storage is three words and `_ops`. A function object of one to three words lives in
them; what the words do not cover keeps its old content, and a copy is made on a stack that
holds anything (`Junk`). The program's variables are constructed, copied, assigned, also to
themselves, and destroyed by main; `Attach` is the deprecated `attach()` of a Callback, which
lacks the test of `operator=` for itself (`attach()` of a function is `Destroy` and then
`Construct`). `attach_us(func)` is main's in eight statements: copy of
the parameter, critical section, destructor, move, `_ops`, exit, destruction of the
parameter. The histories `object` and `attached` say which object lives where and what the
Ticker should call; `misused` names the calls by which an object was destroyed twice, lost or read
when dead. TLC and the proof agree that there is one such call, `attach()` of a Callback to
itself, which destroys the object and then copies it; a destructor leaves the words as they
are, as it does for the functors, members and functions the model has, so that the value
survives (`ActsAsValues`). `Detach` (external, prebuilt) is one action of main or of the handler outside the
section. `HandlerCallsWhole` speaks of every moment at which the handler can interrupt main.

`Delegates` is the promise: a Callback is a value, the function it calls; copies share
nothing, and the Ticker changes its function in one step. `ActsAsValues` is the refinement,
whose mapping reads the words, `_ops` and `pc` and no history. `attach_us` takes effect at
its move: from there to the assignment of `_ops` the words in `_function` are already those
of the parameter, which the interrupts, disabled, cannot see.

### AnalogIn (`MCAnalogIn`, `AnalogInProofs`)

Threads of an RTOS (`MBED_CONF_RTOS_PRESENT`; the template itself builds without one, and
then the locks are empty and there is one context) construct and read AnalogIn objects. Each
statement of `SingletonPtr::get()` is an action, the first test outside the lock included,
and the construction and the assignment of the pointer are two. `operator->` goes through
`get()` again before `unlock`. The mutexes and the converter are external: a read selects
its pin, and the conversion gives whatever is selected when it ends.

## 3. Runs

Every bound is a CONSTANT; "MaxX" constants are bounds and nothing else.

| Run | Instance | Shows |
|---|---|---|
| `one_project` | one project, 2 versions, 2 failures, 2 edits | `CleanRunDelivers`: a run without a failure brings each project it went through to the template's version, whatever the earlier runs left. `CleanRunInv`: its inductive strengthening. `UserFilesKept` |
| `project_list` | 2 names, one also a template directory, lists up to 2, 1 failure | `AbortAllOrNothing`: a run stopped by an unknown name leaves each project finished or untouched. `ZeroMeansAllVisited` |
| `project_build` | one project, 3 files of `mbed/`, 2 versions, 2 failures | `ImageUpdated`, `NoLeftovers`, `ObjectsFound`: what make links after any sequence of scripts and builds |
| `fifo` | main and two handlers, 2 elements, `BufferSize` 2 = `CounterRange` - 1 | `QueueInv`, `SectionInv`; `ActsAsFifo`: the refinement; `InterruptsComeBack` under fairness |
| `build_upload` | 2 boards, 2 source files, 2 revisions, 2 mounts | `RightImage`; `UploadDelivers`: which sources a successful upload has put on the board; `AbsentSaidTruly`: "nucleo not found" by dmake; `NoLeakOnSuccess` |
| `deep_sleep` | main and three handlers, two PwmOuts, a Ticker, a low power Ticker, a 2-bit count | `NoDeepSleepWhileHeld`, `DeepSleepRestored`, `Accounted`, `NeverBelowZero` |
| `crc` | 11 objects of widths 7, 8, 9, 16 and 32, with a table and without; 4 bytes, messages up to 4 | `RightChecksum`: the remainder of the whole message; `DividesSerially`: the refinement of SerialCRC |
| `callback` | two variables, a function of each kind | `LifetimesRespected`, with its one exception; `HandlerCallsWhole`; `ActsAsValues`: the refinement of Delegates |
| `analog_in` | three threads, two pins | `BuiltOnce`, `UsesBuilt`, `ReadsOwnPin`; `UsesReturn` under fairness |

Why the bounds are enough. Two failures let a failed run be followed by a failed repair and
then by a clean run; a third adds no new kind of file. Two versions and a dropped file make
the difference between merging and replacing; in `project_build` the second version drops an
object, adds one and keeps the library, which are the three cases of the link. The user's
edits are exercised in `one_project`. Two slots and two elements show the order, the wrap,
the drop and the full queue, and two handlers are the least in which a handler is itself
preempted; the theorems below hold for any number of slots and priorities. Two mounts let a
successful upload follow a failed one on the same `/mnt`. Two source files let one edit add
one and remove the other; their names are interchangeable, hence the symmetry. A 2-bit count overflows at the
fourth lock, with up to four contexts in the window, which is how many it takes to see that
`NeverBelowZero` holds only until the count wraps (`Quiet`): between an overflow and its
`error()` three more contexts can take the manager below zero. A message of four bytes is as long as
the widest register. Of three threads one can construct, one wait for the singleton's lock
and one use the converter.

Three runs show what the repository says and the code does not do (`findings` in
`PROJECT.json`): `update_reaches` (clone and update resolve one name differently),
`dmake_status` (a failed make, and status 0), `crc_narrow` (a width below 7). Others of that
kind, read in the code and not kept as runs: clone prints "project created" after a `cp` that
failed; `make upload` by hand succeeds without a source that was added since CMake ran, and says of a
board plugged since then that it is not found, though it was there all the time (TLC finds
both when `UploadDelivers` and `AbsentSaidTruly` ask of make what they ask of dmake);
`attach()` of a Callback to itself reads the object it has just destroyed, where
`Callback.h:279-284` calls it replaced by simple assignment (TLC finds it when
`LifetimesRespected` makes no exception); of the devices
in `src/README.md`, F746ZG has no entry in `targets.cmake` and F401CD's `PinNames.h` is in no
include directory; a Callback and its copy may compare unequal, for the copy leaves unused
words as the stack had them; copies of a PwmOut and empty Callbacks, as said under DeepSleep.

`CHECK_DEADLOCK FALSE` appears in `deep_sleep` alone: `error()` stops the program.

Fairness. `fifo`: `FairSpec` has weak fairness of the union of all contexts' steps: the
processor executes some instruction of the context that runs; no fairness is assumed between
contexts, and a handler need never be called. `analog_in`: weak fairness of each thread's own
steps, since the scheduler runs every ready thread, and strong fairness of its two
acquisitions, since the RTOS serves those who wait for a mutex in turn (external); a thread
need never start an operation. All other properties are safety properties of specifications
without fairness: a user need never run a script again.

## 4. Proofs

All theorems hold for every value of the constants that satisfies the assumptions of the
modules (the `ASSUME`s, which say no more than that sizes are numbers, that an index fits its
type, that markers are none of the values they mark, and that every version of `mbed/` has
its library and something besides), in particular for any number of
names, files, versions, failures, boards, slots, elements, threads, functions and interrupt
priorities.

`ProjectToolsProofs`
* `TypeCorrect`. The conjuncts `pc = "remove" => cmd = "full-update"` and
  `pc \in {"remove", "copy"} => place \in exists` are what makes it inductive.
* `CleanRunKept` and `CleanRunRepairs`: `Spec => []CleanRunInv`, and from it
  `Spec => []CleanRunDelivers`. The property speaks of the end of a run only; `CleanRunInv`
  carries it through: a copy starts with `mbed/` gone (or to be merged
  into), copies already made are delivered and no later copy takes them back, and a project
  the run is done with is touched again only when it is named twice, and then copied again.
* `UserFilesSafe`: `Spec => UserFilesKept`. Its invariant `UserFilesInv` says that clone
  works only in a directory that held nothing of the user's.

`CircularBufferProofs` (inductive invariant `BufferInv`: `TypeOK`, `SectionInv`,
`QueueInv`, `TestInv`)
* `TypeCorrect`, `SectionsExclude`, `QueueWellFormed`. The key lemma is that a context
  inside a section excludes all others from theirs, because `nest` equals its depth and a
  call starts only at `nest = 0`. `TestInv` is needed because `push` acts on what `full()`
  returned: after `drop` there is room only if the buffer was full when tested, and still is.

`ProjectToolsProofs` also has `AllOrNothing` and `ZeroVisitsAll`: the first needs that, while
no command has failed, what is not `done` is as it was except at the place of the copy; the
second that the names already taken from the list are those visited.

`BuildUploadProofs` (`BuildInv`: `TypeOK`, `StageInv`, `HeldInv`, `RightImage`,
`DeliveryInv`, `SeenInv`): `TypeCorrect`, `BoardsSafe`, `UploadsDeliver`, `AbsentTrue`,
`NothingLeft`. `StageInv` says
what each stage knows of `cfg`, `elf`, `bin` and of the top of the mount stack: from `cp` on,
the disk on top is that of `cfg.target`, so that the image and the disk are of one board
although `NUCLEO` may have changed since. For `UploadsDeliver`, `Made` says of an image that
its list of sources is within one the project had during the run, and is one of them by
dmake; for `AbsentTrue`, `Current` says of a build system that CMake made during the run that
its list is in `had`, and its board in `lacked` if its disk was not found. `SeenInv` puts the
two together: after dmake's first step the build system is `Current`, or still `dirty`
because CMake failed, so that the check that follows makes CMake run again or stops.

`ProjectBuildProofs`: `ImagesUpdated`, `LeavesNoObject` and `FindsObjects`. They rest on a
lemma invariant about make's own bookkeeping, `ImageFresh`: what make takes for up to date
was linked from the files listed and the headers, since every step of ProjectTools leaves a
file's content or gives it a new time. `LifeInv` joins it to `CleanRunInv` of ProjectToolsProofs. While a script without a failure copies
(`CopyingInv`), the `targets.cmake` it writes makes CMake list the objects again, and the
files of `mbed/` it writes make the image stale, or are objects that change the list, since
no version ships the library alone; `CleanInv` keeps what that gives (`BuiltSince`) until a
file is written again, so that a make that succeeds has linked the present objects.

`DeepSleepProofs` (for `ProperUse`): `Accounted` is nearly inductive; with it go the ranges
and the relation of `held` to `lockCount`. `NeverTooDeep` and `DeepSleepReturns` follow at the
moments at which main can sleep, where no call is in progress. `NeverUnderflows` adds that at
most one call of `lock()` is late (`OneLate`): while it has not returned the count is not
zero, so that no other call is a first one. The cardinality lemmas are those of
FiniteSetTheorems.

`MbedCRCProofs`: `TypeCorrect`, and `BitwiseDivides`, that the bitwise code implements
`SerialCRC` for any objects of width 7 to 32. It rests on lemmas about `Xor`, `Shift` and
intersection, membership by membership; `DataByteInv` relates the byte that the small widths
shift to the bits still to be fed.

`MbedCRCProofs` also has `ChecksumRight`: the code, bit by bit or through a table, returns
the remainder of the whole message.
* The definition divides by the recursive function `Remainder`, so the proof needs
  induction. It comes from `NatLessThanWellFounded` and `WFMin`: the numbers for which a
  statement fails would have a least member (`Upwards`, `Downwards`). The recursive function
  is unfolded by showing that a division exists and that there is one only
  (`DivisionExists`, `DivisionUnique`), which is what `CHOOSE` then yields.
* The key lemma is `RemainderContinues`: of the dividend so far, only its remainder matters
  for what comes after. A byte entered at once (`EnteredByte`) and a table entry are
  instances of it.
* The invariant is `FedInv` (what is left of a part is the end of what was fed), `DividedInv`
  (without a table the register holds the remainder of the bits entered so far) and
  `LookedUpInv` (with one, of the bytes), beside `DataByteInv`. TLC found it to hold on the
  objects of the `crc` run before it was proved.
* Its hypothesis is `Supported`. Without a table the width is at least 7: the narrower ones
  are the finding `crc_narrow`. With a table and a width below 8 the initial value is 0:
  the register then holds the remainder in its high bits, and the constructor's initial
  value is put in as it is, so that another one would mean something else than in the
  definition.

`CallbackProofs` (`CallbackInv`): `TypeCorrect`, `Lifetimes`, `HandlerWhole`. A Callback in use
holds the object it can call and one that is not holds none (`Owned`); `TickerInv` says what
the Ticker's storage holds between the statements of the assignment. `ReplaceInv` is the
step of the assignments: a copy from another Callback, after the destruction, constructs
where nothing lives and reads what does. `Lifetimes` says that no call but `attach()` of a
Callback to itself does otherwise; after that one the words still say the function, so that
`Owned` is restored.

`CallbacksAreValues`, in the same module, is the refinement: `Spec => ActsAsValues`. The
lemma `CopyCalls` says that a copy calls what its original calls whatever the stack held,
because an operation reads only the words its type covers. `ConstructCopy` and `Pass` are
Delegates' `Copy`, `Assign` and `Attach`, also to itself, its `Assign`, `Leave` is its `Destroy`, `AssignMove` its `Attach`; the destructor and the
assignment of `_ops` stutter.

`AnalogInProofs` (`AnalogInv`): `TypeCorrect`, `ConstructsOnce`, `ConstructsFirst`,
`ReadsOwn`. `Knows(t)` is what a thread knows at each label: inside the singleton's lock, that
nobody else is; with the pointer set, that the mutex was built; inside the mutex, that the
channel is its own.

`BufferIsFifo`, in CircularBufferProofs, is the refinement: `Spec => ActsAsFifo`. Its
invariant `RefInv` says at each label how far the members are from the committed queue
towards the one the call will leave (`RefAt`), and what the call will answer. The
lemmas `TailIs` and `AppendIs` say what moving the tail and writing at the head do to the
elements of a ring, positions modulo `BufferSize`. `Call` is Fifo's
`Invoke`, `Exit`, which lets the interrupts in again, the operation with its answer, and
every other statement stutters.

Every invariant and every step property that a run checks has a theorem. Model-checked only
is liveness (`InterruptsComeBack`, `UsesReturn`), which these provers do not do.

## 5. Plan

Done: 1. ProjectTools, 2. CircularBuffer over Fifo, 3. BuildUpload, 4. DeepSleep, 5. MbedCRC
over SerialCRC, 6. Callback over Delegates, 7. AnalogIn with SingletonPtr, 8. ProjectBuild, which composes
the scripts with make, and the theorems above.

Left: in ProjectBuild, the uploads of BuildUpload after the link.

## 6. Not modelled

* The vendored objects and register headers, which are nearly all of the repository's lines:
  declarations and constants of each microcontroller, without control flow; the functions
  they declare are prebuilt objects. What has a body in `src/` outside the modules above is a
  wrapper of one HAL call in a critical section or under a mutex, an inline setter of one
  register, or arithmetic without state (`arm_math.h`). That is why the share of the lines
  that the modules map is small and must stay so.
* SPI's asynchronous transfers: `transfer()` is in the header; what queues, starts and
  dequeues a transfer, and the interrupt handler, are prebuilt. The same holds of I2C,
  SerialBase and CallChain.
* CThunk: documented as not protected, and set by prebuilt drivers.
* `src/main.cpp`: one loop without state. The debug tools and the Dockerfile start other
  programs. `.targets.mk` is not included by anything.
* The `make` branch of dmake (its `tool` is the constant `cmake`) and `UPLOAD_METHOD`
  (nothing reads it).
