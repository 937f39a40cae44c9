---------------------------- MODULE BuildUpload -----------------------------
(***************************************************************************)
(* Building a project and flashing a board: CMakeLists.txt, targets.cmake  *)
(* and size_info under `make`, run by hand in build/, or under             *)
(* tools/dmake, which runs `cmake ..; make $*; chown` in a container.      *)
(* Meanwhile the user edits the sources, changes NUCLEO in CMakeLists.txt, *)
(* and plugs and unplugs boards.                                           *)
(***************************************************************************)
EXTENDS Naturals, Sequences, SequencesExt

CONSTANTS
  Targets,   \* the values the user gives NUCLEO
  Sources,   \* the source files a project may have
  MaxRev,    \* bound: revisions of the sources
  MaxMounts, \* bound: disks left mounted on /mnt of the host
  None, Torn \* no image; an image that was cut short

ASSUME BuildAssumption ==
  /\ MaxRev \in Nat /\ MaxMounts \in Nat \ {0}
  /\ None # Torn /\ Sources # {}
  /\ None \notin [rev : 0 .. MaxRev, sources : SUBSET Sources, target : Targets]

VARIABLES
  rev,      \* the revision of the sources
  sources,  \* the files src/*.cpp
  nucleo,   \* NUCLEO in CMakeLists.txt
  plugged,  \* the boards whose disk is in /dev/disk/by-label
  flashed,  \* flashed[b]: the image in the flash of board b
  cfg,      \* the generated build system: its target, the sources there were
            \* when CMake ran, and whether the target's disk was; or None
  dirty,    \* CMakeLists.txt is newer than the generated build system
  elf, bin, \* the images in build/, or None
  mnt,      \* mnt[s]: the disks mounted on /mnt of the host or the container
  pc,       \* idle, or the step of the run
  tool,     \* make or dmake
  goal,     \* all or upload
  status,   \* exit status of make in this run (0 until it fails)
  exit,     \* exit status the user saw, 0 during a run
  absent,   \* this run said "nucleo not found"
  fresh,    \* the revision of the sources when the run started
  had,      \* history: the sources the project has had during the run
  lacked,   \* history: the boards that were absent at some time of it
  held      \* how many disks /mnt of the host held then

world == <<rev, sources, nucleo, plugged, dirty>>
files == <<cfg, elf, bin, flashed>>
seen  == <<had, lacked>>
kept  == <<tool, goal, fresh, held>>
run   == <<kept, seen>>
vars  == <<rev, sources, nucleo, plugged, flashed, cfg, dirty, elf, bin, mnt, pc,
           tool, goal, status, exit, absent, fresh, held, had, lacked>>

\* An image: the revision and the list of the sources it was made from.
Images == [rev : 0 .. MaxRev, sources : SUBSET Sources, target : Targets]

-----------------------------------------------------------------------------
(***************************************************************************)
(* targets.cmake and mbed/: which targets configure, and which compile.    *)
(***************************************************************************)

\* The targets that set FLASHSIZE; any other is a fatal error of CMake.
Configurable == {"F303K8", "F401CD", "F401RE", "L432KC"}

\* The directory of the target's headers below TARGET_STM, as targets.cmake
\* builds it from NUCLEO_XID, and as mbed/ has it.
IncludeDir(t) ==
  CASE t = "F303K8" -> <<"TARGET_STM32F3", "TARGET_STM32F303x8">>
    [] t = "F401CD" -> <<"TARGET_STM32F4", "TARGET_STM32F401xD">>
    [] t = "F401RE" -> <<"TARGET_STM32F4", "TARGET_STM32F401xE">>
    [] t = "L432KC" -> <<"TARGET_STM32L4", "TARGET_STM32L432xC">>
PinNamesDir(t) ==
  CASE t = "F303K8" -> <<"TARGET_STM32F3", "TARGET_STM32F303x8">>
    [] t = "F401CD" -> <<"TARGET_STM32F4">>
    [] t = "F401RE" -> <<"TARGET_STM32F4", "TARGET_STM32F401xE">>
    [] t = "L432KC" -> <<"TARGET_STM32L4", "TARGET_STM32L432xC">>

\* PinNames.h is found, so that a program including an mbed driver compiles.
Compiles(t) == IncludeDir(t) = PinNamesDir(t)

-----------------------------------------------------------------------------
(***************************************************************************)
(* The user, at any moment.                                                *)
(***************************************************************************)
\* An edit changes sources, and may add or remove some; one is left.
Edit ==
  /\ rev < MaxRev /\ rev' = rev + 1
  /\ sources' \in (SUBSET Sources) \ {{}}
  /\ had' = IF pc = "idle" THEN had ELSE had \cup {sources'}
  /\ UNCHANGED <<nucleo, plugged, dirty, files, kept, lacked,
                 mnt, pc, status, exit, absent>>

SetNucleo(t) ==
  /\ t # nucleo /\ nucleo' = t /\ dirty' = TRUE
  /\ UNCHANGED <<rev, sources, plugged, files, run, mnt, pc, status, exit, absent>>

\* A board is not pulled while its disk is mounted.
Mounted(b) == \E s \in DOMAIN mnt : \E i \in DOMAIN mnt[s] : mnt[s][i] = b

Plug(b) ==
  /\ b \notin plugged /\ plugged' = plugged \cup {b}
  /\ UNCHANGED <<rev, sources, nucleo, dirty, files, run, mnt, pc, status, exit, absent>>

Unplug(b) ==
  /\ b \in plugged /\ ~Mounted(b) /\ plugged' = plugged \ {b}
  /\ lacked' = IF pc = "idle" THEN lacked ELSE lacked \cup {b}
  /\ UNCHANGED <<rev, sources, nucleo, dirty, files, kept, had,
                 mnt, pc, status, exit, absent>>

\* The user clears what a failed upload left mounted.
UmountByHand ==
  /\ pc = "idle" /\ mnt["host"] # <<>>
  /\ mnt' = [mnt EXCEPT !["host"] = Front(@)]
  /\ UNCHANGED <<world, files, run, pc, status, exit, absent>>

-----------------------------------------------------------------------------
(***************************************************************************)
(* A run.  dmake starts with CMake, make with its check of the build       *)
(* system; dmake goes on to make whatever CMake returned.                  *)
(***************************************************************************)
Start(t, g) ==
  /\ pc = "idle"
  /\ tool' = t /\ goal' = g /\ fresh' = rev /\ held' = Len(mnt["host"])
  /\ had' = {sources} /\ lacked' = Targets \ plugged
  /\ pc' = IF t = "dmake" THEN "cmake" ELSE "check"
  /\ status' = 0 /\ exit' = 0 /\ absent' = FALSE
  /\ UNCHANGED <<world, files, mnt>>

\* CMake lists src/*.cpp and evaluates if(EXISTS ${DEVICE}) now, for the builds
\* and uploads of all later runs.
Generate ==
  /\ nucleo \in Configurable
  /\ cfg' = [target |-> nucleo, sources |-> sources, disk |-> nucleo \in plugged]
  /\ dirty' = FALSE
GenerateFails ==
  /\ nucleo \notin Configurable
  /\ UNCHANGED <<cfg, dirty>>

CMakeUnless(done) ==
  /\ pc = "cmake"
  /\ IF done THEN UNCHANGED <<cfg, dirty>> ELSE Generate \/ GenerateFails
  /\ pc' = "check"
  /\ UNCHANGED <<rev, sources, nucleo, plugged, elf, bin, flashed, run, mnt, status,
                 exit, absent>>

CMake_FirstTime == CMakeUnless(cfg # None)
CMake == CMakeUnless(FALSE)

\* make stops.
Fail == pc' = "end" /\ status' = 2

\* make: no build system; one that is up to date; or one CMake makes again.
Check(next) ==
  /\ pc = "check"
  /\ \/ cfg = None /\ Fail /\ UNCHANGED <<cfg, dirty>>
     \/ cfg # None /\ ~dirty /\ pc' = next /\ UNCHANGED <<cfg, dirty, status>>
     \/ cfg # None /\ dirty /\ Generate /\ pc' = next /\ UNCHANGED status
     \/ cfg # None /\ dirty /\ GenerateFails /\ Fail
  /\ UNCHANGED <<rev, sources, nucleo, plugged, elf, bin, flashed, run, mnt, exit, absent>>

MakeCheck_UploadAlone == Check(IF goal = "upload" THEN "upload" ELSE "compile")
MakeCheck == Check("compile")

\* Compile the sources CMake listed, as they are now, and link. A listed source
\* that is gone has no rule to make it, and one that was added is not listed. A
\* source that does not compile leaves the old ELF.
CompileFor(target) ==
  /\ pc = "compile"
  /\ \/ /\ Compiles(cfg.target) /\ cfg.sources \subseteq sources
        /\ elf' = [rev |-> rev, sources |-> cfg.sources, target |-> target]
        /\ pc' = "objcopy" /\ UNCHANGED status
     \/ Fail /\ UNCHANGED elf
  /\ UNCHANGED <<world, cfg, bin, flashed, run, mnt, exit, absent>>

Compile_KeepsObjects == CompileFor(IF elf = None THEN cfg.target ELSE elf.target)
Compile == CompileFor(cfg.target)

\* generate_bin, then display_size, whose status is printf's: 0.
GenerateBin ==
  /\ pc = "objcopy"
  /\ \/ /\ bin' = elf
        /\ pc' = IF goal = "upload" THEN "upload" ELSE "end"
        /\ UNCHANGED status
     \/ Fail /\ UNCHANGED bin
  /\ UNCHANGED <<world, cfg, elf, flashed, run, mnt, exit, absent>>

-----------------------------------------------------------------------------
(***************************************************************************)
(* upload: mount ${DEVICE} /mnt && cp ${BIN} /mnt && sync && umount /mnt.  *)
(***************************************************************************)
Space == IF tool = "dmake" THEN "container" ELSE "host"

\* The rule CMake wrote when it did not find the disk.
NotFound ==
  /\ pc = "upload" /\ ~cfg.disk
  /\ absent' = TRUE /\ pc' = "end"
  /\ UNCHANGED <<world, files, run, mnt, status, exit>>

\* A disk that is already the top of /mnt is busy.
Mount ==
  /\ pc = "upload" /\ cfg.disk
  /\ IF /\ cfg.target \in plugged
        /\ mnt[Space] = <<>> \/ Last(mnt[Space]) # cfg.target
     THEN /\ Len(mnt[Space]) < MaxMounts
          /\ mnt' = [mnt EXCEPT ![Space] = Append(@, cfg.target)]
          /\ pc' = "cp" /\ UNCHANGED status
     ELSE Fail /\ UNCHANGED mnt
  /\ UNCHANGED <<world, files, run, exit, absent>>

\* A cp that fails leaves the disk mounted, and may leave half an image on it.
CopyBin ==
  /\ pc = "cp"
  /\ \/ pc' = "sync" /\ UNCHANGED <<flashed, status>>
     \/ /\ Fail
        /\ \E i \in {flashed[Last(mnt[Space])], Torn} :
             flashed' = [flashed EXCEPT ![Last(mnt[Space])] = i]
  /\ UNCHANGED <<world, cfg, elf, bin, run, mnt, exit, absent>>

\* The board programs itself when the file reaches its disk.
SyncTo(next) ==
  /\ pc = "sync"
  /\ flashed' = [flashed EXCEPT ![Last(mnt[Space])] = bin]
  /\ pc' = next
  /\ UNCHANGED <<world, cfg, elf, bin, run, mnt, status, exit, absent>>

Sync_NoUmount == SyncTo("end")
Sync == SyncTo("umount")

Umount ==
  /\ pc = "umount"
  /\ \/ mnt' = [mnt EXCEPT ![Space] = Front(@)] /\ pc' = "end" /\ UNCHANGED status
     \/ Fail /\ UNCHANGED mnt
  /\ UNCHANGED <<world, files, run, exit, absent>>

\* What is remembered of a run is of that run alone.
Forget == had' = {} /\ lacked' = {} /\ fresh' = 0 /\ held' = 0 /\ absent' = FALSE

\* make's status is the user's.  dmake ends with chown, whose status is the
\* container's, and the container's mounts go with it.
End_KeepsContainer ==
  /\ pc = "end" /\ pc' = "idle"
  /\ exit' = IF tool = "dmake" THEN 0 ELSE status
  /\ Forget
  /\ UNCHANGED <<world, files, tool, goal, mnt, status>>
End ==
  /\ pc = "end" /\ pc' = "idle"
  /\ exit' = IF tool = "dmake" THEN 0 ELSE status
  /\ mnt' = [mnt EXCEPT !["container"] = <<>>]
  /\ Forget
  /\ UNCHANGED <<world, files, tool, goal, status>>

\* Ctrl-C, between two commands.
Interrupt ==
  /\ pc \notin {"idle", "end"} /\ pc' = "idle"
  /\ status' = 2 /\ exit' = 130
  /\ mnt' = [mnt EXCEPT !["container"] = <<>>]
  /\ Forget
  /\ UNCHANGED <<world, files, tool, goal>>

-----------------------------------------------------------------------------
Init ==
  /\ rev = 0 /\ sources \in (SUBSET Sources) \ {{}}
  /\ nucleo \in Targets /\ plugged = {}
  /\ flashed = [b \in Targets |-> None]
  /\ cfg = None /\ dirty = TRUE /\ elf = None /\ bin = None
  /\ mnt = [s \in {"host", "container"} |-> <<>>]
  /\ pc = "idle" /\ tool = "dmake" /\ goal = "all"
  /\ status = 0 /\ exit = 0 /\ absent = FALSE /\ fresh = 0 /\ held = 0
  /\ had = {} /\ lacked = {}

Run == \/ CMake \/ MakeCheck \/ Compile \/ GenerateBin
       \/ NotFound \/ Mount \/ CopyBin \/ Sync \/ Umount \/ End

Next ==
  \/ Run \/ Interrupt \/ Edit \/ UmountByHand
  \/ \E t \in Targets : SetNucleo(t) \/ Plug(t) \/ Unplug(t)
  \/ \E t \in {"make", "dmake"}, g \in {"all", "upload"} : Start(t, g)

Spec == Init /\ [][Next]_vars
-----------------------------------------------------------------------------
Stages == {"idle", "cmake", "check", "compile", "objcopy", "upload", "cp",
           "sync", "umount", "end"}

TypeOK ==
  /\ rev \in 0 .. MaxRev /\ sources \in (SUBSET Sources) \ {{}}
  /\ nucleo \in Targets /\ plugged \subseteq Targets
  /\ flashed \in [Targets -> Images \cup {None, Torn}]
  /\ cfg \in [target : Targets, sources : SUBSET Sources, disk : BOOLEAN] \cup {None}
  /\ elf \in Images \cup {None} /\ bin \in Images \cup {None}
  /\ DOMAIN mnt = {"host", "container"}
  /\ \A s \in DOMAIN mnt : mnt[s] \in Seq(Targets) /\ Len(mnt[s]) <= MaxMounts
  /\ pc = "idle" => mnt["container"] = <<>>
  /\ pc \in Stages /\ status \in {0, 2} /\ exit \in {0, 2, 130}
  /\ dirty \in BOOLEAN /\ absent \in BOOLEAN /\ fresh \in 0 .. MaxRev
  /\ held \in 0 .. MaxMounts
  /\ had \subseteq SUBSET Sources /\ lacked \subseteq Targets

\* No board ever runs an image built for another board, whatever the user
\* changes or plugs while a run is under way, and whatever an earlier upload
\* left mounted: NUCLEO chooses the image and the disk together.
RightImage ==
  \A b \in Targets : flashed[b] \notin {None, Torn} => flashed[b].target = b

\* An upload in which make succeeds, and which did not say that the board is
\* absent, has programmed the board with what build/ now holds, made from
\* sources no older than those the user had when the run started. dmake, which
\* runs CMake first, has built all the sources the project had at a moment of
\* the run; make may leave out those added since CMake ran (CMakeLists.txt:51),
\* but links none that was gone.
UploadDelivers ==
  pc = "end" /\ status = 0 /\ goal = "upload" /\ ~absent =>
    /\ bin # None /\ flashed[cfg.target] = bin
    /\ bin.rev >= fresh
    /\ \E s \in had : bin.sources \subseteq s /\ (tool = "dmake" => bin.sources = s)

\* When dmake says that the board is not found, it was absent at a moment of the
\* run, whatever an earlier CMake had found and although the run goes on after a
\* CMake that fails; make may say so of a board that was there all the time.
AbsentSaidTruly ==
  pc = "end" /\ tool = "dmake" /\ absent => cfg.target \in lacked

\* A run that succeeds leaves no disk mounted on the host, not even on top of
\* one that an earlier run left there.
NoLeakOnSuccess == pc = "end" /\ status = 0 => Len(mnt["host"]) <= held

-----------------------------------------------------------------------------
(***************************************************************************)
(* What the repository says and the build does not do.                     *)
(***************************************************************************)

\* README: any call to make can be replaced by dmake; so dmake fails when the
\* make it ran failed.
DmakeReportsFailure ==
  pc = "idle" /\ tool = "dmake" /\ status # 0 => exit # 0
=============================================================================
