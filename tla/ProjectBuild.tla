---------------------------- MODULE ProjectBuild ----------------------------
(***************************************************************************)
(* The life of one project: the maintenance scripts of ProjectTools write  *)
(* its files, and `make`, run between two scripts in the same shell, links *)
(* an image from them.  CMake lists the object files of mbed/ when it      *)
(* generates the build system (GLOB_RECURSE), and make sees that something *)
(* changed by the times of the files it depends on: -lmbed is not one.     *)
(***************************************************************************)
EXTENDS ProjectTools

CONSTANTS
  Project, \* the place of the project
  Objects, \* the files of mbed/ the glob matches: TOOLCHAIN_GCC_ARM/*.o
  Library  \* libmbed.a, linked as -lmbed; the other files are headers

\* Every version of mbed/ has its library, and not the library alone.
ASSUME BuildAssumption ==
  /\ Project \in Places /\ Objects \subseteq MbedFiles
  /\ Library \in MbedFiles \ Objects
  /\ \A v \in Versions : Library \in MbedOf[v] /\ MbedOf[v] # {Library}

VARIABLES
  glob,  \* MBED_OBJECTS in the generated build system
  regen, \* an input of CMake is newer than the generated build system
  elf,   \* elf[f]: the content of f the image was linked from, or Absent
  stale, \* a file the image depends on is newer than it
  make,  \* idle, or build once the build system is up to date
  made,  \* the last make succeeded and no file was written since
  clean  \* the last script without a failure and its version, if no file was
         \* written since; or <<>>

build == <<glob, regen, elf, stale, make, made, clean>>
allVars == <<vars, build>>

Headers == MbedFiles \ (Objects \cup {Library})

-----------------------------------------------------------------------------
(***************************************************************************)
(* What a step of a script means to make.                                  *)
(***************************************************************************)
Changed == {f \in Files : tree'[Project][f] # tree[Project][f]}

\* The files a step gives a new time: those it changes and, as cp writes every
\* file it is given, those it replaces by the same content; a cp that fails has
\* got to any of them.
Rewrites_OnlyChanged == {Changed}
Rewrites ==
  IF edits' # edits THEN {Changed \cup S : S \in SUBSET UserFiles}
  ELSE IF place # Project \/ pc # "copy" \/ at > Len(Plan(cmd)) THEN {Changed}
  ELSE IF failures' = failures THEN {Changed \cup Shipped(Plan(cmd)[at])}
  ELSE {Changed \cup S : S \in SUBSET Shipped(Plan(cmd)[at])}

\* include(targets.cmake) makes it an input of CMake, like CMakeLists.txt.
CMakeInputs_OwnFile == {"CMakeLists.txt"}
CMakeInputs == {"CMakeLists.txt", "targets.cmake"}

\* The prerequisites of the image: -L and -lmbed are words of a command, and a
\* source that is added is none before CMake lists it.
Prerequisites == {glob \cup Headers, glob \cup Headers \cup {"src"}}

\* The script ends its work on the project, and no command of it failed.
Finishes == pc = "copy" /\ at > Len(Plan(cmd)) /\ place = Project /\ ~failed'

ToolStep ==
  /\ make = "idle"
  /\ Next
  /\ \E w \in Rewrites, p \in Prerequisites :
       /\ regen' = (regen \/ w \cap CMakeInputs # {})
       /\ stale' = (stale \/ w \cap p # {})
       /\ made' = (made /\ w = {})
       /\ clean' = IF w # {} THEN <<>>
                   ELSE IF Finishes THEN <<cmd, version>> ELSE clean
  /\ UNCHANGED <<glob, elf, make>>

-----------------------------------------------------------------------------
(***************************************************************************)
(* make.                                                                   *)
(***************************************************************************)
Present == {f \in MbedFiles : tree[Project][f] # Absent}
InputsAre(c) == \E f \in CMakeInputs : tree[Project][f] = c

Fail == make' = "idle" /\ made' = FALSE /\ UNCHANGED <<glob, regen, elf, stale, clean>>

\* The new list is in the command of the link, whose file make compares too, and
\* so is that of the sources, which may have changed.
Generate(objects) ==
  /\ glob' = objects /\ regen' = FALSE
  /\ stale' \in {TRUE, stale \/ glob' # glob}
  /\ make' = "build" /\ UNCHANGED <<elf, made, clean>>

\* make's check of the build system, or the user's first cmake: CMake fails
\* without one of its files, and a file cut short makes it fail or stops before
\* or after the glob.
MakeCheck ==
  /\ make = "idle" /\ pc = "idle" /\ Project \in exists
  /\ \/ /\ ~regen /\ make' = "build"
        /\ UNCHANGED <<glob, regen, elf, stale, made, clean>>
     \/ regen /\ ~InputsAre(Absent) /\ Generate(Present \cap Objects)
     \/ regen /\ InputsAre(Torn) /\ Generate({})
     \/ regen /\ (InputsAre(Absent) \/ InputsAre(Torn)) /\ Fail
  /\ UNCHANGED vars

\* An object that is gone has no rule to make it.
UpToDate ==
  /\ make = "build" /\ ~stale /\ glob \subseteq Present
  /\ make' = "idle" /\ made' = TRUE
  /\ UNCHANGED <<vars, glob, regen, elf, stale, clean>>

Link ==
  /\ make = "build" /\ stale /\ glob \cup {Library} \subseteq Present
  /\ elf' = [f \in MbedFiles |-> IF f \in glob \cup Headers \cup {Library}
                                 THEN tree[Project][f] ELSE Absent]
  /\ stale' = FALSE /\ make' = "idle" /\ made' = TRUE
  /\ UNCHANGED <<vars, glob, regen, clean>>

\* Also for a source that does not compile.
MakeFails ==
  /\ make = "build" /\ (stale \/ ~(glob \subseteq Present))
  /\ Fail /\ UNCHANGED vars

-----------------------------------------------------------------------------
LifeInit ==
  /\ Init
  /\ glob = {} /\ elf = [f \in MbedFiles |-> Absent]
  /\ regen = TRUE /\ stale = TRUE
  /\ make = "idle" /\ made = FALSE /\ clean = <<>>

LifeNext == ToolStep \/ MakeCheck \/ UpToDate \/ Link \/ MakeFails

LifeSpec == LifeInit /\ [][LifeNext]_allVars
-----------------------------------------------------------------------------
\* make succeeded after a script without a failure; a CMakeLists.txt that an
\* earlier clone cut short is not update's to repair.
Built ==
  /\ make = "idle" /\ made /\ clean # <<>>
  /\ tree[Project]["CMakeLists.txt"] # Torn

\* After a script that went through the project without a failure, a make that
\* succeeds has linked every file of mbed/ at the script's version, whatever
\* mixture of versions the failed scripts and builds before it had left, and
\* although make does not know that the image depends on libmbed.a.
ImageUpdated == Built => \A f \in MbedOf[clean[2]] : elf[f] = clean[2]

\* After clone and full-update the image holds no object file the template has
\* dropped; after update it may, for update merges and the glob takes it.
NoLeftovers ==
  Built /\ clean[1] # "update" =>
    \A f \in MbedFiles \ MbedOf[clean[2]] : elf[f] = Absent

\* After a script without a failure make finds all that the build system names:
\* the list of objects made before the script is not used after it.
ObjectsFound == make = "build" /\ clean # <<>> => glob \cup {Library} \subseteq Present
=============================================================================
