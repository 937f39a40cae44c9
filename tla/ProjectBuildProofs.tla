------------------------- MODULE ProjectBuildProofs -------------------------
(***************************************************************************)
(* Proofs about ProjectBuild, for every content of mbed/ and every number  *)
(* of versions, failures and edits: after a script without a failure make  *)
(* links what that script delivered.                                       *)
(***************************************************************************)
EXTENDS ProjectBuild, ProjectToolsProofs

\* An image that is not stale was linked from the objects listed and compiled
\* against the headers there are.
ImageFresh == ~stale => \A f \in glob \cup Headers : elf[f] = tree[Project][f]

\* With what makes it inductive: CMake lists objects of mbed/ only.
FreshInv == glob \subseteq Objects /\ ImageFresh

\* A step of a script gives a new time at least to the files it changes.
LEMMA RewritesChanged == \A w \in Rewrites : Changed \subseteq w
  BY DEF Rewrites

\* What no step changes of a prerequisite leaves a fresh image fresh.
LEMMA ToolStepFresh ==
  ASSUME FreshInv, ToolStep
  PROVE  FreshInv'
<1>1. glob' = glob /\ elf' = elf
  BY DEF ToolStep
<1>2. PICK w \in Rewrites, p \in Prerequisites : stale' = (stale \/ w \cap p # {})
  BY DEF ToolStep
<1>3. Changed \subseteq w
  BY RewritesChanged
<1>4. ASSUME ~stale', NEW f \in glob \cup Headers
      PROVE  elf[f] = tree'[Project][f]
  <2>1. ~stale /\ w \cap p = {}
    BY <1>2, <1>4
  <2>2. f \notin w
    BY <1>4, <2>1 DEF Prerequisites
  <2>3. f \in Files
    BY <1>4, BuildAssumption DEF FreshInv, Headers, Files
  <2>4. tree'[Project][f] = tree[Project][f]
    BY <1>3, <2>2, <2>3 DEF Changed
  <2>5. elf[f] = tree[Project][f]
    BY <1>4, <2>1 DEF FreshInv, ImageFresh
  <2>. QED BY <2>4, <2>5
<1>5. glob' \subseteq Objects
  BY <1>1 DEF FreshInv
<1>6. ImageFresh'
  BY <1>1, <1>4 DEF ImageFresh, Headers
<1>. QED BY <1>5, <1>6 DEF FreshInv

\* A list of objects that differs from the one the image was linked from is in
\* the command of the link, so that the image is stale.
LEMMA GenerateFresh ==
  ASSUME FreshInv, UNCHANGED vars,
         NEW objects \in SUBSET Objects, Generate(objects)
  PROVE  FreshInv'
<1>1. tree' = tree /\ elf' = elf /\ glob' \subseteq Objects
  BY DEF Generate, vars
<1>2. ~stale' => ~stale /\ glob' = glob
  BY DEF Generate
<1>. QED BY <1>1, <1>2 DEF FreshInv, ImageFresh, Headers

\* make's check keeps what is fresh fresh.
LEMMA MakeCheckFresh ==
  ASSUME FreshInv, MakeCheck
  PROVE  FreshInv'
<1>1. UNCHANGED vars /\ tree' = tree
  BY DEF MakeCheck, vars
<1>2. CASE UNCHANGED <<glob, elf, stale>>
  BY <1>1, <1>2 DEF FreshInv, ImageFresh, Headers
<1>3. CASE Generate(Present \cap Objects)
  <2>1. Present \cap Objects \in SUBSET Objects
    OBVIOUS
  <2>. QED BY <1>1, <1>3, <2>1, GenerateFresh
<1>4. CASE Generate({})
  <2>1. {} \in SUBSET Objects
    OBVIOUS
  <2>. QED BY <1>1, <1>4, <2>1, GenerateFresh
<1>. QED BY <1>2, <1>3, <1>4 DEF MakeCheck, Fail

\* The link reads every file the image depends on.
LEMMA LinkFresh ==
  ASSUME FreshInv, Link
  PROVE  FreshInv'
<1>1. glob' = glob /\ tree' = tree
  BY DEF Link, vars
<1>2. ASSUME NEW f \in glob \cup Headers
      PROVE  elf'[f] = tree[Project][f]
  <2>1. f \in MbedFiles
    BY <1>2, BuildAssumption DEF FreshInv, Headers
  <2>. QED BY <1>2, <2>1 DEF Link
<1>. QED BY <1>1, <1>2 DEF FreshInv, ImageFresh, Headers

\* Every step keeps the invariant.
LEMMA StepFresh ==
  ASSUME FreshInv, [LifeNext]_allVars
  PROVE  FreshInv'
<1>1. CASE ToolStep
  BY <1>1, ToolStepFresh
<1>2. CASE MakeCheck
  BY <1>2, MakeCheckFresh
<1>3. CASE UpToDate
  BY <1>3 DEF UpToDate, vars, FreshInv, ImageFresh, Headers
<1>4. CASE Link
  BY <1>4, LinkFresh
<1>5. CASE MakeFails
  BY <1>5 DEF MakeFails, Fail, vars, FreshInv, ImageFresh, Headers
<1>6. CASE UNCHANGED allVars
  BY <1>6 DEF allVars, vars, build, FreshInv, ImageFresh, Headers
<1>. QED BY <1>1, <1>2, <1>3, <1>4, <1>5, <1>6 DEF LifeNext

-----------------------------------------------------------------------------
(***************************************************************************)
(* What a successful make after a clean script has linked.                 *)
(***************************************************************************)

\* A cp of mbed/ as of version v writes nothing that make would link again for.
Unnoticed(v) == MbedOf[v] \cap (glob \cup Headers) = {}

\* A script that has copied mbed/ without a failure made the image stale, or the
\* list of objects is to change; with targets.cmake it makes CMake write it anew.
CopyingInv ==
  pc = "copy" /\ place = Project /\ ~failed =>
    /\ at > 1 /\ ~stale => Unnoticed(version)
    /\ (\E j \in 1 .. at - 1 : "targets.cmake" \in Plan(cmd)[j]) => regen

MakeInv ==
  /\ glob \subseteq Objects /\ ImageFresh
  /\ ~stale => \A f \in Objects \ glob : elf[f] = Absent
  /\ made => ~regen /\ ~stale
  /\ make = "build" => ~regen /\ pc = "idle"

CutShort == tree[Project]["CMakeLists.txt"] = Torn

\* The project as script c left it at version v, and the builds since.
BuiltSince(c, v) ==
  /\ \A f \in Delivers(c) : IF f \in MbedOf[v] \cup PlainFiles
                            THEN tree[Project][f] = v
                            ELSE c # "update" => tree[Project][f] = Absent
  /\ regen /\ ~stale => Unnoticed(v)
  /\ ~regen => glob \subseteq Present /\ (CutShort \/ glob = Present \cap Objects)
  /\ ~regen /\ ~stale /\ ~CutShort => elf[Library] = tree[Project][Library]

CleanInv ==
  clean # <<>> =>
    \E c \in Scripts, v \in Versions : clean = <<c, v>> /\ BuiltSince(c, v)

LifeInv == CopyingInv /\ MakeInv /\ CleanInv

-----------------------------------------------------------------------------
(***************************************************************************)
(* The scripts' part.                                                      *)
(***************************************************************************)
LEMMA Owed ==
  ASSUME NEW c \in Scripts
  PROVE  /\ MbedFiles \subseteq Delivers(c) /\ "targets.cmake" \in Delivers(c)
         /\ Delivers(c) \subseteq Files
<1>1. /\ MbedFiles \subseteq Files /\ "targets.cmake" \in Files /\ PlainFiles \subseteq Files
      /\ {"targets.cmake", "size_info"} \subseteq PlainFiles
      /\ MbedFiles \cap {"src", ".gitignore", "Doxyfile", "inc_lib"} = {}
  BY ToolsAssumption DEF Files, PlainFiles
<1>. QED BY <1>1 DEF Delivers, Scripts

\* A script reaches its copies at the first one.
LEMMA EntersAtFirst ==
  ASSUME TypeOK, CleanRunInv, Next, pc' = "copy"
  PROVE  at' = 1 \/ Copy
<1>1. ASSUME NEW n \in Names, CloneStart(n) PROVE at' = 1
  BY <1>1 DEF CloneStart, Begin
<1>2. ASSUME NEW n \in Names, CloneRefused(n) \/ CloneMkdirFails(n) PROVE FALSE
  BY <1>2 DEF CloneRefused, CloneMkdirFails
<1>3. ASSUME NEW c, NEW names, NEW pull, UpdateStart(c, names, pull) PROVE FALSE
  BY <1>3 DEF UpdateStart
<1>4. CASE NextProject
  BY <1>4 DEF NextProject, Visit
<1>5. CASE RemoveMbed
  BY <1>5 DEF RemoveMbed, Remove, CleanRunInv
<1>6. ~FullUpdateDeclined /\ ~ProjectNotFound /\ ~ListDone /\ ~Kill /\ ~Prompt /\ ~GitPull
  BY DEF FullUpdateDeclined, ProjectNotFound, ListDone, Kill, Prompt, GitPull
<1>7. ~ProjectDone
  BY DEF ProjectDone
<1>8. ASSUME NEW p, NEW f, UserEdits(p, f) PROVE FALSE
  BY <1>8 DEF UserEdits
<1>. QED BY <1>1, <1>2, <1>3, <1>4, <1>5, <1>6, <1>7, <1>8 DEF Next, Script

\* A script ends its work on a project with the project as it should be.
LEMMA FinishesWell ==
  ASSUME TypeOK, CleanRunInv, Next, Finishes
  PROVE  /\ UNCHANGED <<version, tree, cmd>> /\ ~failed
         /\ cmd \in Scripts /\ at - 1 = Len(Plan(cmd)) /\ Len(Plan(cmd)) \in Nat
         /\ \A f \in Delivers(cmd) : Delivered(cmd, Project, f)
<1>1. pc = "copy" /\ at > Len(Plan(cmd)) /\ place = Project /\ ~failed'
  BY DEF Finishes
<1>2. cmd \in Scripts /\ Len(Plan(cmd)) \in Nat /\ at \in 1 .. Len(Plan(cmd)) + 1
  BY PlanShape DEF TypeOK, Scripts
<1>3. ProjectDone
  <2>1. \A n : ~CloneStart(n) /\ ~CloneRefused(n) /\ ~CloneMkdirFails(n)
    BY <1>1 DEF CloneStart, CloneRefused, CloneMkdirFails, Begin
  <2>2. \A c, names, pull : ~UpdateStart(c, names, pull)
    BY <1>1 DEF UpdateStart, Begin
  <2>3. ~FullUpdateDeclined /\ ~ProjectNotFound /\ ~ListDone /\ ~Kill /\ ~Prompt /\ ~GitPull
        /\ ~NextProject /\ ~RemoveMbed
    BY <1>1 DEF FullUpdateDeclined, Begin, ProjectNotFound, ListDone, Kill, Prompt, GitPull,
                NextProject, Visit, RemoveMbed, Remove
  <2>4. ~Copy
    BY <1>1, <1>2 DEF Copy
  <2>5. \A p, f : ~UserEdits(p, f)
    BY <1>1 DEF UserEdits
  <2>. QED BY <2>1, <2>2, <2>3, <2>4, <2>5 DEF Next, Script
<1>4. UNCHANGED <<version, tree, cmd>> /\ ~failed
  BY <1>1, <1>3 DEF ProjectDone
<1>5. at - 1 = Len(Plan(cmd))
  BY <1>1, <1>2
<1>6. ASSUME NEW f \in Delivers(cmd) PROVE Delivered(cmd, Project, f)
  <2>1. \E i \in 1 .. Len(Plan(cmd)) : f \in Plan(cmd)[i]
    BY <1>2, PlanShape DEF WellPlanned
  <2>. QED BY <1>1, <1>4, <1>5, <2>1 DEF CleanRunInv
<1>. QED BY <1>2, <1>4, <1>5, <1>6

\* What make is told of a copy that went well.
LEMMA CopyRewrites ==
  ASSUME TypeOK, Copy, ~failed', place = Project, NEW w \in Rewrites
  PROVE  Shipped(Plan(cmd)[at]) \subseteq w /\ ~failed /\ at \in 1 .. Len(Plan(cmd))
<1>1. pc = "copy" /\ at <= Len(Plan(cmd)) /\ edits' = edits
  BY DEF Copy
<1>2. failures' = failures /\ ~failed
  BY DEF Copy, Effect
<1>3. cmd \in Scripts /\ Len(Plan(cmd)) \in Nat /\ at \in 1 .. Len(Plan(cmd)) + 1
  BY PlanShape DEF TypeOK, Scripts
<1>4. at \in 1 .. Len(Plan(cmd)) /\ ~(at > Len(Plan(cmd)))
  BY <1>1, <1>3
<1>5. Rewrites = {Changed \cup Shipped(Plan(cmd)[at])}
  BY <1>1, <1>2, <1>4 DEF Rewrites
<1>. QED BY <1>2, <1>4, <1>5

LEMMA CopyingStep ==
  ASSUME TypeOK, CleanRunInv, CopyingInv, MakeInv, [LifeNext]_allVars
  PROVE  CopyingInv'
<1>1. CASE ToolStep
  <2>. SUFFICES ASSUME pc' = "copy", place' = Project, ~failed'
                PROVE  /\ at' > 1 /\ ~stale' => Unnoticed(version)'
                       /\ (\E j \in 1 .. at' - 1 : "targets.cmake" \in Plan(cmd')[j]) => regen'
    BY DEF CopyingInv
  <2>1. Next /\ glob' = glob
    BY <1>1 DEF ToolStep
  <2>2. CASE at' = 1
    BY <2>2
  <2>3. CASE Copy
    <3>1. PICK w \in Rewrites, p \in Prerequisites : /\ regen' = (regen \/ w \cap CMakeInputs # {})
                                /\ stale' = (stale \/ w \cap p # {})
      BY <1>1 DEF ToolStep
    <3>2. /\ place = Project /\ version' = version /\ cmd' = cmd /\ at' = at + 1
          /\ pc = "copy"
      BY <2>3 DEF Copy
    <3>3. Shipped(Plan(cmd)[at]) \subseteq w /\ ~failed /\ at \in 1 .. Len(Plan(cmd))
      BY <2>3, <3>2, CopyRewrites
    <3>4. cmd \in Scripts /\ Len(Plan(cmd)) \in Nat
      BY PlanShape DEF TypeOK, Scripts
    <3>5. ASSUME ~stale' PROVE Unnoticed(version)
      <4>1. ~stale /\ w \cap p = {}
        BY <3>1, <3>5
      <4>2. CASE at > 1
        BY <3>2, <3>3, <4>1, <4>2 DEF CopyingInv
      <4>3. CASE at = 1
        <5>1. Plan(cmd)[at] = MbedFiles
          BY <3>4, <4>3, PlanShape DEF WellPlanned
        <5>2. MbedOf[version] \subseteq MbedFiles
          BY ToolsAssumption DEF TypeOK
        <5>3. MbedOf[version] \subseteq w
          BY <3>3, <5>1, <5>2 DEF Shipped
        <5>. QED BY <4>1, <5>3 DEF Unnoticed, Prerequisites
      <4>. QED BY <3>3, <3>4, <4>2, <4>3
    <3>6. ASSUME NEW j \in 1 .. at, "targets.cmake" \in Plan(cmd)[j] PROVE regen'
      <4>1. CASE j = at
        <5>1. "targets.cmake" \in w
          BY <3>3, <3>6, <4>1 DEF Shipped, PlainFiles
        <5>. QED BY <3>1, <5>1 DEF CMakeInputs
      <4>2. CASE j # at
        <5>1. j \in 1 .. at - 1
          BY <3>3, <3>4, <4>2
        <5>2. regen
          BY <3>2, <3>3, <3>6, <5>1 DEF CopyingInv
        <5>. QED BY <3>1, <5>2
      <4>. QED BY <4>1, <4>2
    <3>7. at' - 1 = at
      BY <3>2, <3>3, <3>4
    <3>. QED BY <2>1, <3>2, <3>5, <3>6, <3>7 DEF Unnoticed, Headers
  <2>. QED BY <2>1, <2>2, <2>3, EntersAtFirst
<1>2. CASE MakeCheck \/ UpToDate \/ Link \/ MakeFails
  <2>1. pc' = "idle"
    BY <1>2 DEF MakeCheck, UpToDate, Link, MakeFails, vars, MakeInv
  <2>. QED BY <2>1 DEF CopyingInv
<1>3. CASE UNCHANGED allVars
  BY <1>3 DEF allVars, vars, build, CopyingInv, Unnoticed, Headers
<1>. QED BY <1>1, <1>2, <1>3 DEF LifeNext

-----------------------------------------------------------------------------
(***************************************************************************)
(* make's part.                                                            *)
(***************************************************************************)
LEMMA MakeStep ==
  ASSUME MakeInv, [LifeNext]_allVars
  PROVE  MakeInv'
<1>1. glob' \subseteq Objects /\ ImageFresh'
  BY StepFresh DEF FreshInv, MakeInv
<1>. SUFFICES /\ ~stale' => \A f \in Objects \ glob' : elf'[f] = Absent
              /\ made' => ~regen' /\ ~stale'
              /\ make' = "build" => ~regen' /\ pc' = "idle"
  BY <1>1 DEF MakeInv
<1>2. CASE ToolStep
  <2>1. PICK w \in Rewrites, p \in Prerequisites : /\ regen' = (regen \/ w \cap CMakeInputs # {})
                              /\ stale' = (stale \/ w \cap p # {})
                              /\ made' = (made /\ w = {})
    BY <1>2 DEF ToolStep
  <2>2. UNCHANGED <<glob, elf>> /\ make' = "idle"
    BY <1>2 DEF ToolStep
  <2>3. made' => made /\ ~regen' /\ ~stale'
    BY <2>1 DEF MakeInv
  <2>. QED BY <2>1, <2>2, <2>3 DEF MakeInv
<1>3. CASE MakeCheck
  <2>1. pc' = "idle"
    BY <1>3 DEF MakeCheck, vars
  <2>2. CASE ~regen /\ UNCHANGED <<glob, regen, elf, stale, made, clean>>
    BY <2>1, <2>2 DEF MakeInv
  <2>3. ASSUME regen, NEW objects, Generate(objects)
        PROVE  /\ ~stale' => \A f \in Objects \ glob' : elf'[f] = Absent
               /\ ~made' /\ ~regen'
    BY <2>3 DEF Generate, MakeInv
  <2>4. CASE Fail
    BY <2>4 DEF Fail, MakeInv
  <2>. QED BY <1>3, <2>1, <2>2, <2>3, <2>4 DEF MakeCheck
<1>4. CASE UpToDate
  BY <1>4 DEF UpToDate, MakeInv
<1>5. CASE Link
  <2>1. UNCHANGED <<glob, regen>> /\ make' = "idle" /\ ~regen /\ ~stale'
    BY <1>5 DEF Link, MakeInv
  <2>2. ASSUME NEW f \in Objects \ glob PROVE elf'[f] = Absent
    <3>1. f \in MbedFiles /\ f \notin glob \cup Headers \cup {Library}
      BY <2>2, BuildAssumption DEF Headers
    <3>. QED BY <1>5, <3>1 DEF Link
  <2>. QED BY <2>1, <2>2
<1>6. CASE MakeFails
  BY <1>6 DEF MakeFails, Fail, MakeInv
<1>7. CASE UNCHANGED allVars
  BY <1>7 DEF allVars, vars, build, MakeInv
<1>. QED BY <1>2, <1>3, <1>4, <1>5, <1>6, <1>7 DEF LifeNext

\* A project at version v whose objects make did not notice: CMake finds one
\* that its list lacks.
LEMMA ListChanges ==
  ASSUME NEW c \in Scripts, NEW v \in Versions, BuiltSince(c, v), Unnoticed(v)
  PROVE  glob # Present \cap Objects
<1>1. PICK f \in MbedOf[v] : f # Library
  BY BuildAssumption
<1>2. f \in MbedFiles /\ f \in Objects /\ f \notin glob
  BY <1>1, ToolsAssumption DEF Unnoticed, Headers
<1>3. tree[Project][f] = v
  BY <1>2, Owed DEF BuiltSince
<1>4. f \in Present
  BY <1>2, <1>3, ToolsAssumption DEF Present
<1>. QED BY <1>2, <1>4

\* What is unchanged in the project and the build stays as the script left it.
LEMMA BuiltStays ==
  ASSUME NEW c \in Scripts, NEW v, BuiltSince(c, v),
         \A f \in Files : tree'[Project][f] = tree[Project][f],
         UNCHANGED <<glob, elf>>, regen' <=> regen, stale' <=> stale
  PROVE  BuiltSince(c, v)'
<1>1. \A f \in Delivers(c) : f \in Files
  BY Owed
<1>2. MbedFiles \subseteq Files /\ "CMakeLists.txt" \in Files /\ Library \in Files
  BY BuildAssumption DEF Files, PlainFiles
<1>3. Present' = Present /\ (CutShort' <=> CutShort) /\ (Unnoticed(v)' <=> Unnoticed(v))
  BY <1>2 DEF Present, CutShort, Unnoticed, Headers
<1>4. \A f \in Delivers(c) : tree'[Project][f] = tree[Project][f]
  BY <1>1
<1>5. tree'[Project][Library] = tree[Project][Library]
  BY <1>2
<1>. QED BY <1>3, <1>4, <1>5 DEF BuiltSince

LEMMA CleanStep ==
  ASSUME TypeOK, CleanRunInv, LifeInv, [LifeNext]_allVars
  PROVE  CleanInv'
<1>1. CASE ToolStep
  <2>1. PICK w \in Rewrites, p \in Prerequisites :
          /\ regen' = (regen \/ w \cap CMakeInputs # {})
          /\ stale' = (stale \/ w \cap p # {})
          /\ clean' = IF w # {} THEN <<>>
                      ELSE IF Finishes THEN <<cmd, version>> ELSE clean
    BY <1>1 DEF ToolStep
  <2>2. Next /\ UNCHANGED <<glob, elf>>
    BY <1>1 DEF ToolStep
  <2>3. CASE w # {}
    BY <2>1, <2>3 DEF CleanInv
  <2>4. CASE w = {}
    <3>1. \A f \in Files : tree'[Project][f] = tree[Project][f]
      BY <2>4, RewritesChanged DEF Changed
    <3>2. (regen' <=> regen) /\ (stale' <=> stale)
      BY <2>1, <2>4
    <3>3. CASE Finishes
      <4>1. /\ clean' = <<cmd, version>> /\ UNCHANGED <<version, tree, cmd>> /\ ~failed
            /\ cmd \in Scripts /\ version \in Versions
            /\ at - 1 = Len(Plan(cmd)) /\ Len(Plan(cmd)) \in Nat
            /\ \A f \in Delivers(cmd) : Delivered(cmd, Project, f)
        BY <2>1, <2>2, <2>4, <3>3, FinishesWell DEF TypeOK
      <4>2. \A f \in Delivers(cmd) : IF f \in MbedOf[version] \cup PlainFiles
                                     THEN tree[Project][f] = version
                                     ELSE cmd # "update" => tree[Project][f] = Absent
        BY <4>1 DEF Delivered
      <4>3. \E j \in 1 .. at - 1 : "targets.cmake" \in Plan(cmd)[j]
        BY <4>1, Owed, PlanShape DEF WellPlanned
      <4>4. pc = "copy" /\ place = Project
        BY <3>3 DEF Finishes
      <4>5. at > 1 /\ regen
        <5>1. Len(Plan(cmd)) >= 3 /\ at \in 1 .. Len(Plan(cmd)) + 1
          BY <4>1, PlanShape DEF TypeOK
        <5>2. at > 1
          BY <4>1, <5>1
        <5>3. regen
          BY <4>1, <4>3, <4>4 DEF CopyingInv, LifeInv
        <5>. QED BY <5>2, <5>3
      <4>6. ~stale => Unnoticed(version)
        BY <4>1, <4>4, <4>5 DEF CopyingInv, LifeInv
      <4>7. BuiltSince(cmd, version)
        BY <4>2, <4>5, <4>6 DEF BuiltSince
      <4>8. \A c \in Scripts : \A v : BuiltSince(c, v) => BuiltSince(c, v)'
        BY <2>2, <3>1, <3>2, BuiltStays
      <4>9. UNCHANGED <<cmd, version>> /\ BuiltSince(cmd, version)'
        BY <4>1, <4>7, <4>8
      <4>. QED BY <4>1, <4>9 DEF CleanInv
    <3>4. CASE ~Finishes
      <4>1. clean' = clean
        BY <2>1, <2>4, <3>4
      <4>. SUFFICES ASSUME NEW c \in Scripts, NEW v \in Versions,
                           clean = <<c, v>>, BuiltSince(c, v)
                    PROVE  BuiltSince(c, v)'
        BY <4>1 DEF CleanInv, LifeInv
      <4>. QED BY <2>2, <3>1, <3>2, BuiltStays
    <3>. QED BY <3>3, <3>4
  <2>. QED BY <2>3, <2>4
<1>2. CASE (MakeCheck \/ UpToDate \/ Link \/ MakeFails) \/ UNCHANGED allVars
  <2>1. clean' = clean /\ tree' = tree
    BY <1>2 DEF MakeCheck, Generate, Fail, UpToDate, Link, MakeFails,
                allVars, vars, build
  <2>. SUFFICES ASSUME NEW c \in Scripts, NEW v \in Versions, BuiltSince(c, v)
                PROVE  BuiltSince(c, v)'
    BY <2>1 DEF CleanInv, LifeInv
  <2>2. CASE UNCHANGED <<glob, elf, regen, stale>>
    BY <2>1, <2>2, BuiltStays
  <2>3. CASE MakeCheck
    <3>1. CASE regen /\ ~InputsAre(Absent) /\ Generate(Present \cap Objects)
      <4>1. /\ glob' = Present \cap Objects /\ elf' = elf /\ ~regen'
            /\ ~stale' => ~stale /\ glob' = glob
        BY <3>1 DEF Generate
      <4>2. Present' = Present /\ (CutShort' <=> CutShort)
        BY <2>1 DEF Present, CutShort
      <4>3. stale'
        BY <3>1, <4>1, ListChanges DEF BuiltSince
      <4>. QED BY <2>1, <4>1, <4>2, <4>3 DEF BuiltSince
    <3>2. CASE regen /\ InputsAre(Torn) /\ Generate({})
      <4>1. glob' = {} /\ elf' = elf /\ ~regen'
        BY <3>2 DEF Generate
      <4>2. tree[Project]["targets.cmake"] = v
        BY Owed DEF BuiltSince, PlainFiles
      <4>3. CutShort
        BY <3>2, <4>2, ToolsAssumption DEF InputsAre, CMakeInputs, CutShort
      <4>4. CutShort'
        BY <2>1, <4>3 DEF CutShort
      <4>. QED BY <2>1, <4>1, <4>4 DEF BuiltSince
    <3>. QED BY <2>2, <2>3, <3>1, <3>2 DEF MakeCheck, Fail
  <2>4. CASE UpToDate
    BY <2>2, <2>4 DEF UpToDate
  <2>5. CASE Link
    <3>1. UNCHANGED <<glob, regen>> /\ ~regen /\ ~stale'
      BY <2>5 DEF Link, MakeInv, LifeInv
    <3>2. elf'[Library] = tree[Project][Library]
      BY <2>5, BuildAssumption DEF Link
    <3>3. Present' = Present /\ (CutShort' <=> CutShort)
      BY <2>1 DEF Present, CutShort
    <3>. QED BY <2>1, <3>1, <3>2, <3>3 DEF BuiltSince
  <2>6. CASE MakeFails
    BY <2>2, <2>6 DEF MakeFails, Fail
  <2>7. CASE UNCHANGED allVars
    BY <2>2, <2>7 DEF allVars, build
  <2>. QED BY <1>2, <2>3, <2>4, <2>5, <2>6, <2>7
<1>. QED BY <1>1, <1>2 DEF LifeNext

LEMMA LifeInvariant == LifeSpec => [](TypeOK /\ CleanRunInv /\ LifeInv)
<1>1. LifeInit => Init /\ CleanRunInv /\ LifeInv
  <2>. SUFFICES ASSUME LifeInit PROVE Init /\ CleanRunInv /\ LifeInv
    OBVIOUS
  <2>1. Init
    BY DEF LifeInit
  <2>2. CleanRunInv /\ CopyingInv
    BY <2>1 DEF Init, CleanRunInv, CopyingInv
  <2>3. MakeInv /\ CleanInv
    BY DEF LifeInit, MakeInv, ImageFresh, CleanInv
  <2>. QED BY <2>1, <2>2, <2>3 DEF LifeInv
<1>2. [LifeNext]_allVars => [Next]_vars
  BY DEF LifeNext, ToolStep, MakeCheck, UpToDate, Link, MakeFails, allVars
<1>3. TypeOK /\ CleanRunInv /\ [Next]_vars => CleanRunInv'
  BY CleanRunStep
<1>4. TypeOK /\ CleanRunInv /\ LifeInv /\ [LifeNext]_allVars => LifeInv'
  BY CopyingStep, MakeStep, CleanStep DEF LifeInv
<1>. QED BY <1>1, <1>2, <1>3, <1>4, TypeCorrect, PTL DEF LifeSpec, Spec

\* A build after a clean script has CMake's list and every file it links.
LEMMA BuiltIsComplete ==
  ASSUME LifeInv, Built
  PROVE  \E c \in Scripts, v \in Versions :
           /\ clean = <<c, v>> /\ BuiltSince(c, v)
           /\ ~stale /\ glob = Present \cap Objects
           /\ elf[Library] = tree[Project][Library]
<1>1. ~regen /\ ~stale /\ clean # <<>> /\ ~CutShort
  BY DEF Built, LifeInv, MakeInv, CutShort
<1>2. PICK c \in Scripts, v \in Versions : clean = <<c, v>> /\ BuiltSince(c, v)
  BY <1>1 DEF LifeInv, CleanInv
<1>. QED BY <1>1, <1>2 DEF BuiltSince

\* For any contents of mbed/ in any number of versions, however earlier scripts
\* and builds were cut short: a make that succeeds after a script without a
\* failure has linked every file of mbed/ at the version of the script.
THEOREM ImagesUpdated == LifeSpec => []ImageUpdated
<1>1. LifeInv => ImageUpdated
  <2>. SUFFICES ASSUME LifeInv, Built, NEW f \in MbedOf[clean[2]]
                PROVE  elf[f] = clean[2]
    BY DEF ImageUpdated
  <2>1. PICK c \in Scripts, v \in Versions :
          /\ clean = <<c, v>> /\ BuiltSince(c, v)
          /\ ~stale /\ glob = Present \cap Objects
          /\ elf[Library] = tree[Project][Library]
    BY BuiltIsComplete
  <2>2. f \in MbedOf[v] /\ f \in MbedFiles /\ clean[2] = v
    BY <2>1, ToolsAssumption
  <2>3. tree[Project][f] = v
    BY <2>1, <2>2, Owed DEF BuiltSince
  <2>4. f \in Present
    BY <2>2, <2>3, ToolsAssumption DEF Present
  <2>5. CASE f = Library
    BY <2>1, <2>2, <2>3, <2>5
  <2>6. CASE f # Library
    <3>1. f \in glob \cup Headers
      BY <2>1, <2>2, <2>4, <2>6 DEF Headers
    <3>. QED BY <2>1, <2>2, <2>3, <3>1 DEF LifeInv, MakeInv, ImageFresh
  <2>. QED BY <2>5, <2>6
<1>. QED BY <1>1, LifeInvariant, PTL

\* For the same: after clone and full-update it holds no other object of mbed/.
THEOREM LeavesNoObject == LifeSpec => []NoLeftovers
<1>1. LifeInv => NoLeftovers
  <2>. SUFFICES ASSUME LifeInv, Built, clean[1] # "update",
                       NEW f \in MbedFiles \ MbedOf[clean[2]]
                PROVE  elf[f] = Absent
    BY DEF NoLeftovers
  <2>1. PICK c \in Scripts, v \in Versions :
          /\ clean = <<c, v>> /\ BuiltSince(c, v)
          /\ ~stale /\ glob = Present \cap Objects
          /\ elf[Library] = tree[Project][Library]
    BY BuiltIsComplete
  <2>2. f \in MbedFiles /\ f \notin MbedOf[v] \cup PlainFiles /\ c # "update"
    BY <2>1, ToolsAssumption
  <2>3. tree[Project][f] = Absent
    BY <2>1, <2>2, Owed DEF BuiltSince
  <2>4. CASE f \in Objects
    <3>1. f \in Objects \ glob
      BY <2>1, <2>3, <2>4 DEF Present
    <3>. QED BY <2>1, <3>1 DEF LifeInv, MakeInv
  <2>5. CASE f \notin Objects
    <3>1. f \in Headers
      BY <2>2, <2>5, BuildAssumption DEF Headers
    <3>. QED BY <2>1, <2>3, <3>1 DEF LifeInv, MakeInv, ImageFresh
  <2>. QED BY <2>4, <2>5
<1>. QED BY <1>1, LifeInvariant, PTL

\* For the same: make finds what the build system of a project names, once a
\* script has gone through it without a failure.
THEOREM FindsObjects == LifeSpec => []ObjectsFound
<1>1. LifeInv => ObjectsFound
  <2>. SUFFICES ASSUME LifeInv, make = "build", clean # <<>>
                PROVE  glob \cup {Library} \subseteq Present
    BY DEF ObjectsFound
  <2>1. PICK c \in Scripts, v \in Versions : BuiltSince(c, v)
    BY DEF LifeInv, CleanInv
  <2>2. glob \subseteq Present
    BY <2>1 DEF BuiltSince, LifeInv, MakeInv
  <2>3. Library \in MbedFiles /\ Library \in MbedOf[v]
    BY BuildAssumption
  <2>4. tree[Project][Library] = v
    BY <2>1, <2>3, Owed DEF BuiltSince
  <2>. QED BY <2>2, <2>3, <2>4, ToolsAssumption DEF Present
<1>. QED BY <1>1, LifeInvariant, PTL
=============================================================================
