-------------------------- MODULE BuildUploadProofs --------------------------
(***************************************************************************)
(* Proofs about BuildUpload, for any targets, revisions and mounts: what a *)
(* board runs, what an upload has delivered, and what stays mounted.       *)
(***************************************************************************)
EXTENDS BuildUpload, SequenceTheorems, TLAPS

-----------------------------------------------------------------------------
(***************************************************************************)
(* The inductive invariant.                                                *)
(***************************************************************************)
Working == {"compile", "objcopy", "upload", "cp", "sync", "umount"}
OnDisk  == {"cp", "sync", "umount"}

Configs == [target : Targets, sources : SUBSET Sources, disk : BOOLEAN]

\* An image made in this run for the target of the build system: from sources the
\* run found, of which dmake leaves none out.
Made(i) ==
  /\ i \in Images /\ i.target = cfg.target /\ i.rev >= fresh
  /\ \E s \in had : i.sources \subseteq s /\ (tool = "dmake" => i.sources = s)

\* Between make's check and the end of the run the build system is there, what
\* it produces is for its target and from sources the run found, and the disk
\* on top of /mnt is that of its target.
StageInv ==
  /\ fresh <= rev
  /\ pc \in Working => cfg \in Configs
  /\ pc = "objcopy" => Made(elf)
  /\ pc \in {"upload", "cp", "sync", "umount"} => Made(bin)
  /\ pc \in OnDisk => mnt[Space] # <<>> /\ Last(mnt[Space]) = cfg.target

\* What CMake saw it saw in this run.
Current == cfg.sources \in had /\ (cfg.disk \/ cfg.target \in lacked)

\* Under dmake make works with a build system of this run: CMake has made it, or
\* has failed, and then NUCLEO was changed and make lets CMake run again.
SeenInv ==
  /\ pc # "idle" => sources \in had /\ Targets \ plugged \subseteq lacked
  /\ cfg # None /\ ~dirty => nucleo \in Configurable
  /\ tool = "dmake" /\ pc = "check" => cfg = None \/ dirty \/ Current
  /\ tool = "dmake" /\ pc \in Working => Current
  /\ absent => pc = "end"
  /\ AbsentSaidTruly

\* Only a disk the run has mounted is on the host's /mnt beyond what was there.
HeldInv ==
  /\ pc \in {"cmake", "check", "compile", "objcopy", "upload"} =>
       Len(mnt["host"]) <= held
  /\ pc \in OnDisk =>
       Len(mnt["host"]) <= held + (IF tool = "dmake" THEN 0 ELSE 1)
  /\ NoLeakOnSuccess

\* What the board holds once the file has reached its disk.
Delivered == flashed[cfg.target] = bin /\ Made(bin)
DeliveryInv ==
  /\ pc = "umount" => Delivered
  /\ pc = "end" /\ status = 0 /\ goal = "upload" /\ ~absent => Delivered

BuildInv == TypeOK /\ StageInv /\ SeenInv /\ HeldInv /\ RightImage /\ DeliveryInv

-----------------------------------------------------------------------------
(***************************************************************************)
(* The stack of mounts.                                                    *)
(***************************************************************************)
MntOK(m) ==
  /\ DOMAIN m = {"host", "container"}
  /\ \A s \in DOMAIN m : m[s] \in Seq(Targets) /\ Len(m[s]) <= MaxMounts

LEMMA Pushed ==
  ASSUME NEW b \in Targets, NEW l \in Seq(Targets)
  PROVE  /\ Append(l, b) \in Seq(Targets) /\ Len(Append(l, b)) = Len(l) + 1
         /\ Append(l, b) # <<>> /\ Last(Append(l, b)) = b
  BY DEF Last

LEMMA Popped ==
  ASSUME NEW l \in Seq(Targets), l # <<>>
  PROVE  Front(l) \in Seq(Targets) /\ Len(Front(l)) = Len(l) - 1
<1>1. Len(l) \in Nat /\ Len(l) # 0
  OBVIOUS
<1>2. Len(l) - 1 \in Int /\ 1 \in Int /\ \A i \in 1 .. Len(l) - 1 : l[i] \in Targets
  BY <1>1
<1>3. /\ SubSeq(l, 1, Len(l) - 1) \in Seq(Targets)
      /\ Len(SubSeq(l, 1, Len(l) - 1))
           = IF 1 <= Len(l) - 1 THEN Len(l) - 1 - 1 + 1 ELSE 0
  BY <1>2, SubSeqProperties
<1>4. Front(l) = SubSeq(l, 1, Len(l) - 1)
  BY Zenon DEF Front
<1>5. (IF 1 <= Len(l) - 1 THEN Len(l) - 1 - 1 + 1 ELSE 0) = Len(l) - 1
  <2>1. \A n \in Nat \ {0} : (IF 1 <= n - 1 THEN n - 1 - 1 + 1 ELSE 0) = n - 1
    OBVIOUS
  <2>. QED BY <1>1, <2>1
<1>6. Len(Front(l)) = Len(l) - 1
  BY <1>3, <1>4, <1>5, Zenon
<1>7. Front(l) \in Seq(Targets)
  BY <1>3, <1>4, Zenon
<1>. QED BY <1>6, <1>7

LEMMA SpaceType == Space \in {"host", "container"} /\ (Space = "host" <=> tool # "dmake")
  BY DEF Space

\* The mounts after a step: none changed, one pushed or popped in one space, or
\* the container gone.
LEMMA MntPush ==
  ASSUME TypeOK, NEW s \in {"host", "container"}, NEW b \in Targets,
         Len(mnt[s]) < MaxMounts, mnt' = [mnt EXCEPT ![s] = Append(@, b)]
  PROVE  /\ MntOK(mnt') /\ mnt'[s] # <<>> /\ Last(mnt'[s]) = b
         /\ Len(mnt'[s]) = Len(mnt[s]) + 1
         /\ \A r \in {"host", "container"} \ {s} : mnt'[r] = mnt[r]
<1>1. mnt[s] \in Seq(Targets) /\ DOMAIN mnt = {"host", "container"}
  BY DEF TypeOK
<1>2. mnt'[s] = Append(mnt[s], b) /\ DOMAIN mnt' = {"host", "container"}
  BY <1>1
<1>3. \A r \in {"host", "container"} \ {s} : mnt'[r] = mnt[r]
  BY <1>1
<1>4. /\ mnt'[s] \in Seq(Targets) /\ Len(mnt'[s]) = Len(mnt[s]) + 1
      /\ mnt'[s] # <<>> /\ Last(mnt'[s]) = b
  BY <1>1, <1>2, Pushed
<1>5. Len(mnt'[s]) <= MaxMounts
  BY <1>1, <1>4, BuildAssumption
<1>6. \A r \in {"host", "container"} : mnt[r] \in Seq(Targets) /\ Len(mnt[r]) <= MaxMounts
  BY <1>1 DEF TypeOK
<1>. QED BY <1>2, <1>3, <1>4, <1>5, <1>6 DEF MntOK

LEMMA MntPop ==
  ASSUME TypeOK, NEW s \in {"host", "container"}, mnt[s] # <<>>,
         mnt' = [mnt EXCEPT ![s] = Front(@)]
  PROVE  /\ MntOK(mnt') /\ Len(mnt'[s]) = Len(mnt[s]) - 1
         /\ \A r \in {"host", "container"} \ {s} : mnt'[r] = mnt[r]
<1>1. mnt[s] \in Seq(Targets) /\ DOMAIN mnt = {"host", "container"}
  BY DEF TypeOK
<1>2. mnt'[s] = Front(mnt[s]) /\ DOMAIN mnt' = {"host", "container"}
  BY <1>1
<1>3. \A r \in {"host", "container"} \ {s} : mnt'[r] = mnt[r]
  BY <1>1
<1>4. mnt'[s] \in Seq(Targets) /\ Len(mnt'[s]) = Len(mnt[s]) - 1
  BY <1>1, <1>2, Popped
<1>5. \A r \in {"host", "container"} : mnt[r] \in Seq(Targets) /\ Len(mnt[r]) <= MaxMounts
  BY <1>1 DEF TypeOK
<1>6. Len(mnt'[s]) <= MaxMounts
  BY <1>1, <1>4, <1>5, BuildAssumption
<1>. QED BY <1>2, <1>3, <1>4, <1>5, <1>6 DEF MntOK

LEMMA MntGone ==
  ASSUME TypeOK, mnt' = [mnt EXCEPT !["container"] = <<>>]
  PROVE  MntOK(mnt') /\ mnt'["host"] = mnt["host"] /\ mnt'["container"] = <<>>
<1>1. DOMAIN mnt = {"host", "container"}
  BY DEF TypeOK
<1>2. /\ mnt'["container"] = <<>> /\ DOMAIN mnt' = {"host", "container"}
      /\ mnt'["host"] = mnt["host"]
  BY <1>1
<1>3. <<>> \in Seq(Targets) /\ Len(<<>>) <= MaxMounts
  BY BuildAssumption
<1>4. mnt["host"] \in Seq(Targets) /\ Len(mnt["host"]) <= MaxMounts
  BY <1>1 DEF TypeOK
<1>. QED BY <1>2, <1>3, <1>4 DEF MntOK

-----------------------------------------------------------------------------
(***************************************************************************)
(* Type correctness.                                                       *)
(***************************************************************************)
LEMMA InitType == Init => TypeOK
<1>. SUFFICES ASSUME Init PROVE TypeOK
  OBVIOUS
<1>1. /\ rev = 0 /\ fresh = 0 /\ held = 0 /\ had = {} /\ lacked = {}
      /\ sources \in (SUBSET Sources) \ {{}} /\ nucleo \in Targets /\ plugged = {}
      /\ cfg = None /\ elf = None /\ bin = None
      /\ pc = "idle" /\ status = 0 /\ exit = 0 /\ dirty = TRUE /\ absent = FALSE
  BY DEF Init
<1>5. 0 \in 0 .. MaxRev /\ 0 \in 0 .. MaxMounts
  BY BuildAssumption
<1>6. pc \in Stages
  BY <1>1 DEF Stages
<1>2. flashed \in [Targets -> Images \cup {None, Torn}]
  BY DEF Init
<1>3. DOMAIN mnt = {"host", "container"} /\ mnt["container"] = <<>> /\ mnt["host"] = <<>>
  BY DEF Init
<1>4. <<>> \in Seq(Targets) /\ Len(<<>>) <= MaxMounts
  BY BuildAssumption
<1>. QED BY <1>1, <1>2, <1>3, <1>4, <1>5, <1>6 DEF TypeOK

\* What does not concern the mounts.
Typed ==
  /\ rev \in 0 .. MaxRev /\ sources \in (SUBSET Sources) \ {{}}
  /\ nucleo \in Targets /\ plugged \subseteq Targets
  /\ flashed \in [Targets -> Images \cup {None, Torn}]
  /\ cfg \in Configs \cup {None}
  /\ elf \in Images \cup {None} /\ bin \in Images \cup {None}
  /\ pc \in Stages /\ status \in {0, 2} /\ exit \in {0, 2, 130}
  /\ dirty \in BOOLEAN /\ absent \in BOOLEAN /\ fresh \in 0 .. MaxRev
  /\ held \in 0 .. MaxMounts
  /\ had \subseteq SUBSET Sources /\ lacked \subseteq Targets
Emptied == pc = "idle" => mnt["container"] = <<>>

LEMMA TypeParts == TypeOK <=> Typed /\ MntOK(mnt) /\ Emptied
  BY DEF TypeOK, Typed, MntOK, Emptied, Configs

LEMMA TypePrime ==
  ASSUME Typed', MntOK(mnt'), Emptied'
  PROVE  TypeOK'
  BY DEF TypeOK, Typed, MntOK, Emptied, Configs

\* A step that leaves the mounts alone.
LEMMA Unmoved ==
  ASSUME TypeOK, mnt' = mnt, Typed', pc' = "idle" => pc = "idle"
  PROVE  TypeOK'
<1>1. MntOK(mnt') /\ Emptied'
  BY TypeParts DEF Emptied
<1>. QED BY <1>1, TypePrime

\* The images and the revisions.
LEMMA ImageType ==
  ASSUME NEW r \in 0 .. MaxRev, NEW s \in SUBSET Sources, NEW t \in Targets
  PROVE  [rev |-> r, sources |-> s, target |-> t] \in Images
  BY DEF Images

LEMMA GenerateType ==
  ASSUME Typed, Generate
  PROVE  cfg' \in Configs /\ dirty' \in BOOLEAN
<1>1. nucleo \in Targets /\ sources \in SUBSET Sources /\ (nucleo \in plugged) \in BOOLEAN
  BY DEF Typed
<1>2. /\ cfg' = [target |-> nucleo, sources |-> sources, disk |-> nucleo \in plugged]
      /\ dirty' = FALSE
  BY DEF Generate
<1>. QED BY <1>1, <1>2 DEF Configs

LEMMA TypeStep ==
  ASSUME TypeOK, StageInv, [Next]_vars
  PROVE  TypeOK'
<1>. USE TypeParts
<1>1. CASE CMake
  <2>1. mnt' = mnt /\ pc' = "check"
    BY <1>1 DEF CMake, CMakeUnless
  <2>2. cfg' \in Configs \cup {None} /\ dirty' \in BOOLEAN
    BY <1>1, GenerateType DEF CMake, CMakeUnless, GenerateFails, Typed
  <2>3. Typed'
    BY <1>1, <2>1, <2>2 DEF CMake, CMakeUnless, Typed, run, kept, seen, Stages
  <2>. QED BY <2>1, <2>3, Unmoved
<1>2. CASE MakeCheck
  <2>1. mnt' = mnt /\ pc' \in {"compile", "end"} /\ status' \in {0, 2}
    BY <1>2 DEF MakeCheck, Check, Fail, Typed
  <2>2. cfg' \in Configs \cup {None} /\ dirty' \in BOOLEAN
    BY <1>2, GenerateType DEF MakeCheck, Check, GenerateFails, Typed
  <2>3. Typed'
    BY <1>2, <2>1, <2>2 DEF MakeCheck, Check, Typed, run, kept, seen, Stages
  <2>. QED BY <2>1, <2>3, Unmoved
<1>3. CASE Compile
  <2>1. mnt' = mnt /\ pc' \in {"objcopy", "end"} /\ status' \in {0, 2}
    BY <1>3 DEF Compile, CompileFor, Fail, Typed
  <2>2. cfg.target \in Targets /\ cfg.sources \in SUBSET Sources /\ rev \in 0 .. MaxRev
    BY <1>3 DEF Compile, CompileFor, StageInv, Working, Typed, Configs
  <2>3. elf' \in Images \cup {None}
    BY <1>3, <2>2, ImageType DEF Compile, CompileFor, Typed
  <2>4. Typed'
    BY <1>3, <2>1, <2>3 DEF Compile, CompileFor, Typed, run, kept, seen, world, Stages
  <2>. QED BY <2>1, <2>4, Unmoved
<1>4. CASE GenerateBin
  <2>1. mnt' = mnt /\ pc' \in {"upload", "end"} /\ status' \in {0, 2}
    BY <1>4 DEF GenerateBin, Fail, Typed
  <2>2. bin' \in Images \cup {None}
    BY <1>4 DEF GenerateBin, Typed
  <2>3. Typed'
    BY <1>4, <2>1, <2>2 DEF GenerateBin, Typed, run, kept, seen, world, Stages
  <2>. QED BY <2>1, <2>3, Unmoved
<1>5. CASE NotFound
  <2>1. mnt' = mnt /\ pc' = "end"
    BY <1>5 DEF NotFound
  <2>2. Typed'
    BY <1>5, <2>1 DEF NotFound, Typed, run, kept, seen, world, files, Stages
  <2>. QED BY <2>1, <2>2, Unmoved
<1>6. CASE Mount
  <2>1. pc' \in {"cp", "end"} /\ status' \in {0, 2}
    BY <1>6 DEF Mount, Fail, Typed
  <2>2. Typed'
    BY <1>6, <2>1 DEF Mount, Typed, run, kept, seen, world, files, Stages
  <2>3. cfg.target \in Targets
    BY <1>6 DEF Mount, StageInv, Working, Configs
  <2>4. MntOK(mnt')
    <3>1. CASE mnt' = mnt
      BY <3>1
    <3>2. CASE /\ Len(mnt[Space]) < MaxMounts
               /\ mnt' = [mnt EXCEPT ![Space] = Append(@, cfg.target)]
      BY <2>3, <3>2, SpaceType, MntPush
    <3>. QED BY <1>6, <3>1, <3>2 DEF Mount
  <2>5. Emptied'
    BY <2>1 DEF Emptied
  <2>. QED BY <2>2, <2>4, <2>5, TypePrime
<1>7. CASE CopyBin
  <2>1. mnt' = mnt /\ pc' \in {"sync", "end"} /\ status' \in {0, 2}
    BY <1>7 DEF CopyBin, Fail, Typed
  <2>2. Last(mnt[Space]) \in Targets
    BY <1>7 DEF CopyBin, StageInv, OnDisk, Working, Configs
  <2>3. flashed' \in [Targets -> Images \cup {None, Torn}]
    BY <1>7, <2>2 DEF CopyBin, Typed
  <2>4. Typed'
    BY <1>7, <2>1, <2>3 DEF CopyBin, Typed, run, kept, seen, world, Stages
  <2>. QED BY <2>1, <2>4, Unmoved
<1>8. CASE Sync
  <2>1. mnt' = mnt /\ pc' = "umount"
    BY <1>8 DEF Sync, SyncTo
  <2>2. flashed' \in [Targets -> Images \cup {None, Torn}]
    BY <1>8 DEF Sync, SyncTo, Typed
  <2>3. Typed'
    BY <1>8, <2>1, <2>2 DEF Sync, SyncTo, Typed, run, kept, seen, world, Stages
  <2>. QED BY <2>1, <2>3, Unmoved
<1>9. CASE Umount
  <2>1. pc' = "end" /\ status' \in {0, 2}
    BY <1>9 DEF Umount, Fail, Typed
  <2>2. Typed'
    BY <1>9, <2>1 DEF Umount, Typed, run, kept, seen, world, files, Stages
  <2>3. mnt[Space] # <<>>
    BY <1>9 DEF Umount, StageInv, OnDisk
  <2>4. MntOK(mnt')
    <3>1. CASE mnt' = mnt
      BY <3>1
    <3>2. CASE mnt' = [mnt EXCEPT ![Space] = Front(@)]
      BY <2>3, <3>2, SpaceType, MntPop
    <3>. QED BY <1>9, <3>1, <3>2 DEF Umount
  <2>5. Emptied'
    BY <2>1 DEF Emptied
  <2>. QED BY <2>2, <2>4, <2>5, TypePrime
<1>10. CASE End \/ Interrupt
  <2>1. /\ pc' = "idle" /\ status' \in {0, 2} /\ exit' \in {0, 2, 130}
        /\ mnt' = [mnt EXCEPT !["container"] = <<>>]
    BY <1>10 DEF End, Interrupt, Forget, Typed
  <2>2. UNCHANGED <<rev, sources, nucleo, plugged, dirty, cfg, elf, bin, flashed>>
    BY <1>10 DEF End, Interrupt, world, files
  <2>4. /\ had' = {} /\ lacked' = {} /\ fresh' = 0 /\ held' = 0 /\ absent' = FALSE
        /\ 0 \in 0 .. MaxRev /\ 0 \in 0 .. MaxMounts
    BY <1>10, BuildAssumption DEF End, Interrupt, Forget
  <2>5. pc' \in Stages
    BY <2>1 DEF Stages
  <2>6. Typed'
    BY <2>1, <2>2, <2>4, <2>5 DEF Typed
  <2>3. MntOK(mnt') /\ Emptied'
    BY <2>1, MntGone DEF Emptied
  <2>. QED BY <2>3, <2>6, TypePrime
<1>11. CASE Edit
  <2>1. mnt' = mnt /\ pc' = pc /\ rev' \in 0 .. MaxRev
    BY <1>11, BuildAssumption DEF Edit, Typed
  <2>2. Typed'
    BY <1>11, <2>1 DEF Edit, Typed, run, kept, seen, files
  <2>. QED BY <2>1, <2>2, Unmoved
<1>12. ASSUME NEW t \in Targets, SetNucleo(t) \/ Plug(t) \/ Unplug(t)
       PROVE  TypeOK'
  <2>1. mnt' = mnt /\ pc' = pc
    BY <1>12 DEF SetNucleo, Plug, Unplug
  <2>2. nucleo' \in Targets /\ plugged' \subseteq Targets
    BY <1>12 DEF SetNucleo, Plug, Unplug, Typed
  <2>3. dirty' \in BOOLEAN
    BY <1>12, Zenon DEF SetNucleo, Plug, Unplug, Typed
  <2>4. UNCHANGED <<rev, sources, cfg, elf, bin, flashed, pc, status, exit, absent,
                    fresh, held, had>>
    BY <1>12 DEF SetNucleo, Plug, Unplug, run, kept, seen, files
  <2>6. lacked' \subseteq Targets
    BY <1>12 DEF SetNucleo, Plug, Unplug, run, seen, Typed
  <2>5. Typed'
    BY <2>2, <2>3, <2>4, <2>6 DEF Typed
  <2>. QED BY <2>1, <2>5, Unmoved
<1>13. CASE UmountByHand
  <2>1. pc = "idle" /\ pc' = pc
    BY <1>13 DEF UmountByHand
  <2>2. Typed'
    BY <1>13 DEF UmountByHand, Typed, run, kept, seen, files, world
  <2>3. /\ MntOK(mnt')
        /\ \A r \in {"host", "container"} \ {"host"} : mnt'[r] = mnt[r]
    BY <1>13, MntPop DEF UmountByHand
  <2>4. Emptied'
    BY <2>1, <2>3 DEF Emptied
  <2>. QED BY <2>2, <2>3, <2>4, TypePrime
<1>14. ASSUME NEW t \in {"make", "dmake"}, NEW g \in {"all", "upload"}, Start(t, g)
       PROVE  TypeOK'
  <2>1. mnt' = mnt /\ pc' \in {"cmake", "check"}
    BY <1>14 DEF Start
  <2>2. held' \in 0 .. MaxMounts
    <3>1. mnt["host"] \in Seq(Targets) /\ Len(mnt["host"]) <= MaxMounts
      BY DEF MntOK
    <3>2. Len(mnt["host"]) \in Nat
      BY <3>1
    <3>. QED BY <1>14, <3>1, <3>2, BuildAssumption DEF Start
  <2>3. /\ UNCHANGED <<rev, sources, nucleo, plugged, dirty, cfg, elf, bin, flashed>>
        /\ fresh' = rev /\ status' = 0 /\ exit' = 0 /\ absent' = FALSE
        /\ had' = {sources} /\ lacked' = Targets \ plugged
    BY <1>14 DEF Start, world, files
  <2>4. pc' \in Stages
    BY <2>1 DEF Stages
  <2>5. Typed'
    BY <2>2, <2>3, <2>4 DEF Typed
  <2>. QED BY <2>1, <2>5, Unmoved
<1>15. CASE UNCHANGED vars
  BY <1>15 DEF vars, TypeOK
<1>. QED
  BY <1>1, <1>2, <1>3, <1>4, <1>5, <1>6, <1>7, <1>8, <1>9, <1>10, <1>11,
     <1>12, <1>13, <1>14, <1>15 DEF Next, Run

-----------------------------------------------------------------------------
(***************************************************************************)
(* The stages of a run.                                                    *)
(***************************************************************************)
\* What StageInv speaks of stays when the files, the run and its stage do.
LEMMA StageStays ==
  ASSUME StageInv, TypeOK,
         UNCHANGED <<cfg, elf, bin, tool, goal, fresh, pc>>,
         pc # "idle" => had \subseteq had',
         rev' \in Nat, rev <= rev', pc \in OnDisk => mnt' = mnt
  PROVE  StageInv'
<1>1. fresh' <= rev'
  BY BuildAssumption DEF StageInv, TypeOK
<1>2. Space' = Space
  BY DEF Space
<1>3. pc = "objcopy" => Made(elf)'
  BY DEF StageInv, Made
<1>4. pc \in {"upload", "cp", "sync", "umount"} => Made(bin)'
  BY DEF StageInv, Made
<1>. QED BY <1>1, <1>2, <1>3, <1>4 DEF StageInv, OnDisk

LEMMA StageStep ==
  ASSUME TypeOK, StageInv, SeenInv, [Next]_vars
  PROVE  StageInv'
<1>1. CASE CMake
  BY <1>1 DEF CMake, CMakeUnless, run, kept, seen, StageInv, Working, OnDisk
<1>2. CASE MakeCheck
  <2>1. /\ rev' = rev /\ fresh' = fresh /\ pc' \in {"compile", "end"}
    BY <1>2 DEF MakeCheck, Check, Fail, run, kept, seen
  <2>2. ASSUME pc' = "compile"
        PROVE  cfg' \in Configs
    <3>1. CASE Generate
      BY <3>1, GenerateType, TypeParts
    <3>2. CASE cfg' = cfg /\ cfg # None
      BY <3>2 DEF TypeOK, Configs
    <3>. QED BY <1>2, <2>2, <3>1, <3>2 DEF MakeCheck, Check, Fail
  <2>. QED BY <2>1, <2>2 DEF StageInv, Working, OnDisk
<1>3. CASE Compile
  <2>1. /\ UNCHANGED <<rev, fresh, cfg, tool, had>> /\ pc' \in {"objcopy", "end"}
        /\ pc = "compile"
        /\ pc' = "objcopy" =>
             /\ elf' = [rev |-> rev, sources |-> cfg.sources, target |-> cfg.target]
             /\ cfg.sources \subseteq sources
    BY <1>3 DEF Compile, CompileFor, Fail, run, kept, seen, world
  <2>2. cfg \in Configs /\ rev \in 0 .. MaxRev /\ sources \in had
    BY <2>1 DEF StageInv, SeenInv, Working, TypeOK
  <2>3. tool = "dmake" => cfg.sources \in had
    BY <2>1 DEF SeenInv, Current, Working
  <2>4. ASSUME pc' = "objcopy" PROVE Made(elf)'
    <3>1. cfg.target \in Targets /\ cfg.sources \in SUBSET Sources
      BY <2>2 DEF Configs
    <3>2. /\ elf' \in Images /\ elf'.target = cfg.target /\ elf'.rev = rev
          /\ elf'.sources = cfg.sources
      BY <2>1, <2>2, <2>4, <3>1, ImageType
    <3>3. fresh <= rev
      BY DEF StageInv
    <3>4. fresh \in Nat /\ rev \in Nat
      BY BuildAssumption DEF TypeOK
    <3>5. \E l \in had : cfg.sources \subseteq l /\ (tool = "dmake" => cfg.sources = l)
      BY <2>1, <2>2, <2>3, <2>4
    <3>. QED BY <2>1, <3>2, <3>3, <3>4, <3>5 DEF Made
  <2>5. fresh <= rev
    BY DEF StageInv
  <2>. QED BY <2>1, <2>2, <2>4, <2>5 DEF StageInv, Working, OnDisk
<1>4. CASE GenerateBin
  <2>1. /\ UNCHANGED <<rev, fresh, cfg, tool, had>> /\ pc = "objcopy"
        /\ pc' \in {"upload", "end"} /\ (pc' = "upload" => bin' = elf)
    BY <1>4 DEF GenerateBin, Fail, run, kept, seen, world
  <2>2. pc' = "upload" => Made(bin)'
    BY <2>1 DEF StageInv, Made
  <2>. QED BY <2>1, <2>2 DEF StageInv, Working, OnDisk
<1>5. CASE NotFound
  BY <1>5 DEF NotFound, run, kept, seen, world, files, StageInv, Working, OnDisk
<1>6. CASE Mount
  <2>1. /\ UNCHANGED <<rev, fresh, cfg, bin, tool, had>>
        /\ pc' \in {"cp", "end"} /\ pc = "upload"
        /\ pc' = "cp" => /\ Len(mnt[Space]) < MaxMounts
                         /\ mnt' = [mnt EXCEPT ![Space] = Append(@, cfg.target)]
    BY <1>6 DEF Mount, Fail, run, kept, seen, world, files
  <2>2. cfg.target \in Targets
    BY <2>1 DEF StageInv, Working, Configs
  <2>3. Space' = Space
    BY <2>1 DEF Space
  <2>4. pc' = "cp" => mnt'[Space'] # <<>> /\ Last(mnt'[Space']) = cfg.target
    BY <2>1, <2>2, <2>3, SpaceType, MntPush
  <2>5. Made(bin)'
    BY <2>1 DEF StageInv, Made
  <2>. QED BY <2>1, <2>4, <2>5 DEF StageInv, Working, OnDisk
<1>7. CASE CopyBin \/ Sync
  <2>1. /\ UNCHANGED <<rev, fresh, cfg, bin, tool, had>>
        /\ mnt' = mnt /\ pc \in {"cp", "sync"} /\ pc' \in {"sync", "umount", "end"}
    BY <1>7 DEF CopyBin, Sync, SyncTo, Fail, run, kept, seen, world
  <2>2. Space' = Space
    BY <2>1 DEF Space
  <2>3. Made(bin)'
    BY <2>1 DEF StageInv, Made
  <2>. QED BY <2>1, <2>2, <2>3 DEF StageInv, Working, OnDisk
<1>8. CASE Umount \/ End \/ Interrupt
  <2>1. rev' = rev /\ fresh' \in {fresh, 0} /\ pc' \in {"end", "idle"}
    BY <1>8 DEF Umount, End, Interrupt, Forget, Fail, run, kept, seen, world
  <2>2. 0 <= rev
    BY BuildAssumption DEF TypeOK
  <2>. QED BY <2>1, <2>2 DEF StageInv, Working, OnDisk
<1>9. CASE Edit
  <2>1. rev \in Nat /\ rev' = rev + 1
    BY <1>9, BuildAssumption DEF Edit, TypeOK
  <2>. QED BY <1>9, <2>1, StageStays DEF Edit, files, run, kept, seen
<1>10. ASSUME NEW t \in Targets, SetNucleo(t) \/ Plug(t) \/ Unplug(t)
       PROVE  StageInv'
  <2>1. rev \in Nat /\ rev' = rev
    BY <1>10, BuildAssumption DEF SetNucleo, Plug, Unplug, TypeOK
  <2>. QED BY <1>10, <2>1, StageStays DEF SetNucleo, Plug, Unplug, files, run, kept, seen
<1>11. CASE UmountByHand
  <2>1. rev \in Nat /\ rev' = rev /\ pc \notin OnDisk
    BY <1>11, BuildAssumption DEF UmountByHand, TypeOK, world, OnDisk
  <2>. QED BY <1>11, <2>1, StageStays DEF UmountByHand, files, run, kept, seen
<1>12. ASSUME NEW t \in {"make", "dmake"}, NEW g \in {"all", "upload"}, Start(t, g)
       PROVE  StageInv'
  <2>1. rev \in Nat /\ rev' = rev /\ fresh' = rev /\ pc' \in {"cmake", "check"}
    BY <1>12, BuildAssumption DEF Start, TypeOK, world
  <2>. QED BY <2>1 DEF StageInv, Working, OnDisk
<1>13. CASE UNCHANGED vars
  <2>1. rev \in Nat
    BY BuildAssumption DEF TypeOK
  <2>. QED BY <1>13, <2>1, StageStays DEF vars
<1>. QED
  BY <1>1, <1>2, <1>3, <1>4, <1>5, <1>6, <1>7, <1>8, <1>9, <1>10, <1>11,
     <1>12, <1>13 DEF Next, Run

-----------------------------------------------------------------------------
(***************************************************************************)
(* What CMake saw, and what the run remembers.                             *)
(***************************************************************************)
LEMMA Remembered ==
  ASSUME [Next]_vars, pc # "idle", pc' # "idle"
  PROVE  /\ had \subseteq had' /\ lacked \subseteq lacked'
         /\ UNCHANGED <<tool, goal, fresh>>
<1>1. CASE Run
  BY <1>1 DEF Run, CMake, CMakeUnless, MakeCheck, Check, Compile, CompileFor,
              GenerateBin, NotFound, Mount, CopyBin, Sync, SyncTo, Umount, End,
              run, kept, seen
<1>2. CASE Interrupt \/ Edit \/ UmountByHand
  BY <1>2 DEF Interrupt, Edit, UmountByHand, kept
<1>3. ASSUME NEW t \in Targets, SetNucleo(t) \/ Plug(t) \/ Unplug(t)
      PROVE  /\ had \subseteq had' /\ lacked \subseteq lacked'
             /\ UNCHANGED <<tool, goal, fresh>>
  BY <1>3 DEF SetNucleo, Plug, Unplug, run, kept, seen
<1>4. ASSUME NEW t \in {"make", "dmake"}, NEW g \in {"all", "upload"}, Start(t, g)
      PROVE  FALSE
  BY <1>4 DEF Start
<1>5. CASE UNCHANGED vars
  BY <1>5 DEF vars
<1>. QED BY <1>1, <1>2, <1>3, <1>4, <1>5 DEF Next

\* A build system generated now is of this run.
LEMMA GenerateCurrent ==
  ASSUME TypeOK, SeenInv, pc # "idle", Generate,
         had' = had, lacked' = lacked, nucleo' = nucleo
  PROVE  Current' /\ nucleo' \in Configurable
<1>1. sources \in had /\ Targets \ plugged \subseteq lacked /\ nucleo \in Targets
  BY DEF SeenInv, TypeOK
<1>2. cfg'.sources = sources /\ cfg'.target = nucleo /\ cfg'.disk = (nucleo \in plugged)
  BY DEF Generate
<1>3. nucleo \in Configurable
  BY DEF Generate
<1>. QED BY <1>1, <1>2, <1>3 DEF Current

LEMMA CurrentStays ==
  ASSUME Current, cfg' = cfg, had \subseteq had', lacked \subseteq lacked'
  PROVE  Current'
  BY DEF Current

\* A step that leaves the build system, and goes on within make or stops.
LEMMA SeenStays ==
  ASSUME TypeOK, SeenInv, had \subseteq had', lacked \subseteq lacked',
         UNCHANGED <<cfg, dirty, tool, nucleo, absent>>,
         pc # "idle" => sources' \in had' /\ Targets \ plugged' \subseteq lacked',
         pc' = pc \/ (pc \in Working /\ pc' \in Working \cup {"end"})
  PROVE  SeenInv'
<1>1. tool = "dmake" /\ pc' \in Working => Current'
  BY CurrentStays DEF SeenInv, Working
<1>2. tool = "dmake" /\ pc' = "check" => cfg = None \/ dirty \/ Current'
  BY CurrentStays DEF SeenInv, Working
<1>3. absent => pc' = "end" /\ pc = "end"
  BY DEF SeenInv, Working
<1>4. AbsentSaidTruly'
  BY <1>3 DEF SeenInv, AbsentSaidTruly
<1>5. pc' # "idle" => sources' \in had' /\ Targets \ plugged' \subseteq lacked'
  BY DEF Working
<1>. QED BY <1>1, <1>2, <1>3, <1>4, <1>5 DEF SeenInv

LEMMA SeenStep ==
  ASSUME TypeOK, SeenInv, [Next]_vars
  PROVE  SeenInv'
<1>1. CASE CMake
  <2>1. /\ UNCHANGED <<sources, plugged, nucleo, had, lacked, tool, absent>>
        /\ pc = "cmake" /\ pc' = "check" /\ (Generate \/ GenerateFails)
    BY <1>1 DEF CMake, CMakeUnless, run, kept, seen
  <2>2. CASE Generate
    BY <2>1, <2>2, GenerateCurrent DEF SeenInv, AbsentSaidTruly, Working
  <2>3. CASE GenerateFails
    <3>1. cfg' = None \/ dirty'
      BY <2>1, <2>3 DEF SeenInv, GenerateFails, TypeOK
    <3>. QED BY <2>1, <2>3, <3>1 DEF SeenInv, GenerateFails, AbsentSaidTruly, Working
  <2>. QED BY <2>1, <2>2, <2>3
<1>2. CASE MakeCheck
  <2>1. /\ UNCHANGED <<sources, plugged, nucleo, had, lacked, tool, absent>>
        /\ pc = "check" /\ pc' \in {"compile", "end"} /\ ~absent
        /\ UNCHANGED <<cfg, dirty>> \/ Generate
        /\ pc' = "compile" => Generate \/ (cfg # None /\ ~dirty)
    BY <1>2 DEF MakeCheck, Check, Fail, GenerateFails, run, kept, seen, SeenInv
  <2>2. CASE Generate
    BY <2>1, <2>2, GenerateCurrent DEF SeenInv, AbsentSaidTruly, Working
  <2>3. CASE UNCHANGED <<cfg, dirty>> /\ ~Generate
    <3>1. tool = "dmake" /\ pc' = "compile" => Current'
      BY <2>1, <2>3, CurrentStays DEF SeenInv
    <3>. QED BY <2>1, <2>3, <3>1 DEF SeenInv, AbsentSaidTruly, Working
  <2>. QED BY <2>1, <2>2, <2>3
<1>3. CASE Compile \/ GenerateBin \/ Mount \/ CopyBin \/ Sync \/ Umount
  <2>1. /\ UNCHANGED <<sources, plugged, nucleo, had, lacked, tool, absent, cfg, dirty>>
        /\ pc \in Working /\ pc' \in Working \cup {"end"}
    BY <1>3 DEF Compile, CompileFor, GenerateBin, Mount, CopyBin, Sync, SyncTo, Umount,
                Fail, world, files, run, kept, seen, Working
  <2>3. pc # "idle" => sources' \in had' /\ Targets \ plugged' \subseteq lacked'
    BY <2>1 DEF SeenInv, Working
  <2>. QED BY <2>1, <2>3, SeenStays
<1>4. CASE NotFound
  <2>1. /\ UNCHANGED <<sources, plugged, nucleo, had, lacked, tool, cfg, dirty>>
        /\ pc = "upload" /\ ~cfg.disk /\ pc' = "end"
    BY <1>4 DEF NotFound, world, files, run, kept, seen
  <2>2. tool = "dmake" => cfg.target \in lacked
    BY <2>1 DEF SeenInv, Current, Working
  <2>. QED BY <2>1, <2>2 DEF SeenInv, AbsentSaidTruly, Working
<1>5. CASE End \/ Interrupt
  <2>1. UNCHANGED <<cfg, dirty, nucleo>> /\ pc' = "idle" /\ absent' = FALSE
    BY <1>5 DEF End, Interrupt, Forget, world, files
  <2>. QED BY <2>1 DEF SeenInv, AbsentSaidTruly, Working
<1>6. CASE Edit
  <2>1. /\ UNCHANGED <<cfg, dirty, tool, nucleo, absent, pc, plugged, lacked>>
        /\ had \subseteq had' /\ (pc # "idle" => sources' \in had')
    BY <1>6 DEF Edit, files, kept
  <2>3. pc # "idle" => sources' \in had' /\ Targets \ plugged' \subseteq lacked'
    BY <2>1 DEF SeenInv
  <2>. QED BY <2>1, <2>3, SeenStays
<1>7. ASSUME NEW t \in Targets, SetNucleo(t)
      PROVE  SeenInv'
  <2>1. /\ UNCHANGED <<cfg, tool, absent, pc, sources, plugged, had, lacked>>
        /\ dirty' = TRUE
    BY <1>7 DEF SetNucleo, files, run, kept, seen
  <2>2. Current => Current'
    BY <2>1, CurrentStays
  <2>. QED BY <2>1, <2>2 DEF SeenInv, AbsentSaidTruly
<1>8. ASSUME NEW t \in Targets, Plug(t) \/ Unplug(t)
      PROVE  SeenInv'
  <2>1. /\ UNCHANGED <<cfg, dirty, tool, nucleo, absent, pc, sources, had>>
        /\ lacked \subseteq lacked'
    BY <1>8 DEF Plug, Unplug, files, run, kept, seen
  <2>2. pc # "idle" => Targets \ plugged' \subseteq lacked'
    BY <1>8 DEF Plug, Unplug, run, seen, SeenInv
  <2>3. pc # "idle" => sources' \in had' /\ Targets \ plugged' \subseteq lacked'
    BY <2>1, <2>2 DEF SeenInv
  <2>. QED BY <2>1, <2>3, SeenStays
<1>9. CASE UmountByHand
  <2>1. UNCHANGED <<cfg, dirty, tool, nucleo, absent, pc, sources, plugged, had, lacked>>
    BY <1>9 DEF UmountByHand, world, files, run, kept, seen
  <2>3. pc # "idle" => sources' \in had' /\ Targets \ plugged' \subseteq lacked'
    BY <2>1 DEF SeenInv
  <2>. QED BY <2>1, <2>3, SeenStays
<1>10. ASSUME NEW t \in {"make", "dmake"}, NEW g \in {"all", "upload"}, Start(t, g)
       PROVE  SeenInv'
  <2>1. /\ UNCHANGED <<cfg, dirty, nucleo, sources, plugged>> /\ absent' = FALSE
        /\ had' = {sources} /\ lacked' = Targets \ plugged /\ tool' = t
        /\ pc' = IF t = "dmake" THEN "cmake" ELSE "check"
    BY <1>10 DEF Start, world, files
  <2>. QED BY <2>1 DEF SeenInv, AbsentSaidTruly, Working
<1>11. CASE UNCHANGED vars
  <2>1. UNCHANGED <<cfg, dirty, tool, nucleo, absent, pc, sources, plugged, had, lacked>>
    BY <1>11 DEF vars
  <2>3. pc # "idle" => sources' \in had' /\ Targets \ plugged' \subseteq lacked'
    BY <2>1 DEF SeenInv
  <2>. QED BY <2>1, <2>3, SeenStays
<1>. QED
  BY <1>1, <1>2, <1>3, <1>4, <1>5, <1>6, <1>7, <1>8, <1>9, <1>10, <1>11
     DEF Next, Run

-----------------------------------------------------------------------------
(***************************************************************************)
(* What the boards hold.                                                   *)
(***************************************************************************)
\* Only the last two steps of an upload reach a board.
LEMMA FlashStep ==
  ASSUME [Next]_vars, ~CopyBin, ~Sync
  PROVE  flashed' = flashed
<1>1. CASE Run
  BY <1>1 DEF Run, CMake, CMakeUnless, MakeCheck, Check, Compile, CompileFor, GenerateBin, NotFound,
              Mount, Umount, End, world, files
<1>2. CASE Interrupt \/ Edit \/ UmountByHand
  BY <1>2 DEF Interrupt, Edit, UmountByHand, files
<1>3. ASSUME NEW t \in Targets, SetNucleo(t) \/ Plug(t) \/ Unplug(t)
      PROVE  flashed' = flashed
  BY <1>3 DEF SetNucleo, Plug, Unplug, files
<1>4. ASSUME NEW t \in {"make", "dmake"}, NEW g \in {"all", "upload"}, Start(t, g)
      PROVE  flashed' = flashed
  BY <1>4 DEF Start, files
<1>5. CASE UNCHANGED vars
  BY <1>5 DEF vars
<1>. QED BY <1>1, <1>2, <1>3, <1>4, <1>5 DEF Next

LEMMA RightImageStep ==
  ASSUME TypeOK, StageInv, RightImage, [Next]_vars
  PROVE  RightImage'
<1>1. CASE CopyBin
  <2>1. ASSUME NEW b \in Targets
        PROVE  flashed'[b] \in {flashed[b], Torn}
    <3>. DEFINE disk == Last(mnt[Space])
    <3>1. flashed \in [Targets -> Images \cup {None, Torn}]
      BY DEF TypeOK
    <3>2. CASE flashed' = flashed
      BY <3>2
    <3>3. ASSUME NEW i \in {flashed[disk], Torn},
                 flashed' = [flashed EXCEPT ![disk] = i]
          PROVE  flashed'[b] \in {flashed[b], Torn}
      BY <3>1, <3>3
    <3>. QED BY <1>1, <3>2, <3>3 DEF CopyBin
  <2>. QED BY <2>1 DEF RightImage
<1>2. CASE Sync
  <2>1. /\ flashed' = [flashed EXCEPT ![cfg.target] = bin]
        /\ bin.target = cfg.target
    BY <1>2 DEF Sync, SyncTo, StageInv, OnDisk, Made
  <2>2. flashed \in [Targets -> Images \cup {None, Torn}]
    BY DEF TypeOK
  <2>3. \A b \in Targets : flashed'[b] = IF b = cfg.target THEN bin ELSE flashed[b]
    BY <2>1, <2>2
  <2>. QED BY <2>1, <2>3 DEF RightImage
<1>3. CASE flashed' = flashed
  BY <1>3 DEF RightImage
<1>. QED BY <1>1, <1>2, <1>3, FlashStep

-----------------------------------------------------------------------------
(***************************************************************************)
(* What stays mounted on the host.                                         *)
(***************************************************************************)
LEMMA HeldStep ==
  ASSUME TypeOK, StageInv, HeldInv, [Next]_vars
  PROVE  HeldInv'
<1>. DEFINE n == Len(mnt["host"])
<1>0. n \in Nat /\ held \in Nat
  <2>1. mnt["host"] \in Seq(Targets) /\ held \in 0 .. MaxMounts
    BY DEF TypeOK
  <2>. QED BY <2>1, BuildAssumption
<1>1. CASE CMake \/ MakeCheck \/ Compile \/ GenerateBin \/ NotFound
  <2>1. /\ mnt' = mnt /\ held' = held
        /\ pc \in {"cmake", "check", "compile", "objcopy", "upload"}
        /\ pc' \in {"check", "compile", "objcopy", "upload", "end"}
    BY <1>1 DEF CMake, CMakeUnless, MakeCheck, Check, Compile, CompileFor, GenerateBin, NotFound,
                Fail, run, kept, seen
  <2>. QED BY <2>1 DEF HeldInv, OnDisk, NoLeakOnSuccess
<1>2. CASE Mount
  <2>1. pc = "upload" /\ held' = held /\ tool' = tool
    BY <1>2 DEF Mount, run, kept, seen
  <2>2. CASE Fail
    BY <2>2 DEF Fail, HeldInv, OnDisk, NoLeakOnSuccess
  <2>3. CASE /\ pc' = "cp" /\ Len(mnt[Space]) < MaxMounts
             /\ mnt' = [mnt EXCEPT ![Space] = Append(@, cfg.target)]
    <3>1. cfg.target \in Targets
      BY <2>1 DEF StageInv, Working, Configs
    <3>2. /\ Len(mnt'[Space]) = Len(mnt[Space]) + 1
          /\ \A r \in {"host", "container"} \ {Space} : mnt'[r] = mnt[r]
      BY <2>3, <3>1, SpaceType, MntPush
    <3>3. Len(mnt'["host"]) = IF tool = "dmake" THEN n ELSE n + 1
      BY <3>2, SpaceType
    <3>4. n <= held
      BY <2>1 DEF HeldInv
    <3>5. Len(mnt'["host"]) <= held + (IF tool = "dmake" THEN 0 ELSE 1)
      BY <3>3, <3>4, <1>0
    <3>. QED BY <2>1, <2>3, <3>5 DEF HeldInv, OnDisk, NoLeakOnSuccess
  <2>. QED BY <1>2, <2>2, <2>3 DEF Mount
<1>3. CASE CopyBin \/ Sync
  <2>1. /\ mnt' = mnt /\ held' = held /\ tool' = tool /\ pc \in OnDisk
        /\ pc' \in {"sync", "umount"} \/ Fail
    BY <1>3 DEF CopyBin, Sync, SyncTo, run, kept, seen, OnDisk
  <2>. QED BY <2>1 DEF HeldInv, OnDisk, NoLeakOnSuccess, Fail
<1>4. CASE Umount
  <2>1. pc = "umount" /\ held' = held
    BY <1>4 DEF Umount, run, kept, seen
  <2>2. CASE Fail
    BY <2>2 DEF Fail, HeldInv, OnDisk, NoLeakOnSuccess
  <2>3. CASE pc' = "end" /\ mnt' = [mnt EXCEPT ![Space] = Front(@)]
    <3>1. mnt[Space] # <<>>
      BY <2>1 DEF StageInv, OnDisk
    <3>2. /\ Len(mnt'[Space]) = Len(mnt[Space]) - 1
          /\ \A r \in {"host", "container"} \ {Space} : mnt'[r] = mnt[r]
      BY <2>3, <3>1, SpaceType, MntPop
    <3>3. Len(mnt'["host"]) = IF tool = "dmake" THEN n ELSE n - 1
      BY <3>2, SpaceType
    <3>4. n <= held + (IF tool = "dmake" THEN 0 ELSE 1)
      BY <2>1 DEF HeldInv, OnDisk
    <3>5. Len(mnt'["host"]) <= held
      BY <3>3, <3>4, <1>0
    <3>. QED BY <2>1, <2>3, <3>5 DEF HeldInv, OnDisk, NoLeakOnSuccess
  <2>. QED BY <1>4, <2>2, <2>3 DEF Umount
<1>5. CASE End \/ Interrupt
  BY <1>5 DEF End, Interrupt, Forget, HeldInv, OnDisk, NoLeakOnSuccess
<1>6. CASE Edit
  BY <1>6 DEF Edit, run, kept, seen, HeldInv, OnDisk, NoLeakOnSuccess
<1>7. ASSUME NEW t \in Targets, SetNucleo(t) \/ Plug(t) \/ Unplug(t)
      PROVE  HeldInv'
  BY <1>7 DEF SetNucleo, Plug, Unplug, run, kept, seen, HeldInv, OnDisk, NoLeakOnSuccess
<1>8. CASE UmountByHand
  BY <1>8 DEF UmountByHand, HeldInv, OnDisk, NoLeakOnSuccess
<1>9. ASSUME NEW t \in {"make", "dmake"}, NEW g \in {"all", "upload"}, Start(t, g)
      PROVE  HeldInv'
  <2>1. held' = n /\ mnt' = mnt /\ pc' \in {"cmake", "check"}
    BY <1>9 DEF Start
  <2>2. Len(mnt'["host"]) <= held'
    BY <1>0, <2>1
  <2>. QED BY <2>1, <2>2 DEF HeldInv, OnDisk, NoLeakOnSuccess
<1>10. CASE UNCHANGED vars
  BY <1>10 DEF vars, HeldInv, OnDisk, NoLeakOnSuccess
<1>. QED
  BY <1>1, <1>2, <1>3, <1>4, <1>5, <1>6, <1>7, <1>8, <1>9, <1>10 DEF Next, Run

-----------------------------------------------------------------------------
(***************************************************************************)
(* What an upload has delivered.                                           *)
(***************************************************************************)
LEMMA DeliveryStays ==
  ASSUME DeliveryInv, UNCHANGED <<cfg, bin, flashed, tool, goal, fresh, pc, status, absent>>,
         pc # "idle" => had \subseteq had'
  PROVE  DeliveryInv'
<1>1. Delivered /\ pc # "idle" => Delivered'
  BY DEF Delivered, Made
<1>. QED BY <1>1 DEF DeliveryInv

LEMMA DeliveryStep ==
  ASSUME TypeOK, StageInv, DeliveryInv, [Next]_vars
  PROVE  DeliveryInv'
<1>1. CASE CMake \/ MakeCheck \/ Compile \/ CopyBin \/ Mount
  <2>1. \/ pc' \in {"check", "compile", "objcopy", "sync", "cp"}
        \/ Fail
    BY <1>1 DEF CMake, CMakeUnless, MakeCheck, Check, Compile, CompileFor, CopyBin, Mount
  <2>. QED BY <2>1 DEF DeliveryInv, Fail
<1>2. CASE GenerateBin
  <2>1. \/ pc' = "upload"
        \/ pc' = "end" /\ goal' # "upload"
        \/ Fail
    BY <1>2 DEF GenerateBin, run, kept
  <2>. QED BY <2>1 DEF DeliveryInv, Fail
<1>3. CASE NotFound
  BY <1>3 DEF NotFound, DeliveryInv
<1>4. CASE Sync
  <2>1. /\ flashed' = [flashed EXCEPT ![cfg.target] = bin]
        /\ UNCHANGED <<cfg, bin, tool, fresh, had>> /\ pc' = "umount"
        /\ Made(bin) /\ cfg.target \in Targets
    BY <1>4 DEF Sync, SyncTo, StageInv, OnDisk, Working, Configs, run, kept, seen
  <2>2. flashed'[cfg.target] = bin
    BY <2>1 DEF TypeOK
  <2>3. Delivered'
    BY <2>1, <2>2 DEF Delivered, Made
  <2>. QED BY <2>1, <2>3 DEF DeliveryInv
<1>5. CASE Umount
  <2>1. /\ pc = "umount" /\ pc' = "end"
        /\ UNCHANGED <<cfg, bin, flashed, tool, fresh, had>>
    BY <1>5 DEF Umount, Fail, files, run, kept, seen
  <2>2. Delivered'
    BY <2>1 DEF DeliveryInv, Delivered, Made
  <2>. QED BY <2>1, <2>2 DEF DeliveryInv
<1>6. CASE End \/ Interrupt
  BY <1>6 DEF End, Interrupt, DeliveryInv
<1>7. CASE Edit \/ UmountByHand
  BY <1>7, DeliveryStays DEF Edit, UmountByHand, files, run, kept, seen
<1>8. ASSUME NEW t \in Targets, SetNucleo(t) \/ Plug(t) \/ Unplug(t)
      PROVE  DeliveryInv'
  BY <1>8, DeliveryStays DEF SetNucleo, Plug, Unplug, files, run, kept, seen
<1>9. ASSUME NEW t \in {"make", "dmake"}, NEW g \in {"all", "upload"}, Start(t, g)
      PROVE  DeliveryInv'
  BY <1>9 DEF Start, DeliveryInv
<1>10. CASE UNCHANGED vars
  BY <1>10, DeliveryStays DEF vars
<1>. QED
  BY <1>1, <1>2, <1>3, <1>4, <1>5, <1>6, <1>7, <1>8, <1>9, <1>10 DEF Next, Run

-----------------------------------------------------------------------------
(***************************************************************************)
(* The theorems.                                                           *)
(***************************************************************************)
LEMMA InitInv == Init => BuildInv
<1>. SUFFICES ASSUME Init PROVE BuildInv
  OBVIOUS
<1>1. /\ pc = "idle" /\ fresh = 0 /\ rev = 0 /\ goal = "all" /\ cfg = None
      /\ flashed = [b \in Targets |-> None] /\ absent = FALSE
  BY DEF Init
<1>2. TypeOK
  BY InitType
<1>4. SeenInv
  BY <1>1 DEF SeenInv, AbsentSaidTruly, Working
<1>3. StageInv /\ HeldInv /\ RightImage /\ DeliveryInv
  BY <1>1 DEF StageInv, Working, OnDisk, HeldInv, NoLeakOnSuccess, RightImage,
              DeliveryInv
<1>. QED BY <1>2, <1>3, <1>4 DEF BuildInv

LEMMA BuildInvariant == Spec => []BuildInv
<1>1. BuildInv /\ [Next]_vars => BuildInv'
  BY TypeStep, StageStep, SeenStep, HeldStep, RightImageStep, DeliveryStep DEF BuildInv
<1>. QED BY InitInv, <1>1, PTL DEF Spec

\* Whatever the user changes, plugs and interrupts, the state of the build and of
\* the boards is well typed; the container's mounts are gone when no run is under
\* way.
THEOREM TypeCorrect == Spec => []TypeOK
<1>1. BuildInv => TypeOK
  BY DEF BuildInv
<1>. QED BY BuildInvariant, <1>1, PTL

\* For any boards, revisions and disks left mounted: no board runs an image built
\* for another board.
THEOREM BoardsSafe == Spec => []RightImage
<1>1. BuildInv => RightImage
  BY DEF BuildInv
<1>. QED BY BuildInvariant, <1>1, PTL

\* For any boards, sources, revisions and disks left mounted: an upload in which
\* make succeeds, and which does not say that the board is absent, has programmed
\* the board with what it built from sources no older than those the user had at
\* its start; under dmake with all the sources the project had at a moment of the
\* run, by make with those of them that CMake had listed.
THEOREM UploadsDeliver == Spec => []UploadDelivers
<1>1. BuildInv => UploadDelivers
  <2>1. Delivered => bin # None
    BY BuildAssumption DEF Delivered, Made, Images
  <2>. QED BY <2>1 DEF BuildInv, DeliveryInv, Delivered, Made, UploadDelivers
<1>. QED BY BuildInvariant, <1>1, PTL

\* For any boards: dmake says that the board is not found only of one that was
\* absent at a moment of the run, although a CMake that fails leaves make the
\* build system of an earlier run.
THEOREM AbsentTrue == Spec => []AbsentSaidTruly
<1>1. BuildInv => AbsentSaidTruly
  BY DEF BuildInv, SeenInv
<1>. QED BY BuildInvariant, <1>1, PTL

\* For any number of disks left mounted by earlier runs: a run that succeeds adds
\* none on the host.
THEOREM NothingLeft == Spec => []NoLeakOnSuccess
<1>1. BuildInv => NoLeakOnSuccess
  BY DEF BuildInv, HeldInv
<1>. QED BY BuildInvariant, <1>1, PTL
=============================================================================
