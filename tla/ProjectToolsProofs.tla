------------------------- MODULE ProjectToolsProofs -------------------------
(***************************************************************************)
(* Proofs about ProjectTools, for every set of names, every content of     *)
(* mbed/ and every number of template versions, failures and edits.        *)
(***************************************************************************)
EXTENDS ProjectTools, TLAPS

Scripts == {"clone", "update", "full-update"}

-----------------------------------------------------------------------------
(***************************************************************************)
(* The plans: mbed/ comes first, the rest is plain files, and together     *)
(* they cover what the script delivers.                                    *)
(***************************************************************************)
WellPlanned(plan, n, owed) ==
  /\ Len(plan) = n
  /\ plan[1] = MbedFiles
  /\ \A i \in 2 .. n : plan[i] \subseteq PlainFiles
  /\ \A f \in owed : \E i \in 1 .. n : f \in plan[i]

LEMMA ClonePlanned == WellPlanned(ClonePlan, 9, Files)
  <1>1. Len(ClonePlan) = 9 /\ ClonePlan[1] = MbedFiles
    BY DEF ClonePlan
  <1>2. /\ ClonePlan[2] = {"CMakeLists.txt"} /\ ClonePlan[3] = {"targets.cmake"}
        /\ ClonePlan[4] = {"size_info"} /\ ClonePlan[5] = {"dmake"}
        /\ ClonePlan[6] = {"src"} /\ ClonePlan[7] = {".gitignore"}
        /\ ClonePlan[8] = {"Doxyfile"} /\ ClonePlan[9] = {"inc_lib"}
    BY DEF ClonePlan
  <1>3. ASSUME NEW i \in 2 .. 9 PROVE ClonePlan[i] \subseteq PlainFiles
    <2>1. i \in {2, 3, 4, 5, 6, 7, 8, 9}
      OBVIOUS
    <2> QED
      BY <2>1, <1>2 DEF PlainFiles
  <1>4. ASSUME NEW f \in Files PROVE \E i \in 1 .. 9 : f \in ClonePlan[i]
    <2>1. 1 \in 1 .. 9 /\ \A i \in {2, 3, 4, 5, 6, 7, 8, 9} : i \in 1 .. 9
      OBVIOUS
    <2>2. CASE f \in MbedFiles
      BY <1>1, <2>1, <2>2
    <2>3. CASE f \in PlainFiles
      <3>1. \E i \in {2, 3, 4, 5, 6, 7, 8, 9} : f \in ClonePlan[i]
        BY <1>2, <2>3, Zenon DEF PlainFiles
      <3> QED
        BY <2>1, <3>1
    <2> QED
      BY <2>2, <2>3 DEF Files
  <1> QED
    BY <1>1, <1>3, <1>4 DEF WellPlanned

LEMMA UpdatePlanned ==
  WellPlanned(UpdatePlan, 3, MbedFiles \cup {"targets.cmake", "size_info"})
  <1>1. /\ Len(UpdatePlan) = 3
        /\ UpdatePlan[1] = MbedFiles /\ UpdatePlan[2] = {"targets.cmake"}
        /\ UpdatePlan[3] = {"size_info"}
    BY DEF UpdatePlan
  <1>2. ASSUME NEW i \in 2 .. 3 PROVE UpdatePlan[i] \subseteq PlainFiles
    <2>1. i = 2 \/ i = 3
      OBVIOUS
    <2> QED
      BY <2>1, <1>1 DEF PlainFiles
  <1> QED
    BY <1>1, <1>2 DEF WellPlanned

LEMMA FullUpdatePlanned ==
  WellPlanned(FullUpdatePlan, 5,
              Files \ {"src", ".gitignore", "Doxyfile", "inc_lib"})
  <1>1. /\ Len(FullUpdatePlan) = 5 /\ FullUpdatePlan[1] = MbedFiles
        /\ FullUpdatePlan[2] = {"CMakeLists.txt"}
        /\ FullUpdatePlan[3] = {"targets.cmake"}
        /\ FullUpdatePlan[4] = {"size_info"} /\ FullUpdatePlan[5] = {"dmake"}
    BY DEF FullUpdatePlan
  <1>2. ASSUME NEW i \in 2 .. 5 PROVE FullUpdatePlan[i] \subseteq PlainFiles
    <2>1. i = 2 \/ i = 3 \/ i = 4 \/ i = 5
      OBVIOUS
    <2> QED
      BY <2>1, <1>1 DEF PlainFiles
  <1>3. ASSUME NEW f \in Files \ {"src", ".gitignore", "Doxyfile", "inc_lib"}
        PROVE \E i \in 1 .. 5 : f \in FullUpdatePlan[i]
    <2>1. f \in MbedFiles \/ f = "CMakeLists.txt" \/ f = "targets.cmake"
          \/ f = "size_info" \/ f = "dmake"
      BY DEF Files, PlainFiles
    <2>2. \A i \in {1, 2, 3, 4, 5} : i \in 1 .. 5
      OBVIOUS
    <2>3. \E i \in {1, 2, 3, 4, 5} : f \in FullUpdatePlan[i]
      BY <1>1, <2>1, Zenon
    <2> QED
      BY <2>2, <2>3
  <1> QED
    BY <1>1, <1>2, <1>3 DEF WellPlanned

LEMMA PlanShape ==
  ASSUME NEW c \in Scripts
  PROVE  /\ Len(Plan(c)) \in Nat /\ Len(Plan(c)) >= 3
         /\ WellPlanned(Plan(c), Len(Plan(c)), Delivers(c))
  <1>1. CASE c = "clone"
    <2>1. Plan(c) = ClonePlan /\ Delivers(c) = Files
      BY <1>1 DEF Plan, Delivers
    <2>2. Len(ClonePlan) = 9
      BY ClonePlanned DEF WellPlanned
    <2> QED
      BY <2>1, <2>2, ClonePlanned
  <1>2. CASE c = "update"
    <2>1. Plan(c) = UpdatePlan /\ Delivers(c) = (MbedFiles \cup {"targets.cmake", "size_info"})
      BY <1>2 DEF Plan, Delivers
    <2>2. Len(UpdatePlan) = 3
      BY UpdatePlanned DEF WellPlanned
    <2> QED
      BY <2>1, <2>2, UpdatePlanned
  <1>3. CASE c = "full-update"
    <2>1. Plan(c) = FullUpdatePlan /\ Delivers(c) = (Files \ {"src", ".gitignore", "Doxyfile", "inc_lib"})
      BY <1>3 DEF Plan, Delivers
    <2>2. Len(FullUpdatePlan) = 5
      BY FullUpdatePlanned DEF WellPlanned
    <2> QED
      BY <2>1, <2>2, FullUpdatePlanned
  <1> QED
    BY <1>1, <1>2, <1>3 DEF Scripts

-----------------------------------------------------------------------------
(***************************************************************************)
(* What one command leaves behind is again a tree of file contents.        *)
(***************************************************************************)
LEMMA CopiedType ==
  ASSUME TypeOK, place \in Places, NEW S
  PROVE  /\ Copied(S) \in [Files -> Contents]
         /\ PartlyCopied(S) \subseteq [Files -> Contents]
  <1>1. tree[place] \in [Files -> Contents] /\ version \in Contents
        /\ Torn \in Contents
    BY DEF TypeOK, Contents
  <1> QED
    BY <1>1 DEF Copied, PartlyCopied

LEMMA RemovedType ==
  ASSUME TypeOK, place \in Places
  PROVE  /\ Without(MbedFiles) \in [Files -> Contents]
         /\ PartlyRemoved \subseteq [Files -> Contents]
  <1>1. tree[place] \in [Files -> Contents] /\ Absent \in Contents
    BY DEF TypeOK, Contents
  <1> QED
    BY <1>1 DEF Without, PartlyRemoved

LEMMA EffectType ==
  ASSUME TypeOK, place \in Places, NEW good \in [Files -> Contents],
         NEW bad \in SUBSET [Files -> Contents], Effect(good, bad)
  PROVE  /\ tree' \in [Places -> [Files -> Contents]]
         /\ failed' \in BOOLEAN /\ failures' \in 0 .. MaxFailures
         /\ \A p \in Places \ {place} : tree'[p] = tree[p]
         /\ ~failed' => ~failed /\ tree'[place] = good
  <1>1. tree \in [Places -> [Files -> Contents]] /\ failed \in BOOLEAN
        /\ failures \in 0 .. MaxFailures /\ MaxFailures \in Nat
    BY ToolsAssumption DEF TypeOK
  <1>2. CASE tree' = [tree EXCEPT ![place] = good] /\ UNCHANGED <<failed, failures>>
    BY <1>1, <1>2
  <1>3. CASE /\ failures < MaxFailures
             /\ \E g \in bad : tree' = [tree EXCEPT ![place] = g]
             /\ failed' = TRUE /\ failures' = failures + 1
    BY <1>1, <1>3
  <1> QED
    BY <1>2, <1>3 DEF Effect

-----------------------------------------------------------------------------
\* clone, update and full-update, however they are interrupted, keep to the
\* places, contents and positions they have; mbed/ is removed by full-update
\* alone, and nothing is copied to a place that holds no directory.
THEOREM TypeCorrect == Spec => []TypeOK
  <1> USE ToolsAssumption
  <1>1. Init => TypeOK
    <2> SUFFICES ASSUME Init PROVE TypeOK
      OBVIOUS
    <2>1. tree \in [Places -> [Files -> Contents]]
      BY DEF Init, NoFiles, Contents
    <2>2. exists \subseteq Places
      BY DEF Init, Inside, Places
    <2>3. 1 \in 1 .. Len(Plan("clone")) + 1
      BY PlanShape DEF Scripts
    <2>4. version \in Versions /\ image \in Versions \cup {Absent}
      BY DEF Init, Versions
    <2>5. todo \in Seq(Names) /\ failures \in 0 .. MaxFailures
          /\ edits \in 0 .. MaxEdits
      BY DEF Init
    <2> QED
      BY <2>1, <2>2, <2>3, <2>4, <2>5 DEF Init, TypeOK
  <1>2. TypeOK /\ [Next]_vars => TypeOK'
    <2> SUFFICES ASSUME TypeOK, [Next]_vars PROVE TypeOK'
      OBVIOUS
    <2>0. /\ \A n \in Names : ClonePlace(n) \in Places /\ ResolvePlace(n) \in Places
          /\ Nowhere \notin Places
      BY DEF ClonePlace, ResolvePlace, Beside, Inside, Places, Nowhere
    <2>1. /\ cmd \in Scripts
          /\ \A c \in Scripts : 1 \in 1 .. Len(Plan(c)) + 1 /\ Len(Plan(c)) \in Nat
      BY PlanShape DEF TypeOK, Scripts
    <2>2. ASSUME NEW n \in Names, CloneStart(n) PROVE TypeOK'
      <3>1. place' \in Places /\ place' \in exists' /\ exists' \subseteq Places
        BY <2>0, <2>2 DEF CloneStart, TypeOK
      <3>2. tree' \in [Places -> [Files -> Contents]]
        BY <2>2 DEF CloneStart, TypeOK, NoFiles, Contents
      <3>3. at' \in 1 .. Len(Plan(cmd')) + 1
        BY <2>1, <2>2 DEF CloneStart, Begin
      <3> QED
        BY <2>2, <3>1, <3>2, <3>3 DEF CloneStart, Begin, TypeOK
    <2>3. ASSUME NEW n \in Names, CloneRefused(n) \/ CloneMkdirFails(n)
          PROVE TypeOK'
      <3>1. place' \in Places /\ at' \in 1 .. Len(Plan(cmd')) + 1
        BY <2>0, <2>1, <2>3 DEF CloneRefused, CloneMkdirFails, Begin, Scripts
      <3>2. asked' \subseteq Names
        BY <2>3 DEF CloneRefused, CloneMkdirFails
      <3>3. failures' \in 0 .. MaxFailures /\ failed' \in BOOLEAN
        <4>1. failures \in 0 .. MaxFailures /\ failed \in BOOLEAN
          BY DEF TypeOK
        <4>2. CASE CloneRefused(n)
          BY <4>1, <4>2 DEF CloneRefused
        <4>3. CASE CloneMkdirFails(n)
          <5>1. failures < MaxFailures /\ failures' = failures + 1 /\ failed' = TRUE
            BY <4>3 DEF CloneMkdirFails
          <5> QED
            BY <4>1, <5>1
        <4> QED
          BY <2>3, <4>2, <4>3
      <3> QED
        BY <2>3, <3>1, <3>2, <3>3 DEF CloneRefused, CloneMkdirFails, Begin, TypeOK
    <2>4. ASSUME NEW c \in {"update", "full-update"}, NEW names \in NameLists,
                 NEW pull \in BOOLEAN, UpdateStart(c, names, pull)
          PROVE TypeOK'
      <3>1. names \in Seq(Names)
        BY DEF NameLists
      <3>2. todo' \in Seq(Names) /\ asked' \subseteq Names
        BY <2>4, <3>1 DEF UpdateStart
      <3>3. at' \in 1 .. Len(Plan(cmd')) + 1
        BY <2>1, <2>4 DEF UpdateStart, Begin, Scripts
      <3> QED
        BY <2>4, <3>2, <3>3 DEF UpdateStart, Begin, TypeOK
    <2>5. CASE FullUpdateDeclined
      <3>1. at' \in 1 .. Len(Plan(cmd')) + 1
        BY <2>1, <2>5 DEF FullUpdateDeclined, Begin, Scripts
      <3> QED
        BY <2>5, <3>1 DEF FullUpdateDeclined, Begin, TypeOK
    <2>6. CASE NextProject
      <3>1. todo # <<>> /\ todo \in Seq(Names)
        BY <2>6 DEF NextProject, Visit, TypeOK
      <3>2. Head(todo) \in Names /\ Tail(todo) \in Seq(Names)
        BY <3>1
      <3>3. place' \in Places /\ place' \in exists' /\ todo' \in Seq(Names)
        BY <2>0, <2>6, <3>2 DEF NextProject, Visit
      <3>4. at' \in 1 .. Len(Plan(cmd')) + 1
        BY <2>1, <2>6 DEF NextProject, Visit
      <3> QED
        BY <2>6, <3>3, <3>4 DEF NextProject, Visit, TypeOK
    <2>7. CASE ProjectNotFound \/ ListDone
      BY <2>7 DEF ProjectNotFound, ListDone, TypeOK
    <2>8. CASE RemoveMbed
      <3>1. place \in Places
        BY <2>8 DEF RemoveMbed, Remove, TypeOK
      <3>2. /\ tree' \in [Places -> [Files -> Contents]]
            /\ failed' \in BOOLEAN /\ failures' \in 0 .. MaxFailures
        BY <2>8, <3>1, RemovedType, EffectType DEF RemoveMbed, Remove
      <3> QED
        BY <2>8, <3>2 DEF RemoveMbed, Remove, TypeOK
    <2>9. CASE Copy
      <3>1. place \in Places /\ at' \in 1 .. Len(Plan(cmd')) + 1
        BY <2>1, <2>9 DEF Copy, TypeOK
      <3>2. /\ tree' \in [Places -> [Files -> Contents]]
            /\ failed' \in BOOLEAN /\ failures' \in 0 .. MaxFailures
        BY <2>9, <3>1, CopiedType, EffectType DEF Copy
      <3> QED
        BY <2>9, <3>1, <3>2 DEF Copy, TypeOK
    <2>10. CASE ProjectDone
      BY <2>10 DEF ProjectDone, TypeOK
    <2>11. CASE Kill
      <3>1. tree' \in [Places -> [Files -> Contents]]
        <4>1. CASE UNCHANGED tree
          BY <4>1 DEF TypeOK
        <4>2. CASE ~UNCHANGED tree
          <5>1. place \in Places
            BY <2>11, <4>2 DEF Kill, TypeOK
          <5>2. \E g \in [Files -> Contents] : tree' = [tree EXCEPT ![place] = g]
            BY <2>11, <4>2, <5>1, RemovedType, CopiedType DEF Kill
          <5> QED
            BY <5>1, <5>2 DEF TypeOK
        <4> QED
          BY <4>1, <4>2
      <3>2. failures' \in 0 .. MaxFailures
        BY <2>11 DEF Kill, TypeOK
      <3> QED
        BY <2>11, <3>1, <3>2 DEF Kill, TypeOK
    <2>12. CASE Prompt
      <3>1. at' \in 1 .. Len(Plan(cmd')) + 1 /\ todo' \in Seq(Names)
        BY <2>1, <2>12 DEF Prompt, Scripts
      <3> QED
        BY <2>12, <3>1 DEF Prompt, TypeOK
    <2>13. CASE GitPull
      BY <2>13 DEF GitPull, TypeOK, Versions, Contents
    <2>14. ASSUME NEW p \in Places, NEW f \in UserFiles, UserEdits(p, f)
           PROVE TypeOK'
      <3>1. tree' \in [Places -> [Files -> Contents]] /\ before' = tree'
        <4>1. User \in Contents
          BY DEF Contents
        <4> QED
          BY <2>14, <4>1 DEF UserEdits, TypeOK
      <3>2. edits' \in 0 .. MaxEdits
        BY <2>14 DEF UserEdits, TypeOK
      <3> QED
        BY <2>14, <3>1, <3>2 DEF UserEdits, TypeOK
    <2>15. CASE UNCHANGED vars
      BY <2>15 DEF vars, TypeOK
    <2> QED
      BY <2>2, <2>3, <2>4, <2>5, <2>6, <2>7, <2>8, <2>9, <2>10, <2>11, <2>12,
         <2>13, <2>14, <2>15 DEF Next, Script
  <1> QED
    BY <1>1, <1>2, PTL DEF Spec

-----------------------------------------------------------------------------
\* What a script has delivered stays delivered while the file and the
\* template's version stay.
LEMMA DeliveredStable ==
  ASSUME NEW p, NEW f, NEW c, UNCHANGED version, tree'[p] = tree[p]
  PROVE  Delivered(c, p, f) <=> Delivered(c, p, f)'
  BY DEF Delivered

\* One copy delivers its own files and takes nothing back.
LEMMA CopyDelivers ==
  ASSUME TypeOK, CleanRunInv, Copy, ~failed'
  PROVE  \A j \in 1 .. at : \A f \in Plan(cmd)[j] : Delivered(cmd, place, f)'
  <1> DEFINE S == Plan(cmd)[at]
  <1>1. pc = "copy" /\ at \in 1 .. Len(Plan(cmd)) /\ cmd \in Scripts
        /\ Len(Plan(cmd)) \in Nat /\ place \in Places
    BY PlanShape DEF Copy, TypeOK, Scripts
  <1>2. ~failed /\ tree'[place] = Copied(S)
        /\ UNCHANGED <<version, cmd, place>>
    BY <1>1, CopiedType, EffectType DEF Copy
  <1>3. \A i \in 1 .. Len(Plan(cmd)) : Plan(cmd)[i] \subseteq Files
    <2>1. \A i \in 1 .. Len(Plan(cmd)) : i = 1 \/ i \in 2 .. Len(Plan(cmd))
      BY <1>1
    <2> QED
      BY <1>1, <2>1, PlanShape DEF WellPlanned, Files
  <1> SUFFICES ASSUME NEW j \in 1 .. at, NEW f \in Plan(cmd)[j]
               PROVE  Delivered(cmd, place, f)'
    OBVIOUS
  <1>4. f \in Files /\ j \in 1 .. Len(Plan(cmd))
    BY <1>1, <1>3
  <1>5. tree'[place][f] = IF f \in Shipped(S) THEN version ELSE tree[place][f]
    BY <1>2, <1>4 DEF Copied
  <1>6. CASE j # at
    <2>1. j \in 1 .. at - 1
      BY <1>1, <1>6
    <2>2. Delivered(cmd, place, f)
      BY <1>1, <1>2, <2>1 DEF CleanRunInv
    <2> QED
      BY <1>2, <1>5, <2>2 DEF Delivered, Shipped
  <1>7. CASE j = at /\ f \in MbedOf[version] \cup PlainFiles
    BY <1>2, <1>5, <1>7 DEF Delivered, Shipped
  <1>8. CASE j = at /\ f \notin MbedOf[version] \cup PlainFiles
    <2>1. j = 1 /\ f \in MbedFiles
      <3>1. j \notin 2 .. Len(Plan(cmd))
        BY <1>1, <1>8, PlanShape DEF WellPlanned
      <3> QED
        BY <1>1, <1>4, <3>1, <1>8 DEF Files
    <2>2. cmd # "update" => tree[place][f] = Absent
      BY <1>1, <1>2, <1>8, <2>1 DEF CleanRunInv
    <2> QED
      BY <1>2, <1>5, <1>8, <2>2 DEF Delivered, Shipped
  <1> QED
    BY <1>6, <1>7, <1>8

LEMMA CleanRunStep ==
  ASSUME TypeOK, CleanRunInv, [Next]_vars
  PROVE  CleanRunInv'
  <1>0. cmd \in Scripts /\ Len(Plan(cmd)) \in Nat
    BY PlanShape DEF TypeOK, Scripts
  <1>1. ASSUME NEW n \in Names, CloneStart(n) PROVE CleanRunInv'
    <2>1. place' \in Places /\ tree'[place'] = NoFiles
      BY <1>1 DEF CloneStart, ClonePlace, Beside, Places, TypeOK
    <2>2. \A f \in MbedFiles : tree'[place'][f] = Absent
      BY <2>1 DEF NoFiles, Files
    <2>3. pc' = "copy" /\ at' = 1 /\ done' = {}
      BY <1>1 DEF CloneStart, Begin, CleanRunInv
    <2> QED
      BY <2>2, <2>3 DEF CleanRunInv
  <1>2. ASSUME NEW n \in Names, CloneRefused(n) \/ CloneMkdirFails(n)
        PROVE CleanRunInv'
    <2>1. pc' = "exited" /\ done' = {}
      BY <1>2 DEF CloneRefused, CloneMkdirFails, Begin, CleanRunInv
    <2> QED
      BY <2>1 DEF CleanRunInv
  <1>3. ASSUME NEW c \in {"update", "full-update"}, NEW names, NEW pull,
               UpdateStart(c, names, pull)
        PROVE CleanRunInv'
    <2>1. pc' = "project" /\ done' = {} /\ cmd' # "clone"
      BY <1>3 DEF UpdateStart, Begin, CleanRunInv
    <2> QED
      BY <2>1 DEF CleanRunInv
  <1>4. CASE FullUpdateDeclined
    <2>1. pc' = "exited" /\ done' = {}
      BY <1>4 DEF FullUpdateDeclined, Begin, CleanRunInv
    <2> QED
      BY <2>1 DEF CleanRunInv
  <1>5. CASE NextProject
    <2>1. /\ pc = "project" /\ at' = 1 /\ cmd' = cmd /\ done' = done
          /\ failed' = failed /\ tree' = tree /\ version' = version
          /\ pc' = "remove" \/ (pc' = "copy" /\ cmd = "update")
      BY <1>0, <1>5 DEF NextProject, Visit, CleanRunInv, Scripts
    <2>2. ~failed' => \A p \in done' : \A f \in Delivers(cmd') :
            Delivered(cmd, p, f)'
      BY <2>1, DeliveredStable DEF CleanRunInv
    <2> QED
      BY <2>1, <2>2 DEF CleanRunInv
  <1>6. CASE ProjectNotFound \/ ListDone
    <2>1. /\ pc = "project" /\ pc' = "exited" /\ cmd' = cmd /\ done' = done
          /\ failed' = failed /\ tree' = tree /\ version' = version
      BY <1>6 DEF ProjectNotFound, ListDone
    <2>2. ~failed' => \A p \in done' : \A f \in Delivers(cmd') :
            Delivered(cmd, p, f)'
      BY <2>1, DeliveredStable DEF CleanRunInv
    <2> QED
      BY <2>1, <2>2 DEF CleanRunInv
  <1>7. CASE RemoveMbed
    <2>1. /\ pc = "remove" /\ pc' = "copy" /\ at = 1 /\ at' = 1 /\ cmd' = cmd
          /\ done' = done /\ place' = place /\ version' = version
          /\ place \in Places /\ done \subseteq Places
      BY <1>7 DEF RemoveMbed, Remove, CleanRunInv, TypeOK
    <2>2. /\ \A p \in Places \ {place} : tree'[p] = tree[p]
          /\ ~failed' => ~failed /\ tree'[place] = Without(MbedFiles)
      BY <1>7, <2>1, RemovedType, EffectType DEF RemoveMbed, Remove
    <2>3. ~failed' => \A f \in MbedFiles : tree'[place][f] = Absent
      BY <2>2 DEF Without, Files
    <2>4. ~failed' => \A p \in done \ {place} : \A f \in Delivers(cmd) :
            Delivered(cmd, p, f)'
      BY <2>1, <2>2, DeliveredStable DEF CleanRunInv
    <2> QED
      BY <2>1, <2>3, <2>4 DEF CleanRunInv
  <1>8. CASE Copy
    <2>1. /\ pc = "copy" /\ pc' = "copy" /\ at' = at + 1 /\ cmd' = cmd
          /\ done' = done /\ place' = place /\ version' = version
          /\ place \in Places /\ done \subseteq Places
          /\ at \in 1 .. Len(Plan(cmd))
      BY <1>0, <1>8 DEF Copy, TypeOK
    <2>2. /\ \A p \in Places \ {place} : tree'[p] = tree[p]
          /\ ~failed' => ~failed
      BY <1>8, <2>1, CopiedType, EffectType DEF Copy
    <2>3. ~failed' => \A j \in 1 .. at' - 1 : \A f \in Plan(cmd')[j] :
            Delivered(cmd, place, f)'
      BY <1>8, <2>1, CopyDelivers
    <2>4. ~failed' => \A p \in done \ {place} : \A f \in Delivers(cmd) :
            Delivered(cmd, p, f)'
      BY <2>1, <2>2, DeliveredStable DEF CleanRunInv
    <2>5. at' # 1
      BY <2>1
    <2> QED
      BY <2>1, <2>3, <2>4, <2>5 DEF CleanRunInv
  <1>9. CASE ProjectDone
    <2>1. /\ pc = "copy" /\ at = Len(Plan(cmd)) + 1 /\ cmd' = cmd
          /\ done' = done \cup {place} /\ failed' = failed
          /\ tree' = tree /\ version' = version
          /\ pc' = "exited" \/ (pc' = "project" /\ cmd # "clone")
      BY <1>0, <1>9 DEF ProjectDone, TypeOK
    <2>2. ~failed => \A f \in Delivers(cmd) : Delivered(cmd, place, f)
      <3>1. at - 1 = Len(Plan(cmd))
        BY <1>0, <2>1
      <3> QED
        BY <1>0, <2>1, <3>1, PlanShape DEF CleanRunInv, WellPlanned
    <2>3. ~failed' => \A p \in done' : \A f \in Delivers(cmd') :
            Delivered(cmd, p, f)'
      BY <2>1, <2>2, DeliveredStable DEF CleanRunInv
    <2> QED
      BY <2>1, <2>3 DEF CleanRunInv
  <1>10. CASE Kill
    BY <1>10 DEF Kill, CleanRunInv
  <1>11. CASE Prompt
    BY <1>11 DEF Prompt, CleanRunInv
  <1>12. ASSUME GitPull \/ \E p \in Places, f \in UserFiles : UserEdits(p, f)
         PROVE CleanRunInv'
    <2>1. pc = "idle" /\ UNCHANGED <<pc, at, done, failed>>
      BY <1>12 DEF GitPull, UserEdits
    <2> QED
      BY <2>1 DEF CleanRunInv
  <1>13. CASE UNCHANGED vars
    BY <1>13, DeliveredStable DEF vars, CleanRunInv
  <1> QED
    BY <1>1, <1>2, <1>3, <1>4, <1>5, <1>6, <1>7, <1>8, <1>9, <1>10, <1>11,
       <1>12, <1>13 DEF Next, Script

\* While no command of the run has failed, the projects it is done with hold all
\* that the script delivers, and the one it is in what the commands so far copied.
THEOREM CleanRunKept == Spec => []CleanRunInv
  <1>1. Init => CleanRunInv
    BY DEF Init, CleanRunInv
  <1>2. TypeOK /\ CleanRunInv /\ [Next]_vars => CleanRunInv'
    BY CleanRunStep
  <1> QED
    BY TypeCorrect, <1>1, <1>2, PTL DEF Spec

\* Whatever failed, was killed or was left by another version before, a run
\* of a script in which no command fails brings every project it goes through
\* to the template's version: each script repairs what it delivers.
THEOREM CleanRunRepairs == Spec => []CleanRunDelivers
  <1>1. CleanRunInv => CleanRunDelivers
    BY DEF CleanRunInv, CleanRunDelivers
  <1> QED
    BY CleanRunKept, <1>1, PTL

-----------------------------------------------------------------------------
(***************************************************************************)
(* The user's files.  clone works on a directory it has just made, where   *)
(* no file is the user's; what update copies is disjoint from the user's   *)
(* files, and what full-update copies holds two of them.                   *)
(***************************************************************************)
UserFilesInv ==
  /\ \A p \in Places \ exists : \A f \in UserFiles : tree[p][f] # User
  /\ pc = "copy" /\ cmd = "clone" =>
       \A f \in UserFiles : tree[place][f] # User

\* What a whole or partial copy of S may do to a file.
LEMMA CopyWrites ==
  ASSUME NEW S, NEW g \in PartlyCopied(S) \cup {Copied(S)}, NEW f \in Files,
         TypeOK
  PROVE  /\ g[f] = tree[place][f] \/ f \in S
         /\ g[f] = User => tree[place][f] = User
  <1>1. User # version /\ User # Torn
    BY ToolsAssumption DEF TypeOK
  <1>2. CASE g = Copied(S)
    BY <1>1, <1>2 DEF Copied, Shipped
  <1>3. CASE g \in PartlyCopied(S)
    <2>1. PICK new \in SUBSET Shipped(S), cut \in SUBSET Shipped(S) :
            g = [h \in Files |-> IF h \in new THEN version
                                 ELSE IF h \in cut THEN Torn ELSE tree[place][h]]
      BY <1>3 DEF PartlyCopied
    <2>2. new \subseteq S /\ cut \subseteq S
      BY DEF Shipped
    <2> QED
      BY <1>1, <2>1, <2>2
  <1> QED
    BY <1>2, <1>3

LEMMA RemoveWrites ==
  ASSUME NEW g \in PartlyRemoved \cup {Without(MbedFiles)}, NEW f \in UserFiles
  PROVE  g[f] = tree[place][f]
  <1>1. f \in Files /\ f \notin MbedFiles
    BY ToolsAssumption DEF UserFiles, Files, PlainFiles
  <1>2. PICK G \in SUBSET MbedFiles : g = Without(G)
    BY DEF PartlyRemoved
  <1> QED
    BY <1>1, <1>2 DEF Without

\* Which of the user's files a copy of a script may hit.
LEMMA PlanMissesUserFiles ==
  ASSUME NEW c \in {"update", "full-update"}, NEW i \in 1 .. Len(Plan(c)),
         NEW f \in UserFiles, f \in Plan(c)[i]
  PROVE  c = "full-update" /\ f # "src"
  <1>1. f \notin MbedFiles
    BY ToolsAssumption DEF UserFiles, PlainFiles
  <1>2. CASE c = "update"
    <2>1. /\ Plan(c) = UpdatePlan /\ UpdatePlan[1] = MbedFiles
          /\ UpdatePlan[2] = {"targets.cmake"} /\ UpdatePlan[3] = {"size_info"}
      BY <1>2 DEF Plan, UpdatePlan
    <2>2. i = 1 \/ i = 2 \/ i = 3
      BY <2>1, UpdatePlanned DEF WellPlanned
    <2> QED
      BY <1>1, <2>1, <2>2 DEF UserFiles
  <1>3. CASE c = "full-update"
    <2>1. /\ Plan(c) = FullUpdatePlan /\ FullUpdatePlan[1] = MbedFiles
          /\ FullUpdatePlan[2] = {"CMakeLists.txt"}
          /\ FullUpdatePlan[3] = {"targets.cmake"}
          /\ FullUpdatePlan[4] = {"size_info"} /\ FullUpdatePlan[5] = {"dmake"}
      BY <1>3 DEF Plan, FullUpdatePlan
    <2>2. i = 1 \/ i = 2 \/ i = 3 \/ i = 4 \/ i = 5
      BY <2>1, FullUpdatePlanned DEF WellPlanned
    <2>3. f # "src"
      BY <1>1, <2>1, <2>2
    <2> QED
      BY <1>3, <2>3
  <1> QED
    BY <1>2, <1>3

Kept(p, f) == tree[p][f] = User /\ tree'[p][f] # User =>
                f # "src" /\ cmd = "full-update"

\* A step that writes, at most, the tree g at the current place, where g comes
\* from copying S: what UserFilesInv needs of it.
LEMMA WriteKeeps ==
  ASSUME TypeOK, UserFilesInv, pc = "copy", at <= Len(Plan(cmd)),
         NEW g \in PartlyCopied(Plan(cmd)[at]) \cup {Copied(Plan(cmd)[at])},
         tree' = [tree EXCEPT ![place] = g]
  PROVE  /\ \A p \in Places, f \in UserFiles : Kept(p, f)
         /\ \A p \in Places, f \in UserFiles :
              tree'[p][f] = User => tree[p][f] = User
  <1>1. /\ place \in Places /\ at \in 1 .. Len(Plan(cmd))
        /\ UserFiles \subseteq Files /\ cmd \in Scripts
        /\ tree \in [Places -> [Files -> Contents]]
    <2>1. cmd \in Scripts /\ Len(Plan(cmd)) \in Nat
      BY PlanShape DEF TypeOK, Scripts
    <2>2. place \in Places /\ tree \in [Places -> [Files -> Contents]]
      BY DEF TypeOK
    <2>3. at \in 1 .. Len(Plan(cmd))
      BY <2>1 DEF TypeOK
    <2> QED
      BY <2>1, <2>2, <2>3 DEF UserFiles, Files, PlainFiles
  <1>2. \A p \in Places : tree'[p] = IF p = place THEN g ELSE tree[p]
    BY <1>1
  <1>3. ASSUME NEW p \in Places, NEW f \in UserFiles PROVE Kept(p, f)
    <2> SUFFICES ASSUME tree[p][f] = User, tree'[p][f] # User
                 PROVE  f # "src" /\ cmd = "full-update"
      BY DEF Kept
    <2>1. p = place /\ g[f] # tree[place][f]
      BY <1>2
    <2>2. f \in Plan(cmd)[at]
      BY <1>1, <2>1, CopyWrites
    <2>3. cmd # "clone"
      BY <2>1 DEF UserFilesInv
    <2> QED
      BY <1>1, <2>2, <2>3, PlanMissesUserFiles DEF Scripts
  <1>4. ASSUME NEW p \in Places, NEW f \in UserFiles, tree'[p][f] = User
        PROVE  tree[p][f] = User
    BY <1>1, <1>2, <1>4, CopyWrites
  <1> QED
    BY <1>3, <1>4

LEMMA RemoveKeeps ==
  ASSUME TypeOK, pc = "remove",
         NEW g \in PartlyRemoved \cup {Without(MbedFiles)},
         tree' = [tree EXCEPT ![place] = g]
  PROVE  /\ \A p \in Places, f \in UserFiles : Kept(p, f)
         /\ \A p \in Places, f \in UserFiles :
              tree'[p][f] = User => tree[p][f] = User
  <1>1. \A p \in Places : tree'[p] = IF p = place THEN g ELSE tree[p]
    BY DEF TypeOK
  <1> QED
    BY <1>1, RemoveWrites DEF Kept

LEMMA UserFilesStep ==
  ASSUME TypeOK, CleanRunInv, UserFilesInv, [Next]_vars
  PROVE  UserFilesInv' /\ \A p \in Places, f \in UserFiles : Kept(p, f)
  <1> DEFINE Goal == UserFilesInv' /\ \A p \in Places, f \in UserFiles : Kept(p, f)
  <1>1. ASSUME NEW n \in Names, CloneStart(n) PROVE Goal
    <2>1. place' \in Places /\ place' \notin exists
      BY <1>1 DEF CloneStart, ClonePlace, Beside, Places
    <2>2. /\ tree' = [tree EXCEPT ![place'] = NoFiles]
          /\ exists' = exists \cup {place'}
      BY <1>1 DEF CloneStart
    <2>3. \A f \in UserFiles : f \in Files /\ NoFiles[f] # User
      BY ToolsAssumption DEF NoFiles, UserFiles, Files, PlainFiles
    <2>4. \A p \in Places : tree'[p] = IF p = place' THEN NoFiles ELSE tree[p]
      BY <2>1, <2>2 DEF TypeOK
    <2> QED
      BY <2>1, <2>2, <2>3, <2>4 DEF UserFilesInv, Kept
  <1>2. ASSUME UNCHANGED <<tree, exists>>, pc' # "copy" \/ cmd' # "clone"
        PROVE Goal
    BY <1>2 DEF UserFilesInv, Kept
  <1>3. CASE RemoveMbed
    <2>1. /\ pc = "remove" /\ pc' = "copy" /\ cmd' = cmd
          /\ exists' = exists /\ cmd = "full-update"
      BY <1>3 DEF RemoveMbed, Remove, TypeOK
    <2>2. \E g \in PartlyRemoved \cup {Without(MbedFiles)} :
            tree' = [tree EXCEPT ![place] = g]
      BY <1>3 DEF RemoveMbed, Remove, Effect
    <2> QED
      BY <2>1, <2>2, RemoveKeeps DEF UserFilesInv
  <1>4. CASE Copy
    <2>1. /\ pc = "copy" /\ pc' = "copy" /\ cmd' = cmd /\ place' = place
          /\ exists' = exists /\ at <= Len(Plan(cmd)) /\ place \in Places
      BY <1>4 DEF Copy, TypeOK
    <2>2. \E g \in PartlyCopied(Plan(cmd)[at]) \cup {Copied(Plan(cmd)[at])} :
            tree' = [tree EXCEPT ![place] = g]
      BY <1>4 DEF Copy, Effect
    <2>3. /\ \A p \in Places, f \in UserFiles : Kept(p, f)
          /\ \A p \in Places, f \in UserFiles :
               tree'[p][f] = User => tree[p][f] = User
      BY <2>1, <2>2, WriteKeeps
    <2> QED
      BY <2>1, <2>3 DEF UserFilesInv
  <1>5. CASE Kill
    <2>1. exists' = exists /\ pc' = "exited"
      BY <1>5 DEF Kill
    <2>2. CASE UNCHANGED tree
      BY <1>2, <2>1, <2>2
    <2>3. CASE pc = "remove" /\ \E g \in PartlyRemoved :
                 tree' = [tree EXCEPT ![place] = g]
      BY <2>1, <2>3, RemoveKeeps DEF UserFilesInv
    <2>4. CASE /\ pc = "copy" /\ at <= Len(Plan(cmd))
               /\ \E g \in PartlyCopied(Plan(cmd)[at]) :
                    tree' = [tree EXCEPT ![place] = g]
      BY <2>1, <2>4, WriteKeeps DEF UserFilesInv
    <2> QED
      BY <1>5, <2>2, <2>3, <2>4 DEF Kill
  <1>6. ASSUME NEW p \in Places, NEW f \in UserFiles, UserEdits(p, f) PROVE Goal
    <2>1. /\ pc' = "idle" /\ exists' = exists /\ p \in exists
          /\ tree' = [tree EXCEPT ![p][f] = User]
      BY <1>6 DEF UserEdits
    <2>2. \A q \in Places \ {p} : tree'[q] = tree[q]
      BY <2>1 DEF TypeOK
    <2>3. \A h \in UserFiles : tree[p][h] = User => tree'[p][h] = User
      BY <2>1 DEF TypeOK, UserFiles, Files, PlainFiles
    <2> QED
      BY <2>1, <2>2, <2>3 DEF UserFilesInv, Kept
  <1>7. ASSUME NEW n \in Names, CloneRefused(n) \/ CloneMkdirFails(n) PROVE Goal
    BY <1>2, <1>7 DEF CloneRefused, CloneMkdirFails
  <1>8. ASSUME NEW c \in {"update", "full-update"}, NEW names, NEW pull,
               UpdateStart(c, names, pull)
        PROVE Goal
    BY <1>2, <1>8 DEF UpdateStart
  <1>9. CASE FullUpdateDeclined \/ ProjectNotFound \/ ListDone \/ GitPull
    BY <1>2, <1>9 DEF FullUpdateDeclined, ProjectNotFound, ListDone, GitPull
  <1>10. CASE NextProject
    <2>1. UNCHANGED <<tree, exists>> /\ cmd' # "clone"
      BY <1>10 DEF NextProject, Visit, CleanRunInv
    <2> QED
      BY <1>2, <2>1
  <1>11. CASE ProjectDone
    <2>1. UNCHANGED <<tree, exists>> /\ pc' # "copy"
      BY <1>11 DEF ProjectDone
    <2> QED
      BY <1>2, <2>1
  <1>12. CASE Prompt
    BY <1>2, <1>12 DEF Prompt
  <1>13. CASE UNCHANGED vars
    BY <1>13 DEF vars, UserFilesInv, Kept
  <1> QED
    BY <1>1, <1>3, <1>4, <1>5, <1>6, <1>7, <1>8, <1>9, <1>10, <1>11, <1>12,
       <1>13 DEF Next, Script

\* No script, in any sequence of runs, failures and kills, overwrites the
\* user's sources, and only full-update overwrites the user's CMakeLists.txt
\* or dmake.
THEOREM UserFilesSafe == Spec => UserFilesKept
  <1>1. Init => UserFilesInv
    BY ToolsAssumption DEF Init, UserFilesInv, NoFiles, UserFiles, Files, PlainFiles
  <1>2. Init => CleanRunInv
    BY DEF Init, CleanRunInv
  <1>3. TypeOK /\ CleanRunInv /\ [Next]_vars => CleanRunInv'
    BY CleanRunStep
  <1>4. TypeOK /\ CleanRunInv /\ UserFilesInv /\ [Next]_vars => UserFilesInv'
    BY UserFilesStep
  <1>5. TypeOK /\ CleanRunInv /\ UserFilesInv /\ [Next]_vars =>
          [\A p \in Places, f \in UserFiles :
             tree[p][f] = User /\ tree'[p][f] # User =>
               f # "src" /\ cmd = "full-update"]_vars
    BY UserFilesStep DEF Kept
  <1> QED
    BY TypeCorrect, <1>1, <1>2, <1>3, <1>4, <1>5, PTL DEF Spec, UserFilesKept

-----------------------------------------------------------------------------
(***************************************************************************)
(* A run that stops early leaves no project half-done.                     *)
(***************************************************************************)
Busy(p) == p = place /\ pc \in {"remove", "copy"}

\* Until a command fails, only the project the run works on may be half-done.
AbortInv ==
  /\ pc = "idle" => tree = before
  /\ ~failed => \A p \in Places : p \in done \/ tree[p] = before[p] \/ Busy(p)

\* A command, done or failed, that works on the project of the run.
LEMMA AbortEffect ==
  ASSUME TypeOK, AbortInv, NEW good, NEW bad, Effect(good, bad),
         before' = before, done' = done, place' = place, pc' = "copy",
         pc \in {"remove", "copy"}
  PROVE  AbortInv'
<1>1. CASE failed'
  BY <1>1 DEF AbortInv
<1>2. CASE ~failed'
  <2>1. tree' = [tree EXCEPT ![place] = good] /\ ~failed
    BY <1>2 DEF Effect
  <2>2. \A p \in Places \ {place} : tree'[p] = tree[p]
    BY <2>1 DEF TypeOK
  <2>. QED BY <2>1, <2>2 DEF AbortInv, Busy
<1>. QED BY <1>1, <1>2

\* Every step keeps the invariant.
LEMMA AbortStep ==
  ASSUME TypeOK, AbortInv, [Next]_vars
  PROVE  AbortInv'
<1>1. ASSUME NEW n \in Names, CloneStart(n)
      PROVE  AbortInv'
  <2>1. /\ place' = ClonePlace(n) /\ pc' = "copy" /\ before' = before
        /\ tree' = [tree EXCEPT ![place'] = NoFiles] /\ tree = before
    BY <1>1 DEF CloneStart, Begin, AbortInv
  <2>2. \A p \in Places \ {place'} : tree'[p] = before'[p]
    BY <2>1 DEF TypeOK
  <2>. QED BY <2>1, <2>2 DEF AbortInv, Busy
<1>2. ASSUME NEW n \in Names, CloneRefused(n) \/ CloneMkdirFails(n)
      PROVE  AbortInv'
  BY <1>2 DEF CloneRefused, CloneMkdirFails, Begin, AbortInv
<1>3. ASSUME NEW c \in {"update", "full-update"}, NEW names, NEW pull,
             UpdateStart(c, names, pull)
      PROVE  AbortInv'
  BY <1>3 DEF UpdateStart, Begin, AbortInv
<1>4. CASE FullUpdateDeclined
  BY <1>4 DEF FullUpdateDeclined, Begin, AbortInv
<1>5. CASE NextProject
  BY <1>5 DEF NextProject, Visit, AbortInv, Busy
<1>6. CASE ProjectNotFound \/ ListDone
  BY <1>6 DEF ProjectNotFound, ListDone, AbortInv, Busy
<1>7. CASE RemoveMbed
  <2>1. /\ Effect(Without(MbedFiles), PartlyRemoved) /\ pc' = "copy" /\ pc = "remove"
        /\ before' = before /\ done' = done /\ place' = place
    BY <1>7 DEF RemoveMbed, Remove
  <2>. QED BY <2>1, AbortEffect
<1>8. CASE Copy
  <2>1. /\ Effect(Copied(Plan(cmd)[at]), PartlyCopied(Plan(cmd)[at]))
        /\ pc = "copy" /\ pc' = "copy"
        /\ before' = before /\ done' = done /\ place' = place
    BY <1>8 DEF Copy
  <2>. QED BY <2>1, AbortEffect
<1>9. CASE ProjectDone
  <2>1. /\ pc = "copy" /\ done' = done \cup {place} /\ pc' # "idle"
        /\ tree' = tree /\ before' = before /\ failed' = failed
    BY <1>9 DEF ProjectDone
  <2>. QED BY <2>1 DEF AbortInv, Busy
<1>10. CASE Kill
  BY <1>10 DEF Kill, AbortInv
<1>11. CASE Prompt
  BY <1>11 DEF Prompt, AbortInv
<1>12. CASE GitPull
  BY <1>12 DEF GitPull, AbortInv, Busy
<1>13. ASSUME NEW p \in Places, NEW f \in UserFiles, UserEdits(p, f)
       PROVE  AbortInv'
  BY <1>13 DEF UserEdits, AbortInv
<1>14. CASE UNCHANGED vars
  BY <1>14 DEF vars, AbortInv, Busy
<1>. QED
  BY <1>1, <1>2, <1>3, <1>4, <1>5, <1>6, <1>7, <1>8, <1>9, <1>10, <1>11,
     <1>12, <1>13, <1>14 DEF Next, Script

\* A run in which no command failed, even one that stops at a name it cannot
\* find, leaves every project finished or as it was.
THEOREM AllOrNothing == Spec => []AbortAllOrNothing
<1>1. Init => AbortInv
  BY DEF Init, AbortInv
<1>2. TypeOK /\ AbortInv /\ [Next]_vars => AbortInv'
  BY AbortStep
<1>3. AbortInv => AbortAllOrNothing
  BY DEF AbortInv, AbortAllOrNothing, Busy
<1>. QED BY TypeCorrect, <1>1, <1>2, <1>3, PTL DEF Spec

-----------------------------------------------------------------------------
(***************************************************************************)
(* Status 0 means that every project of the list was visited.              *)
(***************************************************************************)
Named == {ResolvePlace(n) : n \in asked}
PlacesOf(names) == {ResolvePlace(names[i]) : i \in DOMAIN names}
Visiting == IF pc \in {"remove", "copy"} THEN {place} ELSE {}

\* While the loop runs, each project named is done, being visited or to come.
VisitedInv ==
  cmd # "clone" =>
    /\ pc \in {"project", "remove", "copy"} =>
         Named = done \cup Visiting \cup PlacesOf(todo)
    /\ pc = "exited" /\ status = 0 => done = Named

\* The first of a list and the rest of it name the places the list names.
LEMMA PlacesSplit ==
  ASSUME NEW names \in Seq(Names), names # <<>>
  PROVE  PlacesOf(names) = {ResolvePlace(Head(names))} \cup PlacesOf(Tail(names))
<1>1. /\ Head(names) = names[1] /\ 1 \in DOMAIN names
      /\ DOMAIN names = 1 .. Len(names) /\ Len(names) \in Nat
      /\ DOMAIN Tail(names) = 1 .. Len(names) - 1
      /\ \A i \in 1 .. Len(names) - 1 : Tail(names)[i] = names[i + 1]
  OBVIOUS
<1>2. ASSUME NEW i \in DOMAIN names
      PROVE  i = 1 \/ (i - 1 \in DOMAIN Tail(names) /\ Tail(names)[i - 1] = names[i])
  BY <1>1
<1>3. ASSUME NEW i \in DOMAIN Tail(names)
      PROVE  i + 1 \in DOMAIN names /\ Tail(names)[i] = names[i + 1]
  BY <1>1
<1>4. PlacesOf(names) \subseteq {ResolvePlace(Head(names))} \cup PlacesOf(Tail(names))
  BY <1>1, <1>2 DEF PlacesOf
<1>5. PlacesOf(Tail(names)) \subseteq PlacesOf(names)
  BY <1>3 DEF PlacesOf
<1>6. ResolvePlace(Head(names)) \in PlacesOf(names)
  BY <1>1 DEF PlacesOf
<1>. QED BY <1>4, <1>5, <1>6

\* What a step that leaves the directories and the names alone does not move.
LEMMA NamesStay ==
  ASSUME exists' = exists, asked' = asked
  PROVE  Named' = Named
  BY DEF Named, ResolvePlace

\* Every step keeps the invariant.
LEMMA VisitedStep ==
  ASSUME TypeOK, CleanRunInv, VisitedInv, [Next]_vars
  PROVE  VisitedInv'
<1>1. ASSUME NEW n \in Names, CloneStart(n) \/ CloneRefused(n) \/ CloneMkdirFails(n)
      PROVE  VisitedInv'
  BY <1>1 DEF CloneStart, CloneRefused, CloneMkdirFails, Begin, VisitedInv
<1>2. ASSUME NEW c \in {"update", "full-update"}, NEW names, NEW pull,
             UpdateStart(c, names, pull)
      PROVE  VisitedInv'
  <2>1. /\ done = {} /\ done' = {} /\ pc' = "project" /\ todo' = names
        /\ asked' = {names[i] : i \in DOMAIN names}
    BY <1>2 DEF UpdateStart, Begin, CleanRunInv
  <2>2. Named' = PlacesOf(todo)' /\ Visiting' = {}
    BY <2>1 DEF Named, PlacesOf, Visiting
  <2>. QED BY <2>1, <2>2 DEF VisitedInv
<1>3. CASE FullUpdateDeclined
  BY <1>3 DEF FullUpdateDeclined, VisitedInv
<1>4. CASE NextProject
  <2>1. /\ pc = "project" /\ todo # <<>> /\ place' = ResolvePlace(Head(todo))
        /\ todo' = Tail(todo) /\ pc' \in {"remove", "copy"} /\ done' = done
        /\ exists' = exists /\ asked' = asked /\ cmd' = cmd
    BY <1>4 DEF NextProject, Visit
  <2>2. todo \in Seq(Names)
    BY DEF TypeOK
  <2>3. PlacesOf(todo) = {place'} \cup PlacesOf(todo')
    BY <2>1, <2>2, PlacesSplit
  <2>4. Named' = Named /\ PlacesOf(todo)' = PlacesOf(todo')
    BY <2>1 DEF Named, PlacesOf, ResolvePlace
  <2>5. Visiting = {} /\ Visiting' = {place'}
    BY <2>1 DEF Visiting
  <2>6. pc' # "exited"
    BY <2>1
  <2>7. cmd' # "clone" => Named = done \cup Visiting \cup PlacesOf(todo)
    BY <2>1 DEF VisitedInv
  <2>. QED BY <2>1, <2>3, <2>4, <2>5, <2>6, <2>7 DEF VisitedInv
<1>5. CASE ProjectNotFound
  BY <1>5 DEF ProjectNotFound, VisitedInv
<1>6. CASE ListDone
  <2>1. /\ pc = "project" /\ todo = <<>> /\ done' = done /\ pc' = "exited"
        /\ exists' = exists /\ asked' = asked /\ cmd' = cmd
    BY <1>6 DEF ListDone
  <2>2. PlacesOf(todo) = {} /\ Visiting = {}
    BY <2>1 DEF PlacesOf, Visiting
  <2>3. Named' = Named
    BY <2>1, NamesStay
  <2>. QED BY <2>1, <2>2, <2>3 DEF VisitedInv
<1>7. CASE RemoveMbed \/ Copy
  <2>1. /\ pc \in {"remove", "copy"} /\ pc' = "copy" /\ place' = place
        /\ exists' = exists /\ asked' = asked /\ cmd' = cmd /\ done' = done
        /\ todo' = todo
    BY <1>7 DEF RemoveMbed, Remove, Copy
  <2>2. Named' = Named /\ PlacesOf(todo)' = PlacesOf(todo)
    BY <2>1 DEF Named, PlacesOf, ResolvePlace
  <2>3. Visiting' = Visiting
    BY <2>1 DEF Visiting
  <2>. QED BY <2>1, <2>2, <2>3 DEF VisitedInv
<1>8. CASE ProjectDone
  <2>1. /\ pc = "copy" /\ done' = done \cup {place} /\ todo' = todo
        /\ exists' = exists /\ asked' = asked /\ cmd' = cmd
        /\ cmd # "clone" => pc' = "project"
    BY <1>8 DEF ProjectDone
  <2>2. Named' = Named /\ PlacesOf(todo)' = PlacesOf(todo)
    BY <2>1 DEF Named, PlacesOf, ResolvePlace
  <2>3. Visiting = {place} /\ (cmd # "clone" => Visiting' = {})
    BY <2>1 DEF Visiting
  <2>. QED BY <2>1, <2>2, <2>3 DEF VisitedInv
<1>9. CASE Kill
  BY <1>9 DEF Kill, Killed, VisitedInv
<1>10. CASE Prompt
  BY <1>10 DEF Prompt, VisitedInv
<1>11. CASE GitPull
  BY <1>11 DEF GitPull, VisitedInv
<1>12. ASSUME NEW p \in Places, NEW f \in UserFiles, UserEdits(p, f)
       PROVE  VisitedInv'
  BY <1>12 DEF UserEdits, VisitedInv
<1>13. CASE UNCHANGED vars
  BY <1>13 DEF vars, VisitedInv, Named, PlacesOf, Visiting, ResolvePlace
<1>. QED
  BY <1>1, <1>2, <1>3, <1>4, <1>5, <1>6, <1>7, <1>8, <1>9, <1>10, <1>11,
     <1>12, <1>13 DEF Next, Script

\* An update or full-update that exits with status 0 has found and visited every
\* project it was given, however long the list and however often one is named.
THEOREM ZeroVisitsAll == Spec => []ZeroMeansAllVisited
<1>1. Init => VisitedInv
  BY DEF Init, VisitedInv
<1>2. Init => CleanRunInv
  BY DEF Init, CleanRunInv
<1>3. TypeOK /\ CleanRunInv /\ [Next]_vars => CleanRunInv'
  BY CleanRunStep
<1>4. TypeOK /\ CleanRunInv /\ VisitedInv /\ [Next]_vars => VisitedInv'
  BY VisitedStep
<1>5. VisitedInv => ZeroMeansAllVisited
  BY DEF VisitedInv, ZeroMeansAllVisited, Named
<1>. QED BY TypeCorrect, <1>1, <1>2, <1>3, <1>4, <1>5, PTL DEF Spec
=============================================================================
