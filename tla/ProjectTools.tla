---------------------------- MODULE ProjectTools ----------------------------
(***************************************************************************)
(* The maintenance scripts of the template: tools/clone, tools/update and  *)
(* tools/full-update, run one at a time from the template's directory.     *)
(*                                                                         *)
(* A project is a directory.  What a script sees of it is which template   *)
(* version each of its files comes from.  No script checks the status of   *)
(* cp, rm or docker, so each command may fail, be noticed by nobody, and   *)
(* the script goes on; the user may also kill the script between two       *)
(* commands.                                                               *)
(***************************************************************************)
EXTENDS Integers, Sequences

CONSTANTS
  Names,        \* the project names a user types, without a slash
  TemplateDirs, \* the names that are also directories of the template
  MbedFiles,    \* the files mbed/ holds in one version or another
  MbedOf,       \* MbedOf[v]: the files of mbed/ in version v
  MaxVersion,   \* bound: template versions
  MaxFailures,  \* bound: commands that fail in a behaviour
  MaxEdits,     \* bound: files the user changes in a behaviour
  MaxList,      \* bound: projects named in one update
  Absent, Torn, User  \* file contents that are no template version

Versions == 1 .. MaxVersion

\* Files outside mbed/ that a script installs; inc_lib stands for the two
\* empty directories clone makes with one mkdir.
PlainFiles == {"CMakeLists.txt", "targets.cmake", "size_info", "dmake",
               "src", ".gitignore", "Doxyfile", "inc_lib"}
Files == MbedFiles \cup PlainFiles

Contents == Versions \cup {Absent, Torn, User}

ASSUME ToolsAssumption ==
  /\ TemplateDirs \subseteq Names
  /\ MaxVersion \in Nat \ {0} /\ MaxFailures \in Nat /\ MaxEdits \in Nat /\ MaxList \in Nat
  /\ MbedFiles \cap PlainFiles = {}
  /\ MbedOf \in [Versions -> SUBSET MbedFiles]
  /\ Absent \notin Versions /\ Torn \notin Versions /\ User \notin Versions
  /\ Absent # Torn /\ Torn # User /\ User # Absent

VARIABLES
  version,  \* the template's version, moved by git pull
  image,    \* version of the docker image last pulled
  exists,   \* the places that hold a directory
  tree,     \* tree[p][f]: the content of file f of the project at place p
  pc,       \* idle (at the shell prompt), project, remove, copy, exited
  cmd,      \* the running script
  asked,    \* the project names given to the script
  todo,     \* those the loop has still to visit
  place,    \* the directory the script works on ($dname)
  at,       \* the next copy of Plan(cmd)
  status,   \* exit status: 0, 1 or killed
  failed,   \* some command of this run failed
  done,     \* places this run went through to the end of the loop body
  before,   \* tree when the run started
  failures, \* commands that failed so far (bounded by MaxFailures)
  edits     \* files the user changed so far (bounded by MaxEdits)

vars == <<version, image, exists, tree, pc, cmd, asked, todo, place, at,
          status, failed, done, before, failures, edits>>

Killed == 130

-----------------------------------------------------------------------------
(***************************************************************************)
(* Names and places.                                                       *)
(***************************************************************************)
Beside(n) == <<"..", n>>   \* ../n
Inside(n) == <<".", n>>    \* ./n
Places == {"..", "."} \X Names
Nowhere == <<>>

\* clone: a name without a slash is a directory beside the template.
ClonePlace(n) == Beside(n)

\* update, full-update: the name as it is if it is a directory, else ../name.
ResolvePlace(n) == IF Inside(n) \in exists THEN Inside(n) ELSE Beside(n)

-----------------------------------------------------------------------------
(***************************************************************************)
(* What the scripts copy, in their order; the first copy is mbed/.         *)
(***************************************************************************)
ClonePlan == <<MbedFiles, {"CMakeLists.txt"}, {"targets.cmake"}, {"size_info"},
               {"dmake"}, {"src"}, {".gitignore"}, {"Doxyfile"}, {"inc_lib"}>>
UpdatePlan_TakesCMakeLists == <<MbedFiles, {"targets.cmake"}, {"CMakeLists.txt"},
                               {"size_info"}>>
UpdatePlan == <<MbedFiles, {"targets.cmake"}, {"size_info"}>>
FullUpdatePlan == <<MbedFiles, {"CMakeLists.txt"}, {"targets.cmake"},
                    {"size_info"}, {"dmake"}>>

Plan(c) == CASE c = "clone"       -> ClonePlan
             [] c = "update"      -> UpdatePlan
             [] c = "full-update" -> FullUpdatePlan

\* The files of set S the template has, hence the ones cp writes.
Shipped(S) == S \cap (MbedOf[version] \cup PlainFiles)

\* cp went well: cp -T merges, so a file the template lacks stays as it was.
Copied(S) == [f \in Files |-> IF f \in Shipped(S) THEN version
                              ELSE tree[place][f]]

\* cp failed: some files are new, at most one is cut short, the rest is old.
PartlyCopied(S) ==
  {[f \in Files |-> IF f \in new THEN version
                    ELSE IF f \in cut THEN Torn ELSE tree[place][f]] :
     new \in SUBSET Shipped(S) \ {Shipped(S)},
     cut \in {{}} \cup {{f} : f \in Shipped(S)}}

\* rm -rf of mbed/, in full and in part.
Without(G) == [f \in Files |-> IF f \in G THEN Absent ELSE tree[place][f]]
PartlyRemoved == {Without(G) : G \in SUBSET MbedFiles \ {MbedFiles}}

NoFiles == [f \in Files |-> Absent]

-----------------------------------------------------------------------------
(***************************************************************************)
(* Starting a script.                                                      *)
(***************************************************************************)
Running == pc \in {"project", "remove", "copy"}

Begin(c) ==
  /\ pc = "idle"
  /\ cmd' = c /\ at' = 1
  /\ UNCHANGED <<version, done, before, edits>>

CloneStart(n) ==
  /\ Begin("clone")
  /\ place' = ClonePlace(n) /\ place' \notin exists
  /\ exists' = exists \cup {place'}
  /\ tree' = [tree EXCEPT ![place'] = NoFiles]
  /\ pc' = "copy" /\ asked' = {n}
  /\ UNCHANGED <<image, todo, status, failed, failures>>

\* "already exists"
CloneRefused(n) ==
  /\ Begin("clone")
  /\ place' = ClonePlace(n) /\ place' \in exists
  /\ pc' = "exited" /\ status' = 1 /\ asked' = {n}
  /\ UNCHANGED <<image, exists, tree, todo, failed, failures>>

\* "cannot create"
CloneMkdirFails(n) ==
  /\ Begin("clone") /\ failures < MaxFailures
  /\ place' = ClonePlace(n) /\ place' \notin exists
  /\ pc' = "exited" /\ status' = 1 /\ asked' = {n}
  /\ failed' = TRUE /\ failures' = failures + 1
  /\ UNCHANGED <<image, exists, tree, todo>>

\* update and full-update.  docker pull runs only when the list was typed in
\* answer to the prompt and the answer before it was not n (pull = TRUE); a
\* pull that fails leaves the image and the rest of the script as they are.
UpdateStart(c, names, pull) ==
  /\ c \in {"update", "full-update"}
  /\ Begin(c)
  /\ todo' = names /\ asked' = {names[i] : i \in DOMAIN names}
  /\ image' = IF pull THEN version ELSE image
  /\ pc' = "project"
  /\ UNCHANGED <<exists, tree, place, status, failed, failures>>

\* "Continue anyway?" was not answered y.
FullUpdateDeclined ==
  /\ Begin("full-update")
  /\ pc' = "exited" /\ status' = 1
  /\ UNCHANGED <<image, exists, tree, asked, todo, place, failed,
                 failures>>

-----------------------------------------------------------------------------
(***************************************************************************)
(* The loop over the projects, and the copies of one project.              *)
(***************************************************************************)
Visit(next) ==
  /\ pc = "project" /\ todo # <<>>
  /\ place' = ResolvePlace(Head(todo)) /\ place' \in exists
  /\ todo' = Tail(todo)
  /\ pc' = next /\ at' = 1
  /\ UNCHANGED <<version, image, exists, tree, cmd, asked, status, failed,
                 done, before, failures, edits>>

NextProject_AlwaysRemoves == Visit("remove")
NextProject_NeverRemoves == Visit("copy")
NextProject == Visit(IF cmd = "full-update" THEN "remove" ELSE "copy")

ProjectNotFound_Skips ==
  /\ pc = "project" /\ todo # <<>>
  /\ ResolvePlace(Head(todo)) \notin exists
  /\ todo' = Tail(todo)
  /\ UNCHANGED <<version, image, exists, tree, pc, cmd, asked, place, at,
                 status, failed, done, before, failures, edits>>
\* "not found": the projects after this one are not visited.
ProjectNotFound ==
  /\ pc = "project" /\ todo # <<>>
  /\ ResolvePlace(Head(todo)) \notin exists
  /\ pc' = "exited" /\ status' = 1
  /\ UNCHANGED <<version, image, exists, tree, cmd, asked, todo, place, at,
                 failed, done, before, failures, edits>>

ListDone ==
  /\ pc = "project" /\ todo = <<>>
  /\ pc' = "exited" /\ status' = 0
  /\ UNCHANGED <<version, image, exists, tree, cmd, asked, todo, place, at,
                 failed, done, before, failures, edits>>

\* The effect of one command on the project, done or failed.
Effect(good, bad) ==
  \/ /\ tree' = [tree EXCEPT ![place] = good]
     /\ UNCHANGED <<failed, failures>>
  \/ /\ failures < MaxFailures
     /\ \E g \in bad : tree' = [tree EXCEPT ![place] = g]
     /\ failed' = TRUE /\ failures' = failures + 1

Remove(next) ==
  /\ pc = "remove"
  /\ Effect(Without(MbedFiles), PartlyRemoved)
  /\ pc' = next
  /\ UNCHANGED <<version, image, exists, cmd, asked, todo, place, at, status,
                 done, before, edits>>

RemoveMbed_ThenNextProject == Remove("project")
RemoveMbed == Remove("copy")

Copy ==
  /\ pc = "copy" /\ at <= Len(Plan(cmd))
  /\ Effect(Copied(Plan(cmd)[at]), PartlyCopied(Plan(cmd)[at]))
  /\ at' = at + 1
  /\ UNCHANGED <<version, image, exists, pc, cmd, asked, todo, place, status,
                 done, before, edits>>

\* After the last copy: clone reports the project and exits, the others loop.
ProjectDone ==
  /\ pc = "copy" /\ at > Len(Plan(cmd))
  /\ done' = done \cup {place}
  /\ IF cmd = "clone" THEN pc' = "exited" /\ status' = 0
                      ELSE pc' = "project" /\ UNCHANGED status
  /\ UNCHANGED <<version, image, exists, tree, cmd, asked, todo, place, at,
                 failed, before, failures, edits>>

\* The user kills the script, perhaps in the middle of a command.
Kill ==
  /\ Running /\ failures < MaxFailures
  /\ pc' = "exited" /\ status' = Killed
  /\ failed' = TRUE /\ failures' = failures + 1
  /\ \/ UNCHANGED tree
     \/ /\ pc = "remove"
        /\ \E g \in PartlyRemoved : tree' = [tree EXCEPT ![place] = g]
     \/ /\ pc = "copy" /\ at <= Len(Plan(cmd))
        /\ \E g \in PartlyCopied(Plan(cmd)[at]) :
             tree' = [tree EXCEPT ![place] = g]
  /\ UNCHANGED <<version, image, exists, cmd, asked, todo, place, at, done,
                 before, edits>>

-----------------------------------------------------------------------------
(***************************************************************************)
(* Back at the prompt, and what the user does there.                       *)
(***************************************************************************)
\* The script has exited; the next one starts from nothing but the files.
Prompt ==
  /\ pc = "exited"
  /\ pc' = "idle" /\ cmd' = "clone"
  /\ asked' = {} /\ todo' = <<>> /\ place' = Nowhere /\ at' = 1
  /\ status' = 0 /\ failed' = FALSE /\ done' = {}
  /\ before' = tree
  /\ UNCHANGED <<version, image, exists, tree, failures, edits>>

GitPull ==
  /\ pc = "idle" /\ version < MaxVersion
  /\ version' = version + 1
  /\ UNCHANGED <<image, exists, tree, pc, cmd, asked, todo, place, at, status,
                 failed, done, before, failures, edits>>

\* The files of a project that are the user's to change.
UserFiles == {"src", "CMakeLists.txt", "dmake"}

UserEdits(p, f) ==
  /\ pc = "idle" /\ p \in exists /\ f \in UserFiles /\ edits < MaxEdits
  /\ tree' = [tree EXCEPT ![p][f] = User]
  /\ before' = tree' /\ edits' = edits + 1
  /\ UNCHANGED <<version, image, exists, pc, cmd, asked, todo, place, at,
                 status, failed, done, failures>>

-----------------------------------------------------------------------------
NameLists == UNION {[1 .. k -> Names] : k \in 0 .. MaxList}

Init ==
  /\ version = 1 /\ image = Absent
  /\ exists = {Inside(n) : n \in TemplateDirs}
  /\ tree = [p \in Places |-> NoFiles]
  /\ pc = "idle" /\ cmd = "clone"
  /\ asked = {} /\ todo = <<>> /\ place = Nowhere /\ at = 1
  /\ status = 0 /\ failed = FALSE /\ done = {}
  /\ before = tree /\ failures = 0 /\ edits = 0

Script ==
  \/ NextProject \/ ProjectNotFound \/ ListDone
  \/ RemoveMbed \/ Copy \/ ProjectDone

Next ==
  \/ \E n \in Names : CloneStart(n) \/ CloneRefused(n) \/ CloneMkdirFails(n)
  \/ \E c \in {"update", "full-update"}, names \in NameLists :
       \E pull \in BOOLEAN : UpdateStart(c, names, pull)
  \/ FullUpdateDeclined
  \/ Script
  \/ Kill
  \/ Prompt
  \/ GitPull
  \/ \E p \in Places, f \in UserFiles : UserEdits(p, f)

Spec == Init /\ [][Next]_vars
-----------------------------------------------------------------------------
(***************************************************************************)
(* Properties.                                                             *)
(***************************************************************************)
TypeOK ==
  /\ version \in Versions /\ image \in Versions \cup {Absent}
  /\ exists \subseteq Places
  /\ tree \in [Places -> [Files -> Contents]]
  /\ before \in [Places -> [Files -> Contents]]
  /\ pc \in {"idle", "project", "remove", "copy", "exited"}
  /\ cmd \in {"clone", "update", "full-update"}
  /\ pc = "remove" => cmd = "full-update"
  /\ pc \in {"remove", "copy"} => place \in exists
  /\ asked \subseteq Names /\ todo \in Seq(Names)
  /\ place \in Places \cup {Nowhere} /\ at \in 1 .. Len(Plan(cmd)) + 1
  /\ status \in {0, 1, Killed} /\ failed \in BOOLEAN
  /\ done \subseteq Places
  /\ failures \in 0 .. MaxFailures /\ edits \in 0 .. MaxEdits

\* The files each script is there to bring up to date.
Delivers(c) ==
  CASE c = "clone"       -> Files
    [] c = "update"      -> MbedFiles \cup {"targets.cmake", "size_info"}
    [] c = "full-update" -> Files \ {"src", ".gitignore", "Doxyfile", "inc_lib"}

\* File f of place p is what script c owes: the template's, and, unless c
\* merges (update), absent when the template has no such file.
Delivered(c, p, f) ==
  IF f \in MbedOf[version] \cup PlainFiles
  THEN tree[p][f] = version
  ELSE c # "update" => tree[p][f] = Absent

\* A run in which no command failed leaves every project it went through at
\* the template's version, whatever earlier runs that failed, were killed or
\* came from another version had left there: running the script again is
\* enough to repair a project.
CleanRunDelivers ==
  pc = "exited" /\ ~failed =>
    \A p \in done, f \in Delivers(cmd) : Delivered(cmd, p, f)

\* Why CleanRunDelivers holds: a project reaches the copies with an mbed/ that
\* is missing or to be merged into, and each copy delivers its own files and
\* takes nothing back; a project the run is done with is left alone, unless
\* it is named twice and copied again.
CleanRunInv ==
  /\ pc \in {"idle", "remove"} => at = 1
  /\ pc = "idle" => done = {} /\ ~failed
  /\ pc = "project" => cmd # "clone"
  /\ pc = "copy" /\ ~failed /\ at = 1 /\ cmd # "update" =>
       \A f \in MbedFiles : tree[place][f] = Absent
  /\ pc = "copy" /\ ~failed =>
       \A j \in 1 .. at - 1 : \A f \in Plan(cmd)[j] : Delivered(cmd, place, f)
  /\ ~failed =>
       \A p \in done : (p = place => pc \notin {"remove", "copy"}) =>
         \A f \in Delivers(cmd) : Delivered(cmd, p, f)

\* A run in which no command failed, even one that stops at a name it cannot
\* find, leaves no project half-done: each is finished or as it was.
AbortAllOrNothing ==
  pc = "exited" /\ ~failed =>
    \A p \in Places : p \in done \/ tree[p] = before[p]

\* Status 0 from update or full-update says that every project named on the
\* command line was found and visited, failed commands or not.
ZeroMeansAllVisited ==
  pc = "exited" /\ cmd # "clone" /\ status = 0 =>
    done = {ResolvePlace(n) : n \in asked}

\* No script, in any sequence of runs, failures and kills, overwrites the
\* user's sources; only full-update overwrites a CMakeLists.txt or a dmake
\* the user has changed.
UserFilesKept ==
  [][\A p \in Places, f \in UserFiles :
       tree[p][f] = User /\ tree'[p][f] # User =>
         f # "src" /\ cmd = "full-update"]_vars

-----------------------------------------------------------------------------
(***************************************************************************)
(* What the repository says of the scripts and they do not do.             *)
(***************************************************************************)

\* README: clone puts a project named $name in ../$name, and "in case of
\* update" one runs tools/update $name: the project cloned under a name is the
\* one an update of that name brings up to date.
UpdateReachesClone ==
  pc = "exited" /\ cmd = "update" /\ status = 0 /\ ~failed =>
    \A n \in asked : Beside(n) \in exists =>
      tree[Beside(n)]["targets.cmake"] = version
=============================================================================
