--------------------------- MODULE FileOperations ---------------------------
(***************************************************************************)
(* FileManager of the shell (packages/unexus-shell/src/filemanager.cpp):   *)
(* copies, moves and trashings run in a thread each, beside each other,    *)
(* beside the user's own file work, and beside the folder operations and   *)
(* the search of the GUI thread.  A thread posts its result to the GUI     *)
(* thread, which looks the operation up in a queue of the newest ones.     *)
(*                                                                         *)
(* A path is the sequence of its names from the root of its device, one    *)
(* root each; the tree says what is there.  A thread is modelled one call  *)
(* that changes the file system, or that asks whether a name is free, per  *)
(* step, into QFile::rename and QFile::copy; the writing of one file's     *)
(* content is one step.  Progress labels are left out.                     *)
(***************************************************************************)
EXTENDS Naturals, Sequences, FiniteSets

CONSTANTS
  Paths,           \* the paths there may be: a bound on names and depth
  Contents,        \* contents of files; each is saved once
  Searched,        \* roots users search below (bound)
  Tree,            \* what the user starts with
  Dir, Nothing,    \* a directory, no entry
  QueueSize,       \* operations the queue keeps, 5 in the code
  MaxOps,          \* bound on operations
  MaxEdits,        \* bound on what users do to files by other ways
  MaxSources       \* bound on the paths of one operation

Ops     == 1..MaxOps
Workers == 0..MaxOps   \* the thread of each operation, and the GUI thread
GUI     == 0

Names == UNION {{p[i] : i \in DOMAIN p} : p \in Paths}
Tops  == {p \in Paths : Len(p) = 1}

Entries == Contents \cup {Dir, Nothing}
Jobs    == Paths \X Paths \X (Contents \cup {Nothing})

Parent(p)   == SubSeq(p, 1, Len(p) - 1)
Under       == [p \in Paths |-> {q \in Paths : Len(p) <= Len(q) /\ SubSeq(q, 1, Len(p)) = p}]
Children    == [d \in Paths |-> {p \in Paths \ Tops : Parent(p) = d}]

\* A tree in which whatever exists is in directories, all the way up.
Sound(t) ==
  /\ t \in [Paths -> Entries]
  /\ \A p \in Tops : t[p] = Dir
  /\ \A p \in Paths : \A q \in Under[p] \ {p} : t[q] # Nothing => t[p] = Dir

ASSUME FilesAssumption ==
  /\ Dir # Nothing /\ {Dir, Nothing} \cap Contents = {}
  /\ Tops # {} /\ Paths \subseteq Seq(Names)
  /\ \A p \in Paths : Len(p) > 0 /\ \A n \in 1..Len(p) : SubSeq(p, 1, n) \in Paths
  /\ Sound(Tree) /\ Searched \subseteq Tops
  /\ QueueSize \in Nat \ {0} /\ MaxOps \in Nat
  /\ MaxEdits \in Nat /\ MaxSources \in Nat

VARIABLES
  tree,            \* what is at each path
  trashed,         \* contents gio took to the trash
  started,         \* m_nextOperationId
  kind, sources,   \* each worker: what it does, the paths it still has to,
  target,          \* and where to
  step,            \* the step its thread is at
  source, dest,    \* the path it works on, and the one uniqueTargetPath gave
  todo,            \* what copyRecursively still has to copy: from, to, and the
                   \* content of the file it has open
  ok,              \* has every path worked so far?
  index,           \* m_indexCache: the paths found below a root, or Nothing
  reported,        \* operations operationFinished was emitted for
  edits,           \* files saved, folders made and paths renamed so far
  \* History, read by properties only:
  exposed,         \* contents put where a running move or rename deletes or
                   \* overwrites what it finds
  spoiled          \* has anything changed that clears no index?

fileVars   == <<tree, trashed, exposed>>
workerVars == <<kind, sources, target, step, source, dest, todo, ok>>
guiVars    == <<started, index, reported, edits, spoiled>>
vars       == <<fileVars, workerVars, guiVars>>

Exists(p) == tree[p] # Nothing
IsDir(p)  == tree[p] = Dir

Steps == {"unused", "next", "rename", "unlink", "copy", "remove", "trash", "posted",
          "delivered"}

\* Within QFile::rename; from "unlink" on, the file is copied and its source to be removed.
Renaming(i) == step[i] \in {"rename", "unlink"}

\* Where a move or rename that has copied, or is to copy, deletes what it finds.
Doomed ==
  (UNION {Under[source[i]] : i \in {j \in Workers : kind[j] = "move"
                                                   /\ step[j] \in {"copy", "remove"}}})
  \cup {source[i] : i \in {j \in Workers : step[j] = "unlink"}}

\* Where it overwrites what came after the name was found free, or removes its own copy.
Landings(others) == {dest[i] : i \in {j \in others : Renaming(j)}}

\* The tree becomes t; `others` are the workers that did not do it.
Put(others, t) ==
  /\ tree' = t
  /\ exposed' = exposed \cup
       (Contents \cap {t[p] : p \in {q \in Doomed \cup Landings(others) : t[q] # tree[q]}})

\* The operation is still among the QueueSize newest.
InQueue(i) == started < i + QueueSize

TypeOK ==
  /\ Sound(tree)
  /\ trashed \subseteq Contents /\ exposed \subseteq Contents
  /\ started \in 0..MaxOps /\ reported \subseteq Ops /\ edits \in 0..MaxEdits
  /\ kind \in [Workers -> {"copy", "move", "trash", "rename"}]
  /\ sources \in [Workers -> SUBSET (Paths \ Tops)] /\ target \in [Workers -> Paths]
  /\ step \in [Workers -> Steps] /\ ok \in [Workers -> BOOLEAN]
  /\ step[GUI] \in {"unused", "rename", "unlink"}
  /\ source \in [Workers -> Paths] /\ dest \in [Workers -> Paths]
  /\ \A i \in Workers : step[i] \in {"rename", "unlink", "copy", "remove", "trash"} =>
                          source[i] \notin Tops
  /\ todo \in [Workers -> SUBSET Jobs]
  /\ index \in [Searched -> (SUBSET Paths) \cup {Nothing}]
  /\ spoiled \in BOOLEAN

Home == CHOOSE p \in Tops : TRUE

Init ==
  /\ tree = Tree /\ trashed = {}
  /\ started = 0 /\ reported = {} /\ edits = 0
  /\ kind = [i \in Workers |-> IF i = GUI THEN "rename" ELSE "copy"]
  /\ sources = [i \in Workers |-> {}]
  /\ target = [i \in Workers |-> Home] /\ step = [i \in Workers |-> "unused"]
  /\ source = [i \in Workers |-> Home] /\ dest = [i \in Workers |-> Home]
  /\ todo = [i \in Workers |-> {}] /\ ok = [i \in Workers |-> TRUE]
  /\ index = [r \in Searched |-> Nothing]
  /\ exposed = {} /\ spoiled = FALSE

-----------------------------------------------------------------------------
(* What the file system does.                                              *)

\* mkpath makes the missing parents too; a file in the way makes it fail.
CanMake(d) == \A p \in Paths : d \in Under[p] => tree[p] \in {Dir, Nothing}
Made(d)    == [p \in Paths |-> IF d \in Under[p] THEN Dir ELSE tree[p]]

Moved(q, p, d) == d \o SubSeq(q, Len(p) + 1, Len(q))

\* renameat2(2) as QFile uses it: within a device, never over an entry, nor into itself.
CanRename(p, d) ==
  /\ Exists(p) /\ ~Exists(d) /\ IsDir(Parent(d))
  /\ Head(p) = Head(d) /\ d \notin Under[p]
  /\ \A q \in Under[p] : Exists(q) => Moved(q, p, d) \in Paths

Renamed(p, d) ==
  [q \in Paths |->
     IF q \in Under[p] THEN Nothing
     ELSE IF q \in Under[d] THEN
            IF Moved(q, d, p) \in Paths THEN tree[Moved(q, d, p)] ELSE Nothing
     ELSE tree[q]]

\* Opening a file for writing truncates the one that is there.
CanWrite(p, d) == tree[p] \in Contents /\ ~IsDir(d) /\ IsDir(Parent(d))

\* Fault for NeverOverwrites: a copy replaces what came to its target meanwhile.
CanPlaceOver(d) == ~IsDir(d) /\ IsDir(Parent(d))

\* QFile::copy ends in linking or renaming a temporary file, neither over an entry.
CanPlace(d) == ~Exists(d) /\ IsDir(Parent(d))

ClearIndex == index' = [r \in Searched |-> Nothing] /\ spoiled' = FALSE

-----------------------------------------------------------------------------
(* The GUI thread.                                                         *)

\* It is not within a rename of its own.
Idle == ~Renaming(GUI)

Begin(k, ps, d) ==
  /\ Idle /\ started < MaxOps
  /\ ps # {} /\ k # "trash" => IsDir(d)
  /\ LET i == started + 1 IN
     /\ started' = i
     /\ kind' = [kind EXCEPT ![i] = k] /\ target' = [target EXCEPT ![i] = d]
     /\ sources' = [sources EXCEPT ![i] = ps]
     /\ step' = [step EXCEPT ![i] = "next"]
  /\ UNCHANGED <<fileVars, source, dest, todo, ok, index, reported, edits, spoiled>>

\* What the panel lists can be selected.
Selections ==
  {ps \in SUBSET {p \in Paths \ Tops : Exists(p)} :
     ps # {} /\ Cardinality(ps) <= MaxSources}

CopyPathsAsync == \E ps \in Selections, d \in Paths : Begin("copy", ps, d)
MovePathsAsync == \E ps \in Selections, d \in Paths : Begin("move", ps, d)
MovePathsToTrashAsync == \E ps \in Selections : Begin("trash", ps, Home)

\* The closure of the thread is gone with it.
Forget(i) ==
  /\ kind' = [kind EXCEPT ![i] = "copy"] /\ sources' = [sources EXCEPT ![i] = {}]
  /\ target' = [target EXCEPT ![i] = Home] /\ source' = [source EXCEPT ![i] = Home]
  /\ dest' = [dest EXCEPT ![i] = Home] /\ ok' = [ok EXCEPT ![i] = TRUE]

\* Fault for IndexComplete: an operation that went well clears no index.
UpdateOperationKeepsIndex(i) ==
  /\ Idle /\ step[i] = "posted"
  /\ step' = [step EXCEPT ![i] = "delivered"]
  /\ Forget(i)
  /\ reported' = IF InQueue(i) THEN reported \cup {i} ELSE reported
  /\ spoiled' = (spoiled \/ ~ok[i] \/ ~InQueue(i))
  /\ UNCHANGED <<fileVars, todo, started, edits, index>>

\* The posted result: an operation that fell out of the queue is forgotten.
UpdateOperation(i) ==
  /\ Idle /\ step[i] = "posted"
  /\ step' = [step EXCEPT ![i] = "delivered"]
  /\ Forget(i)
  /\ reported' = IF InQueue(i) THEN reported \cup {i} ELSE reported
  /\ IF InQueue(i) /\ ok[i] THEN ClearIndex ELSE spoiled' = TRUE /\ UNCHANGED index
  /\ UNCHANGED <<fileVars, todo, started, edits>>

Edit == edits < MaxEdits /\ edits' = edits + 1

CreateFolder ==
  /\ Idle
  /\ \E d \in Paths \ Tops :
       /\ ~Exists(d) /\ IsDir(Parent(d))
       /\ Put(Workers, [tree EXCEPT ![d] = Dir])
  /\ Edit /\ ClearIndex
  /\ UNCHANGED <<trashed, workerVars, started, reported>>

\* QDir::rename finds the new name free; what follows is Rename(GUI).
RenamePath ==
  /\ Idle
  /\ \E p \in Paths \ Tops, n \in Names :
       LET d == Append(Parent(p), n) IN
       /\ d \in Paths /\ Exists(p) /\ ~Exists(d)
       /\ source' = [source EXCEPT ![GUI] = p]
       /\ dest' = [dest EXCEPT ![GUI] = d]
  /\ step' = [step EXCEPT ![GUI] = "rename"]
  /\ Edit
  /\ UNCHANGED <<fileVars, kind, sources, target, todo, ok, started, index, reported,
                 spoiled>>

SearchIndexed(r) ==
  /\ Idle /\ index[r] = Nothing
  /\ index' = [index EXCEPT ![r] = {p \in Under[r] : Exists(p)}]
  /\ UNCHANGED <<fileVars, workerVars, started, reported, edits, spoiled>>

-----------------------------------------------------------------------------
(* The thread of an operation.                                             *)

\* Fault for EveryOperationReported: the loop is left by a return, not by a break.
FailSilently(i) ==
  /\ step' = [step EXCEPT ![i] = "delivered"] /\ ok' = [ok EXCEPT ![i] = FALSE]
  /\ todo' = [todo EXCEPT ![i] = {}]

Fail(i) ==
  /\ step' = [step EXCEPT ![i] = "posted"] /\ ok' = [ok EXCEPT ![i] = FALSE]
  /\ todo' = [todo EXCEPT ![i] = {}]

NextPath(i) == step' = [step EXCEPT ![i] = "next"] /\ UNCHANGED <<todo, ok>>

\* Paths that make an operation stop before it touches them.
Refused(i, p) ==
  \/ ~Exists(p)
  \/ kind[i] = "move" /\ Parent(p) = target[i]
  \/ kind[i] # "trash" /\ IsDir(p) /\ target[i] \in Under[p]

\* uniqueTargetPath: the name itself, else a numbered one, else none.
UniqueTargets(i, p) ==
  LET plain == Append(target[i], p[Len(p)])
      free  == {d \in Children[target[i]] : ~Exists(d)}
  IN IF plain \in free THEN {plain} ELSE free

BeginCopy(i, p, d) ==
  /\ step' = [step EXCEPT ![i] = "copy"]
  /\ todo' = [todo EXCEPT ![i] = {<<p, d, Nothing>>}]

Take(i) ==
  /\ step[i] = "next"
  /\ \E p \in sources[i] :
       /\ sources' = [sources EXCEPT ![i] = @ \ {p}]
       /\ source' = [source EXCEPT ![i] = p]
       /\ IF Refused(i, p) THEN Fail(i) /\ UNCHANGED dest
          ELSE IF kind[i] = "trash" THEN
                 step' = [step EXCEPT ![i] = "trash"] /\ UNCHANGED <<dest, todo, ok>>
          ELSE IF UniqueTargets(i, p) = {} THEN Fail(i) /\ UNCHANGED dest
          ELSE \E d \in UniqueTargets(i, p) :
                 /\ dest' = [dest EXCEPT ![i] = d]
                 /\ IF kind[i] = "move" THEN step' = [step EXCEPT ![i] = "rename"] /\ UNCHANGED todo
                    ELSE BeginCopy(i, p, d)
                 /\ UNCHANGED ok
  /\ UNCHANGED <<fileVars, kind, target, guiVars>>

Finish(i) ==
  /\ step[i] = "next" /\ sources[i] = {}
  /\ step' = [step EXCEPT ![i] = "posted"]
  /\ UNCHANGED <<fileVars, kind, sources, target, source, dest, todo, ok, guiVars>>

\* The GUI thread clears the index after its own rename; a thread goes on.
RenameDone(i) ==
  /\ step' = [step EXCEPT ![i] = IF i = GUI THEN "unused" ELSE "next"]
  /\ IF i = GUI THEN ClearIndex ELSE UNCHANGED <<index, spoiled>>
  /\ UNCHANGED todo

\* A move whose rename failed, whatever the reason, copies and removes.
RenameFailed(i) ==
  /\ IF i = GUI THEN step' = [step EXCEPT ![i] = "unused"] /\ UNCHANGED todo
                ELSE BeginCopy(i, source[i], dest[i])
  /\ UNCHANGED <<index, spoiled>>

\* QFile::rename: where the system does not rename, because of two devices or of an entry
\* that came to the new name, it writes the content of a file there itself.
Rename(i) ==
  /\ step[i] = "rename"
  /\ LET p == source[i]
         d == dest[i]
     IN \/ /\ CanRename(p, d)
           /\ Put(Workers \ {i}, Renamed(p, d)) /\ RenameDone(i)
        \/ /\ ~CanRename(p, d)
           /\ UNCHANGED <<tree, exposed>> /\ RenameFailed(i)
        \/ /\ ~CanRename(p, d) /\ CanWrite(p, d)
           /\ Put(Workers \ {i}, [tree EXCEPT ![d] = tree[p]])
           /\ step' = [step EXCEPT ![i] = "unlink"] /\ UNCHANGED <<todo, index, spoiled>>
        \/ /\ ~CanRename(p, d) /\ CanWrite(p, d)
           /\ Put(Workers \ {i}, [tree EXCEPT ![d] = Nothing]) /\ RenameFailed(i)
  /\ UNCHANGED <<trashed, kind, sources, target, source, dest, ok, started, reported, edits>>

\* It removes the source of what it wrote, or else what it wrote.
Unlink(i) ==
  /\ step[i] = "unlink"
  /\ LET p == source[i]
         d == dest[i]
     IN \/ /\ tree[p] \in Contents
           /\ Put(Workers \ {i}, [tree EXCEPT ![p] = Nothing]) /\ RenameDone(i)
        \/ /\ Put(Workers \ {i}, [tree EXCEPT ![d] = IF @ = Dir THEN Dir ELSE Nothing])
           /\ RenameFailed(i)
  /\ UNCHANGED <<trashed, kind, sources, target, source, dest, ok, started, reported, edits>>

\* Fault for FilesKept: a file that could not be copied is passed over.
CopyRecursivelyUnchecked(i) ==
  /\ step[i] = "copy" /\ \A job \in todo[i] : job[3] = Nothing
  /\ \E job \in todo[i] :
       LET p == job[1]
           d == job[2]
           below == {<<c, Append(d, c[Len(c)]), Nothing>> : c \in {q \in Children[p] : Exists(q)}}
       IN \/ /\ IsDir(p) /\ CanMake(d) /\ below \subseteq Jobs
             /\ Put(Workers \ {i}, Made(d))
             /\ todo' = [todo EXCEPT ![i] = (@ \ {job}) \cup below]
          \/ /\ todo' = [todo EXCEPT ![i] = @ \ {job}]
             /\ UNCHANGED <<tree, exposed>>
  /\ UNCHANGED <<step, ok, trashed, kind, sources, target, source, dest, guiVars>>

\* copyRecursively makes a directory and lists what is to go below it, or QFile::copy finds
\* the name free and reads a file; each may fail, whatever the reason.
CopyRecursively(i) ==
  /\ step[i] = "copy" /\ \A job \in todo[i] : job[3] = Nothing
  /\ \E job \in todo[i] :
       LET p == job[1]
           d == job[2]
           below == {<<c, Append(d, c[Len(c)]), Nothing>> : c \in {q \in Children[p] : Exists(q)}}
       IN \/ /\ IsDir(p) /\ CanMake(d) /\ below \subseteq Jobs
             /\ Put(Workers \ {i}, Made(d))
             /\ todo' = [todo EXCEPT ![i] = (@ \ {job}) \cup below]
             /\ UNCHANGED <<step, ok>>
          \/ /\ tree[p] \in Contents /\ ~Exists(d)
             /\ todo' = [todo EXCEPT ![i] = (@ \ {job}) \cup {<<p, d, tree[p]>>}]
             /\ UNCHANGED <<tree, exposed, step, ok>>
          \/ Fail(i) /\ UNCHANGED <<tree, exposed>>
  /\ UNCHANGED <<trashed, kind, sources, target, source, dest, guiVars>>

\* QFile::copy gives the file it has written the name it was to have.
Place(i) ==
  /\ step[i] = "copy"
  /\ \E job \in todo[i] :
       /\ job[3] # Nothing
       /\ \/ /\ CanPlace(job[2])
             /\ Put(Workers \ {i}, [tree EXCEPT ![job[2]] = job[3]])
             /\ todo' = [todo EXCEPT ![i] = @ \ {job}]
             /\ UNCHANGED <<step, ok>>
          \/ Fail(i) /\ UNCHANGED <<tree, exposed>>
  /\ UNCHANGED <<trashed, kind, sources, target, source, dest, guiVars>>

Copied(i) ==
  /\ step[i] = "copy" /\ todo[i] = {}
  /\ step' = [step EXCEPT ![i] = IF kind[i] = "move" THEN "remove" ELSE "next"]
  /\ UNCHANGED <<fileVars, kind, sources, target, source, dest, todo, ok, guiVars>>

\* Fault for TypeOK: a directory goes before what is in it.
RemoveTopDown(i) ==
  /\ step[i] = "remove"
  /\ \E q \in Under[source[i]] :
       /\ Exists(q)
       /\ Put(Workers \ {i}, [tree EXCEPT ![q] = Nothing])
       /\ IF q = source[i] THEN NextPath(i) ELSE UNCHANGED <<step, todo, ok>>
  /\ UNCHANGED <<trashed, kind, sources, target, source, dest, guiVars>>

\* removeRecursively, or QFile::remove of a file: bottom up, and also what came late.
Remove(i) ==
  /\ step[i] = "remove"
  /\ \/ \E q \in Under[source[i]] :
          /\ Exists(q) /\ \A c \in Children[q] : ~Exists(c)
          /\ Put(Workers \ {i}, [tree EXCEPT ![q] = Nothing])
          /\ IF q = source[i] THEN NextPath(i) ELSE UNCHANGED <<step, todo, ok>>
     \/ ~Exists(source[i]) /\ NextPath(i) /\ UNCHANGED <<tree, exposed>>
     \/ Fail(i) /\ UNCHANGED <<tree, exposed>>
  /\ UNCHANGED <<trashed, kind, sources, target, source, dest, guiVars>>

\* `gio trash`, one path at a time; gio may be missing or refuse.
Trash(i) ==
  /\ step[i] = "trash"
  /\ \/ /\ Exists(source[i])
        /\ trashed' = trashed \cup ({tree[q] : q \in Under[source[i]]} \cap Contents)
        /\ Put(Workers \ {i}, [q \in Paths |-> IF q \in Under[source[i]] THEN Nothing ELSE tree[q]])
        /\ NextPath(i)
     \/ Fail(i) /\ UNCHANGED fileVars
  /\ UNCHANGED <<kind, sources, target, source, dest, guiVars>>

-----------------------------------------------------------------------------

\* Any other program saves a new file.
Save ==
  \E c \in Contents, d \in Paths \ Tops :
    /\ c \notin trashed \cup exposed /\ \A p \in Paths : tree[p] # c
    /\ ~Exists(d) /\ IsDir(Parent(d))
    /\ Put(Workers, [tree EXCEPT ![d] = c])
    /\ Edit /\ spoiled' = TRUE
    /\ UNCHANGED <<trashed, workerVars, started, index, reported>>

Thread(i) ==
  \/ Take(i) \/ Finish(i) \/ Rename(i) \/ Unlink(i) \/ CopyRecursively(i) \/ Place(i)
  \/ Copied(i) \/ Remove(i) \/ Trash(i)

User ==
  \/ CopyPathsAsync \/ MovePathsAsync \/ MovePathsToTrashAsync
  \/ CreateFolder \/ RenamePath \/ Save
  \/ \E r \in Searched : SearchIndexed(r)

Worker(i) == Thread(i) \/ UpdateOperation(i)

Next == User \/ \E i \in Workers : Worker(i)

(* Threads run, and the GUI thread ends its renames and handles what is     *)
(* posted to it; users are not fair.                                       *)
Spec == Init /\ [][Next]_vars /\ \A i \in Workers : WF_vars(Worker(i))

-----------------------------------------------------------------------------

Somewhere(c) == c \in trashed \/ \E p \in Paths : tree[p] = c

\* No copy, move, rename or trashing, beside any others, makes a file disappear; the only
\* files lost are those another worker put, after a move or rename had begun, where that one
\* deletes or overwrites: into what it copies and then removes, or at the name it found free.
FilesKept ==
  [][\A c \in Contents \ exposed : Somewhere(c) => Somewhere(c)']_vars

\* No copy ever replaces a file, though its name was found free two calls earlier; a move or
\* rename replaces none but one that came to its name after that was found free.
NeverOverwrites ==
  [][\A p \in Paths : tree[p] \in Contents \ exposed => tree'[p] \in {tree[p], Nothing}]_vars

\* When the operations since the index was built went well, were all reported and are over,
\* a search by the index still finds every file, wherever they were moved.
IndexComplete ==
  (\A i \in Workers : step[i] \in {"unused", "delivered"}) /\ ~spoiled =>
    \A r \in Searched : index[r] # Nothing =>
      \A p \in Under[r] : Exists(p) => p \in index[r]

\* Every operation ends in operationFinished, unless QueueSize newer ones were begun: again
\* and again none is left (what was reported, or fell out of the queue, remains so).
EveryOperationReported ==
  []<>(\A i \in 1..started : i \in reported \/ ~InQueue(i))
=============================================================================
