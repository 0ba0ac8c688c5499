-------------------------------- MODULE FileTree --------------------------------
(***************************************************************************)
(* What the operations of the filesystem engine, and the inverse           *)
(* operations of its rollback manager, do to a directory tree.  A tree     *)
(* maps every path to what is there; a path is the sequence of its names,  *)
(* and the root << >> is not part of it.  The library calls (shutil,       *)
(* pathlib) behave as they do on POSIX.                                    *)
(***************************************************************************)
EXTENDS Naturals, Sequences, FiniteSets, SequencesExt

CONSTANTS
  Paths,       \* the paths considered, with every non-empty prefix of each
  Contents,    \* contents of files
  Torn,        \* one of them: that of a file whose writing was interrupted
  Absent,      \* nothing is at a path
  Directory,   \* a directory is
  Faults       \* may the operating system refuse or interrupt an operation?

ASSUME TreeAssumption ==
  /\ IsFiniteSet(Paths)
  /\ \A p \in Paths : p # << >> /\ p \in Seq(UNION {Range(q) : q \in Paths})
  /\ \A p \in Paths : \A i \in 1 .. Len(p) : SubSeq(p, 1, i) \in Paths
  /\ Torn \in Contents
  /\ Absent # Directory /\ {Absent, Directory} \cap Contents = {}
  /\ Faults \in BOOLEAN

Entries == Contents \cup {Absent, Directory}

Exists(tree, p) == tree[p] # Absent
IsDir(tree, p)  == tree[p] = Directory
IsFile(tree, p) == tree[p] \in Contents

Parents(p)  == {q \in Paths : IsStrictPrefix(q, p)}
Subtree(p)  == {q \in Paths : IsPrefix(p, q)}
Children(p) == Subtree(p) \ {p}

IsTree(tree) ==
  /\ tree \in [Paths -> Entries]
  /\ \A p \in Paths : Exists(tree, p) => \A q \in Parents(p) : IsDir(tree, q)

-----------------------------------------------------------------------------
(* Changes of a tree                                                         *)

\* p.parent.mkdir(parents=True, exist_ok=True) raises when a parent is a file.
CanHold(tree, p) == \A q \in Parents(p) : ~IsFile(tree, q)

WithParents(tree, p) == [q \in Paths |-> IF q \in Parents(p) THEN Directory ELSE tree[q]]

\* Wrong on purpose (FilesTypeOK): the parents are not made.
PutAlone(tree, p, entry) == [tree EXCEPT ![p] = entry]

Put(tree, p, entry) == [WithParents(tree, p) EXCEPT ![p] = entry]

Erase(tree, gone) == [q \in Paths |-> IF q \in gone THEN Absent ELSE tree[q]]

\* The path of q, which is src or below it, when src goes to dst.
Moved(src, dst, q) == dst \o SubSeq(q, Len(src) + 1, Len(q))

\* What is at src and below it appears at dst too.
Transplant(tree, src, dst) ==
  [q \in Paths |->
     IF q \notin Subtree(dst) THEN WithParents(tree, dst)[q]
     ELSE IF Moved(dst, src, q) \in Paths THEN tree[Moved(dst, src, q)] ELSE Absent]

Relocate(tree, src, dst) ==
  IF src = dst THEN tree ELSE Erase(Transplant(tree, src, dst), Subtree(src))

\* copy2 and shutil.move put a file that goes to an existing directory inside it.
Into(tree, src, dst) == IF IsDir(tree, dst) THEN Append(dst, Last(src)) ELSE dst

-----------------------------------------------------------------------------
(* Operations, as _execute_operation dispatches them.  src is the path read  *)
(* or removed, dst the path made; a rename has the new name's full path.     *)

Policies == {"DENY", "OVERWRITE", "SKIP", "RENAME"}

Conflicting == {"COPY", "MOVE", "RENAME", "COPY_DIRECTORY"}
Removing    == {"DELETE", "DELETE_DIRECTORY", "EMPTY_DIRECTORY"}

Operation ==
  [type : Conflicting, src : Paths, dst : Paths, policy : Policies]
  \cup [type : {"CREATE"}, dst : Paths, policy : Policies, content : Contents]
  \cup [type : {"CREATE_DIRECTORY"}, dst : Paths]
  \cup [type : {"MOVE_DIRECTORY", "RENAME_DIRECTORY"}, src : Paths, dst : Paths]
  \cup [type : {"DELETE", "EMPTY_DIRECTORY"}, src : Paths]
  \cup [type : {"DELETE_DIRECTORY"}, src : Paths, recursive : BOOLEAN]

Completed(tree) == [status |-> "COMPLETED", tree |-> tree]
Failed(tree)    == [status |-> "FAILED", tree |-> tree]
Attempt(possible, tree, after) == IF possible THEN Completed(after) ELSE Failed(tree)

(* A method first checks and then changes.  Between the two it holds the lock of *)
(* its class only, so the tree may be another one when it changes it.          *)

\* What a check that lets the change go on has seen; the last one is an existing
\* destination that copy_directory is to remove first.
Passing  == {"GOES_ON", "REPLACES"}
Verdicts == Passing \cup {"NOT_YET"}

SourceMissing(op, tree) ==
  \/ op.type \in {"COPY", "MOVE", "RENAME", "DELETE"} /\ ~IsFile(tree, op.src)
  \/ op.type \in {"COPY_DIRECTORY", "MOVE_DIRECTORY", "EMPTY_DIRECTORY", "DELETE_DIRECTORY"}
       /\ ~IsDir(tree, op.src)

\* _handle_conflict, and the same in copy_directory.  The free name the RENAME policy
\* looks for stays in a local variable of it: the caller goes on with the name that is
\* taken.
Conflict(op, policy, tree) ==
  op.type \in Conflicting \cup {"CREATE"} /\ Exists(tree, op.dst) /\ op.policy = policy

Refused(op, tree) ==
  \/ SourceMissing(op, tree)
  \/ Conflict(op, "DENY", tree)
  \/ op.type = "MOVE_DIRECTORY" /\ Exists(tree, op.dst)
  \/ op.type = "DELETE_DIRECTORY" /\ ~op.recursive /\ \E q \in Children(op.src) : Exists(tree, q)

\* Whatever is at the path already counts as the directory created.  A type the
\* dispatch does not know, RENAME_DIRECTORY among them, is reported as completed.
NothingToDo(op, tree) ==
  op.type = "RENAME_DIRECTORY" \/ (op.type = "CREATE_DIRECTORY" /\ Exists(tree, op.dst))

Check(op, tree) ==
  IF Refused(op, tree) THEN "FAILED"
  ELSE IF Conflict(op, "SKIP", tree) THEN "SKIPPED"
  ELSE IF NothingToDo(op, tree) THEN "COMPLETED"
  ELSE IF op.type = "COPY_DIRECTORY" /\ Exists(tree, op.dst) THEN "REPLACES"
  ELSE "GOES_ON"

Unlink(p, tree) == Attempt(IsFile(tree, p), tree, Erase(tree, {p}))
RmTree(p, tree) == Attempt(IsDir(tree, p), tree, Erase(tree, Subtree(p)))

\* shutil.move of whatever is at src, after the parents of dst have been made; they
\* stay when the move fails.  A directory cannot go inside itself.
ShutilMove(src, dst, tree) ==
  LET target == Into(tree, src, dst)
  IN  IF ~CanHold(tree, dst) THEN Failed(tree)
      ELSE Attempt(/\ Exists(tree, src)
                   /\ IF IsDir(tree, dst) THEN ~Exists(tree, target)
                      ELSE IsDir(tree, src) => ~Exists(tree, dst)
                   /\ IsDir(tree, src) => target \notin Subtree(src),
                   WithParents(tree, dst), Relocate(tree, src, target))

\* Path.rename of whatever is at src to another name in its directory.
PathRename(src, dst, tree) ==
  Attempt(/\ Exists(tree, src)
          /\ IF IsDir(tree, src) THEN /\ ~IsFile(tree, dst)
                                      /\ \A q \in Children(dst) : ~Exists(tree, q)
                                 ELSE ~IsDir(tree, dst),
          tree, Relocate(tree, src, dst))

Copy(op, tree) ==
  LET target == Into(tree, op.src, op.dst)
  IN  IF ~CanHold(tree, op.dst) THEN Failed(tree)
      ELSE Attempt(IsFile(tree, op.src) /\ target # op.src /\ ~IsDir(tree, target),
                   WithParents(tree, op.dst), Put(tree, target, tree[op.src]))

Create(op, tree) ==
  Attempt(CanHold(tree, op.dst) /\ ~IsDir(tree, op.dst),
          tree, Put(tree, op.dst, op.content))

CreateDirectory(op, tree) ==
  Attempt(CanHold(tree, op.dst) /\ ~IsFile(tree, op.dst), tree, Put(tree, op.dst, Directory))

DeleteDirectory(op, tree) ==
  Attempt(IsDir(tree, op.src) /\ (op.recursive \/ \A q \in Children(op.src) : ~Exists(tree, q)),
          tree, Erase(tree, Subtree(op.src)))

\* An existing destination is removed before the copy begins, also when that
\* takes the source away.
Cleared(op, verdict, tree) ==
  IF op.type = "COPY_DIRECTORY" /\ verdict = "REPLACES" /\ IsDir(tree, op.dst)
  THEN Erase(tree, Subtree(op.dst)) ELSE tree

CopyDirectory(op, verdict, tree) ==
  LET cleared == Cleared(op, verdict, tree)
  IN  Attempt(/\ verdict = "REPLACES" => IsDir(tree, op.dst)
              /\ IsDir(cleared, op.src) /\ ~Exists(cleared, op.dst) /\ CanHold(cleared, op.dst),
              cleared, Transplant(cleared, op.src, op.dst))

EmptyDirectory(op, tree) ==
  Attempt(IsDir(tree, op.src), tree, Erase(tree, Children(op.src)))

\* The change an operation makes, on the tree as it is by then.
Act(op, verdict, tree) ==
  CASE op.type = "COPY"                       -> Copy(op, tree)
    [] op.type \in {"MOVE", "MOVE_DIRECTORY"} -> ShutilMove(op.src, op.dst, tree)
    [] op.type = "RENAME"                     -> PathRename(op.src, op.dst, tree)
    [] op.type = "DELETE"                     -> Unlink(op.src, tree)
    [] op.type = "CREATE"                     -> Create(op, tree)
    [] op.type = "CREATE_DIRECTORY"           -> CreateDirectory(op, tree)
    [] op.type = "DELETE_DIRECTORY"           -> DeleteDirectory(op, tree)
    [] op.type = "COPY_DIRECTORY"             -> CopyDirectory(op, verdict, tree)
    [] op.type = "EMPTY_DIRECTORY"            -> EmptyDirectory(op, tree)
    [] OTHER                                  -> Completed(tree)

\* The trees an interrupted change can leave: a path is as before, as after, or
\* holds a file written in part.  What goes away goes last (a move is a rename, or
\* a copy followed by a removal), and a change that fails has not all been made,
\* unless it failed on the attributes of a file it had written.
Interrupted(tree, after) ==
  LET changed == {p \in Paths : tree[p] # after[p]}
      removed == {p \in changed : ~Exists(after, p)}
      written == {p \in changed : IsFile(after, p)}
      left(done, torn) == [p \in Paths |-> IF p \in torn THEN Torn
                                           ELSE IF p \in done THEN after[p] ELSE tree[p]]
      possible(done, torn) ==
        /\ done \cap removed # {} => changed \ removed \subseteq done /\ torn = {}
        /\ done = changed => removed = {} /\ written # {}
        /\ IsTree(left(done, torn))
  IN  {tree} \cup UNION {{left(done, torn) : torn \in {s \in SUBSET written : possible(done, s)}} :
                           done \in SUBSET changed}

\* Every outcome of an operation.  One that has not passed its check ends with it;
\* one that raises or lacks a permission is FAILED.
Outcomes(op, verdict, tree) ==
  IF verdict = "NOT_YET" THEN {[status |-> Check(op, tree), tree |-> tree]}
  ELSE LET result  == Act(op, verdict, tree)
           cleared == Cleared(op, verdict, tree)
       IN  {result} \cup
           IF Faults THEN {Failed(t) : t \in Interrupted(tree, cleared)
                                             \cup Interrupted(cleared, result.tree)} ELSE {}

-----------------------------------------------------------------------------
(* Inverse operations of the rollback manager                                *)

\* _invert_operation: the inverses (none or one) of a completed operation.
Inverses(op) ==
  CASE op.type \in {"COPY", "CREATE"} ->
         {[type |-> "DELETE_FILE", src |-> op.dst, dst |-> op.dst]}
    [] op.type \in {"COPY_DIRECTORY", "CREATE_DIRECTORY"} ->
         {[type |-> "DELETE_TREE", src |-> op.dst, dst |-> op.dst]}
    [] op.type = "MOVE" -> {[type |-> "MOVE_BACK", src |-> op.dst, dst |-> op.src]}
    [] op.type = "RENAME" -> {[type |-> "RENAME_BACK", src |-> op.dst, dst |-> op.src]}
    [] op.type = "MOVE_DIRECTORY" ->
         {[type |-> "MOVE_TREE_BACK", src |-> op.dst, dst |-> op.src]}
    [] OTHER -> {}

InverseOperation == [type : {"DELETE_FILE", "DELETE_TREE", "MOVE_BACK", "RENAME_BACK", "MOVE_TREE_BACK"},
                     src : Paths, dst : Paths]

\* _dispatch_rollback looks for something of its kind; an inverse that finds nothing
\* to undo has succeeded.
IsThere(u, tree) ==
  CASE u.type = "DELETE_FILE"                      -> IsFile(tree, u.src)
    [] u.type \in {"DELETE_TREE", "MOVE_TREE_BACK"} -> IsDir(tree, u.src)
    [] OTHER                                       -> Exists(tree, u.src)

TakeBack(u, tree) ==
  CASE u.type = "DELETE_FILE" -> Unlink(u.src, tree)
    [] u.type = "DELETE_TREE" -> RmTree(u.src, tree)
    [] u.type = "RENAME_BACK" -> PathRename(u.src, u.dst, tree)
    [] OTHER                  -> ShutilMove(u.src, u.dst, tree)

Undone(u, verdict, tree) ==
  IF verdict = "NOT_YET" THEN Completed(tree) ELSE TakeBack(u, tree)

UndoOutcomes(u, verdict, tree) ==
  LET result == Undone(u, verdict, tree)
  IN  {result} \cup IF Faults THEN {Failed(t) : t \in Interrupted(tree, result.tree)} ELSE {}
=============================================================================
