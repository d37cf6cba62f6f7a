------------------------------ MODULE Directory ------------------------------
(***************************************************************************)
(* Directory and RecursiveDirectory: one walk over a directory, or a tree, *)
(* that others change between any two system calls of the walk.  Names may *)
(* lead back to a directory above (reparse points), and any call may fail. *)
(* A path is a sequence of names, the path the walk was given is <<>>.     *)
(***************************************************************************)
EXTENDS Naturals, Sequences, FiniteSets

CONSTANTS
  Names,        \* of files and directories
  Dots,         \* "." and ".."
  Dirs, Root,   \* directories, and the one the walk was given
  File, None,   \* a file; no such name
  Trees,        \* what there may be at first
  MaxDepth,     \* the longest path the system takes
  MaxChanges    \* bound: changes made by others

Nodes == Dirs \cup {File}

ASSUME DirectoryAssumption ==
  /\ Root \in Dirs /\ File \notin Dirs /\ None \notin Nodes
  /\ Names \cap Dots = {} /\ Trees \subseteq [Dirs -> [Names -> Nodes \cup {None}]]
  /\ MaxDepth \in Nat \ {0} /\ MaxChanges \in Nat

VARIABLES
  table,        \* the entries of each directory
  walk,         \* deep: is it a RecursiveDirectory?  bare: a drive, without dots?
  at,           \* the next system call of the walk, or who has control
  stack,        \* its open directories, each with what it has listed
  name,         \* the path it shows its user
  threw,        \* has an exception left it?
  visited,      \* the paths it has shown
  steady,       \* the paths that have been there from its beginning
  changes

vars == <<table, walk, at, stack, name, threw, visited, steady, changes>>

Paths == UNION {[1..k -> Names] : k \in 0..MaxDepth}
Iterators == [path : Paths, dir : Dirs, sure : SUBSET (Names \cup Dots), listed : SUBSET (Names \cup Dots)]

TypeOK ==
  /\ table \in [Dirs -> [Names -> Nodes \cup {None}]] /\ walk \in [deep : BOOLEAN, bare : BOOLEAN]
  /\ at \in {"open", "skip", "user", "test", "next", "thrown", "end"}
  /\ stack \in Seq(Iterators) /\ name \in Paths /\ threw \in BOOLEAN
  /\ visited \subseteq Paths /\ steady \subseteq Paths /\ changes \in 0..MaxChanges

-----------------------------------------------------------------------------
(* The file system                                                         *)

\* What path p leads to.
Lookup(p) ==
  LET node[k \in 0..Len(p)] ==
        IF k = 0 THEN Root ELSE IF node[k - 1] \in Dirs THEN table[node[k - 1]][p[k]] ELSE None
  IN  node[Len(p)]

Parent(p) == SubSeq(p, 1, Len(p) - 1)

\* The names a find handle returns.
Listing(d) ==
  {n \in Names : table[d][n] # None} \cup (IF walk.bare /\ d = Root THEN {} ELSE Dots)

Init ==
  /\ table \in Trees /\ walk \in [deep : BOOLEAN, bare : BOOLEAN]
  /\ at = "open" /\ stack = <<>> /\ name = <<>> /\ threw = FALSE /\ visited = {} /\ changes = 0
  /\ steady = {p \in Paths \ {<<>>} : Lookup(p) # None}

\* A new file, directory, or link to a directory; a find handle keeps its directory.
Create(d, n, x) ==
  /\ changes < MaxChanges /\ changes' = changes + 1
  /\ table[d][n] = None
  /\ (\E p \in Paths : Lookup(p) = x) \/ \A i \in 1..Len(stack) : stack[i].dir # x
  /\ table' = [table EXCEPT ![d][n] = x]
  /\ UNCHANGED <<walk, at, stack, name, threw, visited, steady>>

\* The name of a file, a link or an empty directory is removed.
Remove(d, n) ==
  /\ changes < MaxChanges /\ changes' = changes + 1
  /\ table[d][n] # None
  /\ table[d][n] \in Dirs =>
       \/ \A m \in Names : table[table[d][n]][m] = None
       \/ \E e \in Dirs, m \in Names : <<e, m>> # <<d, n>> /\ table[e][m] = table[d][n]
  /\ table' = [table EXCEPT ![d][n] = None]
  /\ stack' = [i \in 1..Len(stack) |->
                 IF stack[i].dir = d THEN [stack[i] EXCEPT !.sure = @ \ {n}] ELSE stack[i]]
  /\ steady' = {p \in steady : Lookup(p)' = Lookup(p)}
  /\ UNCHANGED <<walk, at, name, threw, visited>>

-----------------------------------------------------------------------------
(* The walk, one system call in each step                                  *)

Top == stack[Len(stack)]

\* Mutant: a name is shown without its directory.
ShownBare(it, n) ==
  IF n \in Dots THEN UNCHANGED <<name, visited>>
  ELSE name' = <<n>> /\ visited' = visited \cup {name'}

\* The entry n is the next: the dots are passed over.
Shown(it, n) ==
  IF n \in Dots THEN UNCHANGED <<name, visited>>
  ELSE name' = Append(it.path, n) /\ visited' = visited \cup {name'}

\* The directory to open: that of the walk, or the one it shows.
Target == IF stack = <<>> THEN <<>> ELSE name

\* Mutant: the first entry is taken for one of the dots.
FindFirstSkips ==
  /\ at = "open" /\ Len(Target) < MaxDepth
  /\ \E d \in {Lookup(Target)} \cap Dirs :
       \/ /\ Listing(d) = {} /\ at' = IF stack = <<>> THEN "end" ELSE "next"
          /\ UNCHANGED <<stack, name, visited>>
       \/ \E n \in Listing(d) :
            /\ stack' = Append(stack, [path |-> Target, dir |-> d, sure |-> Listing(d), listed |-> {n}])
            /\ at' = "skip" /\ UNCHANGED <<name, visited>>
  /\ UNCHANGED <<table, walk, threw, steady, changes>>

\* Directory::Iterator(path): a drive may list nothing at all.
FindFirst ==
  /\ at = "open" /\ Len(Target) < MaxDepth
  /\ \E d \in {Lookup(Target)} \cap Dirs :
       \/ /\ Listing(d) = {} /\ at' = IF stack = <<>> THEN "end" ELSE "next"
          /\ UNCHANGED <<stack, name, visited>>
       \/ \E n \in Listing(d) :
            LET it == [path |-> Target, dir |-> d, sure |-> Listing(d), listed |-> {n}]
            IN  /\ stack' = Append(stack, it) /\ Shown(it, n)
                /\ at' = IF n \in Dots THEN "skip" ELSE "user"
  /\ UNCHANGED <<table, walk, threw, steady, changes>>

\* An increment finds an entry not listed before.
More(n) ==
  /\ n \in Listing(Top.dir) \ Top.listed
  /\ stack' = [stack EXCEPT ![Len(stack)].listed = @ \cup {n}]
  /\ Shown(Top, n)
  /\ at' = IF n \in Dots THEN at ELSE "user"

\* Mutants: the iterator above is not incremented and shows its name again; an
\* empty directory ends the increment.
NoMoreStays ==
  /\ Top.sure \subseteq Top.listed
  /\ stack' = Parent(stack) /\ name' = Top.path /\ UNCHANGED visited
  /\ at' = IF Len(stack) = 1 THEN "end" ELSE "user"
NoMoreReturns ==
  /\ Top.sure \subseteq Top.listed
  /\ stack' = Parent(stack) /\ UNCHANGED <<name, visited>>
  /\ at' = IF Len(stack) = 1 THEN "end" ELSE IF at = "skip" THEN "user" ELSE "next"

\* All that was there since it was opened has been listed: the directory is closed,
\* and the one above, if there is one, is incremented.
NoMore ==
  /\ Top.sure \subseteq Top.listed
  /\ stack' = Parent(stack) /\ UNCHANGED <<name, visited>>
  /\ at' = IF Len(stack) = 1 THEN "end" ELSE "next"

\* Directory::Iterator::operator ++, called by its constructor ("skip"), by
\* RecursiveDirectory and by the user.
FindNext ==
  /\ at \in {"skip", "next"}
  /\ NoMore \/ \E n \in Names \cup Dots : More(n)
  /\ UNCHANGED <<table, walk, threw, steady, changes>>

\* FileInfo::isDirectory: only a name that is missing itself is no error.
IsDirectory ==
  /\ at = "test" /\ Lookup(Parent(name)) \in Dirs
  /\ at' = IF Lookup(name) \in Dirs THEN "open" ELSE "next"
  /\ UNCHANGED <<table, walk, stack, name, threw, visited, steady, changes>>

\* Any of these calls fails, for a path that is gone or too long, or any other
\* reason: the exception drops the iterator that is being made.
Throw ==
  /\ at \in {"open", "skip", "test", "next"}
  /\ at' = "thrown" /\ threw' = TRUE
  /\ stack' = IF at = "skip" THEN Parent(stack) ELSE stack
  /\ UNCHANGED <<table, walk, name, visited, steady, changes>>

\* The user increments the iterator, also after an exception.
Increment ==
  /\ at \in {"user", "thrown"} /\ stack # <<>>
  /\ at' = IF walk.deep THEN "test" ELSE "next"
  /\ UNCHANGED <<table, walk, stack, name, threw, visited, steady, changes>>

Step == FindFirst \/ FindNext \/ IsDirectory \/ Throw \/ Increment

Next ==
  \/ Step
  \/ \E d \in Dirs, n \in Names : Remove(d, n) \/ \E x \in Nodes : Create(d, n, x)

Spec == Init /\ [][Next]_vars

\* The user goes on, and system calls return.
FairSpec == Spec /\ WF_vars(Step)

-----------------------------------------------------------------------------
(* Properties                                                              *)

\* Until an exception leaves it, a walk shows no path twice, whatever is created
\* and removed meanwhile, and links or not.
VisitsOnce == [][at # "user" /\ at' = "user" /\ ~threw => name' \notin visited]_vars

\* A walk that comes to its end has shown everything that was there all along,
\* whatever was created and removed beside it and whatever exceptions its user
\* went through on the way.
Complete ==
  at = "end" => \A p \in steady : walk.deep \/ Len(p) = 1 => p \in visited

\* Until an exception leaves it, the stack is the path to the name that is shown:
\* each directory on it is the last one listed by the one below.
StackIsPath ==
  ~threw /\ at \in {"user", "test"} =>
    \A i \in 1..Len(stack) :
      /\ Len(stack) = Len(name) /\ stack[i].path = SubSeq(name, 1, i - 1)
      /\ name[i] \in stack[i].listed

\* An increment never finds an empty stack, also after exceptions.
StackLives == at \in {"user", "test", "skip", "next"} => stack # <<>>

\* Every walk ends, also one that follows links back to where it came from.
WalkEnds == <>(at = "end" \/ threw)
=============================================================================
